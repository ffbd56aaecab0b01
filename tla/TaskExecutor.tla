----------------------------- MODULE TaskExecutor -----------------------------
(***************************************************************************)
(* The Task Executor: task_executor_node.cpp.  One ExecuteTask at a time   *)
(* on a worker thread: validate, send the device command, wait for it, and *)
(* on a cancel, the deadline or a shutdown cancel it and drain it.  The    *)
(* callbacks of the device command run on the ROS executor's threads, the  *)
(* process is driven from main.                                            *)
(*                                                                         *)
(* The Device Bridge is whatever keeps the promise of DeviceCommand.       *)
(***************************************************************************)
EXTENDS Integers, Sequences, FiniteSets

CONSTANTS
  Tasks,       \* goals sent to execute_task, one identity per goal
  NoTask,
  MaxFaults,   \* bound: exceptions thrown in the worker and by the spin threads
  MaxMisses    \* bound: device cancels whose dispatch throws

ASSUME ExecutorAssumption == NoTask \notin Tasks /\ MaxFaults \in Nat /\ MaxMisses \in Nat

VARIABLES
  parent,      \* rclcpp_action state of each ExecuteTask goal; "canceledEmpty" is the
               \* status CANCELED with an empty result
  result,      \* what each finished task reported: [outcome, code]
  events,      \* TaskEvents published: [task, goal, status, outcome, code]
  accepting,   \* running_
  active,      \* active_goal_
  terminal,    \* parent_terminal_
  announced,   \* terminal_event_published_
  goalId,      \* goal_id_
  callback,    \* the goal a handle_goal callback is in the middle of
  pc, cur,     \* the worker thread and its task
  look,        \* which flag the worker looks at next
  cause,       \* stop_cause
  hasHandle,   \* child_goal_handle, as the worker last read it
  pend,        \* result about to be reported
  handling,    \* the worker is in finish_worker_exception
  child,       \* ChildExecutionState of each task
  sent,        \* device goals handed to the bridge
  cancels,     \* device cancels handed to the bridge
  late,        \* worker's task, once its deadline has passed
  lost,        \* device goals that died with a bridge process
  process,     \* main: run_task_executor_node
  faults,      \* exceptions so far: [thrown, missed], bounded by the constants
  phase, done, moving   \* the bridge: variables of DeviceCommand

Device == INSTANCE DeviceCommand WITH Goals <- Tasks, running <- moving

deviceVars == <<phase, done, moving>>
nodeVars   == <<parent, result, events, active, terminal, announced, goalId>>
workerVars == <<pc, cur, look, cause, hasHandle, pend, handling>>
childVars  == <<child, sent, cancels>>
mainVars   == <<accepting, process>>
vars == <<nodeVars, callback, workerVars, childVars, mainVars, late, lost, faults, deviceVars>>

BridgeRejected    == 110
BridgeUnavailable == 111
TaskDeadline      == 112
CancelUnconfirmed == 113
UnexpectedResult  == 114
BridgeCode        == 200     \* any error code of the bridge, 200 and above

Live     == {"executing", "canceling"}
Settled  == {"succeeded", "canceled", "aborted"}
Outcomes == {"NONE", "COMPLETED", "CANCELED", "SAFE_STOP", "DEVICE_FAULT"}
Codes    == {0, BridgeRejected, BridgeUnavailable, TaskDeadline, CancelUnconfirmed,
             UnexpectedResult, BridgeCode}
Results  == [outcome: Outcomes, code: Codes]
TaskEvents == [task: Tasks, goal: Tasks, status: Settled, outcome: Outcomes, code: Codes]
NoResult == [outcome |-> "NONE", code |-> 0]
Causes   == {"none", "user", "deadline", "shutdown"}
Steps    == {"idle", "validate", "dispatch", "await", "resolve", "grace", "accepted",
             "drain", "outcome", "confirm", "settle", "settlewait", "commit",
             "publish", "release"}
Gone     == {"exited", "terminated"}
Spinning == {"up", "draining", "restarting", "recovering"}

(* result: "none", "UNKNOWN" (a bridge that does not know the goal answers *)
(* that, with an empty result) or the outcome.                             *)
Children == [started: BOOLEAN, responded: BOOLEAN, handle: BOOLEAN,
             result: {"none", "UNKNOWN"} \cup Device!Final,
             cancelReq: BOOLEAN, cancelSent: BOOLEAN, timedOut: BOOLEAN]
FreshChild == [started |-> FALSE, responded |-> FALSE, handle |-> FALSE, result |-> "none",
               cancelReq |-> FALSE, cancelSent |-> FALSE, timedOut |-> FALSE]
Terminal(t) == child[t].result # "none"
NoFaults == [thrown |-> 0, missed |-> 0]

Init ==
  /\ parent = [t \in Tasks |-> "new"] /\ result = [t \in Tasks |-> NoResult]
  /\ events = <<>>
  /\ accepting = TRUE /\ active = FALSE /\ terminal = FALSE /\ announced = FALSE
  /\ goalId = NoTask /\ callback = NoTask
  /\ pc = "idle" /\ cur = NoTask /\ look = "wait" /\ cause = "none"
  /\ hasHandle = FALSE /\ pend = NoResult /\ handling = FALSE
  /\ child = [t \in Tasks |-> FreshChild] /\ sent = {} /\ cancels = {}
  /\ late = {} /\ lost = {} /\ process = "up" /\ faults = NoFaults
  /\ Device!Init

Goto(step, nextLook) == pc' = step /\ look' = nextLook

Fault      == faults.thrown < MaxFaults /\ faults' = [faults EXCEPT !.thrown = @ + 1]
CancelMiss == faults.missed < MaxMisses /\ faults' = [faults EXCEPT !.missed = @ + 1]

(***************************************************************************)
(* The action server's callbacks.  They exclude one another and the client *)
(* callbacks below (one callback group), not the worker and not main.      *)
(***************************************************************************)
CanCallBack == process \in Spinning /\ callback = NoTask

(* handle_goal up to the look at running_ and the checks of the goal. *)
HandleGoalCheck(t) ==
  /\ CanCallBack /\ parent[t] = "new"
  /\ \/ accepting /\ callback' = t /\ UNCHANGED parent
     \/ parent' = [parent EXCEPT ![t] = "rejected"] /\ UNCHANGED callback
  /\ UNCHANGED <<result, events, active, terminal, announced, goalId, workerVars,
                 childVars, mainVars, late, lost, faults, deviceVars>>

(* Mutant: goal_id_ is assigned before the claim is tested. *)
HandleGoalBusyRenames ==
  /\ callback # NoTask /\ active
  /\ parent' = [parent EXCEPT ![callback] = "rejected"]
  /\ callback' = NoTask /\ goalId' = callback
  /\ UNCHANGED <<result, events, active, terminal, announced, workerVars,
                 childVars, mainVars, late, lost, faults, deviceVars>>

HandleGoalBusy ==
  /\ callback # NoTask /\ active
  /\ parent' = [parent EXCEPT ![callback] = "rejected"]
  /\ callback' = NoTask
  /\ UNCHANGED <<result, events, active, terminal, announced, goalId, workerVars,
                 childVars, mainVars, late, lost, faults, deviceVars>>

(* Mutant: active_goal_ is tested and not set. *)
ClaimUnset == ~active /\ UNCHANGED active
Claim == ~active /\ active' = TRUE

(* The rest of handle_goal, and handle_accepted, which joins the old       *)
(* worker and starts the new one.                                          *)
HandleGoalClaim ==
  /\ callback # NoTask /\ pc = "idle"
  /\ Claim /\ goalId' = callback
  /\ parent' = [parent EXCEPT ![callback] = "executing"]
  /\ terminal' = FALSE /\ announced' = FALSE
  /\ Goto("validate", "running") /\ cur' = callback
  /\ callback' = NoTask
  /\ UNCHANGED <<result, events, cause, hasHandle, pend, handling, childVars, mainVars, late,
                 lost, faults, deviceVars>>

HandleCancel(t) ==
  /\ CanCallBack /\ parent[t] = "executing"
  /\ parent' = [parent EXCEPT ![t] = "canceling"]
  /\ UNCHANGED <<result, events, active, terminal, announced, goalId, callback, workerVars,
                 childVars, mainVars, late, lost, faults, deviceVars>>

(***************************************************************************)
(* Cancelling the device command: cancel_child_once, and the late cancel   *)
(* of goal_response_callback.  async_cancel_goal may throw, and then the   *)
(* cancel counts as not dispatched.                                        *)
(***************************************************************************)
Dispatch(t, c) ==
  IF c.handle /\ c.cancelReq /\ ~c.cancelSent
  THEN \/ /\ child' = [child EXCEPT ![t] = [c EXCEPT !.cancelSent = TRUE]]
          /\ cancels' = cancels \cup {t} /\ UNCHANGED faults
       \/ /\ CancelMiss
          /\ child' = [child EXCEPT ![t] = c] /\ UNCHANGED cancels
  ELSE child' = [child EXCEPT ![t] = c] /\ UNCHANGED <<cancels, faults>>

CancelChildOnce == Dispatch(cur, [child[cur] EXCEPT !.cancelReq = TRUE]) /\ UNCHANGED sent
LeaveChild == UNCHANGED <<childVars, faults>>

(* Mutant: the response of an abandoned command only wakes the worker. *)
LateCancelMissing(t, c) == child' = [child EXCEPT ![t] = c] /\ UNCHANGED <<cancels, faults>>
LateCancel(t, c) == Dispatch(t, c)

GoalResponse(t) ==
  /\ CanCallBack /\ t \in sent /\ phase[t] # "new" /\ ~child[t].responded
  /\ LateCancel(t, [child[t] EXCEPT !.responded = TRUE, !.handle = phase[t] # "refused"])
  /\ UNCHANGED <<nodeVars, callback, workerVars, sent, mainVars, late, lost, deviceVars>>

ResultCallback(t) ==
  /\ CanCallBack /\ child[t].handle /\ ~Terminal(t) /\ phase[t] \in Device!Final
  /\ child' = [child EXCEPT ![t].result = IF t \in lost THEN "UNKNOWN" ELSE phase[t]]
  /\ UNCHANGED <<nodeVars, callback, workerVars, sent, cancels, mainVars, late, lost,
                 faults, deviceVars>>

(***************************************************************************)
(* The worker.  The flags are read one after the other, in this order, and *)
(* may change between two reads.                                           *)
(***************************************************************************)
Working == process \notin Gone

(* Mutant: the deadline of the task is not looked at. *)
ObservedNoDeadline ==
  CASE look = "running" /\ ~accepting /\ cause # "shutdown" -> "shutdown"
    [] look = "cancel" /\ cause = "none" /\ parent[cur] = "canceling" -> "user"
    [] OTHER -> "none"

Observed ==
  CASE look = "running" /\ ~accepting /\ cause # "shutdown" -> "shutdown"
    [] look = "cancel" /\ cause = "none" /\ parent[cur] = "canceling" -> "user"
    [] look = "deadline" /\ cause = "none" /\ cur \in late -> "deadline"
    [] OTHER -> "none"

NextLook == CASE look = "running" -> "cancel" [] look = "cancel" -> "deadline"
              [] OTHER -> "wait"

LookOn ==
  /\ Working /\ pc \in {"validate", "await", "drain", "confirm"}
  /\ look # "wait" /\ Observed = "none"
  /\ look' = NextLook
  /\ UNCHANGED <<nodeVars, callback, pc, cur, cause, hasHandle, pend, handling, childVars,
                 mainVars, late, lost, faults, deviceVars>>

Report(outcome, code) == pend' = [outcome |-> outcome, code |-> code] /\ Goto("commit", "wait")

Worker(step) == Working /\ pc = step /\ UNCHANGED <<nodeVars, callback, cur, mainVars, late,
                                                    lost, deviceVars>>

ValidateStops ==
  /\ Worker("validate") /\ Observed # "none"
  /\ \/ Observed = "shutdown" /\ Report("SAFE_STOP", BridgeUnavailable)
     \/ Observed = "user"     /\ Report("CANCELED", 0)
     \/ Observed = "deadline" /\ Report("SAFE_STOP", TaskDeadline)
  /\ LeaveChild /\ UNCHANGED <<cause, hasHandle, handling>>

(* One of the five rounds is over, or the last one, or less than 3 ms are  *)
(* left after it.                                                          *)
ValidateGoesOn ==
  /\ Worker("validate") /\ look = "wait"
  /\ \/ Goto("validate", "running") /\ UNCHANGED pend
     \/ Goto("dispatch", "wait") /\ UNCHANGED pend
     \/ Report("SAFE_STOP", TaskDeadline)
  /\ LeaveChild /\ UNCHANGED <<cause, hasHandle, handling>>

SendGoal ==
  /\ Worker("dispatch")
  /\ child' = [child EXCEPT ![cur].started = TRUE]
  /\ sent' = sent \cup {cur}
  /\ Goto("await", "wait")
  /\ UNCHANGED <<cancels, faults, cause, hasHandle, pend, handling>>

AwaitResponse ==
  /\ Worker("await") /\ look = "wait"
  /\ IF child[cur].responded THEN Goto("resolve", "wait") ELSE Goto("await", "running")
  /\ LeaveChild /\ UNCHANGED <<cause, hasHandle, pend, handling>>

AwaitStops ==
  /\ Worker("await") /\ Observed # "none"
  /\ cause' = Observed /\ Goto("resolve", "wait")
  /\ LeaveChild /\ UNCHANGED <<hasHandle, pend, handling>>

Resolve ==
  /\ Worker("resolve")
  /\ cause' = IF accepting THEN cause ELSE "shutdown"
  /\ hasHandle' = child[cur].handle
  /\ IF cause' = "none" THEN Goto("accepted", "wait") /\ LeaveChild
                        ELSE Goto("grace", "wait") /\ CancelChildOnce
  /\ UNCHANGED <<pend, handling>>

(* Mutant: a null handle is taken for a refusal. *)
AcceptanceKnown == FALSE
AcceptanceUnknown == ~child[cur].responded

(* The wait for a late response ends with it or after the grace period. *)
GraceEnds ==
  /\ Worker("grace")
  /\ hasHandle' = child[cur].handle
  /\ IF child[cur].handle THEN Goto("accepted", "wait") /\ UNCHANGED pend
     ELSE \/ cause = "shutdown" /\ Report("SAFE_STOP", BridgeUnavailable)
          \/ cause # "shutdown" /\ AcceptanceUnknown /\ Report("SAFE_STOP", CancelUnconfirmed)
          \/ cause = "user" /\ ~AcceptanceUnknown /\ Report("CANCELED", 0)
          \/ cause = "deadline" /\ ~AcceptanceUnknown /\ Report("SAFE_STOP", TaskDeadline)
  /\ LeaveChild /\ UNCHANGED <<cause, handling>>

Accepted ==
  /\ Worker("accepted")
  /\ IF ~hasHandle THEN Report("DEVICE_FAULT", BridgeRejected) /\ LeaveChild
     ELSE /\ Goto("drain", "wait") /\ UNCHANGED pend
          /\ IF cause = "none" THEN LeaveChild ELSE CancelChildOnce
  /\ UNCHANGED <<cause, hasHandle, handling>>

(* record_cancel_timeout: the cancel may have been out for too long. *)
RecordCancelTimeout(c) ==
  IF c.cancelSent THEN {c, [c EXCEPT !.timedOut = TRUE]} ELSE {c}

DrainWait ==
  /\ Worker("drain") /\ look = "wait"
  /\ IF Terminal(cur) THEN Goto("outcome", "wait") /\ LeaveChild
     ELSE /\ Goto("drain", "running")
          /\ \E c \in RecordCancelTimeout(child[cur]) :
               IF cause = "none" THEN child' = [child EXCEPT ![cur] = c]
                                      /\ UNCHANGED <<cancels, faults, sent>>
               ELSE Dispatch(cur, c) /\ UNCHANGED sent
  /\ UNCHANGED <<cause, hasHandle, pend, handling>>

DrainExpires ==
  /\ Worker("drain") /\ look = "wait" /\ child[cur].cancelReq /\ ~Terminal(cur)
  /\ Report("SAFE_STOP", CancelUnconfirmed)
  /\ LeaveChild /\ UNCHANGED <<cause, hasHandle, handling>>

DrainStops ==
  /\ Worker("drain") /\ Observed # "none"
  /\ cause' = Observed /\ CancelChildOnce /\ Goto("drain", "wait")
  /\ UNCHANGED <<hasHandle, pend, handling>>

(* Mutant: only the outcome is looked at, not the result code. *)
SucceededByOutcome(outcome) == outcome \in {"COMPLETED", "UNKNOWN"}
Succeeded(outcome) == outcome = "COMPLETED"

(* Mutant: the outcome of the device command is passed on as it is. *)
VerdictPassedOn(why, outcome, timedOut) ==
  [outcome |-> outcome, code |-> IF Succeeded(outcome) THEN 0 ELSE BridgeCode]

(* finish_from_child. *)
Verdict(why, outcome, timedOut) ==
  CASE why = "shutdown" -> [outcome |-> "SAFE_STOP", code |-> BridgeUnavailable]
    [] why = "deadline" -> [outcome |-> "SAFE_STOP", code |-> TaskDeadline]
    [] why = "user" /\ ~timedOut /\ outcome = "CANCELED" -> [outcome |-> "CANCELED", code |-> 0]
    [] why = "user" /\ ~timedOut /\ outcome = "SAFE_STOP" ->
         [outcome |-> "SAFE_STOP", code |-> BridgeCode]
    [] why = "user" /\ (timedOut \/ outcome \notin {"CANCELED", "SAFE_STOP"}) ->
         [outcome |-> "SAFE_STOP", code |-> CancelUnconfirmed]
    [] why = "none" /\ Succeeded(outcome) -> [outcome |-> "COMPLETED", code |-> 0]
    [] why = "none" /\ outcome \in {"SAFE_STOP", "DEVICE_FAULT"} ->
         [outcome |-> outcome, code |-> BridgeCode]
    [] OTHER -> [outcome |-> "SAFE_STOP", code |-> UnexpectedResult]

Conclude(why, c) == LET v == Verdict(why, c.result, c.timedOut) IN Report(v.outcome, v.code)

Outcome ==
  /\ Worker("outcome")
  /\ \E c \in RecordCancelTimeout(child[cur]) :
       /\ child' = [child EXCEPT ![cur] = c]
       /\ IF cause = "none" /\ Succeeded(c.result)
          THEN Goto("confirm", "running") /\ UNCHANGED pend
          ELSE Conclude(cause, c)
  /\ UNCHANGED <<sent, cancels, faults, cause, hasHandle, handling>>

(* The last look before success. *)
ConfirmStops ==
  /\ Worker("confirm") /\ Observed # "none"
  /\ cause' = Observed /\ CancelChildOnce
  /\ Conclude(Observed, child[cur])
  /\ UNCHANGED <<hasHandle, handling>>

Confirmed ==
  /\ Worker("confirm") /\ look = "wait"
  /\ Conclude(cause, child[cur])
  /\ LeaveChild /\ UNCHANGED <<cause, hasHandle, handling>>

(* publish_feedback throws, or async_send_goal does (which leaves          *)
(* dispatch_started set).                                                  *)
WorkerThrows ==
  /\ Working /\ Fault
  /\ \/ /\ \/ pc = "validate" /\ look = "wait"
           \/ pc = "dispatch"
           \/ pc = "resolve" /\ ~(accepting /\ cause = "none")
           \/ pc = "accepted" /\ hasHandle
           \/ pc = "drain" /\ Observed # "none"
        /\ UNCHANGED child
     \/ pc = "dispatch" /\ child' = [child EXCEPT ![cur].started = TRUE]
  /\ handling' = TRUE /\ Goto("settle", "wait")
  /\ UNCHANGED <<nodeVars, callback, cur, cause, hasHandle, pend, sent, cancels, mainVars,
                 late, lost, deviceVars>>

(* settle_child_after_exception. *)
Settle ==
  /\ Worker("settle")
  /\ CancelChildOnce
  /\ IF child[cur].started THEN Goto("settlewait", "wait") /\ UNCHANGED pend
                           ELSE Report("SAFE_STOP", UnexpectedResult)
  /\ UNCHANGED <<cause, hasHandle, handling>>

SettleAgain ==
  /\ Worker("settlewait") /\ child[cur].handle /\ ~child[cur].cancelSent
  /\ CancelChildOnce
  /\ UNCHANGED <<pc, look, pend, cause, hasHandle, handling>>

SettleEnds ==
  /\ Worker("settlewait")
  /\ Report("SAFE_STOP", UnexpectedResult)
  /\ LeaveChild /\ UNCHANGED <<cause, hasHandle, handling>>

(***************************************************************************)
(* The parent's terminal transition and its one TaskEvent.                 *)
(***************************************************************************)
TerminalState(outcome) ==
  CASE outcome = "COMPLETED" -> "succeeded"
    [] outcome = "CANCELED"  -> "canceled"
    [] OTHER                 -> "aborted"

Commit ==
  /\ Working /\ pc = "commit" /\ ~terminal
  /\ terminal' = TRUE
  /\ parent' = [parent EXCEPT ![cur] = TerminalState(pend.outcome)]
  /\ result' = [result EXCEPT ![cur] = pend]
  /\ Goto("publish", "wait")
  /\ UNCHANGED <<events, active, announced, goalId, callback, cur, cause, hasHandle, pend,
                 handling, childVars, mainVars, late, lost, faults, deviceVars>>

(* The transition throws and the goal is still active.  A second exception *)
(* is swallowed by finish_worker_exception.                                *)
CommitThrows ==
  /\ Working /\ pc = "commit" /\ Fault
  /\ IF handling THEN Goto("release", "wait") ELSE Goto("settle", "wait")
  /\ handling' = TRUE
  /\ UNCHANGED <<nodeVars, callback, cur, cause, hasHandle, pend, childVars, mainVars, late,
                 lost, deviceVars>>

(* The event is out, or its publication failed and nobody tries again. *)
Publish ==
  /\ Working /\ pc = "publish"
  /\ announced' = TRUE
  /\ \/ /\ ~announced
        /\ events' = Append(events, [task |-> cur, goal |-> goalId, status |-> parent[cur],
                                     outcome |-> pend.outcome, code |-> pend.code])
     \/ UNCHANGED events
  /\ Goto("release", "wait")
  /\ UNCHANGED <<parent, result, active, terminal, goalId, callback, cur, cause, hasHandle,
                 pend, handling, childVars, mainVars, late, lost, faults, deviceVars>>

(* Mutant: only a success frees the executor. *)
FreesOnSuccess == parent[cur] = "succeeded"
Frees == terminal \/ parent[cur] \notin Live

(* ActiveGuard, then WorkerGuard; the worker's locals are gone, and with   *)
(* the thread its goal handle: rclcpp_action ends a goal that is still     *)
(* live with the status CANCELED and an empty result.                      *)
Release ==
  /\ Working /\ pc = "release"
  /\ active' = (active /\ ~Frees)
  /\ parent' = IF parent[cur] \in Live THEN [parent EXCEPT ![cur] = "canceledEmpty"] ELSE parent
  /\ Goto("idle", "wait") /\ cur' = NoTask
  /\ cause' = "none" /\ hasHandle' = FALSE /\ pend' = NoResult /\ handling' = FALSE
  /\ late' = late \ {cur}
  /\ UNCHANGED <<result, events, terminal, announced, goalId, callback, childVars,
                 mainVars, lost, faults, deviceVars>>

WorkerNext ==
  \/ LookOn \/ ValidateStops \/ ValidateGoesOn \/ SendGoal
  \/ AwaitResponse \/ AwaitStops \/ Resolve \/ GraceEnds \/ Accepted
  \/ DrainWait \/ DrainExpires \/ DrainStops \/ Outcome \/ ConfirmStops \/ Confirmed
  \/ Settle \/ SettleAgain \/ SettleEnds \/ Commit \/ Publish \/ Release

(***************************************************************************)
(* main: run_task_executor_node.                                           *)
(***************************************************************************)
Main == UNCHANGED <<nodeVars, callback, workerVars, childVars, late, lost, deviceVars>>

Signal ==
  /\ process = "up"
  /\ process' = "draining" /\ accepting' = FALSE
  /\ Main /\ UNCHANGED faults

(* The spin threads fail or end: of the primary executor, which is         *)
(* replaced, or of the recovery executor, and then the process leaves by   *)
(* std::_Exit with exit code 3 and destroys nothing.                       *)
SpinFails ==
  /\ callback = NoTask /\ Fault
  /\ \/ process \in {"up", "draining"} /\ process' = "spinlost"
     \/ process = "recovering" /\ process' = "exited"
  /\ Main /\ UNCHANGED accepting

StartRecovery ==
  /\ process = "spinlost" /\ process' = "restarting"
  /\ Main /\ UNCHANGED <<accepting, faults>>

RecoveryShutdown ==
  /\ process = "restarting" /\ process' = "recovering" /\ accepting' = FALSE
  /\ Main /\ UNCHANGED faults

(* wait_for_shutdown_for: no worker and no active goal. *)
Drained ==
  /\ process \in {"draining", "recovering"}
  /\ pc = "idle" /\ ~active
  /\ process' = "stopping"
  /\ Main /\ UNCHANGED <<accepting, faults>>

(* The spin thread is joined with the callback it is in, and the node is   *)
(* destroyed.                                                              *)
Destroy ==
  /\ process = "stopping" /\ callback = NoTask
  /\ process' = IF pc = "idle" THEN "exited" ELSE "terminated"
  /\ Main /\ UNCHANGED <<accepting, faults>>

MainNext == Signal \/ SpinFails \/ StartRecovery \/ RecoveryShutdown \/ Drained \/ Destroy

(***************************************************************************)
(* What the executor does not control: the clock and the bridge.           *)
(***************************************************************************)
Executor == <<nodeVars, callback, workerVars, childVars, mainVars, faults>>

DeadlinePasses(t) ==
  /\ t = cur /\ t \notin late /\ late' = late \cup {t}
  /\ UNCHANGED <<Executor, lost, deviceVars>>

BridgeSteps ==
  /\ \/ \E t \in sent : Device!Accept(t) \/ Device!Refuse(t) \/ Device!CarryOut(t)
     \/ \E t \in cancels : Device!Cancel(t)
     \/ \E t \in Tasks, o \in Device!Final : Device!Settle(t, o)
     \/ Device!Stop
  /\ UNCHANGED <<Executor, late, lost>>

(* The bridge process is replaced: the goal is unknown to the new one. *)
BridgeReplaced ==
  /\ \E t \in Tasks : Device!Settle(t, "SAFE_STOP") /\ lost' = lost \cup {t}
  /\ UNCHANGED <<Executor, late>>

Next ==
  \/ \E t \in Tasks : \/ HandleGoalCheck(t) \/ HandleCancel(t)
                      \/ GoalResponse(t) \/ ResultCallback(t) \/ DeadlinePasses(t)
  \/ HandleGoalBusy \/ HandleGoalClaim
  \/ WorkerNext \/ WorkerThrows \/ CommitThrows
  \/ MainNext
  \/ BridgeSteps \/ BridgeReplaced

Spec == Init /\ [][Next]_vars

(* Threads keep running, callbacks return, deadlines pass, and a wait with *)
(* a time limit that is entered again and again finds it passed.  Nothing  *)
(* is asked of clients and bridge, nor of the response and result          *)
(* callbacks.                                                              *)
Fairness ==
  /\ WF_vars(WorkerNext)
  /\ SF_vars(DrainExpires)
  /\ WF_vars(HandleGoalBusy \/ HandleGoalClaim)
  /\ WF_vars(StartRecovery \/ RecoveryShutdown \/ Drained \/ Destroy)
  /\ \A t \in Tasks : WF_vars(DeadlinePasses(t))

FairSpec == Spec /\ Fairness

-----------------------------------------------------------------------------
(* The variables have the types their code gives them. *)
TypeOK ==
  /\ parent \in [Tasks -> {"new", "rejected", "canceledEmpty"} \cup Live \cup Settled]
  /\ result \in [Tasks -> Results] /\ pend \in Results
  /\ events \in Seq(TaskEvents)
  /\ {accepting, active, terminal, announced, hasHandle, handling} \subseteq BOOLEAN
  /\ {goalId, callback, cur} \subseteq Tasks \cup {NoTask}
  /\ pc \in Steps /\ look \in {"wait", "running", "cancel", "deadline"} /\ cause \in Causes
  /\ child \in [Tasks -> Children]
  /\ sent \subseteq Tasks /\ cancels \subseteq sent /\ late \subseteq Tasks /\ lost \subseteq sent
  /\ process \in Spinning \cup Gone \cup {"spinlost", "stopping"}
  /\ faults \in [thrown: 0..MaxFaults, missed: 0..MaxMisses]

(* A task is announced at most once, after it ended, with the state and    *)
(* the result it ended with, and under its own goal id: goal_id_,          *)
(* started_at_ and the two terminal flags are one set for all tasks.       *)
EventsTellTheTruth ==
  /\ \A i \in 1..Len(events) :
       LET e == events[i] IN
       /\ e.goal = e.task /\ parent[e.task] = e.status
       /\ result[e.task] = [outcome |-> e.outcome, code |-> e.code]
  /\ \A i, j \in 1..Len(events) : events[i].task = events[j].task => i = j

(* What the caller may conclude about the device from the outcome alone:   *)
(* CANCELED means that the command is not running and will not start.      *)
CanceledIsConfirmed ==
  \A t \in Tasks : result[t].outcome = "CANCELED" =>
    /\ t \notin moving
    /\ phase[t] \in {"refused", "CANCELED"} \/ t \notin sent

(* COMPLETED means that the device carried the command out, also when a    *)
(* replaced bridge answers with an empty (zero, hence COMPLETED) result.   *)
CompletedIsConfirmed ==
  \A t \in Tasks : result[t].outcome = "COMPLETED" => t \in done /\ phase[t] = "COMPLETED"

(* A task that ended while the bridge may still be working on its command, *)
(* or may still take it up, says so with its error code.  The exception is *)
(* a task that ends with no result of the executor, its goal handle gone:  *)
(* its CANCELED says nothing of the device.  It takes two exceptions, in   *)
(* the worker or its transition and in the transition to SAFE_STOP.        *)
InDoubtCodes == {BridgeUnavailable, CancelUnconfirmed, UnexpectedResult}
OrphansAreReported ==
  /\ \A t \in Tasks : parent[t] \in Settled /\ t \in sent /\ phase[t] \in {"new"} \cup Device!Open
    => result[t].code \in InDoubtCodes
  /\ \A t \in Tasks : parent[t] = "canceledEmpty" => faults.thrown > 1

(* A command that turns out to be accepted after its task has ended is     *)
(* cancelled, unless handing over the cancel itself failed.                *)
LateAcceptanceIsCanceled ==
  \A t \in Tasks : parent[t] \in Settled /\ child[t].handle /\ ~Terminal(t)
    => t \in cancels \/ faults.missed > 0

(* One task at a time: active_goal_ covers every live task, and the shared *)
(* per-task fields belong to it.                                           *)
OneTaskAtATime ==
  \A t \in Tasks : parent[t] \in Live =>
    active /\ goalId = t /\ ~terminal /\ cur \in {t, NoTask}

(* Every accepted task ends for its client, whatever the bridge does: its  *)
(* deadline bounds it, or the drain of the command cancelled at the        *)
(* deadline.                                                               *)
EveryTaskSettles ==
  \A t \in Tasks : parent[t] \in Live ~> parent[t] \notin Live \/ process \in Gone

(* A process told to stop, or that lost its spin threads, ends.  A task    *)
(* whose transition failed twice leaves active_goal_ set, and the shutdown *)
(* waits for it for ever.                                                  *)
ShutdownCompletes ==
  process # "up" ~> process \in Gone \/ \E t \in Tasks : parent[t] = "canceledEmpty"

(* The destructor finds no worker: "Destruction cannot safely abandon an   *)
(* in-flight Action worker or its device-cancel path" (and so calls        *)
(* std::terminate when there is one).                                      *)
DestroyedWhenDrained == process # "terminated"
=============================================================================
