---------------------------- MODULE Orchestrator ----------------------------
(***************************************************************************)
(* The Task Orchestrator: task_orchestrator_node.cpp.  An action server    *)
(* that runs one behaviour tree at a time on a worker thread.  The tree    *)
(* waits for readiness and then delegates to the Task Executor through     *)
(* ExecuteTask; a cancel, the deadline or a shutdown halts it, which       *)
(* cancels the child and waits for its end for a bounded time.  All        *)
(* callbacks of the node are in one mutually exclusive group, so they run  *)
(* one after the other, between any two steps of the worker and of main.   *)
(***************************************************************************)
EXTENDS Naturals, FiniteSets

CONSTANTS
  Goals,      \* workflow goals
  NoGoal,     \* no goal
  MaxLoad     \* bound: two for each goal sent and one for each exception

ASSUME OrchestratorAssumption == NoGoal \notin Goals /\ MaxLoad \in Nat

VARIABLES
  wf,         \* each workflow goal as its client sees it; "canceledEmpty" is the status
              \* CANCELED with an empty result
  active,     \* active_
  gen,        \* active_generation_: a generation is named by the goal it was counted for
  accepted,   \* cancel_accepted_
  reserved,   \* terminal_started_ and terminal_reserved_, which one step sets
  failed,     \* terminal_transition_failed_
  cb,         \* the callback under way: [at, for]
  pc,         \* where the worker thread is
  cur,        \* the goal of the worker
  tree,       \* the running node of the behaviour tree
  pend,       \* why the tree is halted, then the result about to be committed
  child,      \* WorkflowState of each goal, as far as somebody may still read it
  task,       \* the ExecuteTask goal of each workflow, at the executor
  expired,    \* workflows whose deadline has passed
  main,       \* where run_task_orchestrator_node is
  faults,     \* exceptions so far
  broken      \* history: workflows whose transition failed twice, or let in beside one another

gateVars   == <<active, gen, accepted, reserved, failed, broken>>
workerVars == <<pc, cur, tree, pend>>
vars == <<wf, gateVars, cb, workerVars, child, task, expired, main, faults>>

Live     == {"executing", "canceling"}
Settled  == {"succeeded", "aborted", "canceled", "canceledEmpty"}
Outcomes == {"NONE", "COMPLETED", "CANCELED", "SAFE_STOP"}  \* DEVICE_FAULT is handled as SAFE_STOP

(* Error codes of the node; 0 stands for the child's own code.             *)
ErrShutdown          == 205
ErrPrecondition      == 206
ErrCancelUnconfirmed == 207
ErrInternal          == 208
ErrDeadline          == 209
Codes == {0} \cup (ErrShutdown..ErrDeadline)

Commit(kind, outcome, code) == [kind |-> kind, outcome |-> outcome, code |-> code]
NoCommit == Commit("none", "NONE", 0)

TaskLive   == {"executing", "canceling"}
TaskEnds   == {"COMPLETED", "CANCELED", "SAFE_STOP", "lost"}
FreshChild == [response |-> "none", result |-> "none",
               halt |-> FALSE, sent |-> FALSE, timedOut |-> FALSE]
Idle       == [at |-> "idle", for |-> NoGoal]

Init ==
  /\ wf = [g \in Goals |-> "unsent"]
  /\ active = FALSE /\ gen = NoGoal
  /\ accepted = FALSE /\ reserved = FALSE /\ failed = FALSE
  /\ cb = Idle
  /\ pc = "ended" /\ cur = NoGoal /\ tree = "ready" /\ pend = NoCommit
  /\ child = [g \in Goals |-> FreshChild] /\ task = [g \in Goals |-> "none"]
  /\ expired = {} /\ main = "run" /\ faults = 0 /\ broken = {}

Sent       == {g \in Goals : wf[g] # "unsent"}
Room(load) == 2 * Cardinality(Sent) + faults + load <= MaxLoad

(* A call into rclcpp throws. *)
Throw == Room(1) /\ faults' = faults + 1

(* accepting_ and running_, which main clears together. *)
Open == main = "run"

(***************************************************************************)
(* Server callbacks.  handle_goal and handle_accepted are one callback:    *)
(* the claim of active_, the store of the generation with the second look  *)
(* at accepting_, and the start of the worker.                             *)
(***************************************************************************)
CanCallBack == cb = Idle /\ main \in {"run", "drain", "recover", "join"}
KeepInCallback == UNCHANGED <<workerVars, expired, main>>

Refuse(g) == wf' = [wf EXCEPT ![g] = "refused"] /\ cb' = Idle

(* A goal is refused for its duration, its workflow id, because the node   *)
(* stops or because it is busy.                                            *)
HandleGoalClaim(g) ==
  /\ CanCallBack /\ wf[g] = "unsent" /\ Room(2)
  /\ \/ Refuse(g) /\ UNCHANGED active
     \/ Open /\ ~active /\ active' = TRUE /\ cb' = [at |-> "claimed", for |-> g] /\ UNCHANGED wf
  /\ UNCHANGED <<gen, accepted, reserved, failed, broken, child, task, faults>> /\ KeepInCallback

(* The goals that are live once g is let in, when that is more than one.   *)
Together(g) == LET others == {h \in Goals : wf[h] \in Live} IN
               IF others = {} THEN {} ELSE others \cup {g}

HandleGoalAdmit ==
  /\ cb.at = "claimed"
  /\ gen' = cb.for
  /\ \/ ~Open /\ active' = FALSE /\ Refuse(cb.for) /\ UNCHANGED <<accepted, reserved, failed, broken>>
     \/ /\ Open
        /\ accepted' = FALSE /\ reserved' = FALSE /\ failed' = FALSE
        /\ broken' = broken \cup Together(cb.for)
        /\ wf' = [wf EXCEPT ![cb.for] = "executing"]
        /\ cb' = [cb EXCEPT !.at = "accepted"]
        /\ UNCHANGED active
  /\ UNCHANGED <<child, task, faults>> /\ KeepInCallback

(* Joins the worker of the last goal and starts the next. *)
HandleAccepted ==
  /\ cb.at = "accepted" /\ pc = "ended"
  /\ pc' = "loop" /\ cur' = cb.for /\ tree' = "ready"
  /\ cb' = Idle
  /\ UNCHANGED <<wf, gateVars, pend, child, task, expired, main, faults>>

(* The answer of handle_cancel, and rclcpp_action's transition after it:   *)
(* the goal may have ended in between, and the cancel comes to nothing.    *)
HandleCancel(g) ==
  /\ CanCallBack /\ wf[g] = "executing" /\ ~reserved
  /\ accepted' = TRUE /\ cb' = [at |-> "cancel", for |-> g]
  /\ UNCHANGED <<wf, active, gen, reserved, failed, broken, child, task, faults>> /\ KeepInCallback

CancelTransition ==
  /\ cb.at = "cancel"
  /\ wf' = [wf EXCEPT ![cb.for] = IF @ = "executing" THEN "canceling" ELSE @]
  /\ cb' = Idle
  /\ UNCHANGED <<gateVars, child, task, faults>> /\ KeepInCallback

(***************************************************************************)
(* The child task.  Its callbacks hold the WorkflowState of their goal,    *)
(* which outlives the worker; cancel_in_flight is set while a callback or  *)
(* the worker is in dispatch_cancel.                                       *)
(***************************************************************************)
InFlight(g) == cb = [at |-> "dispatch", for |-> g] \/ (pc = "dispatch" /\ cur = g)

(* dispatch_cancel: it throws, or the cancel is on its way. *)
DispatchCancel(g) ==
  \/ /\ child' = [child EXCEPT ![g].sent = TRUE]
     /\ task' = [task EXCEPT ![g] = IF @ = "executing" THEN "canceling" ELSE @]
     /\ UNCHANGED faults
  \/ Throw /\ UNCHANGED <<child, task>>

(* Mutant: the response of a task whose workflow was halted is only noted. *)
LateCancelMissing(g, response) == cb' = Idle

LateCancel(g, response) ==
  cb' = IF response = "accepted" /\ child[g].halt /\ ~child[g].sent /\ ~InFlight(g)
        THEN [at |-> "dispatch", for |-> g] ELSE Idle

GoalResponse(g) ==
  /\ CanCallBack
  /\ child[g].response = "none" /\ task[g] \notin {"none", "requested"}
  /\ \E response \in {"rejected", "accepted"} :
       /\ response = "rejected" <=> task[g] = "refused"
       /\ child' = [child EXCEPT ![g].response = response]
       /\ LateCancel(g, response)
  /\ UNCHANGED <<wf, gateVars, task, faults>> /\ KeepInCallback

LateDispatch ==
  /\ cb.at = "dispatch"
  /\ DispatchCancel(cb.for) /\ cb' = Idle
  /\ UNCHANGED <<wf, gateVars>> /\ KeepInCallback

(* After the end of the worker nobody reads the child's result. *)
ResultCallback(g) ==
  /\ CanCallBack /\ g = cur
  /\ child[g].response = "accepted" /\ child[g].result = "none" /\ task[g] \in TaskEnds
  /\ child' = [child EXCEPT ![g].result = task[g]]
  /\ UNCHANGED <<wf, gateVars, cb, task, faults>> /\ KeepInCallback

(* The Task Executor, as its promise allows it to answer: it reports       *)
(* CANCELED with that outcome only when it was asked to cancel, and may say*)
(* nothing for ever.  The result of a lost task is empty: the executor was *)
(* replaced just after the acceptance, or its transition failed twice.     *)
TaskStep(g) ==
  /\ \/ task[g] = "requested" /\ \E s \in {"executing", "refused"} : task' = [task EXCEPT ![g] = s]
     \/ task[g] \in TaskLive
          /\ \E s \in {"COMPLETED", "SAFE_STOP", "lost"} : task' = [task EXCEPT ![g] = s]
     \/ task[g] = "canceling" /\ task' = [task EXCEPT ![g] = "CANCELED"]
  /\ UNCHANGED <<wf, gateVars, cb, workerVars, child, expired, main, faults>>

(***************************************************************************)
(* The worker: execute's loop.                                             *)
(***************************************************************************)
Working    == main # "killed"
Canceling  == wf[cur] = "canceling"
Child      == child[cur]
KeepOthers == UNCHANGED <<wf, gateVars, cb, cur, expired, main>>

(* Why the tree is halted: for finish, or with a result that is known.     *)
ToFinish    == Commit("finish", "NONE", 0)
Abort(code) == Commit("reserve", "SAFE_STOP", code)

(* haltTree calls onHalted, which first sets halt_requested, only while    *)
(* ExecuteTask is running.                                                 *)
Halt(why) ==
  /\ pend' = why
  /\ IF tree = "task"
     THEN child' = [child EXCEPT ![cur].halt = TRUE] /\ pc' = "response"
     ELSE pc' = why.kind /\ UNCHANGED child

(* Mutant: the deadline is left to the child. *)
LoopTopNoDeadline ==
  /\ pc = "loop" /\ Working
  /\ \/ ~Open /\ Halt(Abort(ErrShutdown))
     \/ Open /\ Canceling /\ Halt(ToFinish)
     \/ Open /\ ~Canceling /\ pc' = "tick" /\ UNCHANGED <<pend, child>>
  /\ UNCHANGED <<tree, task, faults>> /\ KeepOthers

LoopTop ==
  /\ pc = "loop" /\ Working
  /\ \/ ~Open /\ Halt(Abort(ErrShutdown))
     \/ Open /\ Canceling /\ Halt(ToFinish)
     \/ Open /\ ~Canceling /\ cur \in expired /\ Halt(Abort(ErrDeadline))
     \/ Open /\ ~Canceling /\ cur \notin expired /\ pc' = "tick" /\ UNCHANGED <<pend, child>>
  /\ UNCHANGED <<tree, task, faults>> /\ KeepOthers

(* The tick or the feedback throws: the tree's destructor halts it and the *)
(* worker's handler aborts the workflow.                                   *)
TickThrows ==
  /\ pc = "loop" /\ Throw /\ Working
  /\ Halt(Abort(ErrInternal))
  /\ UNCHANGED <<tree, task>> /\ KeepOthers

(* The tree ended: finish, unless the deadline passed meanwhile. *)
TreeEnds ==
  /\ pend' = IF cur \in expired THEN Abort(ErrDeadline) ELSE ToFinish
  /\ pc' = pend'.kind
  /\ UNCHANGED <<tree, child, task>>

TreeRuns(node) == tree' = node /\ pc' = "loop" /\ UNCHANGED <<pend, child, task>>

(* RuntimeReady fails at once when the runtime is not usable; RetryReady   *)
(* looks again after its delay.  A successful look goes on to ExecuteTask  *)
(* in the same tick.                                                       *)
CheckReady ==
  /\ tree \in {"ready", "retry"}
  /\ \/ TreeEnds
     \/ TreeRuns("retry")

(* ExecuteTask.onStart, which fails when no time is left. *)
StartTask ==
  /\ tree \in {"ready", "retry"} /\ cur \notin expired
  /\ tree' = "task" /\ pc' = "loop"
  /\ task' = [task EXCEPT ![cur] = "requested"]
  /\ UNCHANGED <<pend, child>>

(* ExecuteTask.onRunning. *)
WatchTask ==
  /\ tree = "task"
  /\ IF Child.result # "none" \/ Child.response = "rejected" THEN TreeEnds ELSE TreeRuns("task")

Tick ==
  /\ pc = "tick" /\ Working
  /\ CheckReady \/ StartTask \/ WatchTask
  /\ UNCHANGED faults /\ KeepOthers

(* async_send_goal throws in onStart: the node is not running, so nothing  *)
(* is halted.                                                              *)
StartThrows ==
  /\ pc = "tick" /\ tree \in {"ready", "retry"} /\ cur \notin expired /\ Throw /\ Working
  /\ pend' = Abort(ErrInternal) /\ pc' = "reserve"
  /\ UNCHANGED <<tree, child, task>> /\ KeepOthers

(***************************************************************************)
(* ExecuteTask.onHalted.  Every wait ends at the one cancel deadline.      *)
(***************************************************************************)
HaltDone     == pc' = pend.kind /\ UNCHANGED child
HaltTimesOut == pc' = pend.kind /\ child' = [child EXCEPT ![cur].timedOut = TRUE]

AwaitResponse ==
  /\ pc = "response" /\ Working
  /\ \/ Child.response = "none" /\ HaltTimesOut
     \/ (Child.result # "none" \/ Child.response = "rejected") /\ HaltDone
     \/ Child.result = "none" /\ Child.response = "accepted" /\ pc' = "cancel" /\ UNCHANGED child
  /\ UNCHANGED <<tree, pend, task, faults>> /\ KeepOthers

(* The cancel timeout does not pass unless the worker waited for a cancel  *)
(* that a callback is sending, or for the next try after a failed one.     *)
Waited == InFlight(cur) \/ faults > 0

CancelTask ==
  /\ pc = "cancel" /\ Working
  /\ \/ (Child.result # "none" \/ Child.sent) /\ pc' = "end" /\ UNCHANGED child
     \/ Child.result = "none" /\ ~Child.sent /\ ~InFlight(cur) /\ pc' = "dispatch" /\ UNCHANGED child
     \/ Child.result = "none" /\ ~Child.sent /\ Waited /\ HaltTimesOut
  /\ UNCHANGED <<tree, pend, task, faults>> /\ KeepOthers

WorkerDispatch ==
  /\ pc = "dispatch" /\ Working
  /\ DispatchCancel(cur) /\ pc' = "cancel"
  /\ UNCHANGED <<tree, pend>> /\ KeepOthers

AwaitTaskEnd ==
  /\ pc = "end" /\ Working
  /\ \/ Child.result # "none" /\ HaltDone
     \/ Child.result = "none" /\ HaltTimesOut
  /\ UNCHANGED <<tree, pend, task, faults>> /\ KeepOthers

(***************************************************************************)
(* finish: the result of the workflow from the child's, and from whether   *)
(* the workflow is being cancelled, which is read once.                    *)
(***************************************************************************)
(* Mutant: a cancel without a child result counts as clean. *)
CanceledVerdictHasty ==
  IF Child.result \in {"none", "CANCELED"} THEN Commit("canceled", "CANCELED", 0)
  ELSE Commit("abort", "SAFE_STOP", ErrInternal)

CanceledVerdict ==
  CASE Child.timedOut \/ (Child.result = "none" /\ task[cur] # "none") ->
         Commit("abort", "SAFE_STOP", ErrCancelUnconfirmed)
    [] ~Child.timedOut /\ task[cur] = "none"        -> Commit("canceled", "CANCELED", 0)
    [] ~Child.timedOut /\ Child.result = "CANCELED"  -> Commit("canceled", "CANCELED", 0)
    [] ~Child.timedOut /\ Child.result = "SAFE_STOP" -> Commit("abort", "SAFE_STOP", 0)
    [] ~Child.timedOut /\ Child.result \in {"COMPLETED", "lost"} ->
         Commit("abort", "SAFE_STOP", ErrInternal)

(* Mutant: the status of the child's result is not looked at. *)
VerdictByOutcome ==
  CASE Child.result = "none"      -> Commit("abort", "SAFE_STOP", ErrPrecondition)
    [] Child.result \in {"COMPLETED", "lost"} -> Commit("succeed", "COMPLETED", 0)
    [] Child.result = "CANCELED"  -> Commit("abort", "SAFE_STOP", ErrInternal)
    [] OTHER                      -> Commit("abort", "SAFE_STOP", 0)

(* A lost task has an empty result, whose outcome reads as COMPLETED.      *)
Verdict ==
  CASE Child.result = "none"      -> Commit("abort", "SAFE_STOP", ErrPrecondition)
    [] Child.result = "COMPLETED" -> Commit("succeed", "COMPLETED", 0)
    [] Child.result = "CANCELED"  -> Commit("abort", "SAFE_STOP", ErrInternal)
    [] Child.result = "lost"      -> Commit("abort", "COMPLETED", 0)
    [] Child.result = "SAFE_STOP" -> Commit("abort", "SAFE_STOP", 0)

Finish ==
  /\ pc = "finish" /\ Working
  /\ pend' = IF Canceling THEN CanceledVerdict ELSE Verdict
  /\ pc' = "reserve"
  /\ UNCHANGED <<tree, child, task, faults>> /\ KeepOthers

(***************************************************************************)
(* terminal: under terminal_mutex_ the result is fixed and further cancels *)
(* are refused; then the goal's transition, which may throw, and one       *)
(* fallback.  The deadline is the node's, of the last goal admitted.       *)
(***************************************************************************)
(* Mutant: a cancel accepted since finish looked is not seen. *)
CommittedAnyway(r) ==
  IF r.kind = "succeed" /\ gen \in expired THEN Commit("abort", "SAFE_STOP", ErrDeadline) ELSE r

Committed(r) ==
  CASE r.kind = "succeed" /\ accepted -> Commit("abort", "SAFE_STOP", ErrInternal)
    [] r.kind = "succeed" /\ ~accepted /\ gen \in expired -> Commit("abort", "SAFE_STOP", ErrDeadline)
    [] r.kind = "reserve" -> Commit("abort", r.outcome, r.code)
    [] OTHER -> r

Reserve ==
  /\ pc = "reserve" /\ Working
  /\ \/ reserved /\ pc' = "tail" /\ UNCHANGED <<pend, reserved>>
     \/ ~reserved /\ reserved' = TRUE /\ pend' = Committed(pend) /\ pc' = "commit"
  /\ UNCHANGED <<wf, active, gen, accepted, failed, broken, cb, cur, tree, child, task, expired, main,
                 faults>>

(* Mutant: the names of the calls for those of the states. *)
TerminalCall(kind) == kind

TerminalState(kind) ==
  CASE kind = "succeed" -> "succeeded" [] kind = "canceled" -> "canceled" [] OTHER -> "aborted"

(* The client has the result, and release_active_for_generation with the   *)
(* generation just loaded frees the gate.                                  *)
Transition(r) ==
  /\ wf' = [wf EXCEPT ![cur] = TerminalState(r.kind)]
  /\ pend' = r /\ active' = FALSE /\ pc' = "tail"
  /\ UNCHANGED <<gen, accepted, reserved, failed, broken, cb, cur, tree, child, task, expired, main,
                 faults>>

CommitResult == pc = "commit" /\ Working /\ Transition(pend)

CommitThrows ==
  /\ pc = "commit" /\ Throw /\ Working
  /\ pc' = "fallback"
  /\ UNCHANGED <<tree, pend, child, task>> /\ KeepOthers

Fallback == pc = "fallback" /\ Working /\ Transition(Commit("abort", "SAFE_STOP", ErrInternal))

FallbackThrows ==
  /\ pc = "fallback" /\ Throw /\ Working
  /\ failed' = TRUE /\ broken' = broken \cup {cur} /\ pc' = "tail"
  /\ UNCHANGED <<wf, active, gen, accepted, reserved, cb, cur, tree, pend, child, task, expired, main>>

(* ActiveGuard's finish_worker: the comparison of the generations, and the *)
(* store it allows, which a new claim may come before.  The goal handle    *)
(* dies with the thread: rclcpp_action ends a goal that is still live with *)
(* the status CANCELED and an empty result, whose outcome reads as         *)
(* COMPLETED, whatever its task does.  What outlives the worker is what    *)
(* the response of a halted task will read.                                *)
EndWorker ==
  /\ pc' = "ended" /\ cur' = NoGoal /\ tree' = "ready" /\ pend' = NoCommit
  /\ wf' = IF wf[cur] \in Live THEN [wf EXCEPT ![cur] = "canceledEmpty"] ELSE wf
  /\ child' = [child EXCEPT ![cur].result = "none", ![cur].timedOut = FALSE]
  /\ expired' = expired \ {cur}

Tail ==
  /\ pc = "tail" /\ Working
  /\ \/ ~failed /\ gen = cur /\ pc' = "store" /\ UNCHANGED <<wf, cur, tree, pend, child, expired>>
     \/ (failed \/ gen # cur) /\ EndWorker
  /\ UNCHANGED <<gateVars, cb, task, main, faults>>

TailStore ==
  /\ pc = "store" /\ Working
  /\ active' = FALSE /\ EndWorker
  /\ UNCHANGED <<gen, accepted, reserved, failed, broken, cb, task, main, faults>>

Worker ==
  \/ LoopTop \/ TickThrows \/ Tick \/ StartThrows
  \/ AwaitResponse \/ CancelTask \/ WorkerDispatch \/ AwaitTaskEnd
  \/ Finish \/ Reserve \/ CommitResult \/ CommitThrows \/ Fallback \/ FallbackThrows
  \/ Tail \/ TailStore

(* The steady clock reaches the deadline of a workflow. *)
Expire(g) ==
  /\ wf[g] \in Live /\ g \notin expired
  /\ expired' = expired \cup {g}
  /\ UNCHANGED <<wf, gateVars, cb, workerVars, child, task, main, faults>>

(***************************************************************************)
(* Main: stop on a signal, or when the executor fails, whose callbacks a   *)
(* second executor then runs; wait until active_ is free and the worker    *)
(* has ended; stop the executor; destroy the node.                         *)
(***************************************************************************)
KeepNode == UNCHANGED <<wf, gateVars, cb, workerVars, child, task, expired>>

Stop == main = "run" /\ main' = "drain" /\ UNCHANGED faults /\ KeepNode

(* When the recovery executor fails too, the process leaves without        *)
(* destructors and with exit code 2.                                       *)
SpinFails ==
  /\ cb = Idle /\ Throw
  /\ \/ main \in {"run", "drain"} /\ main' = "recover"
     \/ main = "recover" /\ main' = "killed"
  /\ KeepNode

(* Mutant: the callback under way is not waited for. *)
JoinWorkerOnly == main = "join" /\ pc = "ended"
JoinWorker    == main = "join" /\ pc = "ended" /\ cb = Idle

(* wait_drained_for, then the end of the executor and of its callback, and *)
(* ~TaskOrchestratorNode, which drains once more.                          *)
Drain ==
  /\ \/ main \in {"drain", "recover"} /\ ~active /\ main' = "join"
     \/ JoinWorker /\ main' = "destroy"
     \/ main = "destroy" /\ ~active /\ pc = "ended" /\ main' = "exited"
  /\ UNCHANGED faults /\ KeepNode

Main == Stop \/ SpinFails \/ Drain

(* The rest of a callback that has begun. *)
Continue == HandleGoalAdmit \/ HandleAccepted \/ CancelTransition \/ LateDispatch

Next ==
  \/ \E g \in Goals : HandleGoalClaim(g) \/ HandleCancel(g) \/ GoalResponse(g) \/ ResultCallback(g)
  \/ Continue \/ Worker \/ Main
  \/ \E g \in Goals : Expire(g) \/ TaskStep(g)

Spec == Init /\ [][Next]_vars

(* The threads keep running and the clock advances; clients and the Task   *)
(* Executor may stop.                                                      *)
Fairness ==
  /\ WF_vars(Worker) /\ WF_vars(Continue) /\ WF_vars(Drain)
  /\ \A g \in Goals : WF_vars(Expire(g))

FairSpec == Spec /\ Fairness

-----------------------------------------------------------------------------
Marks == {"idle", "claimed", "accepted", "cancel", "dispatch"}
Steps == {"loop", "tick", "response", "cancel", "dispatch", "end",
          "finish", "reserve", "commit", "fallback", "tail", "store", "ended"}
Children == [response: {"none", "rejected", "accepted"}, result: {"none"} \cup TaskEnds,
             halt: BOOLEAN, sent: BOOLEAN, timedOut: BOOLEAN]
Commits == [kind: {"none", "finish", "reserve", "succeed", "abort", "canceled"},
            outcome: Outcomes, code: Codes]

(* The variables have the types their code gives them. *)
TypeOK ==
  /\ wf \in [Goals -> {"unsent", "refused"} \cup Live \cup Settled]
  /\ {active, accepted, reserved, failed} \subseteq BOOLEAN
  /\ gen \in Goals \cup {NoGoal} /\ cur \in Goals \cup {NoGoal}
  /\ cb \in [at: Marks, for: Goals \cup {NoGoal}]
  /\ pc \in Steps /\ tree \in {"ready", "retry", "task"} /\ pend \in Commits
  /\ child \in [Goals -> Children]
  /\ task \in [Goals -> {"none", "requested", "refused"} \cup TaskLive \cup TaskEnds]
  /\ expired \subseteq Goals /\ broken \subseteq Goals
  /\ main \in {"run", "drain", "recover", "join", "destroy", "exited", "killed"}
  /\ faults \in Nat

(* What the client may conclude: a workflow succeeded only if its task     *)
(* completed, and has the status CANCELED only if no task was sent or the  *)
(* executor confirmed the cancel of its own; a lost or unsettled task is   *)
(* neither.  The exception is a goal that terminal() leaves without an     *)
(* answer and whose handle dies live: its CANCELED comes with an empty     *)
(* result and says nothing of the task.  That happens only to a workflow   *)
(* whose transition failed twice, or one that the gate let in beside       *)
(* another, so that one reservation stood for both.                        *)
ResultIsConfirmed ==
  \A g \in Goals :
    /\ wf[g] = "succeeded"     => task[g] = "COMPLETED"
    /\ wf[g] = "canceled"      => task[g] \in {"none", "CANCELED"}
    /\ wf[g] = "canceledEmpty" => g \in broken

(* A cancel that was accepted wins over the success of the child, however  *)
(* late it is: "CancelBeforeTerminalCommitPreventsSuccess".                *)
AcceptedCancelWins ==
  [][\A g \in Goals : wf[g] # "succeeded" /\ wf'[g] = "succeeded"
       => wf[g] = "executing" /\ ~accepted]_vars

(* A workflow that is over while its task may still run is reported as a   *)
(* safe stop whose code says that nothing is confirmed about the task.     *)
UnsettledTaskIsReported ==
  \A g \in Goals : cur = g /\ wf[g] \in Settled /\ task[g] \in TaskLive \cup {"requested"}
    => pend.outcome = "SAFE_STOP" /\ pend.code \notin {0, ErrPrecondition}

(* A task that the executor accepts after its workflow gave up waiting is  *)
(* cancelled: a task runs on after its worker only as long as its          *)
(* acceptance is under way, or the callback is sending the cancel.         *)
LateTaskIsCanceled ==
  \A g \in Goals : wf[g] \in Settled /\ cur # g /\ task[g] = "executing" /\ faults = 0
    => child[g].halt /\ (child[g].response = "none" \/ InFlight(g))

(* The process is only left behind without a live workflow: main's drain   *)
(* and the destructor miss neither a worker nor a goal whose callback has  *)
(* yet to start one.                                                       *)
ExitLeavesNoWorkflow == main = "exited" => \A g \in Goals : wf[g] \notin Live

(* Every accepted workflow comes to an end for its client and every stop   *)
(* ends, whatever the Task Executor does or leaves undone: over and over   *)
(* no workflow is live and no stop under way.  Excepted is a transition    *)
(* that failed twice, after which the gate stays closed and a stop waits   *)
(* for ever.  The end need not be an answer of the node: see the last      *)
(* clause of ResultIsConfirmed.                                            *)
Over       == main \in {"exited", "killed"}
AllSettled == \A g \in Goals : wf[g] \notin Live
EverythingSettles == []<>(failed \/ Over \/ (Open /\ AllSettled))
=============================================================================
