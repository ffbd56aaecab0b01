# Verification of embodied-agent-runtime

TLA+ models of the runtime that takes a task from an adapter to a device on a
CAN bus, the TLC configurations that check them, and proofs about them that
TLAPS checks. `PROJECT.json` names, for every definition, the lines of the
source it stands for.

## 1. The system

```
 adapters            runtime_gateway        task_orchestrator      task_executor        device_bridge        device
 (perception,  --->  gRPC, ledger,    --->  ExecuteWorkflow  --->  ExecuteTask   --->   ExecuteDevice-  ---> CAN
  text, model)       registry               behaviour tree         one worker           Command, retry,      replay
                                                                                        STOP                 cache
                     runtime_history  <---- TaskEvent / WorkflowEvent topics
                     runtime_monitor  ----> SystemHealth (readiness, read by the orchestrator)
```

Every arrow but the last is a ROS 2 action: a goal request with an acceptance, a
cancel request, and one result. The last is a pair of SocketCAN sockets.

| component | state it keeps | operations | correct when |
|---|---|---|---|
| **Device Bridge** (`device_bridge`) | `active_goal_`, a worker thread, `next_stop_command_id_`, the diagnostics | goal, cancel and shutdown callbacks; worker: send, wait for the ack, one retry, STOP and its ack | one wire transaction at a time; an ack is never taken for another goal's; CANCELED and COMPLETED are true of the device; every goal ends |
| **CAN protocol and socket** (`runtime_can`) | none; a kernel queue per socket | encode, decode, send, receive with timeout | STOP answers and command answers do not match each other |
| **Virtual CAN device** (`virtual_can_device`) | replay cache with FIFO eviction, launch mode | one I/O thread: look up, answer, remember | a retried command is carried out once |
| **Task Executor** (`task_executor`) | `running_`, `active_goal_`, `goal_id_`, two terminal flags, `ChildExecutionState` per task | goal and cancel callbacks, child response and result callbacks, worker: validate, dispatch, await, drain, finish; main: shutdown, restart of the spin thread, destruction | outcomes say what is known about the device; one event per task; a command accepted late is cancelled; the process drains |
| **Task Orchestrator** (`task_orchestrator`) | the gate `active_` with its generation, the flags of the terminal reservation, `WorkflowState` per goal, the behaviour tree on a worker thread | goal and cancel callbacks, child response and result callbacks, worker: tick, halt, verdict, reservation, transition and its fallback; main: stop, recovery executor, drain, destruction | a result says what is known about the task; an accepted cancel wins; a task accepted late is cancelled; every workflow comes to an end for its client and the process leaves none behind |
| **Runtime Gateway** (`runtime_gateway`) | in-memory request registry, durable ledger in SQLite, map of goal handles | SubmitWorkflow, GetTask, CancelWorkflow, ResolveUncertain, action callbacks, stop; crash and restart | an admitted request is dispatched at most once, over restart and eviction; memory and ledger agree |
| **Task history** (`runtime_history`) | bounded queue, SQLite tables | record, prune, idempotency rows with retention | an event is stored once or counted as dropped |
| **Runtime Monitor** (`runtime_monitor`) | time stamps of the last message of each source | observe, aggregate | `ready` only while every source is fresh |
| **Perception adapter** (`perception_task_adapter`) | `MarkerTrigger`'s counters, `active`, `finished`, the goal handle | camera loop or one image, goal callbacks where its one thread spins, `cancel_active` | one workflow per sighting, and none beside another; a workflow that is known before the last turn of `cancel_active` is not left behind |
| **Text adapters** (`ai_task_adapter`) | one pending plan, acceptance flags | plan, admit, submit | a plan that was not admitted in time is not left running |
| **Clients, scripts, build** | none | one call per run | not part of the runtime |

What is hard here, and why tests hardly reach it (`PROJECT.json`, `hazards`, has
every case at its line):

* **Interleaving.** Callbacks, a worker thread and main share atomics and a few
  mutexes. `is_canceling()` is read, then a terminal transition is made; a claim
  is tested, then a second flag is set.
* **Loss and lateness.** Acknowledgements may be lost, may arrive after a retry or
  for an earlier goal. The acceptance of a child goal may come after its parent
  ended.
* **Replacement of a process.** The device outlives the bridge, the bridge outlives
  the executor. A new process starts its counters over while its partner remembers.
* **Liveness.** Every wait must be bounded although the other side is silent, and
  the process has to drain before it may destroy its node.

## 2. Modules

| module | models | extends |
|---|---|---|
| `CanBus` | frames as records, two queues, loss | |
| `CanDevice` | `virtual_can_device_node.cpp` | `CanBus` |
| `DeviceBridge` | `device_bridge_node.cpp`, `command_policy`, the latch of `diagnostic_state.cpp` | `CanBus` |
| `BridgeSystem` | bridge + device + bus, the properties of the pair | `DeviceBridge`, `CanDevice`; `INSTANCE DeviceCommand` |
| `DeviceCommand` | abstract: what `ExecuteDeviceCommand` promises | |
| `TaskExecutor` | `task_executor_node.cpp` over any bridge that keeps that promise | `INSTANCE DeviceCommand` |
| `TaskExecutorProofs` | theorems about `TaskExecutor` | `TaskExecutor`, `TLAPS` |
| `BridgeProofs` | theorems about the bridge's own state | `BridgeSystem`, `TLAPS` |
| `BridgePromiseProofs` | theorems about what the bridge's answers say of the device, and that the pair implements `DeviceCommand` | `BridgeProofs`, `FiniteSetTheorems` |
| `Gateway` | `gateway_service.cpp`, `request_registry.cpp`, `durable_idempotency.cpp`, the idempotency table of `store.cpp`, `loopback_server.cpp` | |
| `GatewayProofs` | at most one dispatch, for `Gateway` | `Gateway`, `TLAPS` |
| `GatewayLedgerProofs` | the other safety theorems about `Gateway` | `GatewayProofs` |
| `Orchestrator` | `task_orchestrator_node.cpp` over a Task Executor that may do what its action allows, and nothing | |
| `OrchestratorProofs` | theorems about `Orchestrator` | `Orchestrator`, `TLAPS` |
| `PerceptionAdapter` | `marker_trigger.cpp`, `perception_task_adapter_node.cpp` and its main | |
| `PerceptionProofs` | theorems about `PerceptionAdapter` | `PerceptionAdapter`, `FiniteSetTheorems`, `TLAPS` |
| `MCBridge`, `MCExecutor`, `MCGateway`, `MCOrchestrator`, `MCPerception` | instances for TLC | the module they instantiate |

`DeviceCommand` is the joint between the two halves. `BridgeSystem` is checked, and
proved, to implement it (`KeepsPromise`); `TaskExecutor` uses its actions as the environment.
So the executor is checked against every bridge that keeps the promise, not
against this one, and the state spaces are not multiplied.

### Correspondence with the code

**Bridge.** `goal[g]` is the state rclcpp_action keeps; `active` is `active_goal_`;
`pc` is the place of the worker thread between two accesses to shared state:
`check` (the looks at shutdown and cancel at the top of the attempt), `send`,
`wait` (the looks inside the wait loop), `poll` (the receive), `stop`, `stopwait`,
`stoppoll` (the same for STOP), `finish` (the terminal transition and the result)
and `release` (`active_goal_ = false`). The worker and the callbacks interleave
between any two of these. `handle_goal` and `handle_accepted` are one action: the
rclcpp_action server calls them one after the other in one callback, and the
claim is an atomic exchange. The replacement of the process is `Restart`: all variables of
the process are reset, the device and the frames on the way to it stay, the new
socket starts with an empty receive queue, and the goals of the old process are
`lost`.

**Executor.** `pc` and `look` together are the place of the worker: the three flags
(`running_`, `is_canceling()`, deadline) are read one after the other and each read
is a step. `handle_goal` is two steps, because `running_` is read at its start and
`active_goal_` is claimed at its end while main may run in between; the callbacks
exclude one another (one mutually exclusive callback group), which `callback`
expresses. `child[t]` is `ChildExecutionState`. `process` follows
`run_task_executor_node`: spinning, draining after the signal, recovery after the
spin threads failed, and destruction; a failure of the recovery executor leaves by
`std::_Exit` and destroys nothing. An exception thrown in the worker, by the
dispatch of a cancel, by the terminal transition or in a spin thread is a step that counts
against `MaxFaults`, the failed dispatch of a cancel against `MaxMisses`. When the
transition of a task and the one to SAFE_STOP both throw, `active_goal_` stays set, and the
goal handle dies with the thread: rclcpp_action ends the goal with the status CANCELED and
an empty result, which the model calls `canceledEmpty`.

**Gateway.** `call[c]` is a gRPC handler thread and the place it has reached between
two accesses to the registry, the store or the goals; `cb` is the callback of the
action client that runs (the executor runs them one at a time); `main` is the
shutdown, which runs beside both; `flight[i]` is the goal as the client library of
this process knows it, `ledger[i]` the row on disk, which outlives the process.
`order` is `insertion_order_`; an erasure takes the one position of an id out
(`Without`), as the iterators of `insert` and `erase` do.
Where the code reads a value and erases or answers by it with no other access in
between (`store.get` and the erase, the decision of `admit` and its consequence) the
two are one step. Where a lock is given back in between they are two: `insert` and
the read of the record of a duplicate; the mark and the dispatch of
`dispatch_cancel`; the two halves of `reject`; the admission's lookup and its claim;
a result's removal of the goal and the write of its row. The second look of
`ResolveUncertain` at the row is merged with its first. The waits for a response
(500 ms) and for its callback (50 ms) end at any point. The history store, which
another process writes, answers anything. `sent`, `reclaimed`, `fate`, `resolved`
and `unsaved` are history and guard nothing.

**Orchestrator.** `pc` is the place of the worker between two accesses to shared
state: `loop` and `tick` in `execute`, `response`, `cancel`, `dispatch` and `end` in
`onHalted`, `finish`, `reserve` (the lock of the terminal reservation), `commit` and
`fallback` (the transition of the goal), and `tail` and `store`, the two halves of
`finish_worker`: it compares the generations and then clears `active_`, and a new
claim may come between. `cb` is the callback under way; the callbacks exclude one
another, and `handle_goal` is two steps because it claims `active_` before it stores
the new generation. A generation is named by the goal it was counted for. `EndWorker` is also the death of
the goal handle: a goal that `terminal()` left live is then `canceledEmpty`, the status
CANCELED with an empty result, whatever its task does. `broken` is a history of the
workflows this may happen to: those whose transition and fallback both threw, and those
let in beside one another, where the reservation of one stops the answer of the other.
`tree` is the
running node of the tree, `child[g]` what `WorkflowState` says of the task, `pend` first
why the tree is halted and then the result about to be committed, `expired` the
workflows whose deadline has passed. `main` follows `run_task_orchestrator_node`. An
exception in a tick, in the dispatch of a goal or a cancel, in a transition or in a spin
thread is a step; `MaxLoad` bounds the goals and the exceptions of a run together. The
look at readiness may answer anything, since the monitor is another process. The
cancel timeout (`Waited`) passes only while the worker waits for a dispatch under way
or after one that failed: the other turns of that loop take no time.

**Perception adapter.** One thread, so `pc` is its place, and the callbacks of the goal
run only where it spins. A frame is the set of mapped markers that the detection shows.
`finish_locked` and `stop_locked` are one operator each, and `ok` is `rclcpp::ok()`,
which a signal makes false at any time. A turn of the loop of `cancel_active` is two
places: `cancel`, where it takes its copy of the handle, and `turn`, where it spins and
then compares with its deadline. When the loop ends there the copy is empty, also if the
turn has just brought the handle. `frames` and `told` are history; `told` tells an
acceptance that was heard in the turn under way from one that was known before.

### Abstractions

* Frames are records; the byte layout, flags and the parsing of an invalid frame
  are left out (the bridge skips a frame that does not parse, which to the worker
  is the same as one that does not match).
* Time is not a number. A wait may end in a timeout at any point; that a timeout
  must come in the end is fairness.
* Payloads and error codes keep only the distinctions that the code makes.
* The goals of the bridge carry application opcodes (`Requests`), as those of the executor
  do. `handle_goal` (`device_bridge_node.cpp:113-150`) checks no opcode, so a client that
  sends STOP as a goal of its own is outside the model.
* `rclcpp::ok()` is left out of the executor, with the exit code 2 that main has for it
  (`task_executor_node.cpp:1144-1147`): the process takes no signal handler of rclcpp, and
  nothing in it shuts the context down before `main` returns.
* The history variables (`carried`, `running`, and the fields `by` and `op` of
  frames) are read by no action that models code.
* The answers of the gateway are left out but for whether a record was there to be
  read; a request is its id and its task id, the other fields of the fingerprint
  tell requests apart in the same way. A row ages (`Expire`) only when nobody in the
  process works on its request: the retry horizon is a day, a workflow is not.

## 3. What the runs check

| run | instance | what it shows |
|---|---|---|
| `bridge` | 2 goals, one payload, every launch mode of the device, ids 1..2 for commands and 3..4 for STOP, replay cache of 2 | one transaction at a time; a command is carried out at most once over retry and loss; COMPLETED and a confirmed STOP are true of the device; CANCELED only after a cancel; the latch follows the result; the pair implements `DeviceCommand`; every accepted goal ends though bus and device may be silent for ever |
| `bridge_restart` | one replacement of the bridge, cache of 3 | no double execution and no false COMPLETED after it |
| `bridge_stop_replay` | one replacement, cache of 2 | **violated**: see finding 1 |
| `executor` | 2 tasks, no faults | outcome, code and event of a task tell what is known about the device |
| `executor_live` | 1 task, two exceptions, one failed dispatch of a cancel | every task ends for its client; the process drains, unless both exceptions hit the transition of the task; a command in doubt is reported |
| `executor_destroy` | 1 task | **violated**: finding 2 |
| `gateway` | 2 ids, 2 tasks, 2 handlers, registry and ledger of 1, one shutdown | no cancel is lost; an active workflow is not evicted; registry and ledger agree; a shutdown that drained leaves no orphan |
| `gateway_restart` | 2 ids, 1 task, one restart, one expiry, one resolution | at most one dispatch per row; a finished row carries the orchestrator's answer, over the restart too, but for the COMPLETED of an empty result |
| `gateway_read` | 2 ids, 2 tasks, 2 handlers | **violated**: finding 3 |
| `orchestrator` | 2 workflows with one exception, or 1 with three | the result of a workflow is true of its task, and an empty one is given only to a workflow whose transition failed twice or that was let in beside another; an accepted cancel wins; an unsettled task is reported; a late task is cancelled; the process leaves no workflow behind; every workflow comes to an end for its client and every stop ends, unless a transition failed twice |
| `orchestrator_cancel` | 3 workflows, no exception | **violated**: finding 4 |
| `perception` | 2 markers, 2 frames confirm and 3 rearm, 6 frames between two workflows, 2 workflows, 2 read failures | workflows start at the right frames and one at a time; after a failure no workflow that was known before the last turn of `cancel_active` is left without a cancel; the adapter exits |

Why these bounds are enough. The bridge lets one goal in at a time, so a second goal
is the earlier or the later one of any confusion of acknowledgements, and two STOP
ids make the counter wrap within the run. A cache of 2 evicts, which the STOPs need
to do once a goal is over; the restart run takes 3 so that a command of the old
process is still known. In the gateway two handlers meet at every step, a registry
and a ledger of 1 are full with the first request, and two ids with two tasks give
every duplicate, conflict and eviction. A restart makes every process variable
forget; a second one finds the same kinds of row. In the orchestrator a second workflow
meets the end of the first at every step; three are needed for finding 4, which is a
run of its own. One exception brings a run into each handler, and three reach the
fallback after a failed tick and a failed dispatch of a cancel, though for one workflow
only. `EverythingSettles` is therefore checked with two workflows. That a third adds no
workflow that stays live rests on `Attended`, part of the invariant proved for any number:
a live workflow has the worker or the callback that hands it over. That the node answers
it is not claimed: with three workflows the race of finding 4 can leave one unanswered
(`canceledEmpty`) although nothing failed, and the last clause of `ResultIsConfirmed`,
which is proved for any number of them, names that case. Six frames hold a gap of three with something in between and the confirmation
after it, and the second workflow is the one that needs the gap.

Goals, tasks, ids and handlers are interchangeable in the runs without liveness and are
symmetric there. `bridge` checks liveness, so it takes no symmetry and fixes instead
which of the two goals has the id 1.

Deadlock is not checked in these runs: the number of goals, tasks, restarts and
shutdowns is bounded, and a process that went down or has nothing to do stops. That
nobody waits for ever is what the liveness properties check (`EveryGoalSettles`,
`EveryTaskSettles`, `ShutdownCompletes`, `EverythingSettles`, `AdapterExits`).

### Fairness

* **Bridge**: weak fairness of the worker thread, which the operating system
  schedules; strong fairness of the two timeouts (`WaitTimeout`, `StopTimeout`),
  because the wait loop compares with a monotonic clock on every turn, so a deadline
  that is looked at again and again is found to have passed although frames that do
  not match keep arriving. Nothing is assumed of the device, the bus or the clients.
* **Executor**: weak fairness of the worker, of the executor's callbacks and of main,
  and of the deadlines; strong fairness of `DrainExpires`, again a clock inside a
  loop. The bridge is assumed to do nothing. A transition that throws twice leaves
  `active_goal_` set for good, and `ShutdownCompletes` excepts it.
* **Orchestrator**: weak fairness of the worker, of a callback that has begun, of main
  and of the deadlines. Neither the clients nor the Task Executor are assumed to do
  anything. A transition that throws twice leaves the gate closed for good
  (`terminal_transition_failed_`), which `EverythingSettles` excepts.
* **Perception adapter**: weak fairness of its thread, whose reads, waits and looks all
  return, and strong fairness of `NothingToCancel`: the loop of `cancel_active` compares
  with a monotonic clock after every turn, so the two seconds are found to have passed.
  The orchestrator is assumed to do nothing.

## 4. What is proved

`BridgeProofs`, for every number of goals and restarts, every id range and cache
capacity, under the assumptions of `CanBus`, `CanDevice` and `DeviceBridge` on their
constants and `FreshIds` (part of `Init`: no two goals carry the same command id; the
orchestrator's allocation, which has to see to it, is in the plan):

* `TypeCorrect`: `TypeOK`. The strengthening says of each place of the worker what it
  holds there (a current goal, a STOP id in the STOP range).
* `OneTransaction`: `SingleFlight`, from `active_goal_` being set exactly while the
  worker has a goal that is not settled.
* `CanceledOnlyOnCancel`: `CancelIsLegal`. The worker reads `is_canceling()` once and
  acts on it much later; the invariant carries the reading along.
* `LatchFollowsResult`: `LatchMatchesResult`.

`BridgePromiseProofs`, under the same assumptions:

* `CarriedOnce`: `CarriedAtMostOnce`, for every number of restarts and every cache
  capacity. The invariant `Wire` says where the frames of a goal are: the two copies
  of a command are neighbours on the bus (`OnTheWay`), so once the first is carried out
  it is the last thing the device remembered when the second arrives (`Repeats`), and
  no eviction can come between; `WorkerAt` says when the worker may still send, and
  `Begun` that nothing of a goal is on the bus before it is sent.
* `CompletedIsTrue`: `CompletedIsCarried`. The invariant `Answers` says that every
  answer under way, and every answer the device remembers, is true of the command it
  names (`AnswersAreTrue`): stale acknowledgements are not excluded, they are harmless.
* `StopIsAnsweredByStop`: the action property `StopAckAnswersStop`.
* `StopIsConfirmed`: `ConfirmedStop`. `HaltsHold` adds that every STOP id is used at
  most once (`StopIdsCount`, a count of the goals against the range), that a STOP is
  behind every frame of its goal on the bus (`StopsInOrder`), and that an answer to it
  means that the goal is over at the device (`StopsAreTrue`).
* `PromiseKept`: `KeepsPromise`. Every step of bridge, device and bus maps to a step of
  `DeviceCommand` or a stutter; an outcome that promises something maps to the step
  that promises it because of the four theorems above.

The last four assume `GoalsAreApp`, that the goals carry ids below the STOP range, as the
executor's `allocate_command_id` sees to (`task_executor_node.cpp:1004`, 1..0x7FFF); the
bridge itself accepts ids up to 0xFFFF. The last two assume `StopIdsSuffice` too: one
bridge process and no more goals than there are STOP ids, 32768 in the code. It is not
a convenience of the proof: finding 1 is what happens without it, by a restart, and
a counter that wraps does the same. The run `bridge` satisfies it with equality.

`GatewayProofs`, for any number of requests, handlers, restarts, expiries and
operators, under `GatewayAssumption`:

* `DispatchedOnce`: `AtMostOneDispatch`. That the sum `sent <= reclaimed + (1 if there
  is a row)` is kept is not inductive alone, since a claim reads the ledger, prunes
  it and writes it in separate steps. The invariant `Safe` adds three facts. *Pins*:
  a row that a workflow, a callback or a handler still relies on is not one that
  retention takes. *Exclusive*: without such a row, one handler at most works
  towards a claim, because its record is in the registry in a state that is not
  evicted and that every other handler takes for a duplicate. *Claims*: the handler
  that claimed is alone with the request until the goal is sent. Most steps are
  `Gentle`, which is proved once to keep all three; the claim, the emplacing of the
  goal, the dispatch, the response, the refusal, the result, the end of the process,
  the restart and the expiry are proved one by one.

`GatewayLedgerProofs`, for the same constants, proves the other safety invariants of the
runs `gateway` and `gateway_restart`, on top of `Safe`:

* `GatewayTyped`: `TypeOK`, with the order of insertion.
* `EveryCancelIsDispatched`: `NoCancelLost`. It is inductive as it stands; the proof shows
  for each goal that every step leaves it alone, ends it, dispatches its cancel or
  leaves a thread that will (`GoalMove`).
* `DrainedShutdown`: `ShutdownLeavesNoOrphan`, from `Orderly`: whoever is past `serving`
  has set `stopping`, under which no goal is let in, and a drained shutdown has tried
  every cancel.
* `RowsCarryAnswers`: `RowsCarryTheAnswer`: a terminal row that no operator wrote carries
  the outcome that the orchestrator answered, and REJECTED hides no workflow that may run.
  It does not say that every such row is true of the workflow. The result of a lost
  workflow is empty, and the code records it as COMPLETED; the property has a clause for
  that row, and section 5 says what contradicts it. The invariant `Truth` says who may finish a row:
  the one handler that claimed the request and has not sent it (`Writing`), or the
  callback that knows its end (`Answering`), never two of them; until then the row says
  ADMITTED, also when a restart forgot them all.
* `RunningIsVisible`: `ActiveStaysVisible`. `Shown` strengthens it from the requests
  whose goal is there to those that somebody may still dispatch or refuse, and excludes
  a handler that would erase the record; `Places` says at which steps a goal is not
  there yet, or no more.
* `RegistryAgreesWithLedger`: `MemoryAgreesWithLedger`, which speaks of the requests
  nobody works on. `Agreement` covers the others: a final record that its row does not
  confirm belongs to a handler or a callback that is about to write it down (`Records`),
  a refusal that goes to the registry is on disk (`Refusals`), and a replay carries what
  the row still says (`Replays`). It needs `Truth` and `Visible`.

The steps of a handler are split into the four that change what is known of a request
(the claim, the dispatch, an operator's decision, a rejection's row: `ClaimDone`,
`SendDone`, `ResolveDone`, `RejectDone`) and the plain ones, whose effect on rows,
records, goals and places is stated once (`PlainRows`, `PlainMemory`, `PlainGoals`,
`PlainControl`) and used by the last three theorems.

`TaskExecutorProofs`, for any number of tasks, exceptions and failed dispatches, under
`ExecutorAssumption` and over any bridge that keeps the promise of `DeviceCommand` and
may be replaced at any time: every invariant of the run `executor` (`TypeOK`,
`OneTaskAtATime`, `EventsTellTheTruth`, `CanceledIsConfirmed`, `CompletedIsConfirmed`,
`OrphansAreReported`, `LateAcceptanceIsCanceled`). None of the last four is inductive
alone, because the worker decides on what it read long before, while the bridge and the
callbacks go on. The invariant `Inv` therefore says who owns the fields of the node
(`Placed`), what the bridge may have done with what it was sent (`Promised`), that what
the callbacks noted is true of the command (`Noted`), what the worker knows at each
place (`Informed`), that a command is given up only with its cancel asked for, and that
a cancel asked for is sent once there is a handle, unless a dispatch failed (`Chased`),
and that the result about to be committed, or committed, has its grounds (`Reasoned`).
`Reasoned` survives the bridge's later steps because a command that is decided stays
decided (`BridgeMoves`). `Unanswered` is a second layer for the last clause of
`OrphansAreReported`: it counts the exceptions behind a worker that lets go of a live task,
of which there must be two. `LateAcceptanceIsCanceled` is about runs in which every cancel
could be dispatched: with `MaxMisses` above 0 it says nothing of the others.

`OrchestratorProofs`, for any number of workflows and exceptions, under
`OrchestratorAssumption`: `TypeCorrect`, `ResultsAreConfirmed`,
`UnsettledTasksAreReported`, `LateTasksAreCanceled` and `ExitIsClean` (each a safety
property of the run `orchestrator`). They hold although the gate may be opened under a
running workflow, and the proof shows why: none of them rests on `active_`. The
invariant `Inv` says instead who works on which workflow (`Placed`, `Attended`: a live
workflow has the worker, or the callback that is about to hand it over, and the
callback joins the old worker first), that what the callbacks noted is true of the task
(`Noted`), that the worker says so before it halts (`Halts`), that a task that runs is
watched, is being halted, or will find the halt with its response (`Chased`), and that
the result about to be committed has its grounds (`Reasoned`). There is one lemma for
each action, with one step for each part that the action can disturb.
`ResultsAreConfirmed` needs one layer more, `Answered`, for the clients that get an empty
result: a worker comes to its end with a live workflow only if both its transitions threw,
or if somebody else's reservation stood, and then the two were let in together.
`AcceptedCancelWins` is not a theorem: finding 4 is its counterexample, and the run
`orchestrator` checks it where the third workflow is missing.

`PerceptionProofs`, for every set of markers and every frame count, under
`AdapterAssumption`:

* `TriggersAsSighted`: `TriggersOnSighting`, over frame sequences of any length. The
  invariant `Sight` relates the counters to the frames: `streak` and `seen` are the
  longest run of one lone marker at the end (`Streak`), `missing` is the number of
  empty frames since the last lone marker, and nowhere were there enough (`Gap`). The
  lemmas `StreakGrows` and `GapGrows` carry that over one frame, `EnoughSeen` and
  `GapIsShort` lead from it to the declarative reading.
* `ExitCancels`: `ExitCancelsWorkflow`, for a workflow that was known before the last
  turn of `cancel_active`, from the handle being held from the acceptance to the result
  (`Holds`), so that the next turn finds it; and `TypeCorrect`.

Only model-checked: the liveness properties (`EveryGoalSettles`, `EveryTaskSettles`,
`ShutdownCompletes`, `EverythingSettles`, `AdapterExits`), which are out of the prover's
reach, and `AcceptedCancelWins`. Every other property of a run that passes is a
theorem. The properties of the runs that find a violation (`ConfirmedStop` over a
restart, `DestroyedWhenDrained`, `EveryReadFindsItsRecord`, `AcceptedCancelWins` with a
third workflow) are false without the hypotheses named above.

## 5. Findings

1. **A STOP of an earlier bridge answers a later one** (`bridge_stop_replay`). STOP ids
   start at 0x8000 with each process. The STOP of a process that was replaced, or its
   answer, is still on the way; the next process sends the STOP of another goal under the
   same id and takes that answer for its own. It reports CANCELED while the goal's command
   is queued at the device, which takes it up afterwards. Only an answer on the way does
   this. The answer that the device remembers does not: a STOP carries the id of its
   command, the device compares the whole command (`virtual_can_device_node.cpp:113`) and
   answers a conflict, and the goal ends as SAFE_STOP with code 205.
2. **A goal is let in after the node was found drained** (`executor_destroy`).
   `handle_goal` looks at `running_` before the claim and not after it.
3. **A duplicate reads a record that is gone** (`gateway_read`). `insert` and
   `get_by_request_id` are two critical sections; a refused first submit erases the
   record between them.
4. **An accepted cancel is lost** (`orchestrator_cancel`). `handle_goal` claims
   `active_` before it stores the new generation. The old worker that compares in
   between finds its own generation and clears `active_` after the claim: the gate is
   open while the new workflow runs, and the next goal clears `cancel_accepted_` and
   the terminal reservation for both. A workflow whose cancel was accepted then
   succeeds. The same race lets one reservation stand for two workflows: `terminal()` then
   returns without an answer for one of them, and its client reads the status CANCELED with
   an empty result although nothing failed and the task may run (`broken`).

Four more divergences are in the models and have no run of their own:

* With the registry full, the gateway looks its ledger up by the request id alone
  (`gateway_service.cpp:287`), and the row answers a request with another payload,
  which `durable_idempotency.hpp:24` says to reject.
* The gateway's result callback looks at the outcome and not at the code of the result
  (`gateway_service.cpp:431`). A workflow that the orchestrator does not know any more, or
  whose goal handle died there, has an empty result whose outcome reads as COMPLETED; the
  row is finished and answers every retry. `durable_idempotency.hpp:26` wants a row whose
  "outcome is unknown" left to an explicit decision, and `durable_idempotency.cpp:47` says
  of such states that the device may still be running and that they "are never
  auto-replayed". `RowsCarryTheAnswer` states what the code does, in a clause of its own.
* `cancel_active` tests the copy of the handle that it took at the top of a turn
  (`perception_task_adapter_node.cpp:365` and `378`). An acceptance heard in the last turn
  before its two seconds are over fills `goal_handle` and is not looked at: the workflow
  stays behind, although `test_action_submission.cpp:250-252` says that "a workflow that
  was already accepted must still be cancelled on the way out". `ExitCancelsWorkflow` is
  about the workflows known before that turn.
* After SIGINT the adapter's `cancel_active` never enters the loop that fetches the
  handle (`perception_task_adapter_node.cpp:360`), and an accepted workflow stays
  behind without a cancel. `ExitCancelsWorkflow` is about the other exits.

## 6. What is not modelled, and the plan

Not modelled: the layout of frames and their parsing, the diagnostics' publication,
gRPC and SQLite themselves, `GetTask` and `GetStats` (they change nothing), the ArUco
detector, clients, scripts and build files, and the components below.

Next, in this order:

1. `CommandIds`: the executor's allocation in 1..0x7FFF against the ids the bridge
   accepts and the device remembers.
2. The promise of `ExecuteTask`, stated as `DeviceCommand` is, shown of `TaskExecutor`
   and used by `Orchestrator`, whose `TaskStep` is that promise informally.
3. `RuntimeHistory`: the bounded queue of the recorder and the insertion of rows.
4. The text adapters: a plan whose acceptance comes late.
5. `RuntimeMonitor` with the readiness the orchestrator reads.
6. The pure parts against reference definitions: protocol ranges, durations,
   percentiles.
7. Proofs: that the executor's allocation satisfies `FreshIds` and `GoalsAreApp` for a
   run without a wrap (with 1.), and the promise of `ExecuteTask` as a refinement
   (with 2.).
