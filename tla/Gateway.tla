------------------------------- MODULE Gateway -------------------------------
(***************************************************************************)
(* The Runtime Gateway: gateway_service.cpp with its registry in memory    *)
(* (request_registry.cpp) and its ledger on disk (durable_idempotency.cpp  *)
(* over the request_idempotency table of store.cpp).  gRPC handlers run on *)
(* threads of their own, the callbacks of the workflow's action client one *)
(* after the other on the ROS executor, and main shuts the process down.   *)
(* The process may be replaced at any point; the ledger stays.             *)
(*                                                                         *)
(* A request is its id and its task id: the other fields of a fingerprint  *)
(* tell requests apart in the same way.                                    *)
(***************************************************************************)
EXTENDS Integers, Sequences, FiniteSets

CONSTANTS
  Ids,             \* request ids
  Tasks,           \* task ids
  Calls,           \* gRPC handler threads
  NoTask, NoId,
  Outcomes,        \* workflow outcomes considered
  Capacity,        \* of the registry
  LedgerCapacity,
  MaxRestarts,     \* bound: process replacements
  MaxExpiries,     \* bound: ledger rows that grow older than the retry horizon
  MaxResolutions,  \* bound: decisions of operators
  MaxShutdowns     \* bound: shutdown signals

ASSUME GatewayAssumption ==
  /\ NoTask \notin Tasks /\ NoId \notin Ids
  /\ "COMPLETED" \in Outcomes
  /\ Outcomes \subseteq {"COMPLETED", "CANCELED", "SAFE_STOP", "DEVICE_FAULT", "ABORTED"}
  /\ Capacity \in Nat \ {0} /\ LedgerCapacity \in Nat \ {0}
  /\ MaxRestarts \in Nat /\ MaxExpiries \in Nat
  /\ MaxResolutions \in Nat /\ MaxShutdowns \in Nat

VARIABLES
  memory,      \* records_: [task, state] for each id, state "none" when absent
  order,       \* insertion_order_
  goals,       \* goals: the PendingGoal of each id
  stopping,    \* stopping
  call,        \* each handler thread: [pc, id, task, said]
  cb,          \* the client callback in progress: [pc, id, task, said]
  main,        \* main and LoopbackServer::shutdown: [pc, todo, id]
  flight,      \* the workflow goal as the action client of this process sees it
  ledger,      \* rows: [task, state, old] for each id, state "none" when absent
  used,        \* events so far that the bounds limit
  sent,        \* history: workflow goals handed to the orchestrator, per id
  reclaimed,   \* history: how often a finished row of the id left the ledger by age
  fate,        \* history: what became of the workflow of the id
  resolved,    \* history: ids an operator resolved since their admission
  unsaved      \* history: ids whose terminal row could not be written

processVars == <<memory, order, goals, stopping, call, cb, main, flight>>
history     == <<sent, reclaimed, fate, resolved, unsaved>>
vars == <<processVars, ledger, used, history>>

Terminal == Outcomes \cup {"REJECTED"}
Active   == {"SUBMITTING", "RUNNING", "CANCELING"}
States   == Terminal \cup Active \cup {"none", "UNCERTAIN", "TIMED_OUT", "CANCEL_FAILED"}
CallSteps == {"idle", "insert", "full", "history", "admit", "claim", "apply", "read", "decide",
              "reject", "emplace", "send", "await", "settle", "late", "cancel", "canceling",
              "lookup", "answer", "resolve", "resolved"}
CallbackSteps == {"idle", "accepted", "cancel", "canceling", "refused", "refuse",
                  "refuseMemory", "complete"}
MainSteps == {"serving", "stopping", "cancel", "canceling", "drained", "gaveup", "down"}

NoRecord == [task |-> NoTask, state |-> "none"]
NoRow    == [task |-> NoTask, state |-> "none", old |-> FALSE]
NoGoal   == [there |-> FALSE, task |-> NoTask, handle |-> FALSE,
             cancelReq |-> FALSE, cancelSent |-> FALSE, cancelFailed |-> FALSE]
Idle     == [pc |-> "idle", id |-> NoId, task |-> NoTask, said |-> "none"]

ProcessInit ==
  /\ memory = [i \in Ids |-> NoRecord] /\ order = <<>>
  /\ goals = [i \in Ids |-> NoGoal] /\ stopping = FALSE
  /\ call = [c \in Calls |-> Idle] /\ cb = Idle
  /\ main = [pc |-> "serving", todo |-> {}, id |-> NoId]
  /\ flight = [i \in Ids |-> "none"]

Init ==
  /\ ProcessInit
  /\ ledger = [i \in Ids |-> NoRow]
  /\ used = [restarts |-> 0, expiries |-> 0, resolutions |-> 0, shutdowns |-> 0]
  /\ sent = [i \in Ids |-> 0] /\ reclaimed = [i \in Ids |-> 0]
  /\ fate = [i \in Ids |-> "none"] /\ resolved = {} /\ unsaved = {}

(***************************************************************************)
(* The registry.                                                           *)
(***************************************************************************)
Present(i) == memory[i].state # "none"

(* update_terminal: the state of a record, when there is one. *)
Update(mem, i, state) ==
  IF mem[i].state = "none" THEN mem ELSE [mem EXCEPT ![i].state = state]

(* insertion_order_ without its n-th entry. *)
Without(n) == SubSeq(order, 1, n - 1) \o SubSeq(order, n + 1, Len(order))

(* An id stands in insertion_order_ once at most. *)
Erase(i) ==
  /\ memory' = [memory EXCEPT ![i] = NoRecord]
  /\ \/ \E n \in 1..Len(order) : order[n] = i /\ order' = Without(n)
     \/ (\A n \in 1..Len(order) : order[n] # i) /\ UNCHANGED order

(* Mutant: the oldest record is evicted, finished or not. *)
EvictableOldest(n) == n = 1

(* The first record in insertion order that is terminal. *)
Evictable(n) ==
  /\ memory[order[n]].state \in Terminal
  /\ \A m \in 1..(n - 1) : memory[order[m]].state \notin Terminal

Held == {i \in Ids : Present(i)}

(***************************************************************************)
(* The ledger.                                                             *)
(***************************************************************************)
Uncertain(state) == state \notin Terminal

(* put_idempotency: the upsert fails on a row with another payload. *)
Put(i, task, state) ==
  /\ ledger[i].state = "none" \/ ledger[i].task = task
  /\ ledger' = [ledger EXCEPT ![i] = [task |-> task, state |-> state, old |-> FALSE]]

(* Mutant: retention takes every old row. *)
ReclaimableByAge(i) == ledger[i].old

(* prune_idempotency with the reclaimable states. *)
Reclaimable(i) == ledger[i].old /\ ledger[i].state \in Terminal
Prune ==
  /\ ledger' = [i \in Ids |-> IF Reclaimable(i) THEN NoRow ELSE ledger[i]]
  /\ reclaimed' = [i \in Ids |-> reclaimed[i] +
                     (IF Reclaimable(i) /\ ledger[i].state \in Terminal THEN 1 ELSE 0)]

(* count_idempotency after the pruning: rows inside the horizon. *)
Unexpired == {i \in Ids : ledger[i].state # "none" /\ ~ledger[i].old}

(* DurableIdempotency::complete: the row is written, or it is not. *)
Complete(i, task, state) ==
  \/ Put(i, task, state) /\ UNCHANGED unsaved
  \/ unsaved' = unsaved \cup {i} /\ UNCHANGED ledger

(***************************************************************************)
(* dispatch_cancel, in two steps: the mark under the lock, and             *)
(* async_cancel_goal, which may throw.                                     *)
(***************************************************************************)
NeedsCancel(i) == goals[i].there /\ ~goals[i].cancelSent
MarkCancel(i) ==
  goals' = [goals EXCEPT ![i].cancelSent = TRUE, ![i].cancelFailed = FALSE]
CancelThrows(i) ==
  IF goals[i].there
  THEN /\ goals' = [goals EXCEPT ![i].cancelSent = FALSE, ![i].cancelFailed = TRUE]
       /\ memory' = Update(memory, i, "CANCEL_FAILED")
  ELSE UNCHANGED <<goals, memory>>

(***************************************************************************)
(* SubmitWorkflow.                                                         *)
(***************************************************************************)
At(c, pc)   == call[c].pc = pc
Id(c)       == call[c].id
Task(c)     == call[c].task
Goto(c, pc) == call' = [call EXCEPT ![c].pc = pc]
Finish(c)   == call' = [call EXCEPT ![c] = Idle]
GotoWith(c, pc, said) == call' = [call EXCEPT ![c].pc = pc, ![c].said = said]
Start(c, pc, i, t, said) ==
  /\ At(c, "idle") /\ main.pc \in {"serving", "stopping"}
  /\ call' = [call EXCEPT ![c] = [pc |-> pc, id |-> i, task |-> t, said |-> said]]

SubmitWorkflow(c, i, t) ==
  /\ ~stopping
  /\ Start(c, "insert", i, t, "none")
  /\ UNCHANGED <<memory, order, goals, stopping, cb, main, flight, ledger, used, history>>

Fresh(i, t) == [memory EXCEPT ![i] = [task |-> t, state |-> "SUBMITTING"]]

(* RequestRegistry::insert. *)
InsertKnown(c) ==
  /\ At(c, "insert")
  /\ \/ /\ Present(Id(c)) /\ memory[Id(c)].task = Task(c)
        /\ Goto(c, "read")
     \/ /\ Present(Id(c)) /\ memory[Id(c)].task # Task(c)
        /\ Finish(c)
     \/ /\ ~Present(Id(c)) /\ \E j \in Ids : Present(j) /\ memory[j].task = Task(c)
        /\ Finish(c)
  /\ UNCHANGED <<memory, order, goals, stopping, cb, main, flight, ledger, used, history>>

InsertNew(c) ==
  /\ At(c, "insert")
  /\ \A j \in Ids : Present(j) => j # Id(c) /\ memory[j].task # Task(c)
  /\ \/ /\ Cardinality(Held) < Capacity
        /\ memory' = Fresh(Id(c), Task(c)) /\ order' = Append(order, Id(c))
        /\ Goto(c, "history")
     \/ /\ Cardinality(Held) >= Capacity
        /\ \E n \in 1..Len(order) :
             /\ Evictable(n)
             /\ memory' = [Fresh(Id(c), Task(c)) EXCEPT ![order[n]] = NoRecord]
             /\ order' = Append(Without(n), Id(c))
        /\ Goto(c, "history")
     \/ /\ Cardinality(Held) >= Capacity
        /\ \A n \in 1..Len(order) : ~Evictable(n)
        /\ Goto(c, "full") /\ UNCHANGED <<memory, order>>
  /\ UNCHANGED <<goals, stopping, cb, main, flight, ledger, used, history>>

(* A full registry: what the ledger knows is replayed, the rest is         *)
(* refused.  A failing lookup throws out of the handler.                   *)
LookupWhenFull(c) ==
  /\ At(c, "full")
  /\ Finish(c)
  /\ UNCHANGED <<memory, order, goals, stopping, cb, main, flight, ledger, used, history>>

(* The history must not hold the task id already.  Its rows are written by *)
(* another process, for the tasks of other clients too: any task may be    *)
(* there, or the store may fail.                                           *)
CheckHistory(c) ==
  /\ At(c, "history")
  /\ \/ Finish(c) /\ Erase(Id(c))
     \/ Goto(c, "admit") /\ UNCHANGED <<memory, order>>
  /\ UNCHANGED <<goals, stopping, cb, main, flight, ledger, used, history>>

(* DurableIdempotency::admit for a request with a row, and for a store     *)
(* that cannot be read.                                                    *)
AdmitKnown(c) ==
  /\ At(c, "admit")
  /\ LET row == ledger[Id(c)]
     IN  \/ Finish(c) /\ Erase(Id(c))
         \/ /\ row.state # "none" /\ row.task # Task(c)
            /\ Finish(c) /\ Erase(Id(c))
         \/ /\ row.state # "none" /\ row.task = Task(c)
            /\ GotoWith(c, "apply", IF Uncertain(row.state) THEN "UNCERTAIN" ELSE row.state)
            /\ UNCHANGED <<memory, order>>
  /\ UNCHANGED <<goals, stopping, cb, main, flight, ledger, used, history>>

(* For a request without one: retention, then the bound.  Either may fail, *)
(* and is then left out.                                                   *)
AdmitNew(c) ==
  /\ At(c, "admit") /\ ledger[Id(c)].state = "none"
  /\ Prune \/ UNCHANGED <<ledger, reclaimed>>
  /\ \/ Cardinality(Unexpired) >= LedgerCapacity
        /\ Finish(c) /\ Erase(Id(c))
     \/ Goto(c, "claim") /\ UNCHANGED <<memory, order>>
  /\ UNCHANGED <<goals, stopping, cb, main, flight, used, sent, fate, resolved, unsaved>>

(* The admission is on disk before anything is sent. *)
Claim(c) ==
  /\ At(c, "claim")
  /\ \/ /\ Put(Id(c), Task(c), "ADMITTED")
        /\ Goto(c, "decide")
        /\ fate' = [fate EXCEPT ![Id(c)] = "none"]
        /\ resolved' = resolved \ {Id(c)} /\ unsaved' = unsaved \ {Id(c)}
        /\ UNCHANGED <<memory, order>>
     \/ /\ Finish(c) /\ Erase(Id(c))
        /\ UNCHANGED <<ledger, fate, resolved, unsaved>>
  /\ UNCHANGED <<goals, stopping, cb, main, flight, used, sent, reclaimed>>

Apply(c) ==
  /\ At(c, "apply")
  /\ memory' = Update(memory, Id(c), call[c].said)
  /\ Goto(c, "read")
  /\ UNCHANGED <<order, goals, stopping, cb, main, flight, ledger, used, history>>

(* get_by_request_id, dereferenced without a look whether it is there. *)
ReadRecord(c) ==
  /\ At(c, "read")
  /\ Finish(c)
  /\ UNCHANGED <<memory, order, goals, stopping, cb, main, flight, ledger, used, history>>

(* reject: not allowlisted (then the record is read for the answer) or no  *)
(* orchestrator.                                                           *)
RejectInMemory(c, then) ==
  /\ memory' = Update(memory, Id(c), "REJECTED")
  /\ GotoWith(c, "reject", then)

Decide(c) ==
  /\ At(c, "decide")
  /\ \/ RejectInMemory(c, "none")
     \/ RejectInMemory(c, "UNAVAILABLE")
     \/ Goto(c, "emplace") /\ UNCHANGED memory
  /\ UNCHANGED <<order, goals, stopping, cb, main, flight, ledger, used, history>>

RejectOnDisk(c) ==
  /\ At(c, "reject")
  /\ Complete(Id(c), Task(c), "REJECTED")
  /\ IF call[c].said = "none" THEN Goto(c, "read") ELSE Finish(c)
  /\ UNCHANGED <<memory, order, goals, stopping, cb, main, flight, used,
                 sent, reclaimed, fate, resolved>>

EmplaceGoal(c) ==
  /\ At(c, "emplace")
  /\ \/ stopping /\ RejectInMemory(c, "UNAVAILABLE") /\ UNCHANGED goals
     \/ /\ ~stopping /\ Goto(c, "send") /\ UNCHANGED memory
        /\ goals' = IF goals[Id(c)].there THEN goals
                    ELSE [goals EXCEPT ![Id(c)] = [NoGoal EXCEPT !.there = TRUE, !.task = Task(c)]]
  /\ UNCHANGED <<order, stopping, cb, main, flight, ledger, used, history>>

SendGoal(c) ==
  /\ At(c, "send")
  /\ \/ /\ sent' = [sent EXCEPT ![Id(c)] = @ + 1]
        /\ flight' = [flight EXCEPT ![Id(c)] = "sent"]
        /\ fate' = [fate EXCEPT ![Id(c)] = "asked"]
        /\ Goto(c, "await") /\ UNCHANGED <<memory, goals>>
     \/ /\ goals' = [goals EXCEPT ![Id(c)] = NoGoal]
        /\ RejectInMemory(c, "UNAVAILABLE")
        /\ UNCHANGED <<sent, flight, fate>>
  /\ UNCHANGED <<order, stopping, cb, main, ledger, used, reclaimed, resolved, unsaved>>

(* The goal response is there: a short wait for its callback, which is     *)
(* over at any point, then the record.                                     *)
AwaitResponse(c) ==
  /\ At(c, "await")
  /\ Goto(c, IF flight[Id(c)] = "sent" THEN "late" ELSE "settle")
  /\ UNCHANGED <<memory, order, goals, stopping, cb, main, flight, ledger, used, history>>

Settle(c) ==
  /\ At(c, "settle")
  /\ Finish(c)
  /\ UNCHANGED <<memory, order, goals, stopping, cb, main, flight, ledger, used, history>>

(* Mutant: the request is written off as rejected. *)
TimeOutRejects(c) ==
  /\ At(c, "late") /\ Finish(c)
  /\ goals' = IF goals[Id(c)].there THEN [goals EXCEPT ![Id(c)].cancelReq = TRUE] ELSE goals
  /\ Complete(Id(c), Task(c), "REJECTED")
  /\ UNCHANGED <<memory, order, stopping, cb, main, flight, used, sent, reclaimed, fate, resolved>>

(* 500 ms without a response: whatever comes later is to be cancelled. *)
TimeOut(c) ==
  /\ At(c, "late")
  /\ LET g == goals[Id(c)]
     IN  /\ goals' = IF g.there THEN [goals EXCEPT ![Id(c)].cancelReq = TRUE] ELSE goals
         /\ memory' = IF g.there /\ ~g.cancelReq THEN Update(memory, Id(c), "TIMED_OUT")
                                                 ELSE memory
         /\ IF g.there /\ g.handle THEN GotoWith(c, "cancel", "DEADLINE") ELSE Finish(c)
  /\ UNCHANGED <<order, stopping, cb, main, flight, ledger, used, history>>

(* dispatch_cancel on a handler thread, for SubmitWorkflow after its       *)
(* timeout and for CancelWorkflow, which reads the record afterwards.      *)
CancelIsOut(c) == IF call[c].said = "DEADLINE" THEN Finish(c) ELSE Goto(c, "answer")

DispatchCancel(c) ==
  /\ At(c, "cancel")
  /\ IF NeedsCancel(Id(c))
     THEN MarkCancel(Id(c)) /\ Goto(c, "canceling")
     ELSE CancelIsOut(c) /\ UNCHANGED goals
  /\ UNCHANGED <<memory, order, stopping, cb, main, flight, ledger, used, history>>

CancelDispatched(c) ==
  /\ At(c, "canceling")
  /\ \/ CancelIsOut(c) /\ UNCHANGED <<goals, memory>>
     \/ CancelThrows(Id(c)) /\ Finish(c)
  /\ UNCHANGED <<order, stopping, cb, main, flight, ledger, used, history>>

(***************************************************************************)
(* CancelWorkflow.                                                         *)
(***************************************************************************)
CancelWorkflow(c, i) ==
  /\ Start(c, "lookup", i, NoTask, "none") /\ Present(i)
  /\ UNCHANGED <<memory, order, goals, stopping, cb, main, flight, ledger, used, history>>

RequestCancel(c) ==
  /\ At(c, "lookup")
  /\ IF goals[Id(c)].there
     THEN /\ goals' = [goals EXCEPT ![Id(c)].cancelReq = TRUE]
          /\ memory' = Update(memory, Id(c), "CANCELING")
          /\ Goto(c, IF goals[Id(c)].handle THEN "cancel" ELSE "answer")
     ELSE Goto(c, "answer") /\ UNCHANGED <<goals, memory>>
  /\ UNCHANGED <<order, stopping, cb, main, flight, ledger, used, history>>

AnswerCancel(c) ==
  /\ At(c, "answer")
  /\ Finish(c)
  /\ UNCHANGED <<memory, order, goals, stopping, cb, main, flight, ledger, used, history>>

(***************************************************************************)
(* ResolveUncertain: an operator's decision about a row that is not        *)
(* terminal.                                                               *)
(***************************************************************************)
ResolveUncertain(c, i, state) ==
  /\ used.resolutions < MaxResolutions /\ used' = [used EXCEPT !.resolutions = @ + 1]
  /\ ledger[i].state # "none" /\ Uncertain(ledger[i].state)
  /\ Start(c, "resolve", i, ledger[i].task, state)
  /\ UNCHANGED <<memory, order, goals, stopping, cb, main, flight, ledger, history>>

ResolveOnDisk(c) ==
  /\ At(c, "resolve")
  /\ \/ Put(Id(c), Task(c), call[c].said) /\ resolved' = resolved \cup {Id(c)} /\ Goto(c, "resolved")
     \/ Finish(c) /\ UNCHANGED <<ledger, resolved>>
  /\ UNCHANGED <<memory, order, goals, stopping, cb, main, flight, used,
                 sent, reclaimed, fate, unsaved>>

ResolveInMemory(c) ==
  /\ At(c, "resolved")
  /\ memory' = Update(memory, Id(c), call[c].said)
  /\ Finish(c)
  /\ UNCHANGED <<order, goals, stopping, cb, main, flight, ledger, used, history>>

(***************************************************************************)
(* The action client.  The orchestrator's answer makes the future of the   *)
(* goal ready, and then its callback runs.                                 *)
(***************************************************************************)
Callback(pc, i, task, said) == cb' = [pc |-> pc, id |-> i, task |-> task, said |-> said]
CanCallBack == cb.pc = "idle" /\ main.pc # "down"

GoalResponse(i) ==
  /\ CanCallBack /\ flight[i] = "sent"
  /\ \/ /\ flight' = [flight EXCEPT ![i] = "accepted"] /\ fate' = [fate EXCEPT ![i] = "running"]
        /\ Callback("accepted", i, NoTask, "none")
     \/ /\ flight' = [flight EXCEPT ![i] = "refused"] /\ fate' = [fate EXCEPT ![i] = "refused"]
        /\ Callback("refused", i, NoTask, "none")
  /\ UNCHANGED <<memory, order, goals, stopping, call, main, ledger, used,
                 sent, reclaimed, resolved, unsaved>>

(* Mutant: only a stopping gateway cancels a late goal. *)
CancelWantedWhenStopping(i) == stopping
CancelWanted(i) == stopping \/ goals[i].cancelReq

AcceptedCallback ==
  /\ cb.pc = "accepted"
  /\ IF goals[cb.id].there
     THEN /\ goals' = [goals EXCEPT ![cb.id].handle = TRUE]
          /\ memory' = Update(memory, cb.id, IF CancelWanted(cb.id) THEN "CANCELING" ELSE "RUNNING")
          /\ cb' = IF CancelWanted(cb.id) THEN [cb EXCEPT !.pc = "cancel"] ELSE Idle
     ELSE cb' = Idle /\ UNCHANGED <<goals, memory>>
  /\ UNCHANGED <<order, stopping, call, main, flight, ledger, used, history>>

CallbackCancel ==
  /\ cb.pc = "cancel"
  /\ IF NeedsCancel(cb.id) THEN MarkCancel(cb.id) /\ cb' = [cb EXCEPT !.pc = "canceling"]
                           ELSE cb' = Idle /\ UNCHANGED goals
  /\ UNCHANGED <<memory, order, stopping, call, main, flight, ledger, used, history>>

CallbackCancelDispatched ==
  /\ cb.pc = "canceling" /\ cb' = Idle
  /\ CancelThrows(cb.id) \/ UNCHANGED <<goals, memory>>
  /\ UNCHANGED <<order, stopping, call, main, flight, ledger, used, history>>

RefusedCallback ==
  /\ cb.pc = "refused"
  /\ goals' = [goals EXCEPT ![cb.id] = NoGoal]
  /\ cb' = IF goals[cb.id].there THEN [cb EXCEPT !.pc = "refuse", !.task = goals[cb.id].task]
                                 ELSE Idle
  /\ UNCHANGED <<memory, order, stopping, call, main, flight, ledger, used, history>>

(* Mutant: only the registry hears of the refusal. *)
RefuseUnsaved ==
  /\ cb.pc = "refuse" /\ cb' = [cb EXCEPT !.pc = "refuseMemory"]
  /\ UNCHANGED <<memory, order, goals, stopping, call, main, flight, ledger, used, history>>

RefuseOnDisk ==
  /\ cb.pc = "refuse"
  /\ Complete(cb.id, cb.task, "REJECTED")
  /\ cb' = [cb EXCEPT !.pc = "refuseMemory"]
  /\ UNCHANGED <<memory, order, goals, stopping, call, main, flight, used,
                 sent, reclaimed, fate, resolved>>

RefuseInMemory ==
  /\ cb.pc = "refuseMemory" /\ cb' = Idle
  /\ memory' = Update(memory, cb.id, "REJECTED")
  /\ UNCHANGED <<order, goals, stopping, call, main, flight, ledger, used, history>>

(* Mutant: the status of the result is passed on. *)
StateAsReported(o) == o

(* state_for_outcome.  A workflow is lost when the orchestrator does not   *)
(* know it any more, or destroyed its goal handle without an answer: the   *)
(* result is empty, whatever its code, and outcome 0 reads as COMPLETED.   *)
StateForOutcome(o) == IF o = "lost" THEN "COMPLETED" ELSE o

ResultCallback(i, o) ==
  /\ CanCallBack /\ flight[i] = "accepted"
  /\ flight' = [flight EXCEPT ![i] = "ended"] /\ fate' = [fate EXCEPT ![i] = o]
  /\ memory' = Update(memory, i, StateForOutcome(o))
  /\ goals' = [goals EXCEPT ![i] = NoGoal]
  /\ IF goals[i].there THEN Callback("complete", i, goals[i].task, StateForOutcome(o))
                       ELSE UNCHANGED cb
  /\ UNCHANGED <<order, stopping, call, main, ledger, used, sent, reclaimed,
                 resolved, unsaved>>

ResultOnDisk ==
  /\ cb.pc = "complete" /\ cb' = Idle
  /\ Complete(cb.id, cb.task, cb.said)
  /\ UNCHANGED <<memory, order, goals, stopping, call, main, flight, used,
                 sent, reclaimed, fate, resolved>>

(***************************************************************************)
(* main: LoopbackServer::shutdown, with cancel_active between the end of   *)
(* the intake and the join of the handlers.                                *)
(***************************************************************************)
StopAccepting ==
  /\ used.shutdowns < MaxShutdowns /\ used' = [used EXCEPT !.shutdowns = @ + 1]
  /\ main.pc = "serving"
  /\ main' = [main EXCEPT !.pc = "stopping"] /\ stopping' = TRUE
  /\ UNCHANGED <<memory, order, goals, call, cb, flight, ledger, history>>

CancelActive ==
  /\ main.pc = "stopping"
  /\ goals' = [i \in Ids |-> [goals[i] EXCEPT !.cancelReq = goals[i].there]]
  /\ memory' = [i \in Ids |-> IF goals[i].there /\ Present(i)
                              THEN [memory[i] EXCEPT !.state = "CANCELING"] ELSE memory[i]]
  /\ main' = [main EXCEPT !.pc = "cancel",
                !.todo = {i \in Ids : goals[i].handle /\ ~goals[i].cancelSent}]
  /\ UNCHANGED <<order, stopping, call, cb, flight, ledger, used, history>>

MainCancel(i) ==
  /\ main.pc = "cancel" /\ i \in main.todo
  /\ IF NeedsCancel(i)
     THEN MarkCancel(i) /\ main' = [pc |-> "canceling", todo |-> main.todo \ {i}, id |-> i]
     ELSE main' = [main EXCEPT !.todo = @ \ {i}] /\ UNCHANGED goals
  /\ UNCHANGED <<memory, order, stopping, call, cb, flight, ledger, used, history>>

MainCancelDispatched ==
  /\ main.pc = "canceling" /\ main' = [main EXCEPT !.pc = "cancel", !.id = NoId]
  /\ CancelThrows(main.id) \/ UNCHANGED <<goals, memory>>
  /\ UNCHANGED <<order, stopping, call, cb, flight, ledger, used, history>>

(* Mutant: goals without a response are not waited for. *)
DrainedHandles == \A i \in Ids : goals[i].handle => goals[i].cancelFailed

(* The wait ends when every goal is gone or could not be cancelled, or     *)
(* after five seconds.                                                     *)
DrainedNow == \A i \in Ids : goals[i].there => goals[i].cancelFailed
Drain ==
  /\ main.pc = "cancel" /\ main.todo = {}
  /\ \/ DrainedNow /\ main' = [main EXCEPT !.pc = "drained"]
     \/ ~DrainedNow /\ main' = [main EXCEPT !.pc = "gaveup"]
  /\ UNCHANGED <<memory, order, goals, stopping, call, cb, flight, ledger, used, history>>

(* The handlers are joined, the registry is cleared. *)
Exit ==
  /\ main.pc \in {"drained", "gaveup"} /\ \A c \in Calls : At(c, "idle")
  /\ main' = [main EXCEPT !.pc = "down"]
  /\ memory' = [i \in Ids |-> NoRecord] /\ order' = <<>>
  /\ UNCHANGED <<goals, stopping, call, cb, flight, ledger, used, history>>

(***************************************************************************)
(* A new process, after a crash at any point or an orderly end, and the    *)
(* passing of the retry horizon.  A handler or a callback that is at work  *)
(* on a request does not last that long.                                   *)
(***************************************************************************)
Restart ==
  /\ used.restarts < MaxRestarts /\ used' = [used EXCEPT !.restarts = @ + 1]
  /\ memory' = [i \in Ids |-> NoRecord] /\ order' = <<>>
  /\ goals' = [i \in Ids |-> NoGoal] /\ stopping' = FALSE
  /\ call' = [c \in Calls |-> Idle] /\ cb' = Idle
  /\ main' = [pc |-> "serving", todo |-> {}, id |-> NoId]
  /\ flight' = [i \in Ids |-> "none"]
  /\ UNCHANGED <<ledger, history>>

Quiet(i) ==
  /\ \A c \in Calls : At(c, "idle") \/ Id(c) # i
  /\ cb.pc = "idle" \/ cb.id # i
  /\ ~goals[i].there

Expire(i) ==
  /\ used.expiries < MaxExpiries /\ used' = [used EXCEPT !.expiries = @ + 1]
  /\ Quiet(i) /\ ledger[i].state # "none" /\ ~ledger[i].old
  /\ ledger' = [ledger EXCEPT ![i].old = TRUE]
  /\ UNCHANGED <<processVars, history>>

CallNext(c) ==
  \/ \E i \in Ids : \/ \E t \in Tasks : SubmitWorkflow(c, i, t)
                    \/ CancelWorkflow(c, i)
                    \/ \E s \in Terminal : ResolveUncertain(c, i, s)
  \/ InsertKnown(c) \/ InsertNew(c) \/ LookupWhenFull(c) \/ CheckHistory(c)
  \/ AdmitKnown(c) \/ AdmitNew(c) \/ Claim(c) \/ Apply(c) \/ ReadRecord(c)
  \/ Decide(c) \/ RejectOnDisk(c) \/ EmplaceGoal(c) \/ SendGoal(c)
  \/ AwaitResponse(c) \/ Settle(c) \/ TimeOut(c)
  \/ DispatchCancel(c) \/ CancelDispatched(c) \/ RequestCancel(c) \/ AnswerCancel(c)
  \/ ResolveOnDisk(c) \/ ResolveInMemory(c)

ClientNext ==
  \/ \E i \in Ids : GoalResponse(i) \/ \E o \in Outcomes \cup {"lost"} : ResultCallback(i, o)
  \/ AcceptedCallback \/ CallbackCancel \/ CallbackCancelDispatched
  \/ RefusedCallback \/ RefuseOnDisk \/ RefuseInMemory \/ ResultOnDisk

MainNext ==
  \/ StopAccepting \/ CancelActive \/ MainCancelDispatched \/ Drain \/ Exit
  \/ \E i \in Ids : MainCancel(i)

Next ==
  \/ \E c \in Calls : CallNext(c)
  \/ ClientNext \/ MainNext \/ Restart
  \/ \E i \in Ids : Expire(i)

Spec == Init /\ [][Next]_vars

-----------------------------------------------------------------------------
(* The variables have the types their code gives them. *)
TypeOK ==
  /\ memory \in [Ids -> [task: Tasks \cup {NoTask}, state: States]]
  /\ order \in Seq(Ids)
  /\ goals \in [Ids -> [there: BOOLEAN, task: Tasks \cup {NoTask}, handle: BOOLEAN,
                        cancelReq: BOOLEAN, cancelSent: BOOLEAN, cancelFailed: BOOLEAN]]
  /\ stopping \in BOOLEAN
  /\ call \in [Calls -> [pc: CallSteps, id: Ids \cup {NoId}, task: Tasks \cup {NoTask},
                         said: States \cup {"UNAVAILABLE", "DEADLINE"}]]
  /\ cb \in [pc: CallbackSteps, id: Ids \cup {NoId}, task: Tasks \cup {NoTask}, said: States]
  /\ main \in [pc: MainSteps, todo: SUBSET Ids, id: Ids \cup {NoId}]
  /\ flight \in [Ids -> {"none", "sent", "accepted", "refused", "ended"}]
  /\ ledger \in [Ids -> [task: Tasks \cup {NoTask}, state: Terminal \cup {"none", "ADMITTED"},
                         old: BOOLEAN]]
  /\ used \in [restarts: 0..MaxRestarts, expiries: 0..MaxExpiries,
               resolutions: 0..MaxResolutions, shutdowns: 0..MaxShutdowns]
  /\ sent \in [Ids -> Nat] /\ reclaimed \in [Ids -> Nat]
  /\ fate \in [Ids -> {"none", "asked", "running", "refused", "lost"} \cup Outcomes]
  /\ resolved \subseteq Ids /\ unsaved \subseteq Ids

(* A request reaches the orchestrator at most once, over duplicates,       *)
(* eviction from the registry, timeouts and restarts, and once more only   *)
(* after its finished row has left the ledger by age: "only the durable    *)
(* ledger can stop a replay from reaching the device".                     *)
AtMostOneDispatch == \A i \in Ids : sent[i] <= 1 + reclaimed[i]

(* A cancel that was wanted before or after the workflow was accepted, by  *)
(* a client, a timeout or a shutdown, is dispatched, or has failed, or a   *)
(* thread is about to dispatch it: none falls between the callback that    *)
(* stores the handle and the thread that looks for it.                     *)
Dispatching(i) ==
  \/ \E c \in Calls : At(c, "cancel") /\ Id(c) = i
  \/ cb.pc = "cancel" /\ cb.id = i
  \/ main.pc \in {"cancel", "canceling"} /\ i \in main.todo
NoCancelLost ==
  \A i \in Ids : goals[i].there /\ goals[i].handle /\ goals[i].cancelReq =>
    goals[i].cancelSent \/ goals[i].cancelFailed \/ Dispatching(i)

(* A terminal row of the ledger answers every later retry in place of the  *)
(* orchestrator.  Unless an operator wrote it, REJECTED never hides a      *)
(* workflow that may run, and the outcome of a row is the one that the     *)
(* orchestrator answered: no row is finished while its workflow is under   *)
(* way, over timeouts, failing writes, restarts and rows that age.         *)
(* One kind of row is no answer, and the third conjunct names it: the      *)
(* result callback looks at the outcome and not at the code of the result  *)
(* (gateway_service.cpp:431), so the empty result of a workflow whose end  *)
(* nobody knows makes the row COMPLETED, which is replayed as finished.    *)
(* The comments on unknown outcomes (durable_idempotency.hpp:26,           *)
(* durable_idempotency.cpp:47) want such a row left uncertain.             *)
RowsCarryTheAnswer ==
  \A i \in Ids \ resolved :
    /\ ledger[i].state = "REJECTED" => fate[i] \in {"none", "refused"}
    /\ ledger[i].state \in Outcomes /\ fate[i] # "lost" => fate[i] = ledger[i].state
    /\ ledger[i].state \in Outcomes /\ fate[i] = "lost" => ledger[i].state = "COMPLETED"

(* A workflow under way has a record that is not terminal and so is not    *)
(* evicted: cancel, duplicate and GetTask find it until the process ends.  *)
ActiveStaysVisible ==
  main.pc # "down" => \A i \in Ids \ resolved : goals[i].there =>
    Present(i) /\ memory[i].state \notin Terminal

(* Registry and ledger agree on a finished request once nobody works on    *)
(* it, unless its row could not be written or an operator wrote it.        *)
MemoryAgreesWithLedger ==
  \A i \in Ids \ (resolved \cup unsaved) :
    Quiet(i) /\ memory[i].state \in Terminal /\ ledger[i].state # "none" =>
      ledger[i].state = memory[i].state

(* A shutdown that drained leaves no workflow behind but those whose       *)
(* cancel it could not dispatch the first time, and none is sent           *)
(* afterwards by a handler that was let in before the intake was closed.   *)
ShutdownLeavesNoOrphan ==
  main.pc = "drained" => \A i \in Ids :
    flight[i] \in {"sent", "accepted"} => goals[i].there /\ (goals[i].cancelFailed \/ goals[i].cancelSent)

(* "an in-flight retry still reports its real state": an answer is never  *)
(* read from a record that is not there.                                   *)
EveryReadFindsItsRecord ==
  [][\A c \in Calls : ReadRecord(c) \/ Settle(c) => Present(Id(c))]_vars
=============================================================================
