------------------------- MODULE OrchestratorProofs -------------------------
(***************************************************************************)
(* Theorems about Orchestrator, for any number of workflows and            *)
(* exceptions: what a result tells of the task, that a late task is        *)
(* cancelled, and that the process leaves no live workflow behind.  They   *)
(* hold although the worker of one workflow may free the gate of the next. *)
(***************************************************************************)
EXTENDS Orchestrator, TLAPS

(* Where the worker has not settled its workflow, where it is halting the  *)
(* task, and a task whose end has not been decided.                        *)
Before  == Steps \ {"tail", "store", "ended"}
Halting == {"response", "cancel", "dispatch", "end"}
Undone  == TaskLive \cup {"requested"}

(* Who works on which workflow: the worker's, or one that a callback is    *)
(* about to hand to it, which nobody worked on before.                     *)
Placed ==
  /\ pc = "ended" => cur = NoGoal
  /\ pc # "ended" => cur \in Goals
  /\ cb.at \in {"claimed", "accepted", "dispatch"} => cb.for \in Goals
  /\ cb.at = "claimed" => wf[cb.for] = "unsent"
  /\ cb.at = "accepted" => wf[cb.for] \in Live /\ task[cb.for] = "none" /\ cb.for # cur
  /\ pc \in Before => wf[cur] \in Live
  /\ \A g \in Goals : wf[g] = "unsent" => task[g] = "none" /\ cur # g
  /\ pc \in {"loop", "tick"} /\ tree # "task" => task[cur] = "none"

(* A live workflow has a worker or is about to, and main has left neither  *)
(* behind when it destroys the node.                                       *)
Attended ==
  /\ \A g \in Goals : wf[g] \in Live => cur = g \/ cb = [at |-> "accepted", for |-> g]
  /\ main \in {"destroy", "exited"} => pc = "ended" /\ cb = Idle

(* What the callbacks noted of a task is true of it.                       *)
Noted ==
  \A g \in Goals :
    /\ child[g].result # "none" => task[g] = child[g].result
    /\ child[g].response # "none" => task[g] \notin {"none", "requested"}
    /\ child[g].response = "rejected" => task[g] = "refused"
    /\ child[g].sent => task[g] \notin {"none", "requested", "executing"}

(* The worker that halts the task says so first, and asks only a task that *)
(* was accepted to cancel.                                                 *)
Halts ==
  /\ pc \in Halting => child[cur].halt
  /\ pc \in {"cancel", "dispatch"} => child[cur].response = "accepted"
  /\ pc = "end" => child[cur].result # "none" \/ child[cur].sent
  /\ cb.at = "dispatch" => child[cb.for].response = "accepted"

(* A task that runs has a worker that watches or halts it, or its response *)
(* is still to come and will find the workflow halted, or the callback is  *)
(* sending the cancel.                                                     *)
Watched(g) == cur = g /\ pc \in {"loop", "tick", "response", "cancel", "dispatch"}
Chased ==
  \A g \in Goals : task[g] \in {"requested", "executing"} /\ faults = 0 =>
    \/ Watched(g)
    \/ child[g].halt /\ (child[g].response = "none" \/ cb = [at |-> "dispatch", for |-> g])

(* What the worker is about to report.                                     *)
InDoubt(r) == r.outcome = "SAFE_STOP" /\ r.code \notin {0, ErrPrecondition}
Grounded(r) ==
  /\ r.kind = "succeed"  => task[cur] = "COMPLETED"
  /\ r.kind = "canceled" => task[cur] \in {"none", "CANCELED"}
  /\ task[cur] \in Undone => r.kind \in {"abort", "reserve"} /\ InDoubt(r)
Reasoned ==
  /\ pc \in Halting => pend.kind \in {"finish", "reserve"}
  /\ pc \in Halting /\ pend.kind = "reserve" => InDoubt(pend)
  /\ pc = "finish" => pend.kind = "finish"
  /\ pc \in Halting \cup {"finish"} /\ pend.kind = "finish" =>
       wf[cur] = "canceling" \/ task[cur] \notin Undone
  /\ pc \in {"reserve", "commit"} => Grounded(pend)

(* The two clauses of ResultIsConfirmed that are about a node's own answer. *)
Confirmed ==
  \A g \in Goals :
    /\ wf[g] = "succeeded" => task[g] = "COMPLETED"
    /\ wf[g] = "canceled"  => task[g] \in {"none", "CANCELED"}

Inv ==
  /\ TypeOK /\ Placed /\ Attended /\ Noted /\ Halts /\ Chased /\ Reasoned
  /\ Confirmed /\ UnsettledTaskIsReported

(* Updates of a child's fields keep its type. *)
LEMMA ChildFields ==
  ASSUME NEW c \in [Goals -> Children], NEW g \in Goals
  PROVE  /\ [c EXCEPT ![g].halt = TRUE] \in [Goals -> Children]
         /\ [c EXCEPT ![g].sent = TRUE] \in [Goals -> Children]
         /\ [c EXCEPT ![g].timedOut = TRUE] \in [Goals -> Children]
         /\ [c EXCEPT ![g].result = "none", ![g].timedOut = FALSE] \in [Goals -> Children]
<1>1. c[g] \in Children
  OBVIOUS
<1>2. /\ [c[g] EXCEPT !.halt = TRUE] \in Children /\ [c[g] EXCEPT !.sent = TRUE] \in Children
      /\ [c[g] EXCEPT !.timedOut = TRUE] \in Children /\ [c[g] EXCEPT !.result = "none"] \in Children
      /\ [c[g] EXCEPT !.result = "none", !.timedOut = FALSE] \in Children
  BY <1>1 DEF Children
<1>3. /\ [c EXCEPT ![g].halt = TRUE] \in [Goals -> Children]
      /\ [c EXCEPT ![g].sent = TRUE] \in [Goals -> Children]
      /\ [c EXCEPT ![g].timedOut = TRUE] \in [Goals -> Children]
  BY <1>2
<1>4. [c EXCEPT ![g].result = "none", ![g].timedOut = FALSE]
        = [c EXCEPT ![g] = [c[g] EXCEPT !.result = "none", !.timedOut = FALSE]]
  OBVIOUS
<1> QED BY <1>2, <1>3, <1>4

(***************************************************************************)
(* The invariant, action by action: the callbacks of the server.           *)
(***************************************************************************)
LEMMA HandleGoalClaimInv ==
  ASSUME NEW g \in Goals, Inv, HandleGoalClaim(g)
  PROVE  Inv'
<1> USE DEF HandleGoalClaim, CanCallBack, Refuse, Open, KeepInCallback, workerVars, Inv
<1>1. TypeOK'
  <2>1. /\ child' \in [Goals -> Children]
        /\ task' \in [Goals -> {"none", "requested", "refused"} \cup TaskLive \cup TaskEnds]
        /\ pend' \in Commits
        /\ pc' \in Steps
        /\ tree' \in {"ready", "retry", "task"}
        /\ {gen', cur'} \subseteq Goals \cup {NoGoal}
        /\ expired' \subseteq Goals
        /\ broken' \subseteq Goals
        /\ faults' \in Nat
        /\ main' \in {"run", "drain", "recover", "join", "destroy", "exited", "killed"}
        /\ wf' \in [Goals -> {"unsent", "refused"} \cup Live \cup Settled]
        /\ {active', accepted', reserved', failed'} \subseteq BOOLEAN
    BY DEF TypeOK
  <2>2. cb' \in [at: Marks, for: Goals \cup {NoGoal}]
    BY DEF TypeOK, Marks
  <2> QED
    BY <2>1, <2>2 DEF TypeOK
<1>2. Noted'
  BY DEF Noted
<1>3. Placed'
  BY DEF Placed, Before, Live, TypeOK, Idle
<1>4. Attended'
  BY DEF Attended, Live, Idle, TypeOK, Settled, TaskLive, TaskEnds
<1>5. Halts'
  BY DEF Halts, Halting
<1>6. Chased'
  BY DEF Chased, Watched, TypeOK, Live, Settled, TaskLive, TaskEnds, Idle
<1>7. Reasoned'
  BY DEF Reasoned, Grounded, InDoubt, Halting, Undone, TypeOK, Placed
<1>8. Confirmed'
  BY DEF Confirmed, TypeOK
<1>9. UnsettledTaskIsReported'
  BY DEF UnsettledTaskIsReported, TypeOK, Settled
<1> QED
  BY <1>1, <1>2, <1>3, <1>4, <1>5, <1>6, <1>7, <1>8, <1>9 DEF Inv

LEMMA HandleGoalAdmitInv ==
  ASSUME Inv, HandleGoalAdmit
  PROVE  Inv'
<1> USE DEF HandleGoalAdmit, Open, Refuse, KeepInCallback, workerVars, Inv
<1>1. TypeOK'
  <2>1. /\ child' \in [Goals -> Children]
        /\ task' \in [Goals -> {"none", "requested", "refused"} \cup TaskLive \cup TaskEnds]
        /\ pend' \in Commits
        /\ pc' \in Steps
        /\ tree' \in {"ready", "retry", "task"}
        /\ expired' \subseteq Goals
        /\ faults' \in Nat
        /\ main' \in {"run", "drain", "recover", "join", "destroy", "exited", "killed"}
        /\ {active', accepted', reserved', failed'} \subseteq BOOLEAN
        /\ {gen', cur'} \subseteq Goals \cup {NoGoal}
    BY DEF TypeOK
  <2>2. wf' \in [Goals -> {"unsent", "refused"} \cup Live \cup Settled]
    BY DEF TypeOK, Live
  <2>3. cb' \in [at: Marks, for: Goals \cup {NoGoal}]
    BY DEF TypeOK, Idle, Marks
  <2>4. broken' \subseteq Goals
    BY DEF TypeOK, Together, Placed
  <2> QED
    BY <2>1, <2>2, <2>3, <2>4 DEF TypeOK
<1>2. Noted'
  BY DEF Noted
<1>3. Placed'
  BY DEF Placed, Before, Live, TypeOK, Idle
<1>4. Attended'
  BY DEF Attended, Live, Idle, TypeOK
<1>5. Halts'
  BY DEF Halts, Halting, TypeOK, Idle
<1>6. Chased'
  BY DEF Chased, Watched
<1>7. Reasoned'
  BY DEF Reasoned, Grounded, InDoubt, Halting, Undone, TypeOK, Placed
<1>8. Confirmed'
  BY DEF Confirmed, TypeOK
<1>9. UnsettledTaskIsReported'
  BY DEF UnsettledTaskIsReported, TypeOK, Settled
<1> QED
  BY <1>1, <1>2, <1>3, <1>4, <1>5, <1>6, <1>7, <1>8, <1>9 DEF Inv

LEMMA HandleAcceptedInv ==
  ASSUME Inv, HandleAccepted
  PROVE  Inv'
<1> USE DEF HandleAccepted, gateVars, Inv
<1>1. TypeOK'
  BY DEF TypeOK, Idle, Steps, Marks
<1>2. Noted' /\ Confirmed'
  BY DEF Noted, Confirmed
<1>3. Placed'
  BY DEF Placed, Before, Live, Idle
<1>4. Attended'
  BY OrchestratorAssumption DEF Attended, Live, Idle, Placed
<1>5. Halts'
  BY DEF Halts, Halting, Idle
<1>6. Chased'
  BY DEF Chased, Watched
<1>7. Reasoned'
  BY DEF Reasoned, Grounded, InDoubt, Halting, Undone
<1>8. UnsettledTaskIsReported'
  BY DEF UnsettledTaskIsReported, TaskLive, Placed
<1> QED
  BY <1>1, <1>2, <1>3, <1>4, <1>5, <1>6, <1>7, <1>8 DEF Inv

LEMMA HandleCancelInv ==
  ASSUME NEW g \in Goals, Inv, HandleCancel(g)
  PROVE  Inv'
<1> USE DEF HandleCancel, CanCallBack, KeepInCallback, workerVars, Inv
<1>1. TypeOK'
  BY DEF TypeOK, Marks
<1>2. Noted' /\ Reasoned' /\ Confirmed' /\ UnsettledTaskIsReported'
  BY DEF Noted, Reasoned, Grounded, InDoubt, Halting, Undone, Confirmed,
      UnsettledTaskIsReported
<1>3. Placed'
  BY DEF Placed, Before, Live
<1>4. Attended'
  BY DEF Attended, Live, Idle
<1>5. Halts'
  BY DEF Halts, Halting
<1>6. Chased'
  BY DEF Chased, Watched, Idle
<1> QED
  BY <1>1, <1>2, <1>3, <1>4, <1>5, <1>6 DEF Inv

LEMMA CancelTransitionInv ==
  ASSUME Inv, CancelTransition
  PROVE  Inv'
<1> USE DEF CancelTransition, KeepInCallback, gateVars, workerVars, Inv
<1>1. TypeOK'
  <2>1. /\ child' \in [Goals -> Children]
        /\ task' \in [Goals -> {"none", "requested", "refused"} \cup TaskLive \cup TaskEnds]
        /\ pend' \in Commits
        /\ pc' \in Steps
        /\ tree' \in {"ready", "retry", "task"}
        /\ {active', accepted', reserved', failed'} \subseteq BOOLEAN
        /\ {gen', cur'} \subseteq Goals \cup {NoGoal}
        /\ expired' \subseteq Goals
        /\ broken' \subseteq Goals
        /\ faults' \in Nat
        /\ main' \in {"run", "drain", "recover", "join", "destroy", "exited", "killed"}
    BY DEF TypeOK
  <2>2. wf' \in [Goals -> {"unsent", "refused"} \cup Live \cup Settled]
    BY DEF TypeOK, Live, Settled, TaskLive, TaskEnds, Idle
  <2>3. cb' \in [at: Marks, for: Goals \cup {NoGoal}]
    BY DEF TypeOK, Idle, Marks
  <2> QED
    BY <2>1, <2>2, <2>3 DEF TypeOK
<1>2. Noted'
  BY DEF Noted
<1>3. Placed'
  BY DEF Placed, Before, Live, Idle
<1>4. Attended'
  BY DEF Attended, Live, Idle
<1>5. Halts'
  BY DEF Halts, Halting, Idle
<1>6. Chased'
  BY DEF Chased, Watched
<1>7. Reasoned'
  BY DEF Reasoned, Grounded, InDoubt, Halting, Undone
<1>8. Confirmed'
  BY DEF Confirmed
<1>9. UnsettledTaskIsReported'
  BY DEF UnsettledTaskIsReported, Settled
<1> QED
  BY <1>1, <1>2, <1>3, <1>4, <1>5, <1>6, <1>7, <1>8, <1>9 DEF Inv

(***************************************************************************)
(* The child task and its callbacks.                                       *)
(***************************************************************************)
LEMMA GoalResponseInv ==
  ASSUME NEW g \in Goals, Inv, GoalResponse(g)
  PROVE  Inv'
<1> USE DEF GoalResponse, CanCallBack, LateCancel, KeepInCallback, InFlight, gateVars,
      workerVars, Inv
<1>1. TypeOK'
  BY DEF TypeOK, Noted, Children, Marks
<1>2. Reasoned' /\ Confirmed' /\ UnsettledTaskIsReported'
  BY DEF Reasoned, Grounded, InDoubt, Halting, Undone, Confirmed,
      UnsettledTaskIsReported
<1>3. Placed'
  BY DEF Placed, Before, Live
<1>4. Attended'
  BY DEF Attended, Live, Idle
<1>5. Noted'
  BY DEF Noted
<1>6. Halts'
  BY DEF Halts, Halting, TypeOK
<1>7. Chased'
  BY DEF Chased, Watched, Idle, Noted
<1> QED
  BY <1>1, <1>2, <1>3, <1>4, <1>5, <1>6, <1>7 DEF Inv

LEMMA LateDispatchInv ==
  ASSUME Inv, LateDispatch
  PROVE  Inv'
<1>1. child' \in [Goals -> Children]
  <2>1. cb.for \in Goals
    BY DEF LateDispatch, Inv, Placed
  <2>2. child \in [Goals -> Children]
    BY DEF Inv, TypeOK
  <2>3. child' = child
          \/ child' = [child EXCEPT ![cb.for].sent = TRUE]
    BY DEF LateDispatch, DispatchCancel, Throw, KeepInCallback
  <2>4. [child EXCEPT ![cb.for].sent = TRUE] \in [Goals -> Children]
    BY <2>1, <2>2, ChildFields, Zenon
  <2> QED  BY <2>2, <2>3, <2>4, Zenon
<1> USE DEF LateDispatch, DispatchCancel, KeepInCallback, Throw, gateVars, workerVars, Inv
<1>2. TypeOK'
  <2>1. /\ wf' \in [Goals -> {"unsent", "refused"} \cup Live \cup Settled]
        /\ pend' \in Commits
        /\ pc' \in Steps
        /\ tree' \in {"ready", "retry", "task"}
        /\ {active', accepted', reserved', failed'} \subseteq BOOLEAN
        /\ {gen', cur'} \subseteq Goals \cup {NoGoal}
        /\ expired' \subseteq Goals
        /\ broken' \subseteq Goals
        /\ faults' \in Nat
        /\ main' \in {"run", "drain", "recover", "join", "destroy", "exited", "killed"}
    BY DEF TypeOK
  <2>2. task' \in [Goals -> {"none", "requested", "refused"} \cup TaskLive \cup TaskEnds]
    BY DEF TypeOK, TaskLive
  <2>3. cb' \in [at: Marks, for: Goals \cup {NoGoal}]
    BY DEF TypeOK, Idle, Marks
  <2> QED
    BY <1>1, <2>1, <2>2, <2>3 DEF TypeOK
<1>3. Placed'
  BY DEF Placed, Before, Live, TypeOK, Idle
<1>4. Attended'
  BY DEF Attended, Live, Idle
<1>5. Noted'
  BY DEF Noted, TypeOK, TaskEnds, Halts, Children
<1>6. Halts'
  BY DEF Halts, Halting, TypeOK, TaskEnds, Idle, Placed, Before, Undone, Steps, Noted, Reasoned,
      Grounded, InDoubt, Children, Chased, Watched, Confirmed, UnsettledTaskIsReported
<1>7. Chased'
  BY DEF Chased, Watched, TypeOK, Noted, Children
<1>8. Reasoned'
  BY DEF Reasoned, Grounded, InDoubt, Halting, Undone, TypeOK, TaskEnds, Placed
<1>9. Confirmed'
  BY DEF Confirmed, TypeOK
<1>10. UnsettledTaskIsReported'
  BY DEF UnsettledTaskIsReported, TypeOK, TaskEnds
<1> QED
  BY <1>2, <1>3, <1>4, <1>5, <1>6, <1>7, <1>8, <1>9, <1>10 DEF Inv

LEMMA ResultCallbackInv ==
  ASSUME NEW g \in Goals, Inv, ResultCallback(g)
  PROVE  Inv'
<1> USE DEF ResultCallback, CanCallBack, KeepInCallback, gateVars, workerVars, Inv
<1>1. TypeOK'
  BY DEF TypeOK, Children
<1>2. /\ Placed'
      /\ Attended'
      /\ Reasoned'
      /\ Confirmed'
      /\ UnsettledTaskIsReported'
  BY DEF Placed, Before, Live, Attended, Idle, Reasoned, Grounded, InDoubt, Halting, Undone,
      Confirmed, UnsettledTaskIsReported
<1>3. Noted'
  BY DEF Noted
<1>4. Halts'
  BY DEF Halts, Halting
<1>5. Chased'
  BY DEF Chased, Watched
<1> QED
  BY <1>1, <1>2, <1>3, <1>4, <1>5 DEF Inv

LEMMA TaskStepInv ==
  ASSUME NEW g \in Goals, Inv, TaskStep(g)
  PROVE  Inv'
<1> USE DEF TaskStep, gateVars, workerVars, Inv
<1>1. TypeOK'
  <2>1. /\ wf' \in [Goals -> {"unsent", "refused"} \cup Live \cup Settled]
        /\ child' \in [Goals -> Children]
        /\ pend' \in Commits
        /\ pc' \in Steps
        /\ tree' \in {"ready", "retry", "task"}
        /\ cb' \in [at: Marks, for: Goals \cup {NoGoal}]
        /\ {active', accepted', reserved', failed'} \subseteq BOOLEAN
        /\ {gen', cur'} \subseteq Goals \cup {NoGoal}
        /\ expired' \subseteq Goals
        /\ broken' \subseteq Goals
        /\ faults' \in Nat
        /\ main' \in {"run", "drain", "recover", "join", "destroy", "exited", "killed"}
    BY DEF TypeOK
  <2>2. task' \in [Goals -> {"none", "requested", "refused"} \cup TaskLive \cup TaskEnds]
    BY DEF TypeOK, TaskLive, TaskEnds
  <2> QED
    BY <2>1, <2>2 DEF TypeOK
<1>2. Attended' /\ Halts'
  BY DEF Attended, Live, Idle, Halts, Halting
<1>3. Placed'
  BY DEF Placed, Before, Live, TypeOK, TaskLive
<1>4. Noted'
  BY DEF Noted, TypeOK, TaskLive, TaskEnds, Children
<1>5. Chased'
  BY DEF Chased, Watched, TypeOK
<1>6. Reasoned'
  BY DEF Reasoned, Grounded, InDoubt, Halting, Undone, TypeOK, TaskEnds, Placed
<1>7. Confirmed'
  BY DEF Confirmed, TypeOK, TaskLive
<1>8. UnsettledTaskIsReported'
  BY DEF UnsettledTaskIsReported, TypeOK, TaskEnds
<1> QED
  BY <1>1, <1>2, <1>3, <1>4, <1>5, <1>6, <1>7, <1>8 DEF Inv

(***************************************************************************)
(* The worker in the loop; Tick has one lemma for each of its cases.       *)
(***************************************************************************)
LEMMA LoopTopInv ==
  ASSUME Inv, LoopTop
  PROVE  Inv'
<1>1. child' \in [Goals -> Children]
  <2>1. cur \in Goals
    BY DEF LoopTop, Inv, Placed
  <2>2. child \in [Goals -> Children]
    BY DEF Inv, TypeOK
  <2>3. child' = child
          \/ child' = [child EXCEPT ![cur].halt = TRUE]
    BY DEF LoopTop, Halt, Abort, ToFinish, Canceling, KeepOthers, Working, Open
  <2>4. [child EXCEPT ![cur].halt = TRUE] \in [Goals -> Children]
    BY <2>1, <2>2, ChildFields, Zenon
  <2> QED  BY <2>2, <2>3, <2>4, Zenon
<1> USE DEF LoopTop, Working, Open, Halt, Abort, Canceling, ToFinish, KeepOthers, gateVars, Inv
<1>2. TypeOK'
  <2>1. /\ wf' \in [Goals -> {"unsent", "refused"} \cup Live \cup Settled]
        /\ task' \in [Goals -> {"none", "requested", "refused"} \cup TaskLive \cup TaskEnds]
        /\ cb' \in [at: Marks, for: Goals \cup {NoGoal}]
        /\ {active', accepted', reserved', failed'} \subseteq BOOLEAN
        /\ {gen', cur'} \subseteq Goals \cup {NoGoal}
        /\ expired' \subseteq Goals
        /\ broken' \subseteq Goals
        /\ faults' \in Nat
        /\ main' \in {"run", "drain", "recover", "join", "destroy", "exited", "killed"}
    BY DEF TypeOK
  <2>2. pend' \in Commits
    BY DEF TypeOK, Outcomes, Codes, Commit, Commits, ErrShutdown, ErrDeadline
  <2>3. pc' \in Steps /\ tree' \in {"ready", "retry", "task"}
    BY DEF TypeOK, Steps, Commit
  <2> QED
    BY <1>1, <2>1, <2>2, <2>3 DEF TypeOK
<1>3. Confirmed'
  BY DEF Confirmed
<1>4. Placed'
  BY DEF Placed, Before, Live, TypeOK, Commit
<1>5. Attended'
  BY DEF Attended, Live, Idle
<1>6. Noted'
  <2>1. \A g \in Goals : /\ child'[g].result = child[g].result
                         /\ child'[g].response = child[g].response
                         /\ child'[g].sent = child[g].sent
    BY DEF TypeOK, Children
  <2> QED
    BY <2>1 DEF Noted
<1>7. Halts'
  BY DEF Halts, Halting, TypeOK, Placed, Commit, Children
<1>8. Chased'
  BY DEF Chased, Watched, TypeOK, Placed
<1>9. Reasoned'
  BY DEF Reasoned, Grounded, InDoubt, Halting, Undone, Commit, ErrShutdown, ErrPrecondition,
      ErrDeadline
<1>10. UnsettledTaskIsReported'
  BY DEF UnsettledTaskIsReported, TypeOK, Live, Settled, Placed, Before
<1> QED
  BY <1>2, <1>3, <1>4, <1>5, <1>6, <1>7, <1>8, <1>9, <1>10 DEF Inv

LEMMA TickThrowsInv ==
  ASSUME Inv, TickThrows
  PROVE  Inv'
<1>1. child' \in [Goals -> Children]
  <2>1. cur \in Goals
    BY DEF TickThrows, Inv, Placed
  <2>2. child \in [Goals -> Children]
    BY DEF Inv, TypeOK
  <2>3. child' = child
          \/ child' = [child EXCEPT ![cur].halt = TRUE]
    BY DEF TickThrows, Halt, Abort, KeepOthers, Throw, Working
  <2>4. [child EXCEPT ![cur].halt = TRUE] \in [Goals -> Children]
    BY <2>1, <2>2, ChildFields, Zenon
  <2> QED  BY <2>2, <2>3, <2>4, Zenon
<1> USE DEF TickThrows, Throw, Working, Halt, Abort, KeepOthers, gateVars, Inv
<1>2. TypeOK'
  <2>1. /\ wf' \in [Goals -> {"unsent", "refused"} \cup Live \cup Settled]
        /\ task' \in [Goals -> {"none", "requested", "refused"} \cup TaskLive \cup TaskEnds]
        /\ cb' \in [at: Marks, for: Goals \cup {NoGoal}]
        /\ {active', accepted', reserved', failed'} \subseteq BOOLEAN
        /\ {gen', cur'} \subseteq Goals \cup {NoGoal}
        /\ expired' \subseteq Goals
        /\ broken' \subseteq Goals
        /\ faults' \in Nat
        /\ main' \in {"run", "drain", "recover", "join", "destroy", "exited", "killed"}
    BY DEF TypeOK
  <2>2. pend' \in Commits
    BY DEF TypeOK, Outcomes, Codes, Commit, Commits, ErrShutdown, ErrInternal, ErrDeadline
  <2>3. pc' \in Steps /\ tree' \in {"ready", "retry", "task"}
    BY DEF TypeOK, Steps, Commit
  <2> QED
    BY <1>1, <2>1, <2>2, <2>3 DEF TypeOK
<1>3. Confirmed'
  BY DEF Confirmed
<1>4. Placed'
  BY DEF Placed, Before, Live, TypeOK, Commit
<1>5. Attended'
  BY DEF Attended, Live, Idle
<1>6. Noted'
  BY DEF Noted, TypeOK, Halts, Children, Marks
<1>7. Halts'
  BY DEF Halts, Halting, TypeOK, Placed, Commit, Children
<1>8. Chased'
  BY DEF Chased, Watched, TypeOK
<1>9. Reasoned'
  BY DEF Reasoned, Grounded, InDoubt, Halting, Undone, Commit, ErrPrecondition, ErrInternal
<1>10. UnsettledTaskIsReported'
  BY DEF UnsettledTaskIsReported, TypeOK, Live, Settled, Placed, Before
<1> QED
  BY <1>2, <1>3, <1>4, <1>5, <1>6, <1>7, <1>8, <1>9, <1>10 DEF Inv

LEMMA CheckReadyInv ==
  ASSUME Inv, pc = "tick", CheckReady, UNCHANGED faults, KeepOthers
  PROVE  Inv'
<1> USE DEF CheckReady, TreeEnds, TreeRuns, Abort, ToFinish, KeepOthers, gateVars, Inv
<1>1. TypeOK'
  BY DEF TypeOK, Steps, Outcomes, Codes, Commit, Commits, ErrShutdown, ErrDeadline
<1>2. Noted' /\ Confirmed'
  BY DEF Noted, Confirmed
<1>3. Placed'
  BY DEF Placed, Before, Live, TypeOK, Commit
<1>4. Attended'
  BY DEF Attended, Live, Idle
<1>5. Halts'
  BY DEF Halts, Halting, Commit
<1>6. Chased'
  BY DEF Chased, Watched, Placed
<1>7. Reasoned'
  BY DEF Reasoned, Grounded, InDoubt, Halting, Undone, TaskLive, Placed, Commit
<1>8. UnsettledTaskIsReported'
  BY DEF UnsettledTaskIsReported, TaskLive, Placed
<1> QED
  BY <1>1, <1>2, <1>3, <1>4, <1>5, <1>6, <1>7, <1>8 DEF Inv

LEMMA StartTaskInv ==
  ASSUME Inv, pc = "tick", StartTask, UNCHANGED faults, KeepOthers
  PROVE  Inv'
<1> USE DEF StartTask, KeepOthers, gateVars, Inv
<1>1. TypeOK'
  BY DEF TypeOK, Placed, Steps
<1>2. Placed'
  BY DEF Placed, Before, Live, TypeOK
<1>3. Attended'
  BY DEF Attended, Live, Idle
<1>4. Noted'
  BY DEF Noted, Placed
<1>5. Halts'
  BY DEF Halts, Halting
<1>6. Chased'
  BY DEF Chased, Watched
<1>7. Reasoned'
  BY DEF Reasoned, Grounded, InDoubt, Halting, Undone
<1>8. Confirmed'
  BY DEF Confirmed, TypeOK, Live, Placed, Before
<1>9. UnsettledTaskIsReported'
  BY DEF UnsettledTaskIsReported, TypeOK, Live, Settled, Placed, Before
<1> QED
  BY <1>1, <1>2, <1>3, <1>4, <1>5, <1>6, <1>7, <1>8, <1>9 DEF Inv

LEMMA WatchTaskInv ==
  ASSUME Inv, pc = "tick", WatchTask, UNCHANGED faults, KeepOthers
  PROVE  Inv'
<1> USE DEF WatchTask, Child, TreeEnds, TreeRuns, Abort, ToFinish, KeepOthers, gateVars, Inv
<1>1. TypeOK'
  BY DEF TypeOK, Steps, Outcomes, Codes, Commit, Commits, ErrShutdown, ErrDeadline
<1>2. Noted' /\ Confirmed'
  BY DEF Noted, Confirmed
<1>3. Placed'
  BY DEF Placed, Before, Live, TypeOK, Commit
<1>4. Attended'
  BY DEF Attended, Live, Idle
<1>5. Halts'
  BY DEF Halts, Halting, Commit
<1>6. Chased'
  BY DEF Chased, Watched, TypeOK, TaskEnds, Noted, Children
<1>7. Reasoned'
  BY DEF Reasoned, Grounded, InDoubt, Halting, Undone, TypeOK, TaskLive, TaskEnds, Placed,
      Noted, Commit, Children
<1>8. UnsettledTaskIsReported'
  BY DEF UnsettledTaskIsReported, TypeOK, Live, Settled, Placed, Before
<1> QED
  BY <1>1, <1>2, <1>3, <1>4, <1>5, <1>6, <1>7, <1>8 DEF Inv

LEMMA StartThrowsInv ==
  ASSUME Inv, StartThrows
  PROVE  Inv'
<1> USE DEF StartThrows, Throw, Working, Abort, KeepOthers, gateVars, Inv
<1>1. TypeOK'
  BY DEF TypeOK, Steps, Outcomes, Codes, Commit, Commits, ErrShutdown, ErrInternal, ErrDeadline
<1>2. Noted' /\ Confirmed'
  BY DEF Noted, Confirmed
<1>3. Placed'
  BY DEF Placed, Before, Live, TypeOK
<1>4. Attended'
  BY DEF Attended, Live, Idle
<1>5. Halts'
  BY DEF Halts, Halting
<1>6. Chased'
  BY DEF Chased, Watched, TypeOK
<1>7. Reasoned'
  BY DEF Reasoned, Grounded, InDoubt, Halting, Undone, Commit, ErrPrecondition, ErrInternal
<1>8. UnsettledTaskIsReported'
  BY DEF UnsettledTaskIsReported, TaskLive, Placed
<1> QED
  BY <1>1, <1>2, <1>3, <1>4, <1>5, <1>6, <1>7, <1>8 DEF Inv

(***************************************************************************)
(* The worker in onHalted.                                                 *)
(***************************************************************************)
LEMMA AwaitResponseInv ==
  ASSUME Inv, AwaitResponse
  PROVE  Inv'
<1>1. child' \in [Goals -> Children]
  <2>1. cur \in Goals
    BY DEF AwaitResponse, Inv, Placed
  <2>2. child \in [Goals -> Children]
    BY DEF Inv, TypeOK
  <2>3. child' = child
          \/ child' = [child EXCEPT ![cur].timedOut = TRUE]
    BY DEF AwaitResponse, HaltTimesOut, HaltDone, Child, KeepOthers, Working
  <2>4. [child EXCEPT ![cur].timedOut = TRUE] \in [Goals -> Children]
    BY <2>1, <2>2, ChildFields, Zenon
  <2> QED  BY <2>2, <2>3, <2>4, Zenon
<1> USE DEF AwaitResponse, Working, Child, HaltTimesOut, HaltDone, KeepOthers, gateVars, Inv
<1>2. TypeOK'
  <2>1. /\ wf' \in [Goals -> {"unsent", "refused"} \cup Live \cup Settled]
        /\ task' \in [Goals -> {"none", "requested", "refused"} \cup TaskLive \cup TaskEnds]
        /\ pend' \in Commits
        /\ cb' \in [at: Marks, for: Goals \cup {NoGoal}]
        /\ {active', accepted', reserved', failed'} \subseteq BOOLEAN
        /\ {gen', cur'} \subseteq Goals \cup {NoGoal}
        /\ expired' \subseteq Goals
        /\ broken' \subseteq Goals
        /\ faults' \in Nat
        /\ main' \in {"run", "drain", "recover", "join", "destroy", "exited", "killed"}
    BY DEF TypeOK
  <2>2. pc' \in Steps /\ tree' \in {"ready", "retry", "task"}
    BY DEF TypeOK, Halting, Steps, Reasoned, Grounded, InDoubt
  <2> QED
    BY <1>1, <2>1, <2>2 DEF TypeOK
<1>3. Confirmed' /\ UnsettledTaskIsReported'
  BY DEF Confirmed, UnsettledTaskIsReported
<1>4. Placed'
  BY DEF Placed, Before, Live, TypeOK, Commits
<1>5. Attended'
  BY DEF Attended, Live, Idle
<1>6. Noted'
  BY DEF Noted, TypeOK, TaskEnds, Children
<1>7. Halts'
  BY DEF Halts, Halting, TypeOK, Placed, Commits
<1>8. Chased'
  BY DEF Chased, Watched, TypeOK, Settled, TaskEnds, Halting, Steps, Noted, Halts, Children,
      Marks
<1>9. Reasoned'
  BY DEF Reasoned, Grounded, InDoubt, Halting, Undone
<1> QED
  BY <1>2, <1>3, <1>4, <1>5, <1>6, <1>7, <1>8, <1>9 DEF Inv

LEMMA CancelTaskInv ==
  ASSUME Inv, CancelTask
  PROVE  Inv'
<1>1. child' \in [Goals -> Children]
  <2>1. cur \in Goals
    BY DEF CancelTask, Inv, Placed
  <2>2. child \in [Goals -> Children]
    BY DEF Inv, TypeOK
  <2>3. child' = child
          \/ child' = [child EXCEPT ![cur].timedOut = TRUE]
    BY DEF CancelTask, HaltTimesOut, HaltDone, Child, InFlight, Waited, KeepOthers, Working
  <2>4. [child EXCEPT ![cur].timedOut = TRUE] \in [Goals -> Children]
    BY <2>1, <2>2, ChildFields, Zenon
  <2> QED  BY <2>2, <2>3, <2>4, Zenon
<1> USE DEF CancelTask, Working, Child, InFlight, Waited, HaltTimesOut, KeepOthers, gateVars,
      Inv
<1>2. TypeOK'
  <2>1. /\ wf' \in [Goals -> {"unsent", "refused"} \cup Live \cup Settled]
        /\ task' \in [Goals -> {"none", "requested", "refused"} \cup TaskLive \cup TaskEnds]
        /\ pend' \in Commits
        /\ cb' \in [at: Marks, for: Goals \cup {NoGoal}]
        /\ {active', accepted', reserved', failed'} \subseteq BOOLEAN
        /\ {gen', cur'} \subseteq Goals \cup {NoGoal}
        /\ expired' \subseteq Goals
        /\ broken' \subseteq Goals
        /\ faults' \in Nat
        /\ main' \in {"run", "drain", "recover", "join", "destroy", "exited", "killed"}
    BY DEF TypeOK
  <2>2. pc' \in Steps /\ tree' \in {"ready", "retry", "task"}
    BY DEF TypeOK, Halting, Steps, Reasoned, Grounded, InDoubt
  <2> QED
    BY <1>1, <2>1, <2>2 DEF TypeOK
<1>3. Confirmed' /\ UnsettledTaskIsReported'
  BY DEF Confirmed, UnsettledTaskIsReported
<1>4. Placed'
  BY DEF Placed, Before, Live, TypeOK, Commits
<1>5. Attended'
  BY DEF Attended, Live, Idle
<1>6. Noted'
  BY DEF Noted, TypeOK, Children
<1>7. Halts'
  BY DEF Halts, Halting, TypeOK, Placed, Commits, Children
<1>8. Chased'
  BY DEF Chased, Watched, TypeOK, TaskEnds, Halting, Noted, Halts, Children
<1>9. Reasoned'
  BY DEF Reasoned, Grounded, InDoubt, Halting, Undone
<1> QED
  BY <1>2, <1>3, <1>4, <1>5, <1>6, <1>7, <1>8, <1>9 DEF Inv

LEMMA WorkerDispatchInv ==
  ASSUME Inv, WorkerDispatch
  PROVE  Inv'
<1>1. child' \in [Goals -> Children]
  <2>1. cur \in Goals
    BY DEF WorkerDispatch, Inv, Placed
  <2>2. child \in [Goals -> Children]
    BY DEF Inv, TypeOK
  <2>3. child' = child
          \/ child' = [child EXCEPT ![cur].sent = TRUE]
    BY DEF WorkerDispatch, DispatchCancel, Throw, KeepOthers, Working
  <2>4. [child EXCEPT ![cur].sent = TRUE] \in [Goals -> Children]
    BY <2>1, <2>2, ChildFields, Zenon
  <2> QED  BY <2>2, <2>3, <2>4, Zenon
<1> USE DEF WorkerDispatch, Working, DispatchCancel, KeepOthers, Throw, gateVars, Inv
<1>2. TypeOK'
  <2>1. /\ wf' \in [Goals -> {"unsent", "refused"} \cup Live \cup Settled]
        /\ pend' \in Commits
        /\ cb' \in [at: Marks, for: Goals \cup {NoGoal}]
        /\ {active', accepted', reserved', failed'} \subseteq BOOLEAN
        /\ {gen', cur'} \subseteq Goals \cup {NoGoal}
        /\ expired' \subseteq Goals
        /\ broken' \subseteq Goals
        /\ faults' \in Nat
        /\ main' \in {"run", "drain", "recover", "join", "destroy", "exited", "killed"}
    BY DEF TypeOK
  <2>2. task' \in [Goals -> {"none", "requested", "refused"} \cup TaskLive \cup TaskEnds]
    BY DEF TypeOK, TaskLive
  <2>3. pc' \in Steps /\ tree' \in {"ready", "retry", "task"}
    BY DEF TypeOK, Steps
  <2> QED
    BY <1>1, <2>1, <2>2, <2>3 DEF TypeOK
<1>3. Placed'
  BY DEF Placed, Before, Live, TypeOK
<1>4. Attended'
  BY DEF Attended, Live, Idle
<1>5. Noted'
  BY DEF Noted, TypeOK, TaskEnds, Halts, Children
<1>6. Halts'
  BY DEF Halts, Halting, TypeOK, Placed, Children
<1>7. Chased'
  BY DEF Chased, Watched, TypeOK
<1>8. Reasoned'
  BY DEF Reasoned, Grounded, InDoubt, Halting, Undone, TypeOK, TaskEnds
<1>9. Confirmed'
  BY DEF Confirmed, TypeOK
<1>10. UnsettledTaskIsReported'
  BY DEF UnsettledTaskIsReported, TypeOK, TaskEnds
<1> QED
  BY <1>2, <1>3, <1>4, <1>5, <1>6, <1>7, <1>8, <1>9, <1>10 DEF Inv

LEMMA AwaitTaskEndInv ==
  ASSUME Inv, AwaitTaskEnd
  PROVE  Inv'
<1>1. child' \in [Goals -> Children]
  <2>1. cur \in Goals
    BY DEF AwaitTaskEnd, Inv, Placed
  <2>2. child \in [Goals -> Children]
    BY DEF Inv, TypeOK
  <2>3. child' = child
          \/ child' = [child EXCEPT ![cur].timedOut = TRUE]
    BY DEF AwaitTaskEnd, HaltTimesOut, HaltDone, Child, KeepOthers, Working
  <2>4. [child EXCEPT ![cur].timedOut = TRUE] \in [Goals -> Children]
    BY <2>1, <2>2, ChildFields, Zenon
  <2> QED  BY <2>2, <2>3, <2>4, Zenon
<1> USE DEF AwaitTaskEnd, Working, Child, HaltDone, HaltTimesOut, KeepOthers, gateVars, Inv
<1>2. TypeOK'
  <2>1. /\ wf' \in [Goals -> {"unsent", "refused"} \cup Live \cup Settled]
        /\ task' \in [Goals -> {"none", "requested", "refused"} \cup TaskLive \cup TaskEnds]
        /\ pend' \in Commits
        /\ cb' \in [at: Marks, for: Goals \cup {NoGoal}]
        /\ {active', accepted', reserved', failed'} \subseteq BOOLEAN
        /\ {gen', cur'} \subseteq Goals \cup {NoGoal}
        /\ expired' \subseteq Goals
        /\ broken' \subseteq Goals
        /\ faults' \in Nat
        /\ main' \in {"run", "drain", "recover", "join", "destroy", "exited", "killed"}
    BY DEF TypeOK
  <2>2. pc' \in Steps /\ tree' \in {"ready", "retry", "task"}
    BY DEF TypeOK, Halting, Steps, Reasoned, Grounded, InDoubt
  <2> QED
    BY <1>1, <2>1, <2>2 DEF TypeOK
<1>3. Confirmed' /\ UnsettledTaskIsReported'
  BY DEF Confirmed, UnsettledTaskIsReported
<1>4. Placed'
  BY DEF Placed, Before, Live, TypeOK, Commits
<1>5. Attended'
  BY DEF Attended, Live, Idle
<1>6. Noted'
  BY DEF Noted, TypeOK, Children
<1>7. Halts'
  BY DEF Halts, Halting, TypeOK, Placed, Commits, Children
<1>8. Chased'
  BY DEF Chased, Watched, TypeOK, Children
<1>9. Reasoned'
  BY DEF Reasoned, Grounded, InDoubt, Halting, Undone
<1> QED
  BY <1>2, <1>3, <1>4, <1>5, <1>6, <1>7, <1>8, <1>9 DEF Inv

(***************************************************************************)
(* From finish to the end of the worker.                                   *)
(***************************************************************************)
LEMMA FinishInv ==
  ASSUME Inv, Finish
  PROVE  Inv'
<1> USE DEF Finish, Working, Canceling, CanceledVerdict, Verdict, KeepOthers, Child, gateVars,
      Inv
<1>1. TypeOK'
  BY DEF TypeOK, TaskEnds, Placed, Steps, Outcomes, Codes, Commit, Commits, Children,
      ErrShutdown, ErrPrecondition, ErrCancelUnconfirmed, ErrInternal, ErrDeadline
<1>2. Noted' /\ Confirmed'
  BY DEF Noted, Confirmed
<1>3. Placed'
  BY DEF Placed, Before, Live, TypeOK
<1>4. Attended'
  BY DEF Attended, Live, Idle
<1>5. Halts'
  BY DEF Halts, Halting
<1>6. Chased'
  BY DEF Chased, Watched
<1>7. Reasoned'
  BY DEF Reasoned, Grounded, InDoubt, Halting, Undone, TypeOK, TaskLive, TaskEnds, Placed,
      Noted, Commit, Children, ErrPrecondition, ErrCancelUnconfirmed
<1>8. UnsettledTaskIsReported'
  BY DEF UnsettledTaskIsReported, TypeOK, Live, Settled, Placed, Before
<1> QED
  BY <1>1, <1>2, <1>3, <1>4, <1>5, <1>6, <1>7, <1>8 DEF Inv

LEMMA ReserveInv ==
  ASSUME Inv, Reserve
  PROVE  Inv'
<1> USE DEF Reserve, Working, Committed, Inv
<1>1. TypeOK'
  <2>1. /\ wf' \in [Goals -> {"unsent", "refused"} \cup Live \cup Settled]
        /\ child' \in [Goals -> Children]
        /\ task' \in [Goals -> {"none", "requested", "refused"} \cup TaskLive \cup TaskEnds]
        /\ cb' \in [at: Marks, for: Goals \cup {NoGoal}]
        /\ {gen', cur'} \subseteq Goals \cup {NoGoal}
        /\ expired' \subseteq Goals
        /\ broken' \subseteq Goals
        /\ faults' \in Nat
        /\ main' \in {"run", "drain", "recover", "join", "destroy", "exited", "killed"}
        /\ {active', accepted', reserved', failed'} \subseteq BOOLEAN
    BY DEF TypeOK
  <2>2. pend' \in Commits
    BY DEF TypeOK, Outcomes, Codes, Commit, Commits, ErrShutdown, ErrInternal, ErrDeadline
  <2>3. pc' \in Steps /\ tree' \in {"ready", "retry", "task"}
    BY DEF TypeOK, Steps
  <2> QED
    BY <2>1, <2>2, <2>3 DEF TypeOK
<1>2. Noted' /\ Confirmed'
  BY DEF Noted, Confirmed
<1>3. Placed'
  BY DEF Placed, Before, Live, TypeOK
<1>4. Attended'
  BY DEF Attended, Live, Idle
<1>5. Halts'
  BY DEF Halts, Halting
<1>6. Chased'
  BY DEF Chased, Watched
<1>7. Reasoned'
  BY DEF Reasoned, Grounded, InDoubt, Halting, Undone, Commit
<1>8. UnsettledTaskIsReported'
  BY DEF UnsettledTaskIsReported, TypeOK, Live, Settled, Placed, Before
<1> QED
  BY <1>1, <1>2, <1>3, <1>4, <1>5, <1>6, <1>7, <1>8 DEF Inv

LEMMA CommitResultInv ==
  ASSUME Inv, CommitResult
  PROVE  Inv'
<1> USE DEF CommitResult, Working, Transition, TerminalState, Inv
<1>1. TypeOK'
  <2>1. /\ child' \in [Goals -> Children]
        /\ task' \in [Goals -> {"none", "requested", "refused"} \cup TaskLive \cup TaskEnds]
        /\ cb' \in [at: Marks, for: Goals \cup {NoGoal}]
        /\ {gen', cur'} \subseteq Goals \cup {NoGoal}
        /\ expired' \subseteq Goals
        /\ broken' \subseteq Goals
        /\ faults' \in Nat
        /\ main' \in {"run", "drain", "recover", "join", "destroy", "exited", "killed"}
        /\ pend' \in Commits
        /\ {active', accepted', reserved', failed'} \subseteq BOOLEAN
    BY DEF TypeOK
  <2>2. wf' \in [Goals -> {"unsent", "refused"} \cup Live \cup Settled]
    BY DEF TypeOK, Live, Settled, TaskLive, TaskEnds, Idle
  <2>3. pc' \in Steps /\ tree' \in {"ready", "retry", "task"}
    BY DEF TypeOK, Steps
  <2> QED
    BY <2>1, <2>2, <2>3 DEF TypeOK
<1>2. Noted'
  BY DEF Noted
<1>3. Placed'
  BY DEF Placed, Before, Live
<1>4. Attended'
  BY DEF Attended, Live, Idle
<1>5. Halts'
  BY DEF Halts, Halting
<1>6. Chased'
  BY DEF Chased, Watched
<1>7. Reasoned'
  BY DEF Reasoned, Grounded, InDoubt, Halting, Undone
<1>8. Confirmed'
  BY DEF Confirmed, Reasoned, Grounded, InDoubt
<1>9. UnsettledTaskIsReported'
  BY DEF UnsettledTaskIsReported, Undone, Reasoned, Grounded, InDoubt
<1> QED
  BY <1>1, <1>2, <1>3, <1>4, <1>5, <1>6, <1>7, <1>8, <1>9 DEF Inv

LEMMA CommitThrowsInv ==
  ASSUME Inv, CommitThrows
  PROVE  Inv'
<1> USE DEF CommitThrows, Throw, Working, KeepOthers, gateVars, Inv
<1>1. TypeOK'
  BY DEF TypeOK, Steps
<1>2. Noted' /\ Confirmed' /\ UnsettledTaskIsReported'
  BY DEF Noted, Confirmed, UnsettledTaskIsReported
<1>3. Placed'
  BY DEF Placed, Before, Live, TypeOK
<1>4. Attended'
  BY DEF Attended, Live, Idle
<1>5. Halts'
  BY DEF Halts, Halting
<1>6. Chased'
  BY DEF Chased, Watched, TypeOK
<1>7. Reasoned'
  BY DEF Reasoned, Grounded, InDoubt, Halting, Undone
<1> QED
  BY <1>1, <1>2, <1>3, <1>4, <1>5, <1>6, <1>7 DEF Inv

LEMMA FallbackInv ==
  ASSUME Inv, Fallback
  PROVE  Inv'
<1> USE DEF Fallback, Working, Transition, TerminalState, Inv
<1>1. TypeOK'
  <2>1. /\ child' \in [Goals -> Children]
        /\ task' \in [Goals -> {"none", "requested", "refused"} \cup TaskLive \cup TaskEnds]
        /\ cb' \in [at: Marks, for: Goals \cup {NoGoal}]
        /\ {gen', cur'} \subseteq Goals \cup {NoGoal}
        /\ expired' \subseteq Goals
        /\ broken' \subseteq Goals
        /\ faults' \in Nat
        /\ main' \in {"run", "drain", "recover", "join", "destroy", "exited", "killed"}
        /\ {active', accepted', reserved', failed'} \subseteq BOOLEAN
    BY DEF TypeOK
  <2>2. wf' \in [Goals -> {"unsent", "refused"} \cup Live \cup Settled]
    BY DEF TypeOK, Live, Settled, TaskLive, TaskEnds, Idle
  <2>3. pend' \in Commits
    BY DEF TypeOK, Outcomes, Codes, Commit, Commits, ErrShutdown, ErrInternal, ErrDeadline
  <2>4. pc' \in Steps /\ tree' \in {"ready", "retry", "task"}
    BY DEF TypeOK, Steps
  <2> QED
    BY <2>1, <2>2, <2>3, <2>4 DEF TypeOK
<1>2. Noted'
  BY DEF Noted
<1>3. Placed'
  BY DEF Placed, Before, Live
<1>4. Attended'
  BY DEF Attended, Live, Idle
<1>5. Halts'
  BY DEF Halts, Halting
<1>6. Chased'
  BY DEF Chased, Watched
<1>7. Reasoned'
  BY DEF Reasoned, Grounded, InDoubt, Halting, Undone
<1>8. Confirmed'
  BY DEF Confirmed, Commit
<1>9. UnsettledTaskIsReported'
  BY DEF UnsettledTaskIsReported, Commit, ErrPrecondition, ErrInternal
<1> QED
  BY <1>1, <1>2, <1>3, <1>4, <1>5, <1>6, <1>7, <1>8, <1>9 DEF Inv

LEMMA FallbackThrowsInv ==
  ASSUME Inv, FallbackThrows
  PROVE  Inv'
<1> USE DEF FallbackThrows, Throw, Working, Inv
<1>1. TypeOK'
  BY DEF TypeOK, Steps, Placed, Before
<1>2. Noted' /\ Confirmed' /\ UnsettledTaskIsReported'
  BY DEF Noted, Confirmed, UnsettledTaskIsReported
<1>3. Placed'
  BY DEF Placed, Before, Live
<1>4. Attended'
  BY DEF Attended, Live, Idle
<1>5. Halts'
  BY DEF Halts, Halting
<1>6. Chased'
  BY DEF Chased, Watched, TypeOK
<1>7. Reasoned'
  BY DEF Reasoned, Grounded, InDoubt, Halting, Undone
<1> QED
  BY <1>1, <1>2, <1>3, <1>4, <1>5, <1>6, <1>7 DEF Inv

LEMMA TailInv ==
  ASSUME Inv, Tail
  PROVE  Inv'
<1> USE DEF Tail, Working, EndWorker, gateVars, Inv
<1>1. TypeOK'
  <2>1. /\ task' \in [Goals -> {"none", "requested", "refused"} \cup TaskLive \cup TaskEnds]
        /\ cb' \in [at: Marks, for: Goals \cup {NoGoal}]
        /\ {active', accepted', reserved', failed'} \subseteq BOOLEAN
        /\ expired' \subseteq Goals
        /\ broken' \subseteq Goals
        /\ faults' \in Nat
        /\ main' \in {"run", "drain", "recover", "join", "destroy", "exited", "killed"}
        /\ {gen', cur'} \subseteq Goals \cup {NoGoal}
    BY DEF TypeOK
  <2>2. wf' \in [Goals -> {"unsent", "refused"} \cup Live \cup Settled]
    BY DEF TypeOK, Settled
  <2>3. child' \in [Goals -> Children]
    BY DEF TypeOK, Steps, Children
  <2>4. pend' \in Commits
    BY DEF TypeOK, Outcomes, Codes, Commit, NoCommit, Commits
  <2>5. pc' \in Steps /\ tree' \in {"ready", "retry", "task"}
    BY DEF TypeOK, Steps
  <2> QED
    BY <2>1, <2>2, <2>3, <2>4, <2>5 DEF TypeOK
<1>2. Placed'
  BY OrchestratorAssumption DEF Placed, Before, Live, TypeOK
<1>3. Attended'
  BY DEF Attended, Live, Idle, TypeOK
<1>4. Noted'
  BY DEF Noted, TypeOK, Halts, Children
<1>5. Halts'
  BY DEF Halts, Halting, TypeOK, Placed, Children
<1>6. Chased'
  BY DEF Chased, Watched, TypeOK, TaskLive, Noted, Children
<1>7. Reasoned'
  BY DEF Reasoned, Grounded, InDoubt, Halting, Undone
<1>8. Confirmed'
  BY DEF Confirmed, TypeOK
<1>9. UnsettledTaskIsReported'
  BY OrchestratorAssumption DEF UnsettledTaskIsReported
<1> QED
  BY <1>1, <1>2, <1>3, <1>4, <1>5, <1>6, <1>7, <1>8, <1>9 DEF Inv

LEMMA TailStoreInv ==
  ASSUME Inv, TailStore
  PROVE  Inv'
<1>1. child' \in [Goals -> Children]
  <2>1. cur \in Goals
    BY DEF TailStore, Inv, Placed
  <2>2. child \in [Goals -> Children]
    BY DEF Inv, TypeOK
  <2>3. child' = child
          \/ child' = [child EXCEPT ![cur].result = "none", ![cur].timedOut = FALSE]
    BY DEF TailStore, EndWorker, Working
  <2>4. [child EXCEPT ![cur].result = "none", ![cur].timedOut = FALSE] \in [Goals -> Children]
    BY <2>1, <2>2, ChildFields, Zenon
  <2> QED  BY <2>2, <2>3, <2>4, Zenon
<1> USE DEF TailStore, Working, EndWorker, Inv
<1>2. TypeOK'
  <2>1. /\ task' \in [Goals -> {"none", "requested", "refused"} \cup TaskLive \cup TaskEnds]
        /\ cb' \in [at: Marks, for: Goals \cup {NoGoal}]
        /\ {active', accepted', reserved', failed'} \subseteq BOOLEAN
        /\ expired' \subseteq Goals
        /\ broken' \subseteq Goals
        /\ faults' \in Nat
        /\ main' \in {"run", "drain", "recover", "join", "destroy", "exited", "killed"}
        /\ {gen', cur'} \subseteq Goals \cup {NoGoal}
    BY DEF TypeOK
  <2>2. wf' \in [Goals -> {"unsent", "refused"} \cup Live \cup Settled]
    BY DEF TypeOK, Live, Settled, TaskLive, TaskEnds, Idle
  <2>3. pend' \in Commits
    BY DEF TypeOK, Outcomes, Codes, Commit, NoCommit, Commits
  <2>4. pc' \in Steps /\ tree' \in {"ready", "retry", "task"}
    BY DEF TypeOK, Steps
  <2> QED
    BY <1>1, <2>1, <2>2, <2>3, <2>4 DEF TypeOK
<1>3. Placed'
  BY OrchestratorAssumption DEF Placed, Before, Live
<1>4. Attended'
  BY DEF Attended, Live, Idle, TypeOK
<1>5. Noted'
  BY DEF Noted, TypeOK
<1>6. Halts'
  BY DEF Halts, Halting, TypeOK, Placed
<1>7. Chased'
  BY DEF Chased, Watched, TypeOK
<1>8. Reasoned'
  BY DEF Reasoned, Grounded, InDoubt, Halting, Undone
<1>9. Confirmed'
  BY DEF Confirmed
<1>10. UnsettledTaskIsReported'
  BY OrchestratorAssumption DEF UnsettledTaskIsReported
<1> QED
  BY <1>2, <1>3, <1>4, <1>5, <1>6, <1>7, <1>8, <1>9, <1>10 DEF Inv

(***************************************************************************)
(* The clock, and main.                                                    *)
(***************************************************************************)
LEMMA ExpireInv ==
  ASSUME NEW g \in Goals, Inv, Expire(g)
  PROVE  Inv'
<1> USE DEF Expire, gateVars, workerVars, Inv
<1>1. TypeOK'
  BY DEF TypeOK
<1>2. /\ Placed'
      /\ Attended'
      /\ Noted'
      /\ Halts'
      /\ Chased'
      /\ Reasoned'
      /\ Confirmed'
      /\ UnsettledTaskIsReported'
  BY DEF Placed, Before, Live, Attended, Idle, Noted, Halts, Halting, Chased, Watched, Reasoned,
      Grounded, InDoubt, Undone, Confirmed, UnsettledTaskIsReported
<1> QED
  BY <1>1, <1>2 DEF Inv

LEMMA MainInv ==
  ASSUME Inv, Main
  PROVE  Inv'
<1> USE DEF Main, Stop, SpinFails, Drain, KeepNode, Throw, JoinWorker, gateVars, workerVars, Inv
<1>1. TypeOK'
  BY DEF TypeOK
<1>2. /\ Placed'
      /\ Noted'
      /\ Halts'
      /\ Reasoned'
      /\ Confirmed'
      /\ UnsettledTaskIsReported'
  BY DEF Placed, Before, Live, Noted, Halts, Halting, Reasoned, Grounded, InDoubt, Undone,
      Confirmed, UnsettledTaskIsReported
<1>3. Attended'
  BY DEF Attended, Live, Idle
<1>4. Chased'
  BY DEF Chased, Watched, TypeOK
<1> QED
  BY <1>1, <1>2, <1>3, <1>4 DEF Inv

-----------------------------------------------------------------------------
LEMMA InitInv == Init => Inv
<1> SUFFICES ASSUME Init PROVE Inv
  OBVIOUS
<1> USE DEF Init, Idle, NoCommit, Commit, FreshChild
<1>1. TypeOK
  <2>1. child \in [Goals -> Children]
    BY DEF Children, TaskEnds
  <2>2. pend \in Commits /\ pc \in Steps /\ cb \in [at: Marks, for: Goals \cup {NoGoal}]
    BY DEF Commits, Outcomes, Codes, Steps, Marks
  <2> QED
    BY <2>1, <2>2 DEF TypeOK
<1>2. Placed /\ Attended
  BY OrchestratorAssumption DEF Placed, Attended, Before, Live
<1>3. Noted /\ Halts /\ Chased /\ Reasoned
  BY DEF Noted, Halts, Halting, Chased, Reasoned
<1>4. Confirmed /\ UnsettledTaskIsReported
  BY OrchestratorAssumption DEF Confirmed, UnsettledTaskIsReported, Settled
<1> QED
  BY <1>1, <1>2, <1>3, <1>4 DEF Inv

LEMMA StutterInv ==
  ASSUME Inv, UNCHANGED vars
  PROVE  Inv'
<1> USE DEF vars, gateVars, workerVars
<1>1. TypeOK'
  BY DEF Inv, TypeOK
<1>2. Placed' /\ Attended' /\ Noted'
  BY DEF Inv, Placed, Attended, Noted
<1>3. Halts' /\ Chased'
  BY DEF Inv, Halts, Chased, Watched
<1>4. Reasoned'
  BY DEF Inv, Reasoned, Grounded, InDoubt
<1>5. Confirmed' /\ UnsettledTaskIsReported'
  BY DEF Inv, Confirmed, UnsettledTaskIsReported
<1> QED
  BY <1>1, <1>2, <1>3, <1>4, <1>5 DEF Inv

LEMMA TickInv ==
  ASSUME Inv, Tick
  PROVE  Inv'
<1>1. pc = "tick" /\ UNCHANGED faults /\ KeepOthers
  BY DEF Tick
<1>2. CASE CheckReady
  BY <1>1, <1>2, CheckReadyInv
<1>3. CASE StartTask
  BY <1>1, <1>3, StartTaskInv
<1>4. CASE WatchTask
  BY <1>1, <1>4, WatchTaskInv
<1> QED
  BY <1>2, <1>3, <1>4 DEF Tick

LEMMA NextInv ==
  ASSUME Inv, [Next]_vars
  PROVE  Inv'
<1>1. CASE \E g \in Goals : \/ HandleGoalClaim(g) \/ HandleCancel(g)
                            \/ GoalResponse(g) \/ ResultCallback(g)
  BY <1>1, HandleGoalClaimInv, HandleCancelInv, GoalResponseInv, ResultCallbackInv
<1>2. CASE Continue
  BY <1>2, HandleGoalAdmitInv, HandleAcceptedInv, CancelTransitionInv, LateDispatchInv DEF Continue
<1>3. CASE Worker
  <2>1. CASE LoopTop \/ TickThrows \/ Tick \/ StartThrows
    BY <2>1, LoopTopInv, TickThrowsInv, TickInv, StartThrowsInv
  <2>2. CASE AwaitResponse \/ CancelTask \/ WorkerDispatch \/ AwaitTaskEnd
    BY <2>2, AwaitResponseInv, CancelTaskInv, WorkerDispatchInv, AwaitTaskEndInv
  <2>3. CASE Finish \/ Reserve \/ CommitResult \/ CommitThrows
    BY <2>3, FinishInv, ReserveInv, CommitResultInv, CommitThrowsInv
  <2>4. CASE Fallback \/ FallbackThrows \/ Tail \/ TailStore
    BY <2>4, FallbackInv, FallbackThrowsInv, TailInv, TailStoreInv
  <2> QED
    BY <1>3, <2>1, <2>2, <2>3, <2>4 DEF Worker
<1>4. CASE Main
  BY <1>4, MainInv
<1>5. CASE \E g \in Goals : Expire(g) \/ TaskStep(g)
  BY <1>5, ExpireInv, TaskStepInv
<1>6. CASE UNCHANGED vars
  BY <1>6, StutterInv
<1> QED
  BY <1>1, <1>2, <1>3, <1>4, <1>5, <1>6 DEF Next

-----------------------------------------------------------------------------
(***************************************************************************)
(* Why a workflow goes without an answer.  There is one reservation for    *)
(* all workflows, but admission clears it: only a workflow that is live    *)
(* beside another can come to reserve and find it taken.                   *)
(***************************************************************************)
Asks == Before \ {"commit", "fallback"}
Asking(g) == cb = [at |-> "accepted", for |-> g] \/ (cur = g /\ pc \in Asks)

Answered ==
  /\ \A g, h \in Goals : g # h /\ wf[g] \in Live /\ wf[h] \in Live => g \in broken
  /\ \A g \in Goals : wf[g] \in Live /\ g \notin broken /\ Asking(g) => ~reserved
  /\ pc \in {"tail", "store"} /\ wf[cur] \in Live => cur \in broken
  /\ \A g \in Goals : wf[g] = "canceledEmpty" => g \in broken

(* Steps that leave goals, reservation and history alone, and the worker   *)
(* among the places where it has yet to ask, or where it does not.         *)
LEMMA AnsweredQuietly ==
  ASSUME Answered, UNCHANGED <<wf, broken, reserved, cur>>,
         cb' = cb \/ cb'.at # "accepted",
         pc' = pc \/ (pc \in Asks /\ pc' \in Asks)
  PROVE  Answered'
<1>1. \A g \in Goals : Asking(g)' => Asking(g)
  BY DEF Asking
<1>2. pc' \in {"tail", "store"} => pc' = pc
  BY DEF Asks, Before
<1> QED
  BY <1>1, <1>2 DEF Answered

LEMMA CallbacksAnswer ==
  ASSUME Inv, Answered, NEW g \in Goals,
         HandleGoalClaim(g) \/ HandleCancel(g) \/ GoalResponse(g) \/ ResultCallback(g)
  PROVE  Answered'
<1> USE DEF KeepInCallback, workerVars, gateVars
<1>1. CASE HandleGoalClaim(g)
  <2>1. \A h \in Goals : wf'[h] = wf[h] \/ wf'[h] = "refused"
    BY <1>1 DEF HandleGoalClaim, Refuse, Inv, TypeOK
  <2>2. \A h \in Goals : ~(cb' = [at |-> "accepted", for |-> h])
    BY <1>1 DEF HandleGoalClaim, Refuse, Idle
  <2>3. UNCHANGED <<pc, cur, broken, reserved>>
    BY <1>1 DEF HandleGoalClaim
  <2>4. \A h \in Goals : Asking(h)' => Asking(h)
    BY <2>2, <2>3 DEF Asking
  <2>5. pc \in {"tail", "store"} => cur \in Goals
    BY DEF Inv, Placed
  <2> QED
    BY <2>1, <2>3, <2>4, <2>5 DEF Answered, Live
<1>2. CASE HandleCancel(g)
  BY <1>2, AnsweredQuietly DEF HandleCancel
<1>3. CASE GoalResponse(g)
  BY <1>3, AnsweredQuietly DEF GoalResponse, LateCancel, Idle
<1>4. CASE ResultCallback(g)
  BY <1>4, AnsweredQuietly DEF ResultCallback
<1> QED
  BY <1>1, <1>2, <1>3, <1>4

LEMMA AdmissionAnswers ==
  ASSUME Inv, Answered, HandleGoalAdmit
  PROVE  Answered'
<1> DEFINE new == cb.for
<1>1. new \in Goals /\ wf[new] = "unsent" /\ wf \in [Goals -> {"unsent", "refused"} \cup Live \cup Settled]
  BY DEF HandleGoalAdmit, Inv, Placed, TypeOK
<1>2. UNCHANGED <<pc, cur>> /\ (pc \in {"tail", "store"} => cur \in Goals)
  BY DEF HandleGoalAdmit, KeepInCallback, workerVars, Inv, Placed
<1>3. CASE wf' = [wf EXCEPT ![new] = "refused"] /\ cb' = Idle /\ UNCHANGED <<reserved, broken>>
  <2>1. \A h \in Goals : wf'[h] = wf[h] \/ wf'[h] = "refused"
    BY <1>1, <1>3
  <2>2. \A h \in Goals : Asking(h)' => Asking(h)
    BY <1>2, <1>3 DEF Asking, Idle
  <2> QED
    BY <1>2, <1>3, <2>1, <2>2 DEF Answered, Live
<1>4. CASE wf' = [wf EXCEPT ![new] = "executing"] /\ reserved' = FALSE /\ broken' = broken \cup Together(new)
  <2>1. \A h \in Goals : h # new => wf'[h] = wf[h]
    BY <1>1, <1>4
  <2>2. \A h \in Goals : h # new /\ wf[h] \in Live => {h, new} \subseteq broken'
    BY <1>4 DEF Together
  <2>3. wf'[new] = "executing" /\ wf[new] \notin Live
    BY <1>1, <1>4 DEF Live
  <2>4. \A g, h \in Goals : g # h /\ wf'[g] \in Live /\ wf'[h] \in Live => g \in broken'
    BY <1>4, <2>1, <2>2 DEF Answered
  <2>5. pc' \in {"tail", "store"} /\ wf'[cur'] \in Live => cur' \in broken'
    <3>1. pc \in {"tail", "store"} => cur # new
      BY <1>1, <1>2 DEF Inv, Placed
    <3> QED
      BY <1>2, <1>4, <2>1, <3>1 DEF Answered
  <2>6. \A h \in Goals : wf'[h] = "canceledEmpty" => h \in broken'
    BY <1>4, <2>1, <2>3 DEF Answered
  <2> QED
    BY <1>4, <2>4, <2>5, <2>6 DEF Answered
<1> QED
  BY <1>3, <1>4 DEF HandleGoalAdmit, Refuse

LEMMA CallbackRestAnswers ==
  ASSUME Inv, Answered, HandleAccepted \/ CancelTransition \/ LateDispatch
  PROVE  Answered'
<1> USE DEF KeepInCallback, workerVars, gateVars
<1>1. CASE HandleAccepted
  <2>1. UNCHANGED <<wf, broken, reserved>> /\ pc' = "loop" /\ cur' = cb.for /\ cb' = Idle
    BY <1>1 DEF HandleAccepted
  <2>2. cb = [at |-> "accepted", for |-> cb.for]
    BY <1>1 DEF HandleAccepted, Inv, TypeOK
  <2>3. \A h \in Goals : Asking(h)' => Asking(h)
    BY <2>1, <2>2 DEF Asking, Idle
  <2> QED
    BY <2>1, <2>3 DEF Answered
<1>2. CASE CancelTransition
  <2>1. \A h \in Goals : wf'[h] = wf[h] \/ (wf[h] = "executing" /\ wf'[h] = "canceling")
    BY <1>2 DEF CancelTransition, Inv, TypeOK
  <2>2. UNCHANGED <<pc, cur, broken, reserved>> /\ cb' = Idle
    BY <1>2 DEF CancelTransition
  <2>3. \A h \in Goals : Asking(h)' => Asking(h)
    BY <2>2 DEF Asking, Idle
  <2>4. pc \in {"tail", "store"} => cur \in Goals
    BY DEF Inv, Placed
  <2> QED
    BY <2>1, <2>2, <2>3, <2>4 DEF Answered, Live
<1>3. CASE LateDispatch
  BY <1>3, AnsweredQuietly DEF LateDispatch, Idle
<1> QED
  BY <1>1, <1>2, <1>3

LEMMA LoopAnswers ==
  ASSUME Inv, Answered,
         \/ LoopTop \/ TickThrows \/ Tick \/ StartThrows \/ AwaitResponse \/ CancelTask
         \/ WorkerDispatch \/ AwaitTaskEnd \/ Finish \/ CommitThrows
  PROVE  Answered'
<1> USE DEF KeepOthers, gateVars
<1>1. CASE LoopTop \/ TickThrows
  <2>1. pc' \in {"tick", "response", "reserve", "finish"}
    BY <1>1 DEF LoopTop, TickThrows, Halt, Abort, ToFinish, Commit
  <2> QED
    BY <1>1, <2>1, AnsweredQuietly DEF LoopTop, TickThrows, Asks, Before, Steps
<1>2. CASE Tick \/ StartThrows
  <2>1. pc' \in {"loop", "reserve", "finish"}
    BY <1>2 DEF Tick, CheckReady, StartTask, WatchTask, TreeEnds, TreeRuns, StartThrows, Abort,
        ToFinish, Commit
  <2> QED
    BY <1>2, <2>1, AnsweredQuietly DEF Tick, StartThrows, Asks, Before, Steps
<1>3. CASE AwaitResponse \/ CancelTask \/ WorkerDispatch \/ AwaitTaskEnd
  <2>1. pc' \in {"cancel", "dispatch", "end", "reserve", "finish"}
    BY <1>3 DEF AwaitResponse, CancelTask, WorkerDispatch, AwaitTaskEnd, HaltDone, HaltTimesOut,
        Inv, Reasoned, Halting
  <2> QED
    BY <1>3, <2>1, AnsweredQuietly DEF AwaitResponse, CancelTask, WorkerDispatch, AwaitTaskEnd,
        Asks, Before, Steps
<1>4. CASE Finish
  BY <1>4, AnsweredQuietly DEF Finish, Asks, Before, Steps
<1>5. CASE CommitThrows
  <2>1. pc' = "fallback" /\ UNCHANGED <<wf, cb, cur, broken, reserved>>
    BY <1>5 DEF CommitThrows
  <2>2. \A h \in Goals : Asking(h)' => Asking(h)
    BY <2>1 DEF Asking, Asks
  <2> QED
    BY <2>1, <2>2 DEF Answered
<1> QED
  BY <1>1, <1>2, <1>3, <1>4, <1>5

LEMMA ReserveAnswers ==
  ASSUME Inv, Answered, Reserve
  PROVE  Answered'
<1>1. cur \in Goals /\ wf[cur] \in Live /\ Asking(cur)
  BY DEF Reserve, Inv, Placed, Asking, Asks, Before, Steps
<1>2. UNCHANGED <<wf, cb, cur, broken>>
  BY DEF Reserve
<1>3. \A h \in Goals : Asking(h)' => cb = [at |-> "accepted", for |-> h]
  BY <1>2 DEF Reserve, Asking, Asks, Before
<1>4. CASE reserved /\ pc' = "tail" /\ UNCHANGED reserved
  BY <1>1, <1>2, <1>3, <1>4 DEF Answered, Asking
<1>5. CASE pc' = "commit"
  <2>1. \A h \in Goals : wf[h] \in Live /\ cb = [at |-> "accepted", for |-> h] => h \in broken
    BY <1>1 DEF Inv, Placed, Answered
  <2> QED
    BY <1>2, <1>3, <1>5, <2>1 DEF Answered
<1> QED
  BY <1>4, <1>5 DEF Reserve

LEMMA EndAnswers ==
  ASSUME Inv, Answered,
         CommitResult \/ Fallback \/ FallbackThrows \/ Tail \/ TailStore
  PROVE  Answered'
<1> USE DEF gateVars
<1>1. cur \in Goals /\ wf \in [Goals -> {"unsent", "refused"} \cup Live \cup Settled]
  BY DEF CommitResult, Fallback, FallbackThrows, Tail, TailStore, Inv, Placed, TypeOK
<1>2. CASE CommitResult \/ Fallback
  <2>1. /\ wf' = [wf EXCEPT ![cur] = wf'[cur]] /\ wf'[cur] \in {"succeeded", "canceled", "aborted"}
        /\ pc' = "tail" /\ UNCHANGED <<cb, cur, broken, reserved>>
    BY <1>1, <1>2 DEF CommitResult, Fallback, Transition, TerminalState
  <2>2. \A h \in Goals : Asking(h)' => Asking(h)
    BY <2>1 DEF Asking, Asks, Before
  <2> QED
    BY <1>1, <2>1, <2>2 DEF Answered, Live
<1>3. CASE FallbackThrows
  <2>1. pc' = "tail" /\ broken' = broken \cup {cur} /\ UNCHANGED <<wf, cb, cur, reserved>>
    BY <1>3 DEF FallbackThrows
  <2>2. \A h \in Goals : Asking(h)' => Asking(h)
    BY <2>1 DEF Asking, Asks, Before
  <2> QED
    BY <2>1, <2>2 DEF Answered
<1>4. CASE Tail /\ pc' = "store" /\ UNCHANGED <<wf, cur>>
  <2>1. pc = "tail" /\ UNCHANGED <<cb, broken, reserved>>
    BY <1>4 DEF Tail
  <2>2. \A h \in Goals : Asking(h)' => Asking(h)
    BY <1>4, <2>1 DEF Asking, Asks, Before
  <2> QED
    BY <1>4, <2>1, <2>2 DEF Answered
<1>5. CASE EndWorker /\ pc \in {"tail", "store"} /\ UNCHANGED <<cb, broken, reserved>>
  <2>1. \A h \in Goals : \/ wf'[h] = wf[h] /\ (h = cur => wf[h] \notin Live)
                         \/ wf'[h] = "canceledEmpty" /\ h = cur /\ wf[cur] \in Live
    BY <1>1, <1>5 DEF EndWorker
  <2>2. pc' = "ended" /\ \A h \in Goals : Asking(h)' => Asking(h)
    BY <1>5 DEF EndWorker, Asking, Asks, Before
  <2> QED
    BY <1>5, <2>1, <2>2 DEF Answered, Live
<1> QED
  BY <1>2, <1>3, <1>4, <1>5 DEF Tail, TailStore

LEMMA AnsweredNext ==
  ASSUME Inv, Answered, [Next]_vars
  PROVE  Answered'
<1>1. CASE \E g \in Goals : \/ HandleGoalClaim(g) \/ HandleCancel(g)
                            \/ GoalResponse(g) \/ ResultCallback(g)
  BY <1>1, CallbacksAnswer
<1>2. CASE Continue
  BY <1>2, AdmissionAnswers, CallbackRestAnswers DEF Continue
<1>3. CASE Worker
  BY <1>3, LoopAnswers, ReserveAnswers, EndAnswers DEF Worker
<1>4. CASE Main
  BY <1>4, AnsweredQuietly DEF Main, Stop, SpinFails, Drain, KeepNode, gateVars, workerVars
<1>5. CASE \E g \in Goals : Expire(g) \/ TaskStep(g)
  BY <1>5, AnsweredQuietly DEF Expire, TaskStep, gateVars, workerVars
<1>6. CASE UNCHANGED vars
  BY <1>6, AnsweredQuietly DEF vars, gateVars, workerVars
<1> QED
  BY <1>1, <1>2, <1>3, <1>4, <1>5, <1>6 DEF Next

(* The invariant the properties rest on holds in every state.              *)
THEOREM InvHolds == Spec => []Inv
<1>1. Inv /\ [Next]_vars => Inv'
  BY NextInv
<1> QED
  BY <1>1, InitInv, PTL DEF Spec

-----------------------------------------------------------------------------
(* The node's variables keep the types the code gives them. *)
THEOREM TypeCorrect == Spec => []TypeOK
<1>1. Inv => TypeOK
  BY DEF Inv
<1> QED
  BY <1>1, InvHolds, PTL

(* Two facts of each other: Answered speaks of the places of Inv. *)
THEOREM AnsweredHolds == Spec => []Answered
<1>1. Init => Answered
  BY DEF Init, Answered, Live
<1>2. Inv /\ Answered /\ [Next]_vars => Answered'
  BY AnsweredNext
<1> QED
  BY <1>1, <1>2, InvHolds, PTL DEF Spec

(* A client is told of success only when the task completed, and of a      *)
(* cancel only when no task was sent or its executor confirmed it; a goal  *)
(* that dies without an answer, CANCELED with an empty result, is one      *)
(* whose transition failed twice or that was let in beside another.        *)
THEOREM ResultsAreConfirmed == Spec => []ResultIsConfirmed
<1>1. Inv /\ Answered => ResultIsConfirmed
  BY DEF Inv, Confirmed, Answered, ResultIsConfirmed
<1> QED
  BY <1>1, InvHolds, AnsweredHolds, PTL

(* A workflow that ends before its task says that nothing is confirmed     *)
(* about the task.                                                         *)
THEOREM UnsettledTasksAreReported == Spec => []UnsettledTaskIsReported
<1>1. Inv => UnsettledTaskIsReported
  BY DEF Inv
<1> QED
  BY <1>1, InvHolds, PTL

(* As long as nothing throws, a task accepted after its workflow gave up   *)
(* waiting is cancelled: onHalted's cancel_after_accept is never lost      *)
(* between the worker's last look and the response.                        *)
THEOREM LateTasksAreCanceled == Spec => []LateTaskIsCanceled
<1>1. Inv => LateTaskIsCanceled
  <2> SUFFICES ASSUME Inv, NEW g \in Goals, cur # g, task[g] = "executing", faults = 0
               PROVE  child[g].halt /\ (child[g].response = "none" \/ InFlight(g))
    BY DEF LateTaskIsCanceled
  <2>1. ~Watched(g)
    BY DEF Watched
  <2>2. child[g].halt /\ (child[g].response = "none" \/ cb = [at |-> "dispatch", for |-> g])
    BY <2>1 DEF Inv, Chased
  <2> QED
    BY <2>2 DEF InFlight
<1> QED
  BY <1>1, InvHolds, PTL

(* Main's drain and the destructor leave no live workflow behind, although *)
(* the gate they wait for may be opened early.                             *)
THEOREM ExitIsClean == Spec => []ExitLeavesNoWorkflow
<1>1. Inv => ExitLeavesNoWorkflow
  <2> SUFFICES ASSUME Inv, main = "exited", NEW g \in Goals, wf[g] \in Live
               PROVE  FALSE
    BY DEF ExitLeavesNoWorkflow
  <2>1. pc = "ended" /\ cb = Idle /\ cur = NoGoal
    BY DEF Inv, Attended, Placed
  <2>2. cur = g \/ cb = [at |-> "accepted", for |-> g]
    BY DEF Inv, Attended
  <2> QED
    BY <2>1, <2>2, OrchestratorAssumption DEF Idle
<1> QED
  BY <1>1, InvHolds, PTL
=============================================================================
