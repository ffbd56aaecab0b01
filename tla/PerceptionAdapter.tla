-------------------------- MODULE PerceptionAdapter --------------------------
(***************************************************************************)
(* The perception adapter: perception_task_adapter_node.cpp, its main and  *)
(* marker_trigger.cpp.  A single thread reads frames, turns a confirmed    *)
(* sighting of one marker into an ExecuteWorkflow goal, and cancels a      *)
(* workflow it leaves behind.  Callbacks run only where that thread spins. *)
(* The orchestrator is the other side of the goal.                         *)
(***************************************************************************)
EXTENDS Naturals, Sequences, FiniteSets

CONSTANTS
  Markers,        \* mapped marker ids
  NoMarker,       \* no streak
  ConfirmFrames,  \* confirm_frames
  RearmFrames,    \* rearm_missing_frames
  ReadLimit,      \* consecutive read failures that end the camera loop
  MaxFrames,      \* bound: frames looked at between two workflows
  MaxWorkflows    \* bound: workflows triggered

ASSUME AdapterAssumption ==
  /\ IsFiniteSet(Markers) /\ NoMarker \notin Markers
  /\ {ConfirmFrames, RearmFrames, ReadLimit} \subseteq Nat \ {0}
  /\ {MaxFrames, MaxWorkflows} \subseteq Nat

VARIABLES
  mode,      \* input_mode
  pc,        \* where the thread is
  ok,        \* rclcpp::ok(): no signal has shut the context down
  trigger,   \* MarkerTrigger
  active,    \* active
  finished,  \* finished
  code,      \* exit_code, and the process's at the end
  handle,    \* goal_handle is there
  told,      \* history: the acceptance is not heard, was heard in the turn of
             \* cancel_active under way ("late"), or is known
  failures,  \* consecutive read failures
  workflow,  \* the last ExecuteWorkflow goal, at the orchestrator
  count,     \* workflows triggered (bounded by MaxWorkflows)
  frames     \* history: the frames looked at since the last workflow ended

nodeVars == <<trigger, active, finished, code, handle, frames>>
vars == <<mode, pc, ok, nodeVars, told, failures, workflow, count>>

Live  == {"executing", "canceling"}
Frame == SUBSET Markers   \* the mapped markers that are visible

Armed    == [armed |-> TRUE, streak |-> NoMarker, seen |-> 0, missing |-> 0]
Disarmed == [Armed EXCEPT !.armed = FALSE]

Init ==
  /\ mode \in {"image", "camera"} /\ pc = "open" /\ ok = TRUE
  /\ trigger = Armed /\ frames = <<>>
  /\ active = FALSE /\ finished = FALSE /\ code = 5 /\ handle = FALSE /\ told = "no"
  /\ failures = 0 /\ workflow = "none" /\ count = 0

(***************************************************************************)
(* MarkerTrigger.observe without a workflow, and on_terminal.              *)
(***************************************************************************)
ResetStreak(t) == [t EXCEPT !.streak = NoMarker, !.seen = 0]

(* Mutant: an ambiguous frame counts as a missing one. *)
AmbiguousMissing(t) ==
  IF ~t.armed /\ t.missing + 1 >= RearmFrames THEN Armed
  ELSE [ResetStreak(t) EXCEPT !.missing = IF t.armed THEN @ ELSE @ + 1]

Ambiguous(t) == ResetStreak(t)

Missing(t) ==
  IF ~t.armed /\ t.missing + 1 >= RearmFrames THEN Armed
  ELSE [ResetStreak(t) EXCEPT !.missing = IF t.armed THEN @ ELSE @ + 1]

Single(t, m) ==
  IF ~t.armed THEN [t EXCEPT !.missing = 0]
  ELSE [t EXCEPT !.streak = m, !.seen = IF t.streak = m THEN @ + 1 ELSE 1, !.missing = 0]

Observe(t, f) ==
  CASE f = {}             -> Missing(t)
    [] Cardinality(f) > 1 -> Ambiguous(t)
    [] OTHER              -> Single(t, CHOOSE m \in f : TRUE)

(* With image input one frame is enough. *)
Enough   == IF mode = "image" THEN 1 ELSE ConfirmFrames
Fires(t) == t.armed /\ t.seen >= Enough

(***************************************************************************)
(* finish_locked and stop_locked.                                          *)
(***************************************************************************)
FinishLocked(c) ==
  /\ active' = FALSE /\ handle' = FALSE /\ trigger' = Disarmed /\ frames' = <<>>
  /\ IF mode = "image" THEN finished' = TRUE /\ code' = c ELSE UNCHANGED <<finished, code>>

(* Mutant: the goal is released when the input stops. *)
StopAndRelease(c) ==
  /\ finished' = TRUE /\ code' = c /\ handle' = FALSE
  /\ UNCHANGED <<trigger, active, frames>>

StopLocked(c) ==
  /\ finished' = TRUE /\ code' = c
  /\ UNCHANGED <<trigger, active, handle, frames>>

(***************************************************************************)
(* The goal's callbacks, at the points where the thread spins: in the      *)
(* camera loop, in main's wait for the image's workflow, and twice in      *)
(* cancel_active: in each turn of its loop and after the cancel.           *)
(***************************************************************************)
Spins == ok /\ pc \in {"spin", "wait", "turn", "await"}

GoalResponse ==
  /\ Spins /\ active /\ told = "no" /\ workflow \notin {"none", "sent"}
  /\ told' = IF pc = "turn" THEN "late" ELSE "known"
  /\ IF workflow = "refused" THEN FinishLocked(2)
     ELSE handle' = TRUE /\ UNCHANGED <<trigger, active, finished, code, frames>>
  /\ UNCHANGED <<mode, pc, ok, failures, workflow, count>>

Result ==
  /\ Spins /\ handle /\ workflow \in {"succeeded", "failed"}
  /\ FinishLocked(IF workflow = "succeeded" THEN 0 ELSE 3)
  /\ UNCHANGED <<mode, pc, ok, told, failures, workflow, count>>

(***************************************************************************)
(* The input: run_camera's loop and run_image.                             *)
(***************************************************************************)
Go(next) == pc' = next /\ UNCHANGED <<mode, ok, told, workflow>>

Fail == StopLocked(2) /\ Go("cancel")

(* The camera cannot be opened, or the image cannot be read. *)
Open ==
  /\ pc = "open"
  /\ \/ Fail
     \/ Go(IF mode = "image" THEN "frame" ELSE "loop") /\ UNCHANGED nodeVars
  /\ UNCHANGED <<failures, count>>

(* Mutant: the signal is not looked at. *)
LoopTopUntilFinished ==
  /\ pc = "loop"
  /\ Go(IF ~finished THEN "spin" ELSE "cancel")
  /\ UNCHANGED <<nodeVars, failures, count>>

LoopTop ==
  /\ pc = "loop"
  /\ Go(IF ok /\ ~finished THEN "spin" ELSE "cancel")
  /\ UNCHANGED <<nodeVars, failures, count>>

(* The bounds leave room for one more frame. *)
Room == active \/ (Len(frames) < MaxFrames /\ count < MaxWorkflows)

Read ==
  /\ pc = "spin"
  /\ \/ Room /\ Go("frame") /\ failures' = 0 /\ UNCHANGED nodeVars
     \/ /\ failures' = failures + 1
        /\ IF failures' >= ReadLimit THEN Fail ELSE Go("loop") /\ UNCHANGED nodeVars
  /\ UNCHANGED count

(* Camera.read throws. *)
ReadThrows ==
  /\ pc = "spin" /\ Fail /\ UNCHANGED <<failures, count>>

(* process_frame: a frame that arrives while a workflow is active only     *)
(* resets the trigger's counters.                                          *)
FrameWhileActive ==
  /\ pc = "frame" /\ active
  /\ trigger' = [ResetStreak(trigger) EXCEPT !.missing = 0]
  /\ Go("loop")
  /\ UNCHANGED <<active, finished, code, handle, frames, failures, count>>

DetectionThrows ==
  /\ pc = "frame" /\ ~active
  /\ StopLocked(2) /\ Go(IF mode = "image" THEN "cancel" ELSE "loop")
  /\ UNCHANGED <<failures, count>>

(* A frame with an event leads to a workflow; an image without one is an   *)
(* error.                                                                  *)
ProcessFrame(f) ==
  /\ pc = "frame" /\ ~active
  /\ frames' = Append(frames, f)
  /\ LET t == Observe(trigger, f) IN
     \/ /\ Fires(t)
        /\ trigger' = [ResetStreak(t) EXCEPT !.armed = FALSE]
        /\ active' = TRUE /\ count' = count + 1 /\ Go("submit")
        /\ UNCHANGED <<finished, code>>
     \/ /\ ~Fires(t) /\ mode = "camera"
        /\ trigger' = t /\ Go("loop")
        /\ UNCHANGED <<active, finished, code, count>>
     \/ /\ ~Fires(t) /\ mode = "image"
        /\ trigger' = t /\ finished' = TRUE /\ code' = 2 /\ Go("cancel")
        /\ UNCHANGED <<active, count>>
  /\ UNCHANGED <<handle, failures>>

(* The server does not appear within five seconds, or async_send_goal      *)
(* throws.                                                                 *)
SubmitFails ==
  /\ pc = "submit"
  /\ \E c \in {1, 2} : FinishLocked(c)
  /\ Go(IF mode = "image" THEN "cancel" ELSE "loop")
  /\ UNCHANGED <<failures, count>>

Submit ==
  /\ pc = "submit"
  /\ workflow' = "sent" /\ told' = "no"
  /\ pc' = IF mode = "image" THEN "wait" ELSE "loop"
  /\ UNCHANGED <<mode, ok, nodeVars, failures, count>>

(* Main waits for the workflow of the image. *)
WaitEnds ==
  /\ pc = "wait" /\ (finished \/ ~ok)
  /\ Go("cancel") /\ UNCHANGED <<nodeVars, failures, count>>

(***************************************************************************)
(* cancel_active: for two seconds, as long as the context is up, it takes  *)
(* a copy of the handle and, if there is none, spins and sleeps for a turn;*)
(* with a handle it asks for the cancel and spins again.  The first look   *)
(* comes before the deadline.                                              *)
(***************************************************************************)
CancelActive ==
  /\ pc = "cancel" /\ ok /\ handle
  /\ workflow' = IF workflow = "executing" THEN "canceling" ELSE workflow
  /\ pc' = "await"
  /\ UNCHANGED <<mode, ok, nodeVars, told, failures, count>>

TakeTurn ==
  /\ pc = "cancel" /\ ok /\ ~handle
  /\ Go("turn") /\ UNCHANGED <<nodeVars, failures, count>>

TurnEnds ==
  /\ pc = "turn" /\ pc' = "cancel"
  /\ told' = IF told = "late" THEN "known" ELSE told
  /\ UNCHANGED <<mode, ok, nodeVars, failures, workflow, count>>

(* The deadline has passed at the end of a turn, or the context is down.   *)
(* The copy of this turn was empty, and nobody looks at the handle that    *)
(* the turn may have brought.                                              *)
NothingToCancel ==
  /\ pc = "turn" \/ (pc = "cancel" /\ ~ok)
  /\ Go("exited") /\ UNCHANGED <<nodeVars, failures, count>>

CancelDone ==
  /\ pc = "await"
  /\ Go("exited") /\ UNCHANGED <<nodeVars, failures, count>>

Thread ==
  \/ Open \/ LoopTop \/ Read \/ ReadThrows \/ FrameWhileActive \/ DetectionThrows
  \/ \E f \in Frame : ProcessFrame(f)
  \/ SubmitFails \/ Submit \/ WaitEnds
  \/ CancelActive \/ TakeTurn \/ TurnEnds \/ NothingToCancel \/ CancelDone

(* SIGINT or SIGTERM: rclcpp's handler shuts the context down. *)
Signal ==
  /\ ok /\ pc # "exited"
  /\ ok' = FALSE
  /\ UNCHANGED <<mode, pc, nodeVars, told, failures, workflow, count>>

(* The orchestrator, which may leave the goal unanswered. *)
WorkflowStep ==
  /\ \/ workflow = "sent" /\ workflow' \in {"executing", "refused"}
     \/ workflow \in Live /\ workflow' \in {"succeeded", "failed"}
  /\ UNCHANGED <<mode, pc, ok, nodeVars, told, failures, count>>

Next == Thread \/ GoalResponse \/ Result \/ Signal \/ WorkflowStep

Spec == Init /\ [][Next]_vars

(* The thread keeps running; reads, waits and looks all return.  The loop  *)
(* of cancel_active compares with a monotonic clock after every turn.      *)
FairSpec == Spec /\ WF_vars(Thread) /\ SF_vars(NothingToCancel)

-----------------------------------------------------------------------------
Triggers == [armed: BOOLEAN, streak: Markers \cup {NoMarker}, seen: Nat, missing: Nat]

(* The variables have the types their code gives them. *)
TypeOK ==
  /\ mode \in {"image", "camera"}
  /\ pc \in {"open", "loop", "spin", "frame", "submit", "wait", "cancel", "turn",
            "await", "exited"}
  /\ {ok, active, finished, handle} \subseteq BOOLEAN /\ told \in {"no", "late", "known"}
  /\ trigger \in Triggers
  /\ code \in {0, 1, 2, 3, 5} /\ failures \in Nat /\ count \in Nat
  /\ workflow \in {"none", "sent", "refused", "succeeded", "failed"} \cup Live
  /\ frames \in Seq(Frame)

(* The declarative reading of "requires three consecutive matching frames, *)
(* suppresses duplicate submissions, rearms after five empty frames, and   *)
(* rejects frames containing multiple mapped markers" (README.md:310): the *)
(* last frames show one and the same marker alone; and, after a workflow,  *)
(* enough empty frames came with no lone marker between them.              *)
Confirmed(h) ==
  /\ Len(h) >= Enough
  /\ \E m \in Markers : \A k \in Len(h) - Enough + 1 .. Len(h) : h[k] = {m}
NoneAlone(h, i, j) == \A k \in i..j : Cardinality(h[k]) # 1
Empties(h, i, j)   == {k \in i..j : h[k] = {}}
Rearmed(h) ==
  \/ count = 0
  \/ \E i, j \in 1..Len(h) :
       NoneAlone(h, i, j) /\ Cardinality(Empties(h, i, j)) >= RearmFrames

(* The trigger's counters, over resets by other frames, by an active       *)
(* workflow and by its end, fire at exactly those frames, and never while  *)
(* an earlier workflow of the adapter is under way.                        *)
TriggersOnSighting ==
  [][frames' # frames /\ frames' # <<>> =>
       /\ active' <=> Confirmed(frames') /\ Rearmed(frames')
       /\ active' => workflow \notin Live \cup {"sent"}]_vars

(* "a workflow that was already accepted must still be cancelled on the way*)
(* out" (test_action_submission.cpp:250-252): an adapter that leaves after *)
(* a failure has asked for the cancel of a workflow that runs, if it knew  *)
(* of it before the last turn of cancel_active.  The code keeps no more    *)
(* than that: an acceptance heard in the last turn fills goal_handle, but  *)
(* the copy that is tested is empty (perception_task_adapter_node.cpp:365, *)
(* 378), and the workflow stays behind.                                    *)
ExitCancelsWorkflow == pc = "exited" /\ ok /\ workflow = "executing" => told # "known"

(* A failure or a signal ends the adapter, whatever the orchestrator does.  *)
AdapterExits == finished \/ ~ok ~> pc = "exited"
=============================================================================
