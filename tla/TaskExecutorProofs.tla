------------------------- MODULE TaskExecutorProofs -------------------------
(***************************************************************************)
(* Theorems about TaskExecutor, for any number of tasks and exceptions:    *)
(* what a result and an event tell of the device command, and that no      *)
(* command outlives its task unnoticed.                                    *)
(***************************************************************************)
EXTENDS TaskExecutor, TLAPS

(* Where the worker has not ended its task, where it holds the handle of   *)
(* the device command, and where it has asked to cancel that command.      *)
Before  == Steps \ {"idle", "publish", "release"}
Holding == {"drain", "outcome", "confirm"}
Halting == {"grace", "settlewait"}

(* Who owns the shared per-task fields: the worker's task, and after the   *)
(* worker is gone the one it could not end.                                *)
Placed ==
  /\ pc = "idle" <=> cur = NoTask
  /\ pc # "idle" => active /\ goalId = cur
  /\ pc \in Before => parent[cur] \in Live
  /\ pc = "publish" => terminal /\ parent[cur] \in Settled /\ result[cur] = pend
  /\ callback # NoTask => parent[callback] = "new"
  /\ process \in Gone => callback = NoTask

(* A task has a result when it ended, and a command when it was sent.      *)
Recorded ==
  /\ \A t \in Tasks :
       /\ parent[t] \notin Settled => result[t] = NoResult
       /\ t \in sent => parent[t] \in Live \cup Settled \cup {"canceledEmpty"} /\ child[t].started
  /\ pc \in {"validate", "dispatch"} => cur \notin sent

(* The bridge keeps its promise, and only works on what it was sent.       *)
Promised ==
  /\ phase \in [Tasks -> {"new", "refused"} \cup Device!Open \cup Device!Final]
  /\ moving \subseteq done /\ lost \subseteq sent
  /\ \A t \in Tasks :
       /\ t \notin sent => phase[t] = "new"
       /\ phase[t] \in {"new", "refused"} => t \notin done
       /\ phase[t] = "COMPLETED" => t \in done
       /\ phase[t] = "CANCELED" => t \notin moving
       /\ t \in lost => phase[t] = "SAFE_STOP"

(* What the callbacks noted of a command is true of it.                    *)
Noted ==
  \A t \in Tasks :
    /\ child[t].responded => t \in sent /\ phase[t] # "new"
    /\ child[t].handle <=> child[t].responded /\ phase[t] # "refused"
    /\ Terminal(t) => child[t].handle /\ phase[t] \in Device!Final
    /\ Terminal(t) => child[t].result = IF t \in lost THEN "UNKNOWN" ELSE phase[t]
    /\ child[t].cancelSent => t \in cancels

(* What the worker knows where it is.                                      *)
Informed ==
  /\ pc = "resolve" /\ cause = "none" => child[cur].responded
  /\ pc = "accepted" => child[cur].responded /\ hasHandle = child[cur].handle
  /\ pc \in Holding => child[cur].handle
  /\ pc \in {"outcome", "confirm"} => Terminal(cur)
  /\ pc = "confirm" => cause = "none" /\ child[cur].result = "COMPLETED"
  /\ pc \in Halting => child[cur].cancelReq
  /\ pc = "grace" => cause # "none"

(* A command is given up only with a cancel asked for, and as long as no   *)
(* dispatch failed a cancel asked for is sent as soon as there is a handle.*)
GivenUp(t) == parent[t] \in Settled \/ (t = cur /\ pc = "commit")
Chased ==
  \A t \in Tasks :
    /\ t \in sent /\ GivenUp(t) =>
         child[t].cancelReq \/ Terminal(t) \/ (child[t].responded /\ ~child[t].handle)
    /\ faults.missed = 0 /\ child[t].cancelReq /\ child[t].handle => child[t].cancelSent

(* What a result says of the command of its task.                          *)
Grounded(t, r) ==
  /\ r.outcome = "CANCELED"  => t \notin sent \/ phase[t] \in {"refused", "CANCELED"}
  /\ r.outcome = "COMPLETED" => phase[t] = "COMPLETED"
  /\ t \in sent /\ phase[t] \in {"new"} \cup Device!Open => r.code \in InDoubtCodes
Reasoned ==
  /\ pc = "commit" => Grounded(cur, pend)
  /\ \A t \in Tasks : parent[t] \in Settled => Grounded(t, result[t])

(* The event of a task comes last.                                         *)
AnnouncedLast ==
  \A i \in 1..Len(events) :
    /\ parent[events[i].task] \in Settled
    /\ events[i].task = cur => pc = "release"

Inv ==
  /\ TypeOK /\ Placed /\ Recorded /\ Promised /\ Noted /\ Informed /\ Chased /\ Reasoned
  /\ AnnouncedLast /\ OneTaskAtATime /\ EventsTellTheTruth

(***************************************************************************)
(* The cancel of a command, wherever it is asked for or sent.              *)
(***************************************************************************)
(* Updates of a child's fields keep its type. *)
LEMMA ChildFields ==
  ASSUME NEW c \in Children
  PROVE  /\ [c EXCEPT !.started = TRUE] \in Children
         /\ [c EXCEPT !.cancelReq = TRUE] \in Children
         /\ [c EXCEPT !.cancelSent = TRUE] \in Children
         /\ [c EXCEPT !.timedOut = TRUE] \in Children
         /\ \A h \in BOOLEAN : [c EXCEPT !.responded = TRUE, !.handle = h] \in Children
         /\ \A r \in {"UNKNOWN"} \cup Device!Final : [c EXCEPT !.result = r] \in Children
BY DEF Children

(* What a cancel leaves alone in the command of t, and what it promises.   *)
Kept(t) ==
  /\ child' \in [Tasks -> Children] /\ faults' \in [thrown: 0..MaxFaults, missed: 0..MaxMisses]
  /\ \A u \in Tasks : u # t => child'[u] = child[u]
  /\ child'[t].started = child[t].started /\ child'[t].responded = child[t].responded
  /\ child'[t].handle = child[t].handle /\ child'[t].result = child[t].result
  /\ child[t].cancelReq => child'[t].cancelReq
  /\ child'[t].cancelSent => t \in cancels'
  /\ cancels \subseteq cancels' /\ cancels' \subseteq sent
  /\ faults'.missed = 0 => faults.missed = 0
  /\ faults'.missed = 0 /\ child'[t].cancelReq /\ child'[t].handle => child'[t].cancelSent

(* Dispatch hands over a child that is about to ask for a cancel, or not.   *)
LEMMA DispatchStep ==
  ASSUME Inv, NEW t \in Tasks, NEW c \in Children, Dispatch(t, c),
         c.handle => t \in sent, c.cancelSent => t \in cancels
  PROVE  /\ child' \in [Tasks -> Children]
         /\ faults' \in [thrown: 0..MaxFaults, missed: 0..MaxMisses]
         /\ \A u \in Tasks : u # t => child'[u] = child[u]
         /\ child'[t].started = c.started /\ child'[t].responded = c.responded
         /\ child'[t].handle = c.handle /\ child'[t].result = c.result
         /\ child'[t].cancelReq = c.cancelReq
         /\ child'[t].cancelSent => t \in cancels'
         /\ cancels \subseteq cancels' /\ cancels' \subseteq sent
         /\ faults'.missed = 0 => faults.missed = 0
         /\ faults'.missed = 0 /\ c.cancelReq /\ c.handle => child'[t].cancelSent
<1>1. /\ child \in [Tasks -> Children] /\ faults \in [thrown: 0..MaxFaults, missed: 0..MaxMisses]
      /\ cancels \subseteq sent /\ MaxMisses \in Nat
  BY ExecutorAssumption DEF Inv, TypeOK
<1>2. CASE c.handle /\ c.cancelReq /\ ~c.cancelSent
  <2>1. CASE child' = [child EXCEPT ![t] = [c EXCEPT !.cancelSent = TRUE]]
             /\ cancels' = cancels \cup {t} /\ faults' = faults
    <3>1. /\ child'[t] = [c EXCEPT !.cancelSent = TRUE]
          /\ \A u \in Tasks : u # t => child'[u] = child[u]
      BY <1>1, <2>1
    <3>2. child' \in [Tasks -> Children]
      BY <1>1, <2>1, ChildFields
    <3>3. /\ child'[t].started = c.started /\ child'[t].responded = c.responded
          /\ child'[t].handle = c.handle /\ child'[t].result = c.result
          /\ child'[t].cancelReq = c.cancelReq /\ child'[t].cancelSent
      BY <3>1 DEF Children
    <3> QED
      BY <1>1, <1>2, <2>1, <3>1, <3>2, <3>3
  <2>2. CASE child' = [child EXCEPT ![t] = c] /\ cancels' = cancels /\ CancelMiss
    <3>1. faults'.missed # 0 /\ faults' \in [thrown: 0..MaxFaults, missed: 0..MaxMisses]
      BY <1>1, <2>2 DEF CancelMiss
    <3>2. /\ child'[t] = c /\ child' \in [Tasks -> Children]
          /\ \A u \in Tasks : u # t => child'[u] = child[u]
      BY <1>1, <2>2
    <3> QED
      BY <1>1, <1>2, <2>2, <3>1, <3>2
  <2> QED
    BY <1>2, <2>1, <2>2 DEF Dispatch
<1>3. CASE ~(c.handle /\ c.cancelReq /\ ~c.cancelSent)
  <2>1. child' = [child EXCEPT ![t] = c] /\ cancels' = cancels /\ faults' = faults
    BY <1>3 DEF Dispatch
  <2>2. /\ child'[t] = c /\ child' \in [Tasks -> Children]
        /\ \A u \in Tasks : u # t => child'[u] = child[u]
    BY <1>1, <2>1
  <2> QED
    BY <1>1, <1>3, <2>1, <2>2
<1> QED
  BY <1>2, <1>3

(* A copy of the child that asks for no less.                              *)
Successor(t, c) ==
  /\ c \in Children
  /\ c.started = child[t].started /\ c.responded = child[t].responded
  /\ c.handle = child[t].handle /\ c.result = child[t].result
  /\ child[t].cancelReq => c.cancelReq
  /\ c.cancelSent = child[t].cancelSent

LEMMA DispatchKept ==
  ASSUME Inv, NEW t \in Tasks, NEW c, Successor(t, c), Dispatch(t, c)
  PROVE  Kept(t) /\ child'[t].cancelReq = c.cancelReq
<1>1. c \in Children /\ (c.handle => t \in sent) /\ (c.cancelSent => t \in cancels)
  BY DEF Inv, Noted, Successor
<1> QED
  BY <1>1, DispatchStep DEF Kept, Successor

LEMMA CancelKept ==
  ASSUME Inv, cur \in Tasks, CancelChildOnce
  PROVE  Kept(cur) /\ child'[cur].cancelReq
<1> DEFINE c == [child[cur] EXCEPT !.cancelReq = TRUE]
<1>1. child[cur] \in Children
  BY DEF Inv, TypeOK
<1>2. c \in Children
  BY <1>1, ChildFields
<1>3. c = [child[cur] EXCEPT !.cancelReq = TRUE] /\ child[cur] \in Children
  BY <1>1
<1>4. Successor(cur, c) /\ c.cancelReq
  BY <1>2, <1>3 DEF Successor, Children
<1>5. Dispatch(cur, c)
  BY DEF CancelChildOnce
<1> HIDE DEF c
<1> QED
  BY <1>4, <1>5, DispatchKept

LEMMA LeaveKept ==
  ASSUME Inv, NEW t \in Tasks, UNCHANGED <<child, cancels, faults>>
  PROVE  Kept(t)
BY DEF Kept, Inv, TypeOK, Noted, Chased

(* record_cancel_timeout *)
LEMMA TimeoutSuccessor ==
  ASSUME Inv, cur \in Tasks, NEW c \in RecordCancelTimeout(child[cur])
  PROVE  Successor(cur, c)
<1>1. child[cur] \in Children
  BY DEF Inv, TypeOK
<1>2. c = child[cur] \/ c = [child[cur] EXCEPT !.timedOut = TRUE]
  BY DEF RecordCancelTimeout
<1>3. c \in Children
  BY <1>1, <1>2, ChildFields
<1> QED
  BY <1>1, <1>2, <1>3 DEF Successor, Children

LEMMA TimeoutKept ==
  ASSUME Inv, cur \in Tasks, NEW c \in RecordCancelTimeout(child[cur]),
         child' = [child EXCEPT ![cur] = c], UNCHANGED <<cancels, faults>>
  PROVE  Kept(cur)
<1>1. Successor(cur, c) /\ child \in [Tasks -> Children]
  BY TimeoutSuccessor DEF Inv, TypeOK
<1>2. /\ child'[cur] = c /\ child' \in [Tasks -> Children]
      /\ \A u \in Tasks : u # cur => child'[u] = child[u]
  BY <1>1 DEF Successor
<1>3. /\ faults \in [thrown: 0..MaxFaults, missed: 0..MaxMisses] /\ cancels \subseteq sent
      /\ child[cur].cancelSent => cur \in cancels
      /\ faults.missed = 0 /\ child[cur].cancelReq /\ child[cur].handle => child[cur].cancelSent
  BY DEF Inv, TypeOK, Noted, Chased
<1>4. c.cancelReq = child[cur].cancelReq
  BY DEF RecordCancelTimeout, Inv, TypeOK, Children
<1> QED
  BY <1>1, <1>2, <1>3, <1>4 DEF Kept, Successor

LEMMA KeptEverywhere ==
  ASSUME Inv, NEW t \in Tasks, Kept(t)
  PROVE  \A u \in Tasks :
           /\ child'[u].started = child[u].started /\ child'[u].responded = child[u].responded
           /\ child'[u].handle = child[u].handle /\ child'[u].result = child[u].result
           /\ child[u].cancelReq => child'[u].cancelReq
           /\ child'[u].cancelSent => u \in cancels'
           /\ faults'.missed = 0 /\ child'[u].cancelReq /\ child'[u].handle => child'[u].cancelSent
<1> SUFFICES ASSUME NEW u \in Tasks, u # t
             PROVE  /\ child'[u].started = child[u].started
                    /\ child'[u].responded = child[u].responded
                    /\ child'[u].handle = child[u].handle /\ child'[u].result = child[u].result
                    /\ child[u].cancelReq => child'[u].cancelReq
                    /\ child'[u].cancelSent => u \in cancels'
                    /\ faults'.missed = 0 /\ child'[u].cancelReq /\ child'[u].handle
                         => child'[u].cancelSent
  BY DEF Kept
<1>1. /\ child'[u] = child[u] /\ cancels \subseteq cancels'
      /\ (faults'.missed = 0 => faults.missed = 0)
  BY DEF Kept
<1> QED
  BY <1>1 DEF Inv, Noted, Chased

(* A step that changes no more of the commands keeps what was noted.       *)
LEMMA KeptNoted ==
  ASSUME Inv, NEW t \in Tasks, Kept(t), UNCHANGED <<sent, lost, phase>>
  PROVE  Noted'
<1>1. Noted
  BY DEF Inv
<1> QED
  BY <1>1, KeptEverywhere DEF Noted, Terminal

LEMMA KeptRecorded ==
  ASSUME Inv, NEW t \in Tasks, Kept(t), UNCHANGED <<sent, parent, result, cur>>,
         pc' \notin {"validate", "dispatch"} \/ pc' = pc
  PROVE  Recorded'
<1>1. Recorded
  BY DEF Inv
<1> QED
  BY <1>1, KeptEverywhere DEF Recorded, Live, Settled, NoResult

LEMMA KeptChased ==
  ASSUME Inv, cur \in Tasks, Kept(cur), UNCHANGED <<sent, parent, cur>>,
         cur \in sent /\ pc' = "commit" =>
           child'[cur].cancelReq \/ Terminal(cur) \/ (child[cur].responded /\ ~child[cur].handle)
  PROVE  Chased'
<1>1. Chased /\ parent[cur] \in {"new", "rejected", "canceledEmpty"} \cup Live \cup Settled
  BY DEF Inv, TypeOK
<1> QED
  BY <1>1, KeptEverywhere DEF Chased, GivenUp, Terminal

(***************************************************************************)
(* The invariant, action by action: the callbacks of the node.             *)
(***************************************************************************)
LEMMA EventTasks ==
  ASSUME Inv
  PROVE  \A i \in 1..Len(events) :
           events[i].task \in Tasks /\ parent[events[i].task] \in Settled
<1>1. events \in Seq(TaskEvents)
  BY DEF Inv, TypeOK
<1>2. \A e \in TaskEvents : e.task \in Tasks
  BY DEF TaskEvents
<1>3. \A i \in 1..Len(events) : events[i] \in TaskEvents
  BY <1>1
<1> QED
  BY <1>2, <1>3 DEF Inv, AnnouncedLast

(* An event stays true as long as the task it is about stays as it ended.  *)
LEMMA EventsKept ==
  ASSUME Inv, UNCHANGED <<events, result>>,
         \A t \in Tasks : parent[t] \in Settled => parent'[t] = parent[t]
  PROVE  EventsTellTheTruth'
BY EventTasks DEF Inv, EventsTellTheTruth

LEMMA HandleGoalCheckInv ==
  ASSUME NEW t \in Tasks, Inv, HandleGoalCheck(t)
  PROVE  Inv'
<1> USE DEF Inv, HandleGoalCheck
<1>1. TypeOK'
  <2>1. /\ result' \in [Tasks -> Results]
        /\ pend' \in Results
        /\ events' \in Seq(TaskEvents)
        /\ {accepting', active', terminal', announced', hasHandle', handling'} \subseteq BOOLEAN
        /\ pc' \in Steps
        /\ look' \in {"wait", "running", "cancel", "deadline"}
        /\ cause' \in Causes
        /\ child' \in [Tasks -> Children]
        /\ sent' \subseteq Tasks
        /\ cancels' \subseteq sent'
        /\ late' \subseteq Tasks
        /\ lost' \subseteq sent'
        /\ process' \in Spinning \cup Gone \cup {"spinlost", "stopping"}
        /\ faults' \in [thrown: 0..MaxFaults, missed: 0..MaxMisses]
    BY DEF TypeOK, workerVars, childVars, mainVars
  <2>2. parent' \in [Tasks -> {"new", "rejected", "canceledEmpty"} \cup Live \cup Settled]
    BY DEF TypeOK
  <2>3. {goalId', callback', cur'} \subseteq Tasks \cup {NoTask}
    BY DEF TypeOK, workerVars
  <2> QED
    BY <2>1, <2>2, <2>3 DEF TypeOK
<1>2. Promised' /\ Noted' /\ Informed'
  BY DEF workerVars, childVars, deviceVars, Promised, Noted, Terminal, Informed
<1>3. Placed'
  BY DEF CanCallBack, workerVars, mainVars, Placed, TypeOK, Live, Settled, Before, Gone,
      Spinning
<1>4. Recorded'
  BY DEF workerVars, childVars, Recorded, TypeOK, Live, Settled
<1>5. Chased'
  BY DEF workerVars, childVars, Chased, GivenUp, Terminal, TypeOK, Settled
<1>6. Reasoned'
  BY DEF workerVars, childVars, deviceVars, Reasoned, Grounded, TypeOK, Settled
<1>7. AnnouncedLast'
  BY EventTasks DEF AnnouncedLast, TypeOK, Placed, Settled, workerVars
<1>8. OneTaskAtATime'
  BY DEF workerVars, OneTaskAtATime, TypeOK, Live
<1>9. EventsTellTheTruth'
  BY EventsKept DEF TypeOK, Placed, Live, Settled, CanCallBack
<1> QED
  BY <1>1, <1>2, <1>3, <1>4, <1>5, <1>6, <1>7, <1>8, <1>9 DEF Inv

LEMMA HandleGoalBusyInv ==
  ASSUME Inv, HandleGoalBusy
  PROVE  Inv'
<1> USE DEF Inv, HandleGoalBusy
<1>1. TypeOK'
  BY DEF TypeOK, workerVars, childVars, mainVars
<1>2. Promised' /\ Noted' /\ Informed'
  BY DEF workerVars, childVars, deviceVars, Promised, Noted, Terminal, Informed
<1>3. Placed'
  BY DEF workerVars, Placed, Live, Settled
<1>4. Recorded'
  BY DEF workerVars, childVars, Recorded, Live, Settled, Placed
<1>5. Chased'
  BY DEF workerVars, childVars, Chased, GivenUp, Terminal, Settled
<1>6. Reasoned'
  BY DEF workerVars, childVars, deviceVars, Reasoned, Grounded, Settled
<1>7. AnnouncedLast'
  BY EventTasks DEF AnnouncedLast, TypeOK, Placed, Settled, workerVars
<1>8. OneTaskAtATime'
  BY DEF workerVars, OneTaskAtATime, Live
<1>9. EventsTellTheTruth'
  BY EventsKept DEF TypeOK, Placed, Live, Settled, CanCallBack
<1> QED
  BY <1>1, <1>2, <1>3, <1>4, <1>5, <1>6, <1>7, <1>8, <1>9 DEF Inv

LEMMA HandleGoalClaimInv ==
  ASSUME Inv, HandleGoalClaim
  PROVE  Inv'
<1> USE DEF HandleGoalClaim
<1>1. TypeOK'
  <2>1. /\ result' \in [Tasks -> Results]
        /\ pend' \in Results
        /\ events' \in Seq(TaskEvents)
        /\ child' \in [Tasks -> Children]
        /\ sent' \subseteq Tasks
        /\ cancels' \subseteq sent'
        /\ late' \subseteq Tasks
        /\ lost' \subseteq sent'
        /\ process' \in Spinning \cup Gone \cup {"spinlost", "stopping"}
        /\ faults' \in [thrown: 0..MaxFaults, missed: 0..MaxMisses]
    BY DEF Inv, TypeOK, childVars, mainVars
  <2>2. parent' \in [Tasks -> {"new", "rejected", "canceledEmpty"} \cup Live \cup Settled]
    BY DEF TypeOK, Inv, Live
  <2>3. {accepting', active', terminal', announced', hasHandle', handling'} \subseteq BOOLEAN
    BY DEF TypeOK, Claim, mainVars, Inv
  <2>4. {goalId', callback', cur'} \subseteq Tasks \cup {NoTask}
    BY DEF TypeOK, Inv
  <2>5. /\ pc' \in Steps
        /\ look' \in {"wait", "running", "cancel", "deadline"}
        /\ cause' \in Causes
    BY DEF TypeOK, Goto, Inv, Steps
  <2> QED
    BY <2>1, <2>2, <2>3, <2>4, <2>5 DEF TypeOK
<1>2. Promised' /\ Noted'
  BY DEF Inv, childVars, deviceVars, Promised, Noted, Terminal
<1>3. Placed'
  BY DEF Claim, Goto, Inv, Placed, TypeOK, Live
<1>4. Recorded'
  BY DEF childVars, Inv, Recorded, TypeOK, Live, Settled, Placed
<1>5. Informed'
  BY DEF Goto, Informed, Holding, Halting
<1>6. Chased'
  BY DEF Goto, childVars, Inv, Chased, GivenUp, Terminal, Settled
<1>7. Reasoned'
  BY DEF Goto, childVars, deviceVars, Inv, Reasoned, Grounded, Settled
<1>8. AnnouncedLast'
  BY EventTasks DEF Inv, AnnouncedLast, TypeOK, Placed, Settled, workerVars
<1>9. OneTaskAtATime'
  BY DEF Claim, Inv, OneTaskAtATime
<1>10. EventsTellTheTruth'
  BY EventsKept DEF Inv, TypeOK, Placed, Live, Settled, CanCallBack
<1> QED
  BY <1>1, <1>2, <1>3, <1>4, <1>5, <1>6, <1>7, <1>8, <1>9, <1>10 DEF Inv

LEMMA HandleCancelInv ==
  ASSUME NEW t \in Tasks, Inv, HandleCancel(t)
  PROVE  Inv'
<1> USE DEF Inv, HandleCancel
<1>1. TypeOK'
  BY DEF TypeOK, workerVars, childVars, mainVars, Live
<1>2. Promised' /\ Noted' /\ Informed'
  BY DEF workerVars, childVars, deviceVars, Promised, Noted, Terminal, Informed
<1>3. Placed'
  BY DEF CanCallBack, workerVars, Placed, Live, Settled
<1>4. Recorded'
  BY DEF workerVars, childVars, Recorded, Live, Settled
<1>5. Chased'
  BY DEF workerVars, childVars, Chased, GivenUp, Terminal, Settled
<1>6. Reasoned'
  BY DEF workerVars, childVars, deviceVars, Reasoned, Grounded, Settled
<1>7. AnnouncedLast'
  BY EventTasks DEF AnnouncedLast, TypeOK, Placed, Settled, workerVars
<1>8. OneTaskAtATime'
  BY DEF workerVars, OneTaskAtATime, Live
<1>9. EventsTellTheTruth'
  BY EventsKept DEF TypeOK, Placed, Live, Settled, CanCallBack
<1> QED
  BY <1>1, <1>2, <1>3, <1>4, <1>5, <1>6, <1>7, <1>8, <1>9 DEF Inv

LEMMA GoalResponseInv ==
  ASSUME NEW t \in Tasks, Inv, GoalResponse(t)
  PROVE  Inv'
<1> DEFINE c == [child[t] EXCEPT !.responded = TRUE, !.handle = phase[t] # "refused"]
<1>1. /\ t \in sent /\ phase[t] # "new" /\ ~child[t].responded /\ ~child[t].handle
      /\ ~child[t].cancelSent \/ t \in cancels
      /\ child[t] \in Children /\ child[t].result = "none"
  BY DEF GoalResponse, Inv, TypeOK, Noted, Terminal
<1>2. c \in Children /\ c.started = child[t].started /\ c.responded
      /\ c.handle = (phase[t] # "refused") /\ c.result = child[t].result
      /\ c.cancelReq = child[t].cancelReq /\ c.cancelSent = child[t].cancelSent
  BY <1>1 DEF Children
<1>3. Dispatch(t, c)
  BY DEF GoalResponse, LateCancel
<1> HIDE DEF c
<1>4. /\ child' \in [Tasks -> Children] /\ faults' \in [thrown: 0..MaxFaults, missed: 0..MaxMisses]
      /\ \A u \in Tasks : u # t => child'[u] = child[u]
      /\ child'[t].started = child[t].started /\ child'[t].responded
      /\ child'[t].handle = (phase[t] # "refused") /\ child'[t].result = "none"
      /\ child'[t].cancelReq = child[t].cancelReq
      /\ child'[t].cancelSent => t \in cancels'
      /\ cancels \subseteq cancels' /\ cancels' \subseteq sent
      /\ faults'.missed = 0 => faults.missed = 0
      /\ faults'.missed = 0 /\ child'[t].cancelReq /\ child'[t].handle => child'[t].cancelSent
  BY <1>1, <1>2, <1>3, DispatchStep
<1> USE DEF GoalResponse, nodeVars, workerVars, mainVars, deviceVars, Inv
<1>5. TypeOK'
  BY <1>4 DEF TypeOK
<1>6. Placed' /\ AnnouncedLast' /\ OneTaskAtATime' /\ EventsTellTheTruth'
  BY DEF Placed, AnnouncedLast, OneTaskAtATime, EventsTellTheTruth
<1>7. Recorded'
  BY <1>1, <1>4 DEF Recorded
<1>8. Promised' /\ Reasoned'
  BY DEF Promised, Reasoned, Grounded
<1>9. Noted'
  BY <1>1, <1>4 DEF Noted, Terminal
<1>10. Informed'
  <2>1. pc \in {"outcome", "confirm", "accepted"} \cup Holding => cur # t
    BY <1>1 DEF Informed, Holding
  <2> QED
    BY <1>1, <1>4, <2>1 DEF Informed, Terminal, Holding, Halting, TypeOK, Placed
<1>11. Chased'
  BY <1>1, <1>4 DEF Chased, GivenUp, Terminal
<1> QED
  BY <1>5, <1>6, <1>7, <1>8, <1>9, <1>10, <1>11

LEMMA ResultCallbackChild ==
  ASSUME NEW t \in Tasks, Inv, ResultCallback(t)
  PROVE  child' \in [Tasks -> Children]
<1>1. child \in [Tasks -> Children] /\ child[t] \in Children
  BY DEF Inv, TypeOK
<1>2. PICK r \in {"UNKNOWN"} \cup Device!Final :
        child' = [child EXCEPT ![t] = [child[t] EXCEPT !.result = r]]
  BY DEF ResultCallback
<1> QED
  BY <1>1, <1>2, ChildFields

LEMMA ResultCallbackInv ==
  ASSUME NEW t \in Tasks, Inv, ResultCallback(t)
  PROVE  Inv'
<1>1. child' \in [Tasks -> Children]
  BY ResultCallbackChild
<1> USE DEF Inv, ResultCallback
<1>2. TypeOK'
  BY <1>1 DEF TypeOK, nodeVars, workerVars, mainVars
<1>3. /\ Placed'
      /\ Promised'
      /\ Reasoned'
      /\ AnnouncedLast'
      /\ OneTaskAtATime'
      /\ EventsTellTheTruth'
  BY DEF CanCallBack, nodeVars, workerVars, deviceVars, Placed, Promised, Reasoned, Grounded,
      AnnouncedLast, OneTaskAtATime, EventsTellTheTruth
<1>4. Recorded'
  BY DEF nodeVars, workerVars, Recorded
<1>5. Noted'
  BY DEF deviceVars, Noted, Terminal
<1>6. Informed'
  BY DEF workerVars, Informed, Terminal
<1>7. Chased'
  BY DEF nodeVars, workerVars, Chased, GivenUp, Terminal
<1> QED
  BY <1>2, <1>3, <1>4, <1>5, <1>6, <1>7 DEF Inv

(***************************************************************************)
(* The worker up to the drain of the command.                              *)
(***************************************************************************)
LEMMA LookOnInv ==
  ASSUME Inv, LookOn
  PROVE  Inv'
<1> USE DEF Inv, LookOn, nodeVars, childVars, mainVars
<1>1. TypeOK'
  BY DEF TypeOK, NextLook
<1>2. /\ Placed'
      /\ Recorded'
      /\ Promised'
      /\ Noted'
      /\ Informed'
      /\ Chased'
      /\ Reasoned'
      /\ AnnouncedLast'
      /\ OneTaskAtATime'
      /\ EventsTellTheTruth'
  BY DEF deviceVars, Placed, Recorded, Promised, Noted, Terminal, Informed, Chased, GivenUp,
      Reasoned, Grounded, AnnouncedLast, OneTaskAtATime, EventsTellTheTruth
<1> QED
  BY <1>1, <1>2 DEF Inv

LEMMA ValidateStopsInv ==
  ASSUME Inv, ValidateStops
  PROVE  Inv'
<1> USE DEF ValidateStops
<1>1. TypeOK'
  BY DEF TypeOK, Worker, Report, LeaveChild, nodeVars, mainVars, Goto, childVars, Inv, Steps,
      Results, Outcomes, Codes
<1>2. Promised' /\ Noted' /\ OneTaskAtATime' /\ EventsTellTheTruth'
  BY DEF Inv, Worker, LeaveChild, nodeVars, deviceVars, childVars, Promised, Noted, Terminal,
      OneTaskAtATime, EventsTellTheTruth
<1>3. Placed'
  BY DEF Worker, Report, nodeVars, mainVars, Goto, Inv, Placed, TypeOK, Before
<1>4. Recorded'
  BY DEF Worker, LeaveChild, nodeVars, childVars, Inv, Recorded
<1>5. Informed'
  BY DEF Report, Goto, Informed, Holding, Halting
<1>6. Chased'
  BY DEF Worker, LeaveChild, nodeVars, childVars, Inv, Chased, GivenUp, Terminal, Recorded
<1>7. Reasoned'
  BY DEF Worker, Report, LeaveChild, nodeVars, deviceVars, childVars, Inv, Reasoned, Grounded,
      Recorded
<1>8. AnnouncedLast'
  BY DEF Worker, nodeVars, Inv, AnnouncedLast
<1> QED
  BY <1>1, <1>2, <1>3, <1>4, <1>5, <1>6, <1>7, <1>8 DEF Inv

LEMMA ValidateGoesOnInv ==
  ASSUME Inv, ValidateGoesOn
  PROVE  Inv'
<1> USE DEF ValidateGoesOn
<1>1. TypeOK'
  BY DEF TypeOK, Worker, Goto, Report, LeaveChild, nodeVars, mainVars, childVars, Inv, Steps,
      Results, Outcomes, Codes
<1>2. Promised' /\ Noted' /\ OneTaskAtATime' /\ EventsTellTheTruth'
  BY DEF Inv, Worker, LeaveChild, nodeVars, deviceVars, childVars, Promised, Noted, Terminal,
      OneTaskAtATime, EventsTellTheTruth
<1>3. Placed'
  BY DEF Worker, Goto, Report, nodeVars, mainVars, Inv, Placed, TypeOK, Before
<1>4. Recorded'
  BY DEF Worker, LeaveChild, nodeVars, childVars, Inv, Recorded
<1>5. Informed'
  BY DEF Goto, Report, Informed, Holding, Halting
<1>6. Chased'
  BY DEF Worker, LeaveChild, nodeVars, childVars, Inv, Chased, GivenUp, Terminal, Recorded
<1>7. Reasoned'
  BY DEF Worker, Goto, Report, LeaveChild, nodeVars, deviceVars, childVars, Inv, Reasoned,
      Grounded, Recorded
<1>8. AnnouncedLast'
  BY DEF Worker, nodeVars, Inv, AnnouncedLast
<1> QED
  BY <1>1, <1>2, <1>3, <1>4, <1>5, <1>6, <1>7, <1>8 DEF Inv

LEMMA SendGoalChild ==
  ASSUME Inv, SendGoal
  PROVE  child' \in [Tasks -> Children]
<1>1. child \in [Tasks -> Children] /\ cur \in Tasks
  BY DEF Inv, TypeOK, Placed, SendGoal, Worker
<1>2. child' = [child EXCEPT ![cur] = [child[cur] EXCEPT !.started = TRUE]]
  BY DEF SendGoal
<1> QED
  BY <1>1, <1>2, ChildFields

LEMMA SendGoalInv ==
  ASSUME Inv, SendGoal
  PROVE  Inv'
<1>1. child' \in [Tasks -> Children]
  BY SendGoalChild
<1> USE DEF SendGoal
<1>2. TypeOK'
  BY <1>1 DEF TypeOK, Worker, Goto, nodeVars, mainVars, Inv, Steps
<1>3. OneTaskAtATime' /\ EventsTellTheTruth'
  BY DEF Inv, Worker, nodeVars, OneTaskAtATime, EventsTellTheTruth
<1>4. Placed'
  BY DEF Worker, Goto, nodeVars, mainVars, Inv, Placed, TypeOK, Before
<1>5. Recorded'
  BY DEF Worker, Goto, nodeVars, Inv, Recorded, TypeOK, Placed, Before
<1>6. Promised'
  BY DEF Worker, deviceVars, Inv, Promised
<1>7. Noted'
  BY DEF Worker, deviceVars, Inv, Noted, Terminal
<1>8. Informed'
  BY DEF Goto, Informed, Holding, Halting
<1>9. Chased'
  BY DEF Worker, Goto, nodeVars, Inv, Chased, GivenUp, Terminal, TypeOK, Live, Settled, Placed,
      Before
<1>10. Reasoned'
  BY DEF Worker, Goto, nodeVars, deviceVars, Inv, Reasoned, Grounded, TypeOK, Live, Settled,
      Placed, Before
<1>11. AnnouncedLast'
  BY DEF Worker, nodeVars, Inv, AnnouncedLast
<1> QED
  BY <1>2, <1>3, <1>4, <1>5, <1>6, <1>7, <1>8, <1>9, <1>10, <1>11 DEF Inv

LEMMA AwaitResponseInv ==
  ASSUME Inv, AwaitResponse
  PROVE  Inv'
<1> USE DEF AwaitResponse, Worker
<1>1. TypeOK'
  BY DEF TypeOK, Goto, LeaveChild, nodeVars, mainVars, childVars, Inv, Steps
<1>2. Promised' /\ Noted' /\ OneTaskAtATime' /\ EventsTellTheTruth'
  BY DEF Inv, LeaveChild, nodeVars, deviceVars, childVars, Promised, Noted, Terminal,
      OneTaskAtATime, EventsTellTheTruth
<1>3. Placed'
  BY DEF Goto, nodeVars, mainVars, Inv, Placed, TypeOK, Before
<1>4. Recorded'
  BY DEF Goto, LeaveChild, nodeVars, childVars, Inv, Recorded
<1>5. Informed'
  BY DEF Goto, LeaveChild, childVars, Informed, Holding, Halting
<1>6. Chased'
  BY DEF Goto, LeaveChild, nodeVars, childVars, Inv, Chased, GivenUp, Terminal
<1>7. Reasoned'
  BY DEF Goto, LeaveChild, nodeVars, deviceVars, childVars, Inv, Reasoned, Grounded
<1>8. AnnouncedLast'
  BY DEF nodeVars, Inv, AnnouncedLast
<1> QED
  BY <1>1, <1>2, <1>3, <1>4, <1>5, <1>6, <1>7, <1>8 DEF Inv

LEMMA AwaitStopsInv ==
  ASSUME Inv, AwaitStops
  PROVE  Inv'
<1> USE DEF AwaitStops
<1>1. TypeOK'
  BY DEF TypeOK, Worker, Observed, Goto, LeaveChild, nodeVars, mainVars, childVars, Inv, Steps,
      Causes
<1>2. Promised' /\ Noted' /\ OneTaskAtATime' /\ EventsTellTheTruth'
  BY DEF Inv, Worker, LeaveChild, nodeVars, deviceVars, childVars, Promised, Noted, Terminal,
      OneTaskAtATime, EventsTellTheTruth
<1>3. Placed'
  BY DEF Worker, Goto, nodeVars, mainVars, Inv, Placed, TypeOK, Before
<1>4. Recorded'
  BY DEF Worker, Goto, LeaveChild, nodeVars, childVars, Inv, Recorded
<1>5. Informed'
  BY DEF Goto, Informed, Holding, Halting
<1>6. Chased'
  BY DEF Worker, Goto, LeaveChild, nodeVars, childVars, Inv, Chased, GivenUp, Terminal
<1>7. Reasoned'
  BY DEF Worker, Goto, LeaveChild, nodeVars, deviceVars, childVars, Inv, Reasoned, Grounded
<1>8. AnnouncedLast'
  BY DEF Worker, nodeVars, Inv, AnnouncedLast
<1> QED
  BY <1>1, <1>2, <1>3, <1>4, <1>5, <1>6, <1>7, <1>8 DEF Inv

LEMMA ResolveInv ==
  ASSUME Inv, Resolve
  PROVE  Inv'
<1>1. cur \in Tasks
  BY DEF Inv, Placed, TypeOK, Worker, Resolve
<1>2. Kept(cur) /\ (CancelChildOnce => child'[cur].cancelReq)
  BY <1>1, CancelKept, LeaveKept DEF Resolve, LeaveChild, childVars, Worker
<1> USE DEF Resolve
<1>3. TypeOK'
  <2>1. /\ parent' \in [Tasks -> {"new", "rejected", "canceledEmpty"} \cup Live \cup Settled]
        /\ result' \in [Tasks -> Results]
        /\ pend' \in Results
        /\ events' \in Seq(TaskEvents)
        /\ {goalId', callback', cur'} \subseteq Tasks \cup {NoTask}
        /\ process' \in Spinning \cup Gone \cup {"spinlost", "stopping"}
    BY <1>1, <1>2 DEF Inv, TypeOK, Worker, nodeVars, mainVars
  <2>2. {accepting', active', terminal', announced', hasHandle', handling'} \subseteq BOOLEAN
    BY <1>1, <1>2 DEF TypeOK, Worker, nodeVars, mainVars, Inv, Children
  <2>3. /\ pc' \in Steps
        /\ look' \in {"wait", "running", "cancel", "deadline"}
        /\ cause' \in Causes
    BY <1>1, <1>2 DEF TypeOK, Goto, Inv, Steps, Causes
  <2>4. /\ sent' \subseteq Tasks
        /\ cancels' \subseteq sent'
        /\ late' \subseteq Tasks
        /\ lost' \subseteq sent'
    BY <1>1, <1>2 DEF TypeOK, Worker, CancelChildOnce, LeaveChild, childVars, Inv, Kept
  <2> QED
    BY <1>2, <2>1, <2>2, <2>3, <2>4 DEF TypeOK, Kept
<1>4. Promised' /\ OneTaskAtATime' /\ EventsTellTheTruth'
  BY <1>1, <1>2 DEF Inv, Worker, nodeVars, deviceVars, CancelChildOnce, LeaveChild, childVars,
      Promised, OneTaskAtATime, EventsTellTheTruth
<1>5. Placed'
  BY <1>1, <1>2 DEF Worker, Goto, nodeVars, mainVars, Placed, Inv, TypeOK, Before
<1>6. Recorded'
  BY <1>1, <1>2, KeptRecorded DEF Worker, Goto, nodeVars, CancelChildOnce, LeaveChild, childVars
<1>7. Noted'
  BY <1>1, <1>2, KeptNoted DEF Worker, deviceVars, CancelChildOnce, LeaveChild, childVars
<1>8. Informed'
  BY <1>1, <1>2 DEF Worker, Goto, LeaveChild, childVars, Informed, Holding, Halting, Inv
<1>9. Chased'
  BY <1>1, <1>2, KeptChased DEF Worker, Goto, nodeVars, CancelChildOnce, LeaveChild, childVars
<1>10. Reasoned'
  BY <1>1, <1>2 DEF Worker, Goto, nodeVars, deviceVars, CancelChildOnce, LeaveChild, childVars,
      Reasoned, Grounded, Inv
<1>11. AnnouncedLast'
  BY <1>1, <1>2 DEF Worker, nodeVars, AnnouncedLast, Inv
<1> QED
  BY <1>3, <1>4, <1>5, <1>6, <1>7, <1>8, <1>9, <1>10, <1>11 DEF Inv

LEMMA GraceEndsInv ==
  ASSUME Inv, GraceEnds
  PROVE  Inv'
<1> USE DEF Inv, GraceEnds, Worker
<1>1. TypeOK'
  BY DEF TypeOK, Goto, Report, LeaveChild, nodeVars, mainVars, childVars, Placed, Steps,
      Results, Outcomes, Codes, Children
<1>2. Promised' /\ Noted' /\ OneTaskAtATime' /\ EventsTellTheTruth'
  BY DEF LeaveChild, nodeVars, deviceVars, childVars, Promised, Noted, Terminal, OneTaskAtATime,
      EventsTellTheTruth
<1>3. Placed'
  BY DEF Goto, Report, nodeVars, mainVars, Placed, TypeOK, Before
<1>4. Recorded'
  BY DEF Goto, Report, LeaveChild, nodeVars, childVars, Recorded
<1>5. Informed'
  BY DEF Goto, Report, LeaveChild, childVars, Informed, Holding, Halting, TypeOK, Placed, Noted
<1>6. Chased'
  BY DEF LeaveChild, nodeVars, childVars, Chased, GivenUp, Terminal, Informed, Halting
<1>7. Reasoned'
  BY DEF Goto, Report, AcceptanceUnknown, LeaveChild, nodeVars, deviceVars, childVars, Reasoned,
      Grounded, TypeOK, Noted, Device!Open, InDoubtCodes
<1>8. AnnouncedLast'
  BY DEF nodeVars, AnnouncedLast
<1> QED
  BY <1>1, <1>2, <1>3, <1>4, <1>5, <1>6, <1>7, <1>8 DEF Inv

LEMMA AcceptedInv ==
  ASSUME Inv, Accepted
  PROVE  Inv'
<1>1. cur \in Tasks
  BY DEF Inv, Placed, TypeOK, Worker, Accepted
<1>2. Kept(cur) /\ (CancelChildOnce => child'[cur].cancelReq)
  BY <1>1, CancelKept, LeaveKept DEF Accepted, LeaveChild, childVars, Worker
<1> USE DEF Accepted
<1>3. TypeOK'
  <2>1. /\ parent' \in [Tasks -> {"new", "rejected", "canceledEmpty"} \cup Live \cup Settled]
        /\ result' \in [Tasks -> Results]
        /\ events' \in Seq(TaskEvents)
        /\ {accepting', active', terminal', announced', hasHandle', handling'} \subseteq BOOLEAN
        /\ {goalId', callback', cur'} \subseteq Tasks \cup {NoTask}
        /\ process' \in Spinning \cup Gone \cup {"spinlost", "stopping"}
    BY <1>1, <1>2 DEF Inv, TypeOK, Worker, nodeVars, mainVars
  <2>2. pend' \in Results
    BY <1>1, <1>2 DEF TypeOK, Report, Inv, Results, Outcomes, Codes
  <2>3. /\ pc' \in Steps
        /\ look' \in {"wait", "running", "cancel", "deadline"}
        /\ cause' \in Causes
    BY <1>1, <1>2 DEF TypeOK, Report, Goto, Inv, Steps
  <2>4. /\ sent' \subseteq Tasks
        /\ cancels' \subseteq sent'
        /\ late' \subseteq Tasks
        /\ lost' \subseteq sent'
    BY <1>1, <1>2 DEF TypeOK, Worker, CancelChildOnce, LeaveChild, childVars, Inv, Kept
  <2> QED
    BY <1>2, <2>1, <2>2, <2>3, <2>4 DEF TypeOK, Kept
<1>4. Promised' /\ OneTaskAtATime' /\ EventsTellTheTruth'
  BY <1>1, <1>2 DEF Inv, Worker, nodeVars, deviceVars, CancelChildOnce, LeaveChild, childVars,
      Promised, OneTaskAtATime, EventsTellTheTruth
<1>5. Placed'
  BY <1>1, <1>2 DEF Worker, Report, Goto, nodeVars, mainVars, Placed, Inv, TypeOK, Before
<1>6. Recorded'
  BY <1>1, <1>2, KeptRecorded DEF Worker, Report, Goto, nodeVars, CancelChildOnce, LeaveChild,
      childVars
<1>7. Noted'
  BY <1>1, <1>2, KeptNoted DEF Worker, deviceVars, CancelChildOnce, LeaveChild, childVars
<1>8. Informed'
  BY <1>1, <1>2 DEF Worker, Report, Goto, Kept, Informed, Holding, Halting, Inv
<1>9. Chased'
  BY <1>1, <1>2, KeptChased DEF Worker, Goto, nodeVars, CancelChildOnce, LeaveChild, childVars,
      Inv, Informed
<1>10. Reasoned'
  BY <1>1, <1>2 DEF Worker, Report, Goto, nodeVars, deviceVars, CancelChildOnce, LeaveChild,
      childVars, Reasoned, Grounded, Inv, Noted, Informed, Device!Open
<1>11. AnnouncedLast'
  BY <1>1, <1>2 DEF Worker, nodeVars, AnnouncedLast, Inv
<1> QED
  BY <1>3, <1>4, <1>5, <1>6, <1>7, <1>8, <1>9, <1>10, <1>11 DEF Inv

LEMMA DrainWaitInv ==
  ASSUME Inv, DrainWait
  PROVE  Inv'
<1>1. cur \in Tasks
  BY DEF Inv, Placed, TypeOK, Worker, DrainWait
<1>2. Kept(cur) /\ (CancelChildOnce => child'[cur].cancelReq)
  BY <1>1, CancelKept, LeaveKept, TimeoutSuccessor, TimeoutKept, DispatchKept DEF DrainWait,
      LeaveChild, childVars
<1> USE DEF DrainWait
<1>3. TypeOK'
  <2>1. /\ parent' \in [Tasks -> {"new", "rejected", "canceledEmpty"} \cup Live \cup Settled]
        /\ result' \in [Tasks -> Results]
        /\ pend' \in Results
        /\ events' \in Seq(TaskEvents)
        /\ {accepting', active', terminal', announced', hasHandle', handling'} \subseteq BOOLEAN
        /\ {goalId', callback', cur'} \subseteq Tasks \cup {NoTask}
        /\ process' \in Spinning \cup Gone \cup {"spinlost", "stopping"}
    BY <1>1, <1>2 DEF Inv, TypeOK, Worker, nodeVars, mainVars
  <2>2. /\ pc' \in Steps
        /\ look' \in {"wait", "running", "cancel", "deadline"}
        /\ cause' \in Causes
    BY <1>1, <1>2 DEF TypeOK, Goto, Inv, Steps
  <2>3. /\ sent' \subseteq Tasks
        /\ cancels' \subseteq sent'
        /\ late' \subseteq Tasks
        /\ lost' \subseteq sent'
    BY <1>1, <1>2 DEF TypeOK, Worker, LeaveChild, childVars, Inv, Kept
  <2> QED
    BY <1>2, <2>1, <2>2, <2>3 DEF TypeOK, Kept
<1>4. Promised' /\ OneTaskAtATime' /\ EventsTellTheTruth'
  BY <1>1, <1>2 DEF Inv, Worker, nodeVars, deviceVars, LeaveChild, childVars, Promised,
      OneTaskAtATime, EventsTellTheTruth
<1>5. Placed'
  BY <1>1, <1>2 DEF Worker, Goto, nodeVars, mainVars, Placed, Inv, TypeOK, Before
<1>6. Recorded'
  BY <1>1, <1>2, KeptRecorded DEF Worker, Goto, nodeVars, LeaveChild, childVars
<1>7. Noted'
  BY <1>1, <1>2, KeptNoted DEF Worker, deviceVars, LeaveChild, childVars
<1>8. Informed'
  BY <1>1, <1>2 DEF Worker, Goto, Kept, Informed, Terminal, Holding, Halting, Inv
<1>9. Chased'
  BY <1>1, <1>2, KeptChased DEF Worker, Goto, nodeVars, LeaveChild, childVars
<1>10. Reasoned'
  BY <1>1, <1>2 DEF Worker, Goto, nodeVars, deviceVars, LeaveChild, childVars, Reasoned,
      Grounded, Inv
<1>11. AnnouncedLast'
  BY <1>1, <1>2 DEF Worker, nodeVars, AnnouncedLast, Inv
<1> QED
  BY <1>3, <1>4, <1>5, <1>6, <1>7, <1>8, <1>9, <1>10, <1>11 DEF Inv

LEMMA DrainExpiresInv ==
  ASSUME Inv, DrainExpires
  PROVE  Inv'
<1> USE DEF DrainExpires, Worker
<1>1. TypeOK'
  BY DEF TypeOK, Report, LeaveChild, nodeVars, mainVars, Goto, childVars, Inv, Steps, Results,
      Outcomes, Codes
<1>2. Promised' /\ Noted' /\ OneTaskAtATime' /\ EventsTellTheTruth'
  BY DEF Inv, LeaveChild, nodeVars, deviceVars, childVars, Promised, Noted, Terminal,
      OneTaskAtATime, EventsTellTheTruth
<1>3. Placed'
  BY DEF Report, nodeVars, mainVars, Goto, Inv, Placed, TypeOK, Before
<1>4. Recorded'
  BY DEF Report, LeaveChild, nodeVars, Goto, childVars, Inv, Recorded
<1>5. Informed'
  BY DEF Report, LeaveChild, Goto, childVars, Informed, Holding
<1>6. Chased'
  BY DEF LeaveChild, nodeVars, childVars, Inv, Chased, GivenUp, Terminal
<1>7. Reasoned'
  BY DEF Report, LeaveChild, nodeVars, deviceVars, childVars, Inv, Reasoned, Grounded,
      InDoubtCodes
<1>8. AnnouncedLast'
  BY DEF nodeVars, Inv, AnnouncedLast
<1> QED
  BY <1>1, <1>2, <1>3, <1>4, <1>5, <1>6, <1>7, <1>8 DEF Inv

LEMMA DrainStopsInv ==
  ASSUME Inv, DrainStops
  PROVE  Inv'
<1>1. cur \in Tasks
  BY DEF Inv, Placed, TypeOK, Worker, DrainStops
<1>2. Kept(cur) /\ (CancelChildOnce => child'[cur].cancelReq)
  BY <1>1, CancelKept, LeaveKept DEF DrainStops, LeaveChild, childVars, Worker
<1> USE DEF DrainStops, Worker
<1>3. TypeOK'
  BY <1>1, <1>2 DEF TypeOK, Observed, Goto, nodeVars, mainVars, CancelChildOnce, Inv, Causes,
      Kept
<1>4. Promised' /\ OneTaskAtATime' /\ EventsTellTheTruth'
  BY <1>1, <1>2 DEF Inv, nodeVars, deviceVars, CancelChildOnce, Promised, OneTaskAtATime,
      EventsTellTheTruth
<1>5. Placed'
  BY <1>1, <1>2 DEF Goto, nodeVars, mainVars, Placed, Inv
<1>6. Recorded'
  BY <1>1, <1>2, KeptRecorded DEF Goto, nodeVars, CancelChildOnce
<1>7. Noted'
  BY <1>1, <1>2, KeptNoted DEF deviceVars, CancelChildOnce
<1>8. Informed'
  BY <1>1, <1>2 DEF Goto, Kept, Informed, Inv
<1>9. Chased'
  BY <1>1, <1>2, KeptChased DEF nodeVars, CancelChildOnce
<1>10. Reasoned'
  BY <1>1, <1>2 DEF Goto, nodeVars, deviceVars, CancelChildOnce, Reasoned, Grounded, Inv
<1>11. AnnouncedLast'
  BY <1>1, <1>2 DEF nodeVars, AnnouncedLast, Inv
<1> QED
  BY <1>3, <1>4, <1>5, <1>6, <1>7, <1>8, <1>9, <1>10, <1>11 DEF Inv

LEMMA OutcomeInv ==
  ASSUME Inv, Outcome
  PROVE  Inv'
<1>1. cur \in Tasks
  BY DEF Inv, Placed, TypeOK, Worker, Outcome
<1>2. Kept(cur) /\ (CancelChildOnce => child'[cur].cancelReq)
  BY <1>1, CancelKept, TimeoutKept DEF Outcome
<1> USE DEF Outcome, Worker
<1>3. TypeOK'
  BY <1>1, <1>2 DEF TypeOK, Goto, Conclude, nodeVars, mainVars, Verdict, Report, Inv, Steps,
      Results, Outcomes, Codes, Kept
<1>4. Promised' /\ OneTaskAtATime' /\ EventsTellTheTruth'
  BY <1>1, <1>2 DEF Inv, nodeVars, deviceVars, Promised, OneTaskAtATime, EventsTellTheTruth
<1>5. Placed'
  BY <1>1, <1>2 DEF Goto, Conclude, nodeVars, mainVars, Report, Placed, Inv, TypeOK, Before
<1>6. Recorded'
  BY <1>1, <1>2, KeptRecorded DEF Goto, Conclude, nodeVars, Report
<1>7. Noted'
  BY <1>1, <1>2, KeptNoted DEF deviceVars
<1>8. Informed'
  BY <1>1, <1>2 DEF Succeeded, Goto, Conclude, Report, Kept, Informed, Terminal, Holding,
      Halting, Inv
<1>9. Chased'
  BY <1>1, <1>2, KeptChased DEF nodeVars, Inv, Informed
<1>10. Reasoned'
  BY <1>1, <1>2 DEF Goto, Conclude, nodeVars, deviceVars, Verdict, Report, Kept, Reasoned,
      Grounded, Inv, Noted, Informed, Device!Final, Device!Open
<1>11. AnnouncedLast'
  BY <1>1, <1>2 DEF nodeVars, AnnouncedLast, Inv
<1> QED
  BY <1>3, <1>4, <1>5, <1>6, <1>7, <1>8, <1>9, <1>10, <1>11 DEF Inv

LEMMA ConfirmStopsInv ==
  ASSUME Inv, ConfirmStops
  PROVE  Inv'
<1>1. cur \in Tasks
  BY DEF Inv, Placed, TypeOK, Worker, ConfirmStops
<1>2. Kept(cur) /\ (CancelChildOnce => child'[cur].cancelReq)
  BY <1>1, CancelKept, LeaveKept DEF ConfirmStops, LeaveChild, childVars, Worker
<1> USE DEF ConfirmStops, Worker
<1>3. TypeOK'
  BY <1>1, <1>2 DEF TypeOK, Observed, Conclude, nodeVars, mainVars, Verdict, Report, Goto,
      CancelChildOnce, Inv, Steps, Results, Outcomes, Codes, Causes, Kept
<1>4. Promised' /\ OneTaskAtATime' /\ EventsTellTheTruth'
  BY <1>1, <1>2 DEF Inv, nodeVars, deviceVars, CancelChildOnce, Promised, OneTaskAtATime,
      EventsTellTheTruth
<1>5. Placed'
  BY <1>1, <1>2 DEF Conclude, nodeVars, mainVars, Report, Goto, Placed, Inv, TypeOK, Before
<1>6. Recorded'
  BY <1>1, <1>2, KeptRecorded DEF Conclude, nodeVars, Report, Goto, CancelChildOnce
<1>7. Noted'
  BY <1>1, <1>2, KeptNoted DEF deviceVars, CancelChildOnce
<1>8. Informed'
  BY <1>1, <1>2 DEF Conclude, Report, Goto, Informed, Holding
<1>9. Chased'
  BY <1>1, <1>2, KeptChased DEF nodeVars, CancelChildOnce
<1>10. Reasoned'
  BY <1>1, <1>2 DEF Conclude, nodeVars, deviceVars, Verdict, Report, CancelChildOnce, Reasoned,
      Grounded, Inv, Noted, Informed, Device!Open
<1>11. AnnouncedLast'
  BY <1>1, <1>2 DEF nodeVars, AnnouncedLast, Inv
<1> QED
  BY <1>3, <1>4, <1>5, <1>6, <1>7, <1>8, <1>9, <1>10, <1>11 DEF Inv

LEMMA ConfirmedInv ==
  ASSUME Inv, Confirmed
  PROVE  Inv'
<1> USE DEF Confirmed
<1>1. TypeOK'
  BY DEF TypeOK, Worker, Conclude, LeaveChild, nodeVars, mainVars, Verdict, Report, childVars,
      Goto, Inv, Steps, Results, Outcomes, Codes
<1>2. Promised' /\ Noted' /\ OneTaskAtATime' /\ EventsTellTheTruth'
  BY DEF Inv, Worker, LeaveChild, nodeVars, deviceVars, childVars, Promised, Noted, Terminal,
      OneTaskAtATime, EventsTellTheTruth
<1>3. Placed'
  BY DEF Worker, Conclude, nodeVars, mainVars, Report, Goto, Inv, Placed, TypeOK, Before
<1>4. Recorded'
  BY DEF Worker, Conclude, LeaveChild, nodeVars, Report, childVars, Goto, Inv, Recorded
<1>5. Informed'
  BY DEF Conclude, Report, Goto, Informed, Holding, Halting
<1>6. Chased'
  BY DEF Worker, LeaveChild, nodeVars, childVars, Inv, Chased, GivenUp, Terminal, Informed
<1>7. Reasoned'
  BY DEF Worker, Conclude, LeaveChild, nodeVars, deviceVars, Verdict, Report, childVars, Inv,
      Reasoned, Grounded, TypeOK, Placed, Noted, Informed, Device!Open
<1>8. AnnouncedLast'
  BY DEF Worker, nodeVars, Inv, AnnouncedLast
<1> QED
  BY <1>1, <1>2, <1>3, <1>4, <1>5, <1>6, <1>7, <1>8 DEF Inv

(***************************************************************************)
(* Exceptions, and the end of a task.                                      *)
(***************************************************************************)
LEMMA WorkerThrowsChild ==
  ASSUME Inv, WorkerThrows
  PROVE  child' \in [Tasks -> Children] /\ Noted' /\ Chased'
<1>1. /\ child \in [Tasks -> Children] /\ cur \in Tasks
      /\ faults \in [thrown: 0..MaxFaults, missed: 0..MaxMisses]
  BY DEF Inv, TypeOK, Placed, WorkerThrows
<1>2. child' = child \/ child' = [child EXCEPT ![cur] = [child[cur] EXCEPT !.started = TRUE]]
  BY DEF WorkerThrows
<1>3. child' \in [Tasks -> Children]
  BY <1>1, <1>2, ChildFields
<1>4. \A u \in Tasks :
        /\ child'[u].responded = child[u].responded /\ child'[u].handle = child[u].handle
        /\ child'[u].result = child[u].result /\ child'[u].cancelReq = child[u].cancelReq
        /\ child'[u].cancelSent = child[u].cancelSent
  BY <1>1, <1>2 DEF Children
<1>5. /\ sent' = sent /\ phase' = phase /\ lost' = lost /\ cancels' = cancels /\ parent' = parent
      /\ cur' = cur /\ pc' = "settle" /\ faults'.missed = faults.missed
  BY <1>1 DEF WorkerThrows, Fault, Goto, nodeVars, deviceVars
<1> QED
  BY <1>3, <1>4, <1>5 DEF Inv, Noted, Chased, GivenUp, Terminal

LEMMA WorkerThrowsInv ==
  ASSUME Inv, WorkerThrows
  PROVE  Inv'
<1>1. Noted' /\ Chased' /\ child' \in [Tasks -> Children]
  BY WorkerThrowsChild
<1> USE DEF WorkerThrows
<1>2. TypeOK'
  BY <1>1, ExecutorAssumption DEF TypeOK, Fault, Goto, nodeVars, mainVars, Inv, Steps, Outcomes,
      Grounded, AnnouncedLast, EventsTellTheTruth
<1>3. Promised' /\ OneTaskAtATime' /\ EventsTellTheTruth'
  BY DEF Inv, nodeVars, deviceVars, Promised, OneTaskAtATime, EventsTellTheTruth
<1>4. Placed'
  BY DEF Goto, nodeVars, mainVars, Inv, Placed, TypeOK, Before
<1>5. Recorded'
  BY DEF Goto, nodeVars, Inv, Recorded, TypeOK
<1>6. Informed'
  BY DEF Goto, Informed, Holding, Halting
<1>7. Reasoned'
  BY DEF Goto, nodeVars, deviceVars, Inv, Reasoned, Grounded
<1>8. AnnouncedLast'
  BY DEF nodeVars, Inv, AnnouncedLast
<1> QED
  BY <1>1, <1>2, <1>3, <1>4, <1>5, <1>6, <1>7, <1>8 DEF Inv

LEMMA SettleInv ==
  ASSUME Inv, Settle
  PROVE  Inv'
<1>1. cur \in Tasks
  BY DEF Inv, Placed, TypeOK, Worker, Settle
<1>2. Kept(cur) /\ (CancelChildOnce => child'[cur].cancelReq)
  BY <1>1, CancelKept, LeaveKept DEF Settle, LeaveChild, childVars, Worker
<1> USE DEF Settle, Worker
<1>3. TypeOK'
  BY <1>1, <1>2 DEF TypeOK, Goto, Report, nodeVars, mainVars, CancelChildOnce, Inv, Steps,
      Results, Outcomes, Codes, Kept
<1>4. Promised' /\ OneTaskAtATime' /\ EventsTellTheTruth'
  BY <1>1, <1>2 DEF Inv, nodeVars, deviceVars, CancelChildOnce, Promised, OneTaskAtATime,
      EventsTellTheTruth
<1>5. Placed'
  BY <1>1, <1>2 DEF Goto, Report, nodeVars, mainVars, Placed, Inv, TypeOK, Before
<1>6. Recorded'
  BY <1>1, <1>2, KeptRecorded DEF Goto, Report, nodeVars, CancelChildOnce
<1>7. Noted'
  BY <1>1, <1>2, KeptNoted DEF deviceVars, CancelChildOnce
<1>8. Informed'
  BY <1>1, <1>2 DEF Goto, Report, Informed, Holding
<1>9. Chased'
  BY <1>1, <1>2, KeptChased DEF nodeVars, CancelChildOnce
<1>10. Reasoned'
  BY <1>1, <1>2 DEF Goto, Report, nodeVars, deviceVars, CancelChildOnce, Reasoned, Grounded,
      Inv, InDoubtCodes
<1>11. AnnouncedLast'
  BY <1>1, <1>2 DEF nodeVars, AnnouncedLast, Inv
<1> QED
  BY <1>3, <1>4, <1>5, <1>6, <1>7, <1>8, <1>9, <1>10, <1>11 DEF Inv

LEMMA SettleAgainInv ==
  ASSUME Inv, SettleAgain
  PROVE  Inv'
<1>1. cur \in Tasks
  BY DEF Inv, Placed, TypeOK, Worker, SettleAgain
<1>2. Kept(cur) /\ (CancelChildOnce => child'[cur].cancelReq)
  BY <1>1, CancelKept, LeaveKept DEF SettleAgain, LeaveChild, childVars, Worker
<1> USE DEF SettleAgain, Worker
<1>3. TypeOK'
  BY <1>1, <1>2 DEF TypeOK, nodeVars, mainVars, CancelChildOnce, Inv, Kept
<1>4. /\ Placed'
      /\ Promised'
      /\ Reasoned'
      /\ AnnouncedLast'
      /\ OneTaskAtATime'
      /\ EventsTellTheTruth'
  BY <1>1, <1>2 DEF Inv, nodeVars, mainVars, deviceVars, CancelChildOnce, Placed, Promised,
      Reasoned, Grounded, AnnouncedLast, OneTaskAtATime, EventsTellTheTruth
<1>5. Recorded'
  BY <1>1, <1>2, KeptRecorded DEF nodeVars, CancelChildOnce
<1>6. Noted'
  BY <1>1, <1>2, KeptNoted DEF deviceVars, CancelChildOnce
<1>7. Informed'
  BY <1>1, <1>2 DEF Kept, Informed
<1>8. Chased'
  BY <1>1, <1>2, KeptChased DEF nodeVars, CancelChildOnce
<1> QED
  BY <1>3, <1>4, <1>5, <1>6, <1>7, <1>8 DEF Inv

LEMMA SettleEndsInv ==
  ASSUME Inv, SettleEnds
  PROVE  Inv'
<1> USE DEF SettleEnds
<1>1. TypeOK'
  BY DEF TypeOK, Worker, Report, LeaveChild, nodeVars, mainVars, Goto, childVars, Inv, Steps,
      Results, Outcomes, Codes
<1>2. Promised' /\ Noted' /\ OneTaskAtATime' /\ EventsTellTheTruth'
  BY DEF Inv, Worker, LeaveChild, nodeVars, deviceVars, childVars, Promised, Noted, Terminal,
      OneTaskAtATime, EventsTellTheTruth
<1>3. Placed'
  BY DEF Worker, Report, nodeVars, mainVars, Goto, Inv, Placed, TypeOK, Before
<1>4. Recorded'
  BY DEF Worker, Report, LeaveChild, nodeVars, Goto, childVars, Inv, Recorded
<1>5. Informed'
  BY DEF Report, Goto, Informed, Holding, Halting
<1>6. Chased'
  BY DEF Worker, LeaveChild, nodeVars, childVars, Inv, Chased, GivenUp, Terminal, Informed,
      Halting
<1>7. Reasoned'
  BY DEF Worker, Report, LeaveChild, nodeVars, deviceVars, childVars, Inv, Reasoned, Grounded,
      InDoubtCodes
<1>8. AnnouncedLast'
  BY DEF Worker, nodeVars, Inv, AnnouncedLast
<1> QED
  BY <1>1, <1>2, <1>3, <1>4, <1>5, <1>6, <1>7, <1>8 DEF Inv

LEMMA CommitInv ==
  ASSUME Inv, Commit
  PROVE  Inv'
<1> USE DEF Commit
<1>1. TypeOK'
  BY DEF TypeOK, TerminalState, Goto, childVars, mainVars, Inv, Steps, Settled
<1>2. Promised' /\ Noted'
  BY DEF Inv, childVars, deviceVars, Promised, Noted, Terminal
<1>3. Placed'
  BY DEF TerminalState, Goto, mainVars, Inv, Placed, TypeOK, Live, Settled, Before
<1>4. Recorded'
  BY DEF TerminalState, Goto, childVars, Inv, Recorded, TypeOK, Settled
<1>5. Informed'
  BY DEF Goto, Informed, Holding, Halting
<1>6. Chased'
  BY DEF childVars, Inv, Chased, GivenUp, Terminal
<1>7. Reasoned'
  BY DEF childVars, deviceVars, Inv, Reasoned, Grounded, TypeOK
<1>8. AnnouncedLast'
  BY DEF Inv, AnnouncedLast
<1>9. OneTaskAtATime'
  BY DEF TerminalState, Inv, OneTaskAtATime, TypeOK, Live, Placed
<1>10. EventsTellTheTruth'
  BY DEF Inv, EventsTellTheTruth, AnnouncedLast
<1> QED
  BY <1>1, <1>2, <1>3, <1>4, <1>5, <1>6, <1>7, <1>8, <1>9, <1>10 DEF Inv

LEMMA CommitThrowsInv ==
  ASSUME Inv, CommitThrows
  PROVE  Inv'
<1> USE DEF CommitThrows
<1>1. TypeOK'
  <2>1. /\ parent' \in [Tasks -> {"new", "rejected", "canceledEmpty"} \cup Live \cup Settled]
        /\ result' \in [Tasks -> Results]
        /\ pend' \in Results
        /\ events' \in Seq(TaskEvents)
        /\ {goalId', callback', cur'} \subseteq Tasks \cup {NoTask}
        /\ child' \in [Tasks -> Children]
        /\ sent' \subseteq Tasks
        /\ cancels' \subseteq sent'
        /\ late' \subseteq Tasks
        /\ lost' \subseteq sent'
        /\ process' \in Spinning \cup Gone \cup {"spinlost", "stopping"}
    BY DEF Inv, TypeOK, nodeVars, childVars, mainVars
  <2>2. {accepting', active', terminal', announced', hasHandle', handling'} \subseteq BOOLEAN
    BY DEF TypeOK, nodeVars, mainVars, Inv
  <2>3. /\ pc' \in Steps
        /\ look' \in {"wait", "running", "cancel", "deadline"}
        /\ cause' \in Causes
    BY DEF TypeOK, Goto, Inv, Steps
  <2>4. faults' \in [thrown: 0..MaxFaults, missed: 0..MaxMisses]
    BY ExecutorAssumption DEF TypeOK, Fault, Inv
  <2> QED
    BY <2>1, <2>2, <2>3, <2>4 DEF TypeOK
<1>2. Promised' /\ Noted' /\ OneTaskAtATime' /\ EventsTellTheTruth'
  BY DEF Inv, nodeVars, childVars, deviceVars, Promised, Noted, Terminal, OneTaskAtATime,
      EventsTellTheTruth
<1>3. Placed'
  BY DEF Goto, nodeVars, mainVars, Inv, Placed, TypeOK, Before
<1>4. Recorded'
  BY DEF Goto, nodeVars, childVars, Inv, Recorded
<1>5. Informed'
  BY DEF Goto, Informed, Holding, Halting
<1>6. Chased'
  BY DEF Fault, nodeVars, childVars, Inv, Chased, GivenUp, Terminal
<1>7. Reasoned'
  BY DEF nodeVars, childVars, deviceVars, Inv, Reasoned, Grounded
<1>8. AnnouncedLast'
  BY DEF nodeVars, Inv, AnnouncedLast
<1> QED
  BY <1>1, <1>2, <1>3, <1>4, <1>5, <1>6, <1>7, <1>8 DEF Inv

LEMMA PublishEvents ==
  ASSUME Inv, Publish
  PROVE  AnnouncedLast' /\ EventsTellTheTruth' /\ events' \in Seq(TaskEvents)
<1> DEFINE e == [task |-> cur, goal |-> goalId, status |-> parent[cur],
                 outcome |-> pend.outcome, code |-> pend.code]
<1>1. /\ pc = "publish" /\ pc' = "release" /\ parent' = parent /\ result' = result /\ cur' = cur
      /\ events' = events \/ events' = Append(events, e)
  BY DEF Publish, Goto
<1>2. /\ cur \in Tasks /\ goalId = cur /\ parent[cur] \in Settled /\ result[cur] = pend
      /\ pend \in Results
  BY <1>1, ExecutorAssumption DEF Inv, Placed, TypeOK
<1>3. e \in TaskEvents
  BY <1>2 DEF Results, TaskEvents
<1>4. e.goal = e.task /\ parent[e.task] = e.status /\ e.task = cur
      /\ result[e.task] = [outcome |-> e.outcome, code |-> e.code]
  BY <1>2 DEF Results
<1> HIDE DEF e
<1>5. events \in Seq(TaskEvents)
  BY DEF Inv, TypeOK
<1>6. \A i \in 1..Len(events) : events[i].task # cur
  BY <1>1 DEF Inv, AnnouncedLast
<1>7. CASE events' = Append(events, e)
  <2>1. /\ events' \in Seq(TaskEvents)
        /\ Len(events') = Len(events) + 1 /\ events'[Len(events) + 1] = e
        /\ \A i \in 1..Len(events) : events'[i] = events[i]
    BY <1>3, <1>5, <1>7
  <2>2. \A i \in 1..Len(events') : i \in 1..Len(events) \/ events'[i] = e
    BY <1>5, <2>1
  <2>3. AnnouncedLast'
    BY <1>1, <1>2, <1>4, <2>1, <2>2 DEF Inv, AnnouncedLast
  <2>4. \A i \in 1..Len(events') : /\ events'[i].goal = events'[i].task
          /\ parent[events'[i].task] = events'[i].status
          /\ result[events'[i].task] = [outcome |-> events'[i].outcome, code |-> events'[i].code]
    BY <1>4, <2>1, <2>2 DEF Inv, EventsTellTheTruth
  <2>5. \A i, j \in 1..Len(events') : events'[i].task = events'[j].task => i = j
    <3> SUFFICES ASSUME NEW i \in 1..Len(events'), NEW j \in 1..Len(events'),
                        events'[i].task = events'[j].task
                 PROVE  i = j
      OBVIOUS
    <3>1. CASE i \in 1..Len(events) /\ j \in 1..Len(events)
      BY <2>1, <3>1 DEF Inv, EventsTellTheTruth
    <3>2. CASE i \in 1..Len(events) /\ j \notin 1..Len(events)
      BY <1>4, <1>6, <2>1, <2>2, <3>2
    <3>3. CASE i \notin 1..Len(events) /\ j \in 1..Len(events)
      BY <1>4, <1>6, <2>1, <2>2, <3>3
    <3>4. CASE i \notin 1..Len(events) /\ j \notin 1..Len(events)
      BY <1>5, <2>1, <3>4
    <3> QED
      BY <3>1, <3>2, <3>3, <3>4
  <2> QED
    BY <1>1, <2>1, <2>3, <2>4, <2>5 DEF EventsTellTheTruth
<1>8. CASE events' = events
  BY <1>1, <1>5, <1>6, <1>8 DEF Inv, AnnouncedLast, EventsTellTheTruth
<1> QED
  BY <1>1, <1>7, <1>8

LEMMA PublishInv ==
  ASSUME Inv, Publish
  PROVE  Inv'
<1>1. AnnouncedLast' /\ EventsTellTheTruth' /\ events' \in Seq(TaskEvents)
  BY PublishEvents
<1> USE DEF Publish
<1>2. TypeOK'
  BY <1>1 DEF TypeOK, Goto, childVars, mainVars, Inv, Steps
<1>3. Promised' /\ Noted' /\ OneTaskAtATime'
  BY DEF Inv, childVars, deviceVars, Promised, Noted, Terminal, OneTaskAtATime
<1>4. Placed'
  BY DEF Goto, mainVars, Inv, Placed, Before
<1>5. Recorded'
  BY DEF Goto, childVars, Inv, Recorded
<1>6. Informed'
  BY DEF Goto, Informed, Holding, Halting
<1>7. Chased'
  BY DEF Goto, childVars, Inv, Chased, GivenUp, Terminal
<1>8. Reasoned'
  BY DEF Goto, childVars, deviceVars, Inv, Reasoned, Grounded
<1> QED
  BY <1>1, <1>2, <1>3, <1>4, <1>5, <1>6, <1>7, <1>8 DEF Inv

(* The end of the thread ends a task that is still live, and no other.     *)
LEMMA ReleaseParent ==
  ASSUME Inv, Release
  PROVE  /\ parent' \in [Tasks -> {"new", "rejected", "canceledEmpty"} \cup Live \cup Settled]
         /\ \A t \in Tasks :
              \/ parent'[t] = parent[t] /\ (t = cur => parent[t] \notin Live)
              \/ t = cur /\ parent[t] \in Live /\ parent'[t] = "canceledEmpty"
<1>1. cur \in Tasks /\ pc = "release"
  BY DEF Release, Inv, TypeOK, Placed
<1>2. parent \in [Tasks -> {"new", "rejected", "canceledEmpty"} \cup Live \cup Settled]
  BY DEF Inv, TypeOK
<1> QED
  BY <1>1, <1>2 DEF Release

LEMMA ReleaseEvents ==
  ASSUME Inv, Release
  PROVE  AnnouncedLast'
<1>1. cur' = NoTask /\ events' = events
  BY DEF Release
<1>2. \A t \in Tasks : parent[t] \in Settled => parent'[t] \in Settled
  BY ReleaseParent DEF Live, Settled
<1>3. \A i \in 1..Len(events) : events[i].task # NoTask
  BY EventTasks, ExecutorAssumption
<1> QED
  BY <1>1, <1>2, <1>3, EventTasks DEF AnnouncedLast

LEMMA ReleaseInv ==
  ASSUME Inv, Release
  PROVE  Inv'
<1>1. AnnouncedLast'
  BY ReleaseEvents
<1>2. \A t \in Tasks :
        /\ parent'[t] \in Settled <=> parent[t] \in Settled
        /\ (parent'[t] # parent[t] =>
              t = cur /\ parent[t] \in Live /\ parent'[t] = "canceledEmpty")
        /\ (parent'[t] \in Live => parent'[t] = parent[t] /\ t # cur)
  BY ReleaseParent DEF Live, Settled
<1>3. TypeOK'
  <2> USE DEF Release
  <2>0. parent' \in [Tasks -> {"new", "rejected", "canceledEmpty"} \cup Live \cup Settled]
    BY ReleaseParent
  <2>1. /\ result' \in [Tasks -> Results]
        /\ events' \in Seq(TaskEvents)
        /\ child' \in [Tasks -> Children]
        /\ process' \in Spinning \cup Gone \cup {"spinlost", "stopping"}
        /\ faults' \in [thrown: 0..MaxFaults, missed: 0..MaxMisses]
    BY DEF Inv, TypeOK, childVars, mainVars
  <2>2. pend' \in Results
    BY DEF TypeOK, Results, NoResult, Outcomes, Codes
  <2>3. {accepting', active', terminal', announced', hasHandle', handling'} \subseteq BOOLEAN
    BY DEF TypeOK, mainVars, Inv
  <2>4. {goalId', callback', cur'} \subseteq Tasks \cup {NoTask}
    BY DEF TypeOK, Inv
  <2>5. /\ pc' \in Steps
        /\ look' \in {"wait", "running", "cancel", "deadline"}
        /\ cause' \in Causes
    BY DEF TypeOK, Goto, Steps, Causes
  <2>6. /\ sent' \subseteq Tasks
        /\ cancels' \subseteq sent'
        /\ late' \subseteq Tasks
        /\ lost' \subseteq sent'
    BY DEF TypeOK, childVars, Inv
  <2> QED
    BY <2>0, <2>1, <2>2, <2>3, <2>4, <2>5, <2>6 DEF TypeOK
<1>4. Promised' /\ Noted'
  BY DEF Release, Inv, childVars, deviceVars, Promised, Noted, Terminal
<1>5. EventsTellTheTruth'
  <2>1. \A i \in 1..Len(events) : events[i].task \in Tasks /\ parent[events[i].task] \in Settled
    BY EventTasks DEF Inv, AnnouncedLast
  <2>2. \A t \in Tasks : parent[t] \in Settled => parent'[t] = parent[t]
    BY <1>2 DEF Live, Settled
  <2> QED
    BY <2>1, <2>2 DEF Release, Inv, EventsTellTheTruth
<1>6. Placed'
  <2>1. callback # NoTask => callback \in Tasks /\ parent'[callback] = "new"
    BY <1>2 DEF Inv, TypeOK, Placed, Live
  <2> QED
    BY <2>1 DEF Release, Goto, mainVars, Inv, Placed, Before
<1>7. /\ result' = result /\ child' = child /\ sent' = sent /\ cancels' = cancels
      /\ phase' = phase /\ faults' = faults /\ goalId' = goalId /\ terminal' = terminal
      /\ pc = "release" /\ pc' = "idle" /\ cur' = NoTask /\ cur \in Tasks
      /\ active' = active \/ terminal \/ parent[cur] \notin Live
  BY DEF Release, Frees, Goto, childVars, deviceVars, Inv, Placed, TypeOK
<1>8. Informed'
  BY DEF Release, Goto, Informed, Holding, Halting
<1>9. Recorded'
  <2>1. \A t \in Tasks : parent'[t] \in Live \cup Settled \cup {"canceledEmpty"} <=>
          parent[t] \in Live \cup Settled \cup {"canceledEmpty"}
    BY <1>2
  <2> QED
    BY <1>2, <1>7, <2>1 DEF Inv, Recorded
<1>10. Chased'
  BY <1>2, <1>7, ExecutorAssumption DEF Inv, Chased, GivenUp, Terminal
<1>11. Reasoned'
  <2>1. \A t \in Tasks : parent'[t] \in Settled =>
          /\ parent'[t] = parent[t]
          /\ result'[t] = result[t]
    BY <1>2, <1>7 DEF Live, Settled
  <2> QED
    BY <1>2, <1>7, <2>1 DEF Inv, Reasoned, Grounded
<1>12. OneTaskAtATime'
  <2>1. \A t \in Tasks : parent'[t] \in Live => parent[t] \in Live /\ t # cur
    BY <1>2
  <2>2. \A t \in Tasks : parent'[t] \notin Live
    BY <1>7, <2>1, ExecutorAssumption DEF Inv, OneTaskAtATime
  <2> QED
    BY <2>2 DEF OneTaskAtATime
<1> QED
  BY <1>1, <1>3, <1>4, <1>5, <1>6, <1>8, <1>9, <1>10, <1>11, <1>12 DEF Inv

(***************************************************************************)
(* Main, the clock and the bridge.                                         *)
(***************************************************************************)
LEMMA MainFlags ==
  ASSUME Inv, MainNext
  PROVE  {accepting', active', terminal', announced', hasHandle', handling'} \subseteq BOOLEAN
<1>1. /\ active' = active /\ terminal' = terminal /\ announced' = announced
      /\ hasHandle' = hasHandle /\ handling' = handling
  BY DEF MainNext, Signal, SpinFails, StartRecovery, RecoveryShutdown, Drained, Destroy, Main,
         nodeVars, workerVars
<1>2. accepting' = accepting \/ accepting' = FALSE
  BY DEF MainNext, Signal, SpinFails, StartRecovery, RecoveryShutdown, Drained, Destroy
<1> QED
  BY <1>1, <1>2 DEF Inv, TypeOK

LEMMA MainNextInv ==
  ASSUME Inv, MainNext
  PROVE  Inv'
<1>1. {accepting', active', terminal', announced', hasHandle', handling'} \subseteq BOOLEAN
  BY MainFlags
<1> USE DEF MainNext, Signal, SpinFails, StartRecovery, RecoveryShutdown, Drained, Destroy
<1>2. TypeOK'
  <2>1. /\ parent' \in [Tasks -> {"new", "rejected", "canceledEmpty"} \cup Live \cup Settled]
        /\ result' \in [Tasks -> Results]
        /\ pend' \in Results
        /\ events' \in Seq(TaskEvents)
        /\ {goalId', callback', cur'} \subseteq Tasks \cup {NoTask}
        /\ pc' \in Steps
        /\ look' \in {"wait", "running", "cancel", "deadline"}
        /\ cause' \in Causes
        /\ child' \in [Tasks -> Children]
        /\ sent' \subseteq Tasks
        /\ cancels' \subseteq sent'
        /\ late' \subseteq Tasks
        /\ lost' \subseteq sent'
    BY DEF Inv, TypeOK, Main, nodeVars, workerVars, childVars
  <2>2. process' \in Spinning \cup Gone \cup {"spinlost", "stopping"}
    BY DEF TypeOK, Gone, Spinning
  <2>3. faults' \in [thrown: 0..MaxFaults, missed: 0..MaxMisses]
    BY ExecutorAssumption DEF TypeOK, Fault, Inv
  <2> QED
    BY <1>1, <2>1, <2>2, <2>3 DEF TypeOK
<1>3. /\ Recorded'
      /\ Promised'
      /\ Noted'
      /\ Informed'
      /\ Reasoned'
      /\ AnnouncedLast'
      /\ OneTaskAtATime'
      /\ EventsTellTheTruth'
  BY DEF Inv, Main, nodeVars, workerVars, childVars, deviceVars, Recorded, Promised, Noted,
      Terminal, Informed, Reasoned, Grounded, AnnouncedLast, OneTaskAtATime, EventsTellTheTruth
<1>4. Placed'
  BY DEF Main, nodeVars, workerVars, Inv, Placed, Gone
<1>5. Chased'
  BY DEF Main, Fault, nodeVars, workerVars, childVars, Inv, Chased, GivenUp, Terminal, TypeOK
<1> QED
  BY <1>2, <1>3, <1>4, <1>5 DEF Inv

LEMMA DeadlinePassesInv ==
  ASSUME NEW t \in Tasks, Inv, DeadlinePasses(t)
  PROVE  Inv'
<1> USE DEF Inv, DeadlinePasses, Executor, nodeVars, workerVars, childVars, mainVars
<1>1. TypeOK'
  BY DEF TypeOK
<1>2. /\ Placed'
      /\ Recorded'
      /\ Promised'
      /\ Noted'
      /\ Informed'
      /\ Chased'
      /\ Reasoned'
      /\ AnnouncedLast'
      /\ OneTaskAtATime'
      /\ EventsTellTheTruth'
  BY DEF deviceVars, Placed, Recorded, Promised, Noted, Terminal, Informed, Chased, GivenUp,
      Reasoned, Grounded, AnnouncedLast, OneTaskAtATime, EventsTellTheTruth
<1> QED
  BY <1>1, <1>2 DEF Inv

(* The bridge accepts or refuses what it was sent, and a command that it   *)
(* works on may come to its end.                                           *)
LEMMA BridgeMoves ==
  ASSUME Inv, BridgeSteps \/ BridgeReplaced
  PROVE  /\ phase' \in [Tasks -> {"new", "refused"} \cup Device!Open \cup Device!Final]
         /\ \A u \in Tasks :
              \/ phase'[u] = phase[u]
              \/ u \in sent /\ phase[u] = "new" /\ phase'[u] \in {"open", "refused"}
              \/ phase[u] \in Device!Open /\ phase'[u] \in Device!Open \cup Device!Final
<1> USE DEF Device!Open, Device!Final
<1>1. /\ phase \in [Tasks -> {"new", "refused"} \cup Device!Open \cup Device!Final]
      /\ sent \subseteq Tasks /\ cancels \subseteq Tasks
  BY DEF Inv, Promised, TypeOK
<1>2. CASE \E t \in sent : Device!Accept(t) \/ Device!Refuse(t) \/ Device!CarryOut(t)
  BY <1>1, <1>2 DEF Device!Accept, Device!Refuse, Device!CarryOut
<1>3. CASE \E t \in cancels : Device!Cancel(t)
  BY <1>1, <1>3 DEF Device!Cancel
<1>4. CASE \E t \in Tasks, o \in Device!Final : Device!Settle(t, o)
  BY <1>1, <1>4 DEF Device!Settle
<1>5. CASE Device!Stop
  BY <1>1, <1>5 DEF Device!Stop
<1> QED
  BY <1>2, <1>3, <1>4, <1>5 DEF BridgeSteps, BridgeReplaced

LEMMA BridgeStepsPromised ==
  ASSUME Inv, BridgeSteps
  PROVE  Promised'
<1> USE DEF Promised, Device!Open, Device!Final
<1>1. Promised /\ sent \subseteq Tasks /\ cancels \subseteq Tasks
  BY DEF Inv, TypeOK
<1>2. lost' = lost /\ sent' = sent
  BY DEF BridgeSteps, Executor, childVars
<1>3. phase' \in [Tasks -> {"new", "refused"} \cup Device!Open \cup Device!Final]
  BY BridgeMoves
<1>4. CASE \E t \in sent : Device!Accept(t) \/ Device!Refuse(t) \/ Device!CarryOut(t)
  BY <1>1, <1>2, <1>3, <1>4 DEF Device!Accept, Device!Refuse, Device!CarryOut
<1>5. CASE \E t \in cancels : Device!Cancel(t)
  BY <1>1, <1>2, <1>3, <1>5 DEF Device!Cancel
<1>6. CASE \E t \in Tasks, o \in Device!Final : Device!Settle(t, o)
  BY <1>1, <1>2, <1>3, <1>6 DEF Device!Settle
<1>7. CASE Device!Stop
  BY <1>1, <1>2, <1>3, <1>7 DEF Device!Stop
<1> QED
  BY <1>4, <1>5, <1>6, <1>7 DEF BridgeSteps

LEMMA BridgeReplacedPromised ==
  ASSUME Inv, BridgeReplaced
  PROVE  Promised'
<1> USE DEF Promised, Device!Open, Device!Final
<1>1. Promised
  BY DEF Inv
<1>2. phase' \in [Tasks -> {"new", "refused"} \cup Device!Open \cup Device!Final]
  BY BridgeMoves
<1>3. PICK t \in Tasks : Device!Settle(t, "SAFE_STOP") /\ lost' = lost \cup {t}
  BY DEF BridgeReplaced
<1>4. sent' = sent
  BY DEF BridgeReplaced, Executor, childVars
<1> QED
  BY <1>1, <1>2, <1>3, <1>4 DEF Device!Settle

LEMMA BridgeKeepsNotes ==
  ASSUME Inv, BridgeSteps \/ BridgeReplaced
  PROVE  Noted' /\ Reasoned'
<1>1. /\ sent' = sent /\ child' = child /\ cancels' = cancels /\ pc' = pc /\ cur' = cur
      /\ pend' = pend /\ parent' = parent /\ result' = result
  BY DEF BridgeSteps, BridgeReplaced, Executor, childVars, workerVars, nodeVars
<1>2. \A t \in Tasks : t \in lost' => t \in lost \/ phase[t] \in Device!Open
  BY DEF BridgeSteps, BridgeReplaced, Device!Settle
<1>3. lost \subseteq lost'
  BY DEF BridgeSteps, BridgeReplaced
<1>4. Noted'
  BY <1>1, <1>2, <1>3, BridgeMoves DEF Inv, Noted, Terminal, Device!Open, Device!Final
<1>5. \A t \in Tasks : \A r : Grounded(t, r) => Grounded(t, r)'
  BY <1>1, BridgeMoves DEF Grounded, Device!Open, Device!Final
<1>6. cur \in Tasks \/ pc # "commit"
  BY DEF Inv, Placed, TypeOK
<1>7. Reasoned'
  BY <1>1, <1>5, <1>6 DEF Inv, Reasoned
<1> QED
  BY <1>4, <1>7

LEMMA BridgeStepsInv ==
  ASSUME Inv, BridgeSteps
  PROVE  Inv'
<1>1. Promised'
  BY BridgeStepsPromised
<1>2. Noted' /\ Reasoned'
  BY BridgeKeepsNotes
<1> USE DEF Inv, BridgeSteps, Executor, nodeVars, workerVars, childVars, mainVars
<1>3. TypeOK'
  BY DEF TypeOK
<1>4. /\ Placed'
      /\ Recorded'
      /\ Informed'
      /\ Chased'
      /\ AnnouncedLast'
      /\ OneTaskAtATime'
      /\ EventsTellTheTruth'
  BY DEF Placed, Recorded, Informed, Terminal, Chased, GivenUp, AnnouncedLast, OneTaskAtATime,
      EventsTellTheTruth
<1> QED
  BY <1>1, <1>2, <1>3, <1>4 DEF Inv

LEMMA BridgeReplacedInv ==
  ASSUME Inv, BridgeReplaced
  PROVE  Inv'
<1>1. Promised'
  BY BridgeReplacedPromised
<1>2. Noted' /\ Reasoned'
  BY BridgeKeepsNotes
<1> USE DEF Inv, BridgeReplaced, Executor, nodeVars, workerVars, childVars, mainVars
<1>3. TypeOK'
  BY DEF TypeOK, Device!Settle, Device!Open, Promised
<1>4. /\ Placed'
      /\ Recorded'
      /\ Informed'
      /\ Chased'
      /\ AnnouncedLast'
      /\ OneTaskAtATime'
      /\ EventsTellTheTruth'
  BY DEF Device!CarryOut, Placed, Recorded, Informed, Terminal, Chased, GivenUp, AnnouncedLast,
      OneTaskAtATime, EventsTellTheTruth
<1> QED
  BY <1>1, <1>2, <1>3, <1>4 DEF Inv

(***************************************************************************)
(* The invariant holds in every state.                                     *)
(***************************************************************************)
LEMMA InitInv == Init => Inv
<1> SUFFICES ASSUME Init PROVE Inv
  OBVIOUS
<1> USE DEF Init, FreshChild, NoResult, NoFaults
<1>1. child \in [Tasks -> Children]
  BY DEF Children
<1>2. NoResult \in Results /\ pc \in Steps /\ cause \in Causes /\ events = <<>>
  BY DEF Results, Outcomes, Codes, Steps, Causes
<1>3. faults \in [thrown: 0..MaxFaults, missed: 0..MaxMisses]
  BY ExecutorAssumption
<1>4. TypeOK
  <2>1. events \in Seq(TaskEvents)
    BY <1>2
  <2>2. {accepting, active, terminal, announced, hasHandle, handling} \subseteq BOOLEAN
    OBVIOUS
  <2>3. parent \in [Tasks -> {"new", "rejected", "canceledEmpty"} \cup Live \cup Settled]
        /\ result \in [Tasks -> Results] /\ pend \in Results
    BY <1>2
  <2>4. process \in Spinning \cup Gone \cup {"spinlost", "stopping"}
    BY DEF Spinning
  <2> QED
    BY <1>1, <1>2, <1>3, <2>1, <2>2, <2>3, <2>4 DEF TypeOK
<1>5. phase = [t \in Tasks |-> "new"] /\ done = {} /\ moving = {}
  BY DEF Device!Init
<1>6. Placed /\ Recorded /\ Informed
  BY DEF Placed, Recorded, Informed, Before, Holding, Halting, Gone, Live, Settled
<1>7. Promised
  BY <1>5 DEF Promised
<1>8. Noted /\ Chased /\ Reasoned
  BY DEF Noted, Chased, GivenUp, Reasoned, Terminal, Settled
<1>9. AnnouncedLast /\ EventsTellTheTruth /\ OneTaskAtATime
  BY <1>2 DEF AnnouncedLast, EventsTellTheTruth, OneTaskAtATime, Live
<1> QED
  BY <1>4, <1>6, <1>7, <1>8, <1>9 DEF Inv

LEMMA StutterInv ==
  ASSUME Inv, UNCHANGED vars
  PROVE  Inv'
<1> USE DEF vars, nodeVars, workerVars, childVars, mainVars, deviceVars, Inv
<1>1. TypeOK'
  BY DEF TypeOK
<1>2. Placed' /\ Recorded' /\ Promised' /\ Noted' /\ Informed'
  BY DEF Placed, Recorded, Promised, Noted, Informed, Terminal
<1>3. Chased' /\ Reasoned'
  BY DEF Chased, GivenUp, Terminal, Reasoned, Grounded
<1>4. AnnouncedLast' /\ OneTaskAtATime' /\ EventsTellTheTruth'
  BY DEF AnnouncedLast, OneTaskAtATime, EventsTellTheTruth
<1> QED
  BY <1>1, <1>2, <1>3, <1>4

LEMMA WorkerInv ==
  ASSUME Inv, WorkerNext
  PROVE  Inv'
<1>1. CASE LookOn \/ ValidateStops \/ ValidateGoesOn \/ SendGoal
  BY <1>1, LookOnInv, ValidateStopsInv, ValidateGoesOnInv, SendGoalInv
<1>2. CASE AwaitResponse \/ AwaitStops \/ Resolve \/ GraceEnds \/ Accepted
  BY <1>2, AwaitResponseInv, AwaitStopsInv, ResolveInv, GraceEndsInv, AcceptedInv
<1>3. CASE DrainWait \/ DrainExpires \/ DrainStops \/ Outcome \/ ConfirmStops \/ Confirmed
  BY <1>3, DrainWaitInv, DrainExpiresInv, DrainStopsInv, OutcomeInv, ConfirmStopsInv,
     ConfirmedInv
<1>4. CASE Settle \/ SettleAgain \/ SettleEnds \/ Commit \/ Publish \/ Release
  BY <1>4, SettleInv, SettleAgainInv, SettleEndsInv, CommitInv, PublishInv, ReleaseInv
<1> QED
  BY <1>1, <1>2, <1>3, <1>4 DEF WorkerNext

LEMMA NextInv ==
  ASSUME Inv, [Next]_vars
  PROVE  Inv'
<1>1. CASE \E t \in Tasks : \/ HandleGoalCheck(t) \/ HandleCancel(t)
                            \/ GoalResponse(t) \/ ResultCallback(t) \/ DeadlinePasses(t)
  BY <1>1, HandleGoalCheckInv, HandleCancelInv, GoalResponseInv, ResultCallbackInv,
     DeadlinePassesInv
<1>2. CASE HandleGoalBusy \/ HandleGoalClaim
  BY <1>2, HandleGoalBusyInv, HandleGoalClaimInv
<1>3. CASE WorkerNext \/ WorkerThrows \/ CommitThrows
  BY <1>3, WorkerInv, WorkerThrowsInv, CommitThrowsInv
<1>4. CASE MainNext \/ BridgeSteps \/ BridgeReplaced
  BY <1>4, MainNextInv, BridgeStepsInv, BridgeReplacedInv
<1>5. CASE UNCHANGED vars
  BY <1>5, StutterInv
<1> QED
  BY <1>1, <1>2, <1>3, <1>4, <1>5 DEF Next

(* The invariant the properties rest on holds in every state.              *)
THEOREM InvHolds == Spec => []Inv
<1>1. Inv /\ [Next]_vars => Inv'
  BY NextInv
<1> QED
  BY <1>1, InitInv, PTL DEF Spec

-----------------------------------------------------------------------------
(***************************************************************************)
(* Why a task ends without a result of the executor: an exception in the   *)
(* worker, and another in the transition to SAFE_STOP.                     *)
(***************************************************************************)
Unanswered ==
  /\ handling => faults.thrown > 0
  /\ pc = "release" /\ parent[cur] \in Live => faults.thrown > 1
  /\ \A t \in Tasks : parent[t] = "canceledEmpty" => faults.thrown > 1

LEMMA CancelsDoNotThrow ==
  ASSUME Inv, NEW t, NEW c, Dispatch(t, c)
  PROVE  faults'.thrown = faults.thrown
<1>1. faults \in [thrown: 0..MaxFaults, missed: 0..MaxMisses]
  BY DEF Inv, TypeOK
<1> QED
  BY <1>1 DEF Dispatch, CancelMiss

LEMMA FaultsCount ==
  ASSUME Inv, Fault
  PROVE  faults.thrown \in Nat /\ faults'.thrown = faults.thrown + 1
<1>1. faults \in [thrown: 0..MaxFaults, missed: 0..MaxMisses]
  BY DEF Inv, TypeOK
<1> QED
  BY <1>1, ExecutorAssumption DEF Fault

(* What keeps Unanswered: no exception, and nobody comes to the end of the *)
(* worker with a task that is still live.                                  *)
LEMMA UnansweredQuietly ==
  ASSUME Unanswered, faults'.thrown = faults.thrown, handling' => handling,
         pc' = "release" => \/ parent'[cur'] \notin Live
                            \/ pc = "release" /\ parent[cur] \in Live,
         \A t \in Tasks : parent'[t] = "canceledEmpty" => parent[t] = "canceledEmpty"
  PROVE  Unanswered'
BY DEF Unanswered

LEMMA CallbacksAnswer ==
  ASSUME Inv, Unanswered, NEW t \in Tasks,
         \/ HandleGoalCheck(t) \/ HandleCancel(t) \/ GoalResponse(t) \/ ResultCallback(t)
         \/ DeadlinePasses(t) \/ HandleGoalBusy \/ HandleGoalClaim
  PROVE  Unanswered'
<1>1. parent \in [Tasks -> {"new", "rejected", "canceledEmpty"} \cup Live \cup Settled]
  BY DEF Inv, TypeOK
<1>2. pc = "release" => cur \in Tasks
  BY DEF Inv, Placed, TypeOK
<1>3. callback \in Tasks \cup {NoTask}
  BY DEF Inv, TypeOK
<1>4. CASE HandleGoalCheck(t)
  BY <1>1, <1>2, <1>4, UnansweredQuietly DEF HandleGoalCheck, workerVars, Live
<1>5. CASE HandleCancel(t)
  BY <1>1, <1>2, <1>5, UnansweredQuietly DEF HandleCancel, workerVars, Live
<1>6. CASE GoalResponse(t)
  BY <1>6, CancelsDoNotThrow, UnansweredQuietly DEF GoalResponse, LateCancel, workerVars, nodeVars
<1>7. CASE ResultCallback(t)
  BY <1>7, UnansweredQuietly DEF ResultCallback, workerVars, nodeVars
<1>8. CASE DeadlinePasses(t)
  BY <1>8, UnansweredQuietly DEF DeadlinePasses, Executor, workerVars, nodeVars
<1>9. CASE HandleGoalBusy
  BY <1>1, <1>2, <1>3, <1>9, UnansweredQuietly DEF HandleGoalBusy, workerVars, Live
<1>10. CASE HandleGoalClaim
  BY <1>1, <1>3, <1>10, UnansweredQuietly DEF HandleGoalClaim, Goto
<1> QED
  BY <1>4, <1>5, <1>6, <1>7, <1>8, <1>9, <1>10

LEMMA WorkerGoesOn ==
  ASSUME Inv, Unanswered, WorkerNext, ~Release
  PROVE  Unanswered'
<1> USE DEF Goto, nodeVars
<1>1. CASE LookOn \/ ValidateStops \/ ValidateGoesOn \/ SendGoal
  BY <1>1, UnansweredQuietly
     DEF LookOn, ValidateStops, ValidateGoesOn, SendGoal, Worker, Report, LeaveChild
<1>2. CASE AwaitResponse \/ AwaitStops \/ GraceEnds
  BY <1>2, UnansweredQuietly DEF AwaitResponse, AwaitStops, GraceEnds, Worker, Report, LeaveChild
<1>3. CASE Resolve \/ Accepted
  BY <1>3, CancelsDoNotThrow, UnansweredQuietly
     DEF Resolve, Accepted, Worker, Report, LeaveChild, CancelChildOnce
<1>4. CASE DrainWait \/ DrainExpires \/ DrainStops
  BY <1>4, CancelsDoNotThrow, UnansweredQuietly
     DEF DrainWait, DrainExpires, DrainStops, Worker, Report, LeaveChild, CancelChildOnce
<1>5. CASE Outcome \/ ConfirmStops \/ Confirmed
  BY <1>5, CancelsDoNotThrow, UnansweredQuietly
     DEF Outcome, ConfirmStops, Confirmed, Conclude, Worker, Report, LeaveChild, CancelChildOnce
<1>6. CASE Settle \/ SettleAgain \/ SettleEnds
  BY <1>6, CancelsDoNotThrow, UnansweredQuietly
     DEF Settle, SettleAgain, SettleEnds, Worker, Report, LeaveChild, CancelChildOnce
<1>7. CASE Commit
  <2>1. \A t \in Tasks : parent'[t] = "canceledEmpty" => parent[t] = "canceledEmpty"
    BY <1>7 DEF Commit, TerminalState, Inv, TypeOK
  <2> QED
    BY <1>7, <2>1, UnansweredQuietly DEF Commit
<1>8. CASE Publish
  <2>1. parent[cur] \notin Live
    BY <1>8 DEF Publish, Inv, Placed, Live, Settled
  <2> QED
    BY <1>8, <2>1, UnansweredQuietly DEF Publish
<1> QED
  BY <1>1, <1>2, <1>3, <1>4, <1>5, <1>6, <1>7, <1>8 DEF WorkerNext

LEMMA WorkerLeaves ==
  ASSUME Inv, Unanswered, Release
  PROVE  Unanswered'
<1>1. pc = "release" /\ pc' = "idle" /\ ~handling' /\ faults' = faults
  BY DEF Release, Goto
<1>2. \A t \in Tasks : parent'[t] = "canceledEmpty" =>
        parent[t] = "canceledEmpty" \/ parent[cur] \in Live
  BY ReleaseParent
<1> QED
  BY <1>1, <1>2 DEF Unanswered

LEMMA ExceptionsCount ==
  ASSUME Inv, Unanswered, WorkerThrows \/ CommitThrows \/ SpinFails
  PROVE  Unanswered'
<1>1. faults.thrown \in Nat /\ faults'.thrown = faults.thrown + 1
  BY FaultsCount DEF WorkerThrows, CommitThrows, SpinFails
<1>2. parent' = parent /\ cur' = cur
  BY DEF WorkerThrows, CommitThrows, SpinFails, Main, nodeVars, workerVars
<1>3. pc' = "release" => handling \/ (SpinFails /\ pc = "release")
  BY DEF WorkerThrows, CommitThrows, SpinFails, Goto, Main, workerVars
<1> QED
  BY <1>1, <1>2, <1>3 DEF Unanswered

LEMMA UnansweredNext ==
  ASSUME Inv, Unanswered, [Next]_vars
  PROVE  Unanswered'
<1>1. CASE \E t \in Tasks : \/ HandleGoalCheck(t) \/ HandleCancel(t)
                            \/ GoalResponse(t) \/ ResultCallback(t) \/ DeadlinePasses(t)
  BY <1>1, CallbacksAnswer
<1>2. CASE HandleGoalBusy \/ HandleGoalClaim
  <2>1. callback \in Tasks
    BY <1>2 DEF HandleGoalBusy, HandleGoalClaim, Inv, TypeOK
  <2> QED
    BY <1>2, <2>1, CallbacksAnswer
<1>3. CASE WorkerNext
  BY <1>3, WorkerGoesOn, WorkerLeaves
<1>4. CASE WorkerThrows \/ CommitThrows \/ SpinFails
  BY <1>4, ExceptionsCount
<1>5. CASE Signal \/ StartRecovery \/ RecoveryShutdown \/ Drained \/ Destroy
  BY <1>5, UnansweredQuietly
     DEF Signal, StartRecovery, RecoveryShutdown, Drained, Destroy, Main, nodeVars, workerVars
<1>6. CASE BridgeSteps \/ BridgeReplaced
  BY <1>6, UnansweredQuietly DEF BridgeSteps, BridgeReplaced, Executor, nodeVars, workerVars
<1>7. CASE UNCHANGED vars
  BY <1>7, UnansweredQuietly DEF vars, nodeVars, workerVars
<1> QED
  BY <1>1, <1>2, <1>3, <1>4, <1>5, <1>6, <1>7 DEF Next, MainNext

(* A task ends without a result of the executor only after two exceptions.*)
THEOREM UnansweredHolds == Spec => []Unanswered
<1>1. Init => Unanswered
  BY DEF Init, Unanswered
<1>2. Inv /\ Unanswered /\ [Next]_vars => Unanswered'
  BY UnansweredNext
<1> QED
  BY <1>1, <1>2, InvHolds, PTL DEF Spec

-----------------------------------------------------------------------------
(* The executor's variables keep the types the code gives them. *)
THEOREM TypeCorrect == Spec => []TypeOK
<1>1. Inv => TypeOK
  BY DEF Inv
<1> QED
  BY <1>1, InvHolds, PTL

(* active_goal_ covers every live task, and goal_id_ and the terminal      *)
(* flags belong to it, through rejected goals and exceptions.              *)
THEOREM TasksExcludeOneAnother == Spec => []OneTaskAtATime
<1>1. Inv => OneTaskAtATime
  BY DEF Inv
<1> QED
  BY <1>1, InvHolds, PTL

(* A task is announced at most once, with the state, the result and the    *)
(* goal id it ended with.                                                  *)
THEOREM EventsAreTrue == Spec => []EventsTellTheTruth
<1>1. Inv => EventsTellTheTruth
  BY DEF Inv
<1> QED
  BY <1>1, InvHolds, PTL

(* The command of a task that reports CANCELED is not running and will not *)
(* start, whatever the bridge, its replacement and the callbacks do.       *)
THEOREM CanceledIsCertain == Spec => []CanceledIsConfirmed
<1>1. Inv => CanceledIsConfirmed
  <2> SUFFICES ASSUME Inv, NEW t \in Tasks, result[t].outcome = "CANCELED"
               PROVE  t \notin moving /\ (phase[t] \in {"refused", "CANCELED"} \/ t \notin sent)
    BY DEF CanceledIsConfirmed
  <2>1. parent[t] \in Settled
    BY DEF Inv, Recorded, NoResult
  <2>2. t \notin sent \/ phase[t] \in {"refused", "CANCELED"}
    BY <2>1 DEF Inv, Reasoned, Grounded
  <2>3. t \notin moving
    BY <2>2 DEF Inv, Promised
  <2> QED
    BY <2>2, <2>3
<1> QED
  BY <1>1, InvHolds, PTL

(* A task that reports COMPLETED was carried out by the device, also when  *)
(* a replaced bridge answers for a goal it does not know.                  *)
THEOREM CompletedIsCertain == Spec => []CompletedIsConfirmed
<1>1. Inv => CompletedIsConfirmed
  <2> SUFFICES ASSUME Inv, NEW t \in Tasks, result[t].outcome = "COMPLETED"
               PROVE  t \in done /\ phase[t] = "COMPLETED"
    BY DEF CompletedIsConfirmed
  <2>1. parent[t] \in Settled
    BY DEF Inv, Recorded, NoResult
  <2>2. phase[t] = "COMPLETED"
    BY <2>1 DEF Inv, Reasoned, Grounded
  <2> QED
    BY <2>2 DEF Inv, Promised
<1> QED
  BY <1>1, InvHolds, PTL

(* A task that ended before its command was decided says so with one of    *)
(* the codes that leave the device in doubt; it ends without a code only   *)
(* after two exceptions.                                                   *)
THEOREM OrphansAreKnown == Spec => []OrphansAreReported
<1>1. Inv /\ Unanswered => OrphansAreReported
  BY DEF Inv, Reasoned, Grounded, Unanswered, OrphansAreReported
<1> QED
  BY <1>1, InvHolds, UnansweredHolds, PTL

(* A command accepted after its task has ended is cancelled, as long as    *)
(* every cancel could be dispatched.                                       *)
THEOREM LateAcceptancesAreCanceled == Spec => []LateAcceptanceIsCanceled
<1>1. Inv => LateAcceptanceIsCanceled
  <2> SUFFICES ASSUME Inv, NEW t \in Tasks, parent[t] \in Settled, child[t].handle, ~Terminal(t)
               PROVE  t \in cancels \/ faults.missed > 0
    BY DEF LateAcceptanceIsCanceled
  <2>1. t \in sent
    BY DEF Inv, Noted
  <2>2. child[t].cancelReq
    BY <2>1 DEF Inv, Chased, GivenUp
  <2>3. faults.missed = 0 => t \in cancels
    BY <2>2 DEF Inv, Chased, Noted
  <2>4. faults.missed \in 0..MaxMisses
    BY DEF Inv, TypeOK
  <2> QED
    BY <2>3, <2>4, ExecutorAssumption
<1> QED
  BY <1>1, InvHolds, PTL
=============================================================================
