------------------------ MODULE GatewayLedgerProofs ------------------------
(***************************************************************************)
(* More theorems about Gateway, for any number of requests, tasks, handler *)
(* threads and restarts: what the ledger says of a workflow, that registry *)
(* and ledger agree, that a workflow under way is never evicted, that no   *)
(* cancel is lost and that a drained shutdown leaves no workflow behind.   *)
(***************************************************************************)
EXTENDS GatewayProofs

(* Steps of a handler that still decides the fate of the request it        *)
(* claimed: it dispatches the goal, or writes the request off.             *)
WriterSteps == SenderSteps \cup {"reject"}

(* Until a workflow has ended, its row says no more than that it was       *)
(* admitted; only the one handler or the callback that knows the fate of   *)
(* the request finishes the row.                                           *)
Writing ==
  /\ \A c \in Calls : call[c].pc \in WriterSteps =>
       /\ ~InFlight(Id(c)) /\ (cb.pc = "idle" \/ cb.id # Id(c))
       /\ fate[Id(c)] = "none"
       /\ Id(c) \in resolved \/ ledger[Id(c)].state = "ADMITTED"
       /\ \A d \in Calls : call[d].pc \in WriterSteps /\ Id(d) = Id(c) => d = c
  /\ \A i \in Ids \ resolved : InFlight(i) => ledger[i].state = "ADMITTED"

Answering ==
  /\ cb.pc \in {"refused", "refuse"} => fate[cb.id] = "refused"
  /\ cb.pc = "complete" =>
       fate[cb.id] = cb.said \/ (fate[cb.id] = "lost" /\ cb.said = "COMPLETED")
  /\ cb.pc \in {"refused", "refuse", "refuseMemory", "complete"} => ~InFlight(cb.id)
  /\ cb.pc \in {"refused", "refuse", "complete"} =>
       cb.id \in resolved \/ ledger[cb.id].state = "ADMITTED"

Truth == Writing /\ Answering /\ RowsCarryTheAnswer

(* A request somebody may still dispatch, cancel or refuse.  Its record is *)
(* neither final nor in the hands of a handler that would erase it.        *)
Refusing(i) == cb.pc \in {"refuse", "refuseMemory"} /\ cb.id = i
Sending(i)  == \E c \in Calls : call[c].pc \in SenderSteps /\ Id(c) = i
Owned(i)    == \E c \in Calls : call[c].pc \in OwnerSteps /\ Id(c) = i
Live(i)     == goals[i].there \/ Sending(i) \/ Refusing(i)

Downed == main.pc = "down" => (\A c \in Calls : At(c, "idle")) /\ (\A i \in Ids : ~Present(i))
Places ==
  /\ \A c \in Calls : call[c].pc \in {"decide", "emplace"} => ~goals[Id(c)].there
  /\ \A c \in Calls : At(c, "resolved") => Id(c) \in resolved
  /\ cb.pc \in {"refuse", "refuseMemory", "complete"} => ~goals[cb.id].there
Shown ==
  main.pc # "down" => \A i \in Ids \ resolved : Live(i) => memory[i].state \notin Final /\ ~Owned(i)
Visible == Downed /\ Places /\ Shown

(* A final record that its row does not confirm yet is about to be         *)
(* written down by whoever made it final.                                  *)
Replays == \A c \in Calls :
  /\ At(c, "apply") /\ call[c].said \in Terminal
  /\ Id(c) \notin resolved /\ ledger[Id(c)].state # "none"
  => ledger[Id(c)].state = call[c].said
Refusals ==
  cb.pc = "refuseMemory" => cb.id \in resolved \cup unsaved \/ ledger[cb.id].state = "REJECTED"
Confirmed(i) ==
  \/ ledger[i].state = memory[i].state
  \/ memory[i].state = "REJECTED" /\ \E c \in Calls : At(c, "reject") /\ Id(c) = i
  \/ cb.pc = "complete" /\ cb.id = i /\ memory[i].state = cb.said
Records == \A i \in Ids \ (resolved \cup unsaved) :
  memory[i].state \in Terminal /\ ledger[i].state # "none" => Confirmed(i)
Agreement == Replays /\ Refusals /\ Records

(* A shutdown lets no goal in that it would not cancel.                    *)
Orderly ==
  /\ main.pc # "serving" => stopping
  /\ main.pc = "drained" =>
       \A i \in Ids : goals[i].there => goals[i].cancelFailed \/ goals[i].cancelSent

(***************************************************************************)
(* Types.                                                                  *)
(***************************************************************************)
OrderTyped    == order \in Seq(Ids)
StoppingTyped == stopping \in BOOLEAN
UsedTyped ==
  used \in [restarts: 0..MaxRestarts, expiries: 0..MaxExpiries,
            resolutions: 0..MaxResolutions, shutdowns: 0..MaxShutdowns]
FateTyped ==
  /\ fate \in [Ids -> {"none", "asked", "running", "refused", "lost"} \cup Outcomes]
  /\ resolved \subseteq Ids /\ unsaved \subseteq Ids
RestTyped == OrderTyped /\ StoppingTyped /\ UsedTyped /\ FateTyped

LEMMA WithoutFacts ==
  ASSUME OrderTyped, NEW n \in 1..Len(order)
  PROVE  Without(n) \in Seq(Ids)
BY DEF OrderTyped, Without

LEMMA EraseKeepsOrder ==
  ASSUME OrderTyped, NEW i \in Ids, Erase(i)
  PROVE  OrderTyped'
BY WithoutFacts DEF OrderTyped, Erase

LEMMA OrderStep ==
  ASSUME Types, Names, OrderTyped, NEW c \in Calls, CallNext(c)
  PROVE  OrderTyped'
<1> USE DEF OrderTyped
<1>1. CASE InsertNew(c)
  <2>1. Id(c) \in Ids
    BY <1>1, InsertNewFacts DEF Types
  <2>2. CASE order' = Append(order, Id(c))
    BY <2>1, <2>2
  <2>3. CASE \E n \in 1..Len(order) : order' = Append(Without(n), Id(c))
    BY <2>1, <2>3, WithoutFacts
  <2> QED BY <1>1, <2>2, <2>3 DEF InsertNew
<1>2. CASE CheckHistory(c) \/ AdmitKnown(c) \/ AdmitNew(c) \/ Claim(c)
  BY <1>2, BusyFacts, EraseKeepsOrder
     DEF CheckHistory, AdmitKnown, AdmitNew, Claim, Types, CallSteps
<1>3. CASE ~(InsertNew(c) \/ CheckHistory(c) \/ AdmitKnown(c) \/ AdmitNew(c) \/ Claim(c))
  BY <1>3
     DEF CallNext, SubmitWorkflow, CancelWorkflow, ResolveUncertain, InsertKnown,
         LookupWhenFull, Apply, ReadRecord, Decide, RejectOnDisk, EmplaceGoal, SendGoal,
         AwaitResponse, Settle, TimeOut, DispatchCancel, CancelDispatched, RequestCancel,
         AnswerCancel, ResolveOnDisk, ResolveInMemory
<1> QED BY <1>1, <1>2, <1>3

LEMMA UsedStep ==
  ASSUME UsedTyped, StoppingTyped, NEW c \in Calls, CallNext(c)
  PROVE  UsedTyped' /\ StoppingTyped'
<1> USE DEF UsedTyped, StoppingTyped
<1>1. CASE \E i \in Ids, s \in Terminal : ResolveUncertain(c, i, s)
  BY <1>1, GatewayAssumption DEF ResolveUncertain
<1>2. CASE ~\E i \in Ids, s \in Terminal : ResolveUncertain(c, i, s)
  BY <1>2
     DEF CallNext, SubmitWorkflow, CancelWorkflow, InsertKnown, InsertNew, CheckHistory,
         AdmitKnown, AdmitNew, Claim, LookupWhenFull, Apply, ReadRecord, Decide, RejectOnDisk,
         EmplaceGoal, SendGoal, AwaitResponse, Settle, TimeOut, DispatchCancel,
         CancelDispatched, RequestCancel, AnswerCancel, ResolveOnDisk, ResolveInMemory
<1> QED BY <1>1, <1>2

LEMMA FateStep ==
  ASSUME Types, Names, FateTyped, NEW c \in Calls, CallNext(c)
  PROVE  FateTyped'
<1> USE DEF FateTyped, history
<1>1. CASE Claim(c) \/ SendGoal(c) \/ RejectOnDisk(c) \/ ResolveOnDisk(c)
  <2>1. Id(c) \in Ids
    BY <1>1, BusyFacts DEF Claim, SendGoal, RejectOnDisk, ResolveOnDisk, Types, CallSteps
  <2> QED BY <1>1, <2>1 DEF Claim, SendGoal, RejectOnDisk, ResolveOnDisk, Complete
<1>2. CASE ~(Claim(c) \/ SendGoal(c) \/ RejectOnDisk(c) \/ ResolveOnDisk(c))
  BY <1>2
     DEF CallNext, SubmitWorkflow, CancelWorkflow, ResolveUncertain, InsertKnown, InsertNew,
         CheckHistory, AdmitKnown, AdmitNew, LookupWhenFull, Apply, ReadRecord, Decide,
         EmplaceGoal, AwaitResponse, Settle, TimeOut, DispatchCancel,
         CancelDispatched, RequestCancel, AnswerCancel, ResolveInMemory
<1> QED BY <1>1, <1>2

LEMMA ClientKeepsTypes ==
  ASSUME Types, Names, RestTyped, ClientNext
  PROVE  RestTyped'
<1> USE CallbackFacts
        DEF RestTyped, OrderTyped, StoppingTyped, UsedTyped, FateTyped, history, Complete, Types
<1>1. CASE \E i \in Ids : GoalResponse(i)
  BY <1>1 DEF GoalResponse
<1>2. CASE \E i \in Ids : \E o \in Outcomes \cup {"lost"} : ResultCallback(i, o)
  BY <1>2 DEF ResultCallback
<1>3. CASE RefuseOnDisk \/ ResultOnDisk
  BY <1>3 DEF RefuseOnDisk, ResultOnDisk
<1>4. CASE \/ AcceptedCallback \/ CallbackCancel \/ CallbackCancelDispatched
           \/ RefusedCallback \/ RefuseInMemory
  BY <1>4 DEF AcceptedCallback, CallbackCancel, CallbackCancelDispatched, RefusedCallback,
              RefuseInMemory
<1> QED BY <1>1, <1>2, <1>3, <1>4 DEF ClientNext

LEMMA MainKeepsTypes ==
  ASSUME RestTyped, MainNext
  PROVE  RestTyped'
<1> USE DEF RestTyped, OrderTyped, StoppingTyped, UsedTyped, FateTyped, history
<1>1. CASE StopAccepting
  <2>1. UsedTyped'
    <3>1. used.shutdowns < MaxShutdowns /\ used' = [used EXCEPT !.shutdowns = @ + 1]
      BY <1>1 DEF StopAccepting
    <3> QED BY <3>1, GatewayAssumption
  <2>2. stopping' = TRUE /\ UNCHANGED <<order, history>>
    BY <1>1 DEF StopAccepting
  <2> QED BY <2>1, <2>2
<1>2. CASE Exit
  BY <1>2 DEF Exit
<1>3. CASE CancelActive \/ MainCancelDispatched \/ Drain \/ \E i \in Ids : MainCancel(i)
  BY <1>3 DEF CancelActive, MainCancelDispatched, Drain, MainCancel
<1> QED BY <1>1, <1>2, <1>3 DEF MainNext

LEMMA RestIsTyped ==
  /\ Init => RestTyped
  /\ Safe /\ RestTyped /\ [Next]_vars => RestTyped'
<1> USE DEF RestTyped
<1>1. ASSUME Init PROVE RestTyped
  <2>1. OrderTyped
    BY <1>1 DEF Init, ProcessInit, OrderTyped
  <2>2. StoppingTyped
    BY <1>1 DEF Init, ProcessInit, StoppingTyped
  <2>3. UsedTyped
    BY <1>1, GatewayAssumption DEF Init, UsedTyped
  <2>4. FateTyped
    BY <1>1 DEF Init, FateTyped
  <2> QED BY <2>1, <2>2, <2>3, <2>4
<1>2. ASSUME Safe, RestTyped, [Next]_vars PROVE RestTyped'
  <2>1. CASE \E c \in Calls : CallNext(c)
    BY <1>2, <2>1, OrderStep, UsedStep, FateStep DEF Safe
  <2>2. CASE ClientNext
    BY <1>2, <2>2, ClientKeepsTypes DEF Safe
  <2>3. CASE MainNext
    BY <1>2, <2>3, MainKeepsTypes
  <2>4. CASE Restart
    <3>1. OrderTyped'
      BY <2>4 DEF Restart, OrderTyped
    <3>2. StoppingTyped'
      BY <2>4 DEF Restart, StoppingTyped
    <3>3. UsedTyped'
      <4>1. /\ UsedTyped /\ used.restarts < MaxRestarts
            /\ used' = [used EXCEPT !.restarts = @ + 1]
        BY <1>2, <2>4 DEF Restart
      <4> QED BY <4>1, GatewayAssumption DEF UsedTyped
    <3>4. FateTyped'
      BY <1>2, <2>4 DEF Restart, FateTyped, history
    <3> QED BY <3>1, <3>2, <3>3, <3>4
  <2>5. CASE \E i \in Ids : Expire(i)
    <3>1. OrderTyped' /\ StoppingTyped' /\ FateTyped'
      BY <1>2, <2>5 DEF Expire, OrderTyped, StoppingTyped, FateTyped, processVars, history
    <3>2. UsedTyped'
      <4>1. /\ UsedTyped /\ used.expiries < MaxExpiries
            /\ used' = [used EXCEPT !.expiries = @ + 1]
        BY <1>2, <2>5 DEF Expire
      <4> QED BY <4>1, GatewayAssumption DEF UsedTyped
    <3> QED BY <3>1, <3>2
  <2>6. CASE UNCHANGED vars
    BY <1>2, <2>6
       DEF vars, processVars, history, OrderTyped, StoppingTyped, UsedTyped, FateTyped
  <2> QED BY <1>2, <2>1, <2>2, <2>3, <2>4, <2>5, <2>6 DEF Next
<1> QED BY <1>1, <1>2

(* The variables of the gateway, its ledger and its history keep their     *)
(* types over every handler, callback, shutdown, restart and expiry.       *)
THEOREM GatewayTyped == Spec => []TypeOK
<1>1. Safe /\ RestTyped => TypeOK
  BY DEF Safe, Types, MemoryTyped, GoalsTyped, CallTyped, CallbackTyped, FlightTyped,
         LedgerTyped, CountsTyped, Names, RestTyped, OrderTyped, StoppingTyped, UsedTyped,
         FateTyped, TypeOK
<1>2. Spec => []RestTyped
  BY RestIsTyped, GatewaySafe, PTL DEF Spec
<1> QED BY <1>1, <1>2, GatewaySafe, PTL

(***************************************************************************)
(* What a step does to the goal of a request: nothing, while whoever is    *)
(* about to dispatch its cancel still is; it drops it, puts a new one in   *)
(* before the intake is closed, notes that the cancel was tried, or notes  *)
(* that it is wanted and leaves a dispatcher behind when there is a handle.*)
(***************************************************************************)
Tried(i) == goals[i].cancelSent \/ goals[i].cancelFailed
Wanting(i) ==
  /\ goals'[i].there <=> goals[i].there
  /\ goals'[i].cancelSent <=> goals[i].cancelSent
  /\ goals'[i].cancelFailed <=> goals[i].cancelFailed
  /\ goals'[i].handle /\ goals'[i].cancelReq => Dispatching(i)'
GoalMove(i) ==
  \/ goals'[i] = goals[i] /\ (Dispatching(i) => Dispatching(i)')
  \/ ~goals'[i].there
  \/ ~stopping /\ ~goals'[i].handle
  \/ Tried(i)'
  \/ Wanting(i)

LEMMA WorkKept ==
  ASSUME NEW c \in Calls, CallNext(c)
  PROVE  UNCHANGED <<stopping, cb, main>>
BY DEF CallNext, SubmitWorkflow, CancelWorkflow, ResolveUncertain, InsertKnown, InsertNew,
       CheckHistory, AdmitKnown, AdmitNew, Claim, LookupWhenFull, Apply, ReadRecord, Decide,
       RejectOnDisk, EmplaceGoal, SendGoal, AwaitResponse, Settle, TimeOut, DispatchCancel,
       CancelDispatched, RequestCancel, AnswerCancel, ResolveOnDisk, ResolveInMemory

LEMMA CancelStep ==
  ASSUME NEW c \in Calls, CallNext(c), At(c, "cancel")
  PROVE  DispatchCancel(c)
BY DEF CallNext, SubmitWorkflow, CancelWorkflow, ResolveUncertain, InsertKnown, InsertNew,
       CheckHistory, AdmitKnown, AdmitNew, Claim, LookupWhenFull, Apply, ReadRecord, Decide,
       RejectOnDisk, EmplaceGoal, SendGoal, AwaitResponse, Settle, TimeOut,
       CancelDispatched, RequestCancel, AnswerCancel, ResolveOnDisk, ResolveInMemory, Start, At

LEMMA DispatcherStays ==
  ASSUME Types, Names, NEW c \in Calls, CallNext(c), NEW i \in Ids,
         ~(At(c, "cancel") /\ Id(c) = i), Dispatching(i)
  PROVE  Dispatching(i)'
<1>1. UNCHANGED <<cb, main>> /\ \A d \in Calls \ {c} : call'[d] = call[d]
  BY WorkKept, OthersStep
<1>2. CASE \E d \in Calls : At(d, "cancel") /\ Id(d) = i
  <2>1. PICK d \in Calls : At(d, "cancel") /\ Id(d) = i
    BY <1>2
  <2>2. d # c
    BY <2>1
  <2>3. At(d, "cancel")' /\ Id(d)' = i
    BY <1>1, <2>1, <2>2 DEF At, Id
  <2> QED BY <2>3 DEF Dispatching
<1> QED BY <1>1, <1>2 DEF Dispatching

LEMMA CallGoals ==
  ASSUME Types, Names, NEW c \in Calls, CallNext(c), NEW i \in Ids
  PROVE  GoalMove(i)
<1>1. ~At(c, "cancel") => (Dispatching(i) => Dispatching(i)')
  BY DispatcherStays
<1>2. ASSUME goals' = goals, ~At(c, "cancel") PROVE GoalMove(i)
  BY <1>1, <1>2 DEF GoalMove
<1>3. ASSUME NEW p \in {"emplace", "send", "late", "lookup", "cancel", "canceling"}, At(c, p)
      PROVE  Id(c) \in Ids
  BY <1>3, BusyFacts DEF Types, CallSteps
<1>4. CASE EmplaceGoal(c)
  <2>1. Id(c) \in Ids /\ ~At(c, "cancel")
    BY <1>3, <1>4 DEF EmplaceGoal, At
  <2>2. CASE ~stopping
             /\ goals' = [goals EXCEPT ![Id(c)] = [NoGoal EXCEPT !.there = TRUE, !.task = Task(c)]]
    <3>1. goals'[Id(c)].handle = FALSE /\ (i # Id(c) => goals'[i] = goals[i])
      BY <2>1, <2>2 DEF Types, GoalsTyped, NoGoal
    <3> QED BY <1>1, <2>1, <2>2, <3>1 DEF GoalMove
  <2> QED BY <1>2, <1>4, <2>1, <2>2 DEF EmplaceGoal
<1>5. CASE SendGoal(c)
  <2>1. Id(c) \in Ids /\ ~At(c, "cancel")
    BY <1>3, <1>5 DEF SendGoal, At
  <2>2. CASE goals' = [goals EXCEPT ![Id(c)] = NoGoal]
    <3>1. ~goals'[Id(c)].there /\ (i # Id(c) => goals'[i] = goals[i])
      BY <2>1, <2>2 DEF Types, GoalsTyped, NoGoal
    <3> QED BY <1>1, <2>1, <3>1 DEF GoalMove
  <2> QED BY <1>2, <1>5, <2>1, <2>2 DEF SendGoal
<1>6. CASE TimeOut(c) \/ RequestCancel(c)
  <2>1. Id(c) \in Ids /\ ~At(c, "cancel")
    BY <1>3, <1>6 DEF TimeOut, RequestCancel, At
  <2>2. CASE goals[Id(c)].there /\ goals' = [goals EXCEPT ![Id(c)].cancelReq = TRUE]
    <3>1. /\ goals'[Id(c)].there = goals[Id(c)].there
          /\ goals'[Id(c)].handle = goals[Id(c)].handle
          /\ goals'[Id(c)].cancelSent = goals[Id(c)].cancelSent
          /\ goals'[Id(c)].cancelFailed = goals[Id(c)].cancelFailed
          /\ i # Id(c) => goals'[i] = goals[i]
      BY <2>1, <2>2 DEF Types, GoalsTyped
    <3>2. goals[Id(c)].handle => At(c, "cancel")' /\ Id(c)' = Id(c)
      <4>1. goals[Id(c)].handle => Goto(c, "cancel") \/ GotoWith(c, "cancel", "DEADLINE")
        BY <1>6, <2>2 DEF TimeOut, RequestCancel
      <4>2. "cancel" \in CallSteps
        BY DEF CallSteps
      <4>3. CASE Goto(c, "cancel")
        BY <4>2, <4>3, GotoFacts DEF Types, At, Id
      <4>4. CASE GotoWith(c, "cancel", "DEADLINE")
        BY <4>2, <4>4, GotoWithFacts DEF Types, At, Id
      <4> QED BY <4>1, <4>3, <4>4
    <3>3. goals[Id(c)].handle /\ i = Id(c) => Dispatching(i)'
      BY <3>2 DEF Dispatching
    <3>4. CASE i = Id(c)
      BY <3>1, <3>3, <3>4 DEF GoalMove, Wanting
    <3> QED BY <1>1, <2>1, <3>1, <3>4 DEF GoalMove
  <2> QED BY <1>2, <1>6, <2>1, <2>2 DEF TimeOut, RequestCancel
<1>7. CASE DispatchCancel(c)
  <2>1. Id(c) \in Ids /\ (i # Id(c) => (Dispatching(i) => Dispatching(i)'))
    BY <1>3, <1>7, DispatcherStays DEF DispatchCancel
  <2>2. CASE NeedsCancel(Id(c)) /\ MarkCancel(Id(c))
    <3>1. goals'[Id(c)].cancelSent = TRUE /\ (i # Id(c) => goals'[i] = goals[i])
      BY <2>1, <2>2 DEF Types, GoalsTyped, MarkCancel
    <3> QED BY <2>1, <3>1 DEF GoalMove, Tried
  <2>3. CASE ~NeedsCancel(Id(c)) /\ goals' = goals
    <3>1. ~goals'[Id(c)].there \/ goals'[Id(c)].cancelSent
      BY <2>3 DEF NeedsCancel
    <3> QED BY <2>1, <2>3, <3>1 DEF GoalMove, Tried
  <2> QED BY <1>7, <2>2, <2>3 DEF DispatchCancel
<1>8. CASE CancelDispatched(c)
  <2>1. Id(c) \in Ids /\ ~At(c, "cancel")
    BY <1>3, <1>8 DEF CancelDispatched, At
  <2>2. CASE goals' = [goals EXCEPT ![Id(c)].cancelSent = FALSE, ![Id(c)].cancelFailed = TRUE]
    <3>1. goals'[Id(c)].cancelFailed = TRUE /\ (i # Id(c) => goals'[i] = goals[i])
      BY <2>1, <2>2 DEF Types, GoalsTyped
    <3> QED BY <1>1, <2>1, <3>1 DEF GoalMove, Tried
  <2> QED BY <1>2, <1>8, <2>1, <2>2 DEF CancelDispatched, CancelThrows
<1>9. CASE ~(\/ EmplaceGoal(c) \/ SendGoal(c) \/ TimeOut(c) \/ RequestCancel(c)
             \/ DispatchCancel(c) \/ CancelDispatched(c))
  <2>1. ~At(c, "cancel")
    BY <1>9, CancelStep
  <2>2. goals' = goals
    BY <1>9 DEF CallNext, SubmitWorkflow, CancelWorkflow, ResolveUncertain, InsertKnown,
           InsertNew, CheckHistory, AdmitKnown, AdmitNew, Claim, LookupWhenFull, Apply,
           ReadRecord, Decide, RejectOnDisk, AwaitResponse, Settle, AnswerCancel,
           ResolveOnDisk, ResolveInMemory
  <2> QED BY <1>2, <2>1, <2>2
<1> QED BY <1>4, <1>5, <1>6, <1>7, <1>8, <1>9

LEMMA ClientMoves ==
  ASSUME Types, Names, ClientNext, NEW i \in Ids
  PROVE  GoalMove(i)
<1>1. ASSUME call' = call, main' = main, ~(cb.pc = "cancel" /\ cb.id = i)
      PROVE  Dispatching(i) => Dispatching(i)'
  BY <1>1 DEF Dispatching, At, Id
<1>2. UNCHANGED <<call, main>>
  BY DEF ClientNext, GoalResponse, ResultCallback, AcceptedCallback, CallbackCancel,
         CallbackCancelDispatched, RefusedCallback, RefuseOnDisk, RefuseInMemory, ResultOnDisk
<1>3. ASSUME goals' = goals, cb.pc # "cancel" PROVE GoalMove(i)
  BY <1>1, <1>2, <1>3 DEF GoalMove
<1>4. CASE \/ \E j \in Ids : GoalResponse(j)
           \/ RefuseOnDisk \/ RefuseInMemory \/ ResultOnDisk
  BY <1>3, <1>4 DEF GoalResponse, CanCallBack, RefuseOnDisk, RefuseInMemory, ResultOnDisk
<1>5. CASE RefusedCallback \/ \E j \in Ids, o \in Outcomes \cup {"lost"} : ResultCallback(j, o)
  <2>1. PICK j \in Ids : goals' = [goals EXCEPT ![j] = NoGoal] /\ cb.pc # "cancel"
    BY <1>5, CallbackFacts DEF RefusedCallback, ResultCallback, CanCallBack, Types
  <2>2. ~goals'[j].there /\ (i # j => goals'[i] = goals[i])
    BY <2>1 DEF Types, GoalsTyped, NoGoal
  <2> QED BY <1>1, <1>2, <2>1, <2>2 DEF GoalMove
<1>6. CASE AcceptedCallback
  <2>1. cb.id \in Ids /\ cb.pc # "cancel"
    BY <1>6, CallbackFacts DEF AcceptedCallback, Types
  <2>2. CASE goals[cb.id].there
    <3>1. goals' = [goals EXCEPT ![cb.id].handle = TRUE]
      BY <1>6, <2>2 DEF AcceptedCallback
    <3>2. /\ goals'[cb.id].there = goals[cb.id].there
          /\ goals'[cb.id].cancelReq = goals[cb.id].cancelReq
          /\ goals'[cb.id].cancelSent = goals[cb.id].cancelSent
          /\ goals'[cb.id].cancelFailed = goals[cb.id].cancelFailed
          /\ i # cb.id => goals'[i] = goals[i]
      BY <2>1, <3>1 DEF Types, GoalsTyped
    <3>3. goals[cb.id].cancelReq => cb'.pc = "cancel" /\ cb'.id = cb.id
      BY <1>6, <2>2 DEF AcceptedCallback, CancelWanted, Types, CallbackTyped
    <3>4. CASE i = cb.id
      BY <3>2, <3>3, <3>4 DEF GoalMove, Wanting, Dispatching
    <3> QED BY <1>1, <1>2, <2>1, <3>2, <3>4 DEF GoalMove
  <2> QED BY <1>3, <1>6, <2>1, <2>2 DEF AcceptedCallback
<1>7. CASE CallbackCancel
  <2>1. cb.id \in Ids
    BY <1>7, CallbackFacts DEF CallbackCancel, Types
  <2>2. CASE NeedsCancel(cb.id) /\ MarkCancel(cb.id)
    <3>1. goals'[cb.id].cancelSent = TRUE /\ (i # cb.id => goals'[i] = goals[i])
      BY <2>1, <2>2 DEF Types, GoalsTyped, MarkCancel
    <3> QED BY <1>1, <1>2, <3>1 DEF GoalMove, Tried
  <2>3. CASE ~NeedsCancel(cb.id) /\ goals' = goals
    <3>1. ~goals'[cb.id].there \/ goals'[cb.id].cancelSent
      BY <2>3 DEF NeedsCancel
    <3> QED BY <1>1, <1>2, <2>3, <3>1 DEF GoalMove, Tried
  <2> QED BY <1>7, <2>2, <2>3 DEF CallbackCancel
<1>8. CASE CallbackCancelDispatched
  <2>1. cb.id \in Ids /\ cb.pc # "cancel"
    BY <1>8, CallbackFacts DEF CallbackCancelDispatched, Types
  <2>2. CASE goals' = [goals EXCEPT ![cb.id].cancelSent = FALSE, ![cb.id].cancelFailed = TRUE]
    <3>1. goals'[cb.id].cancelFailed = TRUE /\ (i # cb.id => goals'[i] = goals[i])
      BY <2>1, <2>2 DEF Types, GoalsTyped
    <3> QED BY <1>1, <1>2, <2>1, <3>1 DEF GoalMove, Tried
  <2> QED BY <1>3, <1>8, <2>1, <2>2 DEF CallbackCancelDispatched, CancelThrows
<1> QED BY <1>4, <1>5, <1>6, <1>7, <1>8 DEF ClientNext

LEMMA MainMoves ==
  ASSUME Types, Names, MainNext, NEW i \in Ids
  PROVE  GoalMove(i)
<1>1. UNCHANGED <<call, cb>>
  BY DEF MainNext, StopAccepting, CancelActive, MainCancelDispatched, Drain, Exit, MainCancel
<1>2. ASSUME \/ main.pc \notin {"cancel", "canceling"}
             \/ i \notin main.todo
             \/ main'.pc \in {"cancel", "canceling"} /\ i \in main'.todo
      PROVE  Dispatching(i) => Dispatching(i)'
  BY <1>1, <1>2 DEF Dispatching, At, Id
<1>3. main.pc \in MainSteps /\ main.todo \subseteq Ids
  BY DEF Names
<1>4. CASE StopAccepting \/ Drain \/ Exit
  BY <1>2, <1>4 DEF StopAccepting, Drain, Exit, GoalMove
<1>5. CASE CancelActive
  <2>1. /\ goals'[i].there = goals[i].there /\ goals'[i].handle = goals[i].handle
        /\ goals'[i].cancelSent = goals[i].cancelSent
        /\ goals'[i].cancelFailed = goals[i].cancelFailed
    BY <1>5 DEF CancelActive, Types, GoalsTyped
  <2>2. goals[i].handle /\ ~goals[i].cancelSent => main'.pc = "cancel" /\ i \in main'.todo
    BY <1>5 DEF CancelActive, Names
  <2> QED BY <2>1, <2>2 DEF GoalMove, Wanting, Tried, Dispatching
<1>6. CASE \E j \in Ids : MainCancel(j)
  <2>1. PICK j \in Ids : MainCancel(j)
    BY <1>6
  <2>2. main'.pc \in {"cancel", "canceling"} /\ main'.todo = main.todo \ {j}
    BY <2>1 DEF MainCancel, Names
  <2>3. i # j => (Dispatching(i) => Dispatching(i)')
    BY <1>2, <2>2
  <2>4. CASE NeedsCancel(j) /\ MarkCancel(j)
    <3>1. goals'[j].cancelSent = TRUE /\ (i # j => goals'[i] = goals[i])
      BY <2>4 DEF Types, GoalsTyped, MarkCancel
    <3> QED BY <2>3, <3>1 DEF GoalMove, Tried
  <2>5. CASE ~NeedsCancel(j) /\ goals' = goals
    <3>1. ~goals'[j].there \/ goals'[j].cancelSent
      BY <2>5 DEF NeedsCancel
    <3> QED BY <2>3, <2>5, <3>1 DEF GoalMove, Tried
  <2> QED BY <2>1, <2>4, <2>5 DEF MainCancel
<1>7. CASE MainCancelDispatched
  <2>1. main.id \in Ids /\ main'.pc = "cancel" /\ main'.todo = main.todo
    BY <1>7 DEF MainCancelDispatched, Names
  <2>2. Dispatching(i) => Dispatching(i)'
    BY <1>2, <2>1
  <2>3. CASE goals' = goals
    BY <2>2, <2>3 DEF GoalMove
  <2>4. CASE goals' = [goals EXCEPT ![main.id].cancelSent = FALSE, ![main.id].cancelFailed = TRUE]
    <3>1. goals'[main.id].cancelFailed = TRUE /\ (i # main.id => goals'[i] = goals[i])
      BY <2>1, <2>4 DEF Types, GoalsTyped
    <3> QED BY <2>2, <3>1 DEF GoalMove, Tried
  <2> QED BY <1>7, <2>3, <2>4 DEF MainCancelDispatched, CancelThrows
<1> QED BY <1>4, <1>5, <1>6, <1>7 DEF MainNext

LEMMA GoalsMove ==
  ASSUME Safe, [Next]_vars, NEW i \in Ids
  PROVE  GoalMove(i)
<1> USE DEF Safe
<1>1. CASE \/ \E c \in Calls : CallNext(c)
           \/ ClientNext \/ MainNext
  BY <1>1, CallGoals, ClientMoves, MainMoves
<1>2. CASE Restart
  BY <1>2 DEF Restart, GoalMove, NoGoal
<1>3. CASE UNCHANGED vars \/ \E j \in Ids : Expire(j)
  BY <1>3 DEF vars, processVars, Expire, GoalMove, Dispatching, At, Id
<1> QED BY <1>1, <1>2, <1>3 DEF Next

(* No cancel falls between the callback that stores the handle and the     *)
(* thread that looks for it: one that a client, a timeout or a shutdown    *)
(* asked for is dispatched, has failed, or is about to be dispatched       *)
(* (dispatch_cancel and its callers in gateway_service.cpp).               *)
THEOREM EveryCancelIsDispatched == Spec => []NoCancelLost
<1>1. Init => NoCancelLost
  BY DEF Init, ProcessInit, NoCancelLost, NoGoal
<1>2. ASSUME Safe, NoCancelLost, [Next]_vars PROVE NoCancelLost'
  <2> SUFFICES ASSUME NEW i \in Ids, goals'[i].there, goals'[i].handle, goals'[i].cancelReq
               PROVE  goals'[i].cancelSent \/ goals'[i].cancelFailed \/ Dispatching(i)'
    BY DEF NoCancelLost
  <2> QED BY <1>2, GoalsMove DEF GoalMove, Wanting, Tried, NoCancelLost
<1> QED BY <1>1, <1>2, GatewaySafe, PTL DEF Spec

LEMMA OrderlyStep ==
  ASSUME Safe, Orderly, [Next]_vars
  PROVE  Orderly'
<1>1. /\ main'.pc # "serving" => stopping'
      /\ main'.pc = "drained" /\ main.pc # "drained" => DrainedNow /\ goals' = goals
      /\ main'.pc = "drained" => stopping
  <2> USE DEF Orderly
  <2>1. CASE \E c \in Calls : CallNext(c)
    BY <2>1, WorkKept
  <2>2. CASE ClientNext
    BY <2>2 DEF ClientNext, GoalResponse, ResultCallback, AcceptedCallback, CallbackCancel,
           CallbackCancelDispatched, RefusedCallback, RefuseOnDisk, RefuseInMemory, ResultOnDisk
  <2>3. CASE MainNext
    <3>1. main \in [pc: MainSteps, todo: SUBSET Ids, id: Ids \cup {NoId}]
      BY DEF Safe, Names
    <3>2. CASE StopAccepting
      <4>1. main'.pc = "stopping" /\ stopping' = TRUE
        BY <3>1, <3>2 DEF StopAccepting
      <4> QED BY <4>1
    <3>3. CASE CancelActive
      <4>1. main'.pc = "cancel" /\ main.pc = "stopping" /\ stopping' = stopping
        BY <3>1, <3>3 DEF CancelActive
      <4> QED BY <4>1
    <3>4. CASE Exit
      <4>1. main'.pc = "down" /\ main.pc # "serving" /\ stopping' = stopping
        BY <3>1, <3>4 DEF Exit
      <4> QED BY <4>1
    <3>5. CASE Drain
      <4>1. /\ main.pc = "cancel" /\ UNCHANGED <<goals, stopping>>
            /\ main'.pc = "drained" => DrainedNow
        BY <3>1, <3>5 DEF Drain
      <4> QED BY <4>1
    <3>6. CASE MainCancelDispatched
      <4>1. main.pc = "canceling" /\ main'.pc = "cancel" /\ stopping' = stopping
        BY <3>1, <3>6 DEF MainCancelDispatched
      <4> QED BY <4>1
    <3>7. CASE \E i \in Ids : MainCancel(i)
      <4>1. PICK i \in Ids : MainCancel(i)
        BY <3>7
      <4>2. main.pc = "cancel" /\ stopping' = stopping
        BY <4>1 DEF MainCancel
      <4>3. \/ main' = [pc |-> "canceling", todo |-> main.todo \ {i}, id |-> i]
            \/ main' = [main EXCEPT !.todo = @ \ {i}]
        BY <4>1 DEF MainCancel
      <4>4. main'.pc \in {"cancel", "canceling"}
        BY <3>1, <4>2, <4>3
      <4> QED BY <4>2, <4>4
    <3> QED BY <2>3, <3>2, <3>3, <3>4, <3>5, <3>6, <3>7 DEF MainNext
  <2>4. CASE Restart
    BY <2>4 DEF Restart
  <2>5. CASE UNCHANGED vars \/ \E j \in Ids : Expire(j)
    BY <2>5 DEF vars, processVars, Expire
  <2> QED BY <2>1, <2>2, <2>3, <2>4, <2>5 DEF Next
<1>2. ASSUME main'.pc = "drained", NEW i \in Ids, goals'[i].there
      PROVE  goals'[i].cancelFailed \/ goals'[i].cancelSent
  <2>1. CASE main.pc # "drained"
    BY <1>1, <1>2, <2>1 DEF DrainedNow
  <2>2. CASE main.pc = "drained"
    BY <1>1, <1>2, <2>2, GoalsMove DEF GoalMove, Wanting, Tried, Orderly
  <2> QED BY <2>1, <2>2
<1> QED BY <1>1, <1>2 DEF Orderly

(* A shutdown that drained leaves no workflow behind but those whose       *)
(* cancel it tried, and no handler let in before the intake was closed     *)
(* sends one afterwards (LoopbackServer::shutdown with cancel_active).     *)
THEOREM DrainedShutdown == Spec => []ShutdownLeavesNoOrphan
<1>1. Init => Orderly
  BY DEF Init, ProcessInit, Orderly
<1>2. Safe /\ Orderly => ShutdownLeavesNoOrphan
  BY DEF Safe, Discipline, Pins, InFlight, Orderly, ShutdownLeavesNoOrphan
<1> QED BY <1>1, <1>2, OrderlyStep, GatewaySafe, PTL DEF Spec

(***************************************************************************)
(* The steps of a handler: four that change what is known of a request,    *)
(* and the plain ones.                                                     *)
(***************************************************************************)
ClaimStep(c)   == Claim(c) /\ Goto(c, "decide")
SendStep(c)    == SendGoal(c) /\ Goto(c, "await")
ResolveStep(c) == ResolveOnDisk(c) /\ Goto(c, "resolved")
PlainStep(c) ==
  CallNext(c) /\ ~ClaimStep(c) /\ ~SendStep(c) /\ ~ResolveStep(c) /\ ~RejectOnDisk(c)

Alone(c) ==
  /\ ~goals[Id(c)].there /\ ~InFlight(Id(c)) /\ (cb.pc = "idle" \/ cb.id # Id(c))
  /\ \A d \in Calls : call[d].pc \in PinSteps => Id(d) # Id(c)
  /\ \A d \in Calls : call[d].pc \in OwnerSteps /\ Id(d) = Id(c) => d = c
  /\ memory[Id(c)].state \notin Final

LEMMA ClaimDone ==
  ASSUME Safe, RestTyped, NEW c \in Calls, ClaimStep(c)
  PROVE  /\ Id(c) \in Ids /\ call[c].pc = "claim" /\ call'[c].pc = "decide" /\ SameId(c)
         /\ \A d \in Calls \ {c} : call'[d] = call[d]
         /\ UNCHANGED <<memory, goals, cb, main, flight>>
         /\ ledger[Id(c)].state = "none" /\ ledger'[Id(c)].state = "ADMITTED"
         /\ \A j \in Ids \ {Id(c)} : ledger'[j] = ledger[j] /\ fate'[j] = fate[j]
         /\ fate'[Id(c)] = "none"
         /\ resolved' = resolved \ {Id(c)} /\ unsaved' = unsaved \ {Id(c)}
         /\ Alone(c)
<1> USE DEF Safe, Types, Discipline, ClaimStep
<1>1. Id(c) \in Ids /\ Task(c) \in Tasks /\ call[c].pc = "claim"
  BY BusyFacts DEF Claim, CallSteps, OwnerSteps, At
<1>2. ledger[Id(c)].state = "none" /\ ~Pinned(Id(c))
  BY <1>1 DEF Claims, At, Pinned
<1>3. call'[c].pc = "decide" /\ SameId(c) /\ \A d \in Calls \ {c} : call'[d] = call[d]
  BY GotoFacts DEF CallSteps, SameId
<1>4. /\ Put(Id(c), Task(c), "ADMITTED") /\ fate' = [fate EXCEPT ![Id(c)] = "none"]
      /\ resolved' = resolved \ {Id(c)} /\ unsaved' = unsaved \ {Id(c)} /\ UNCHANGED memory
  BY <1>3, FinishFacts DEF Claim
<1>5. ledger'[Id(c)].state = "ADMITTED" /\ \A j \in Ids \ {Id(c)} : ledger'[j] = ledger[j]
  BY <1>1, <1>4, PutFacts
<1>6. fate'[Id(c)] = "none" /\ \A j \in Ids \ {Id(c)} : fate'[j] = fate[j]
  BY <1>1, <1>4 DEF RestTyped, FateTyped
<1>7. UNCHANGED <<goals, cb, main, flight>>
  BY DEF Claim
<1>8. Alone(c)
  BY <1>1, <1>2 DEF Alone, Pins, Exclusive, OwnerSteps, Final
<1> QED BY <1>1, <1>2, <1>3, <1>4, <1>5, <1>6, <1>7, <1>8

LEMMA SendDone ==
  ASSUME Safe, RestTyped, NEW c \in Calls, SendStep(c)
  PROVE  /\ Id(c) \in Ids /\ call[c].pc = "send" /\ call'[c].pc = "await" /\ SameId(c)
         /\ \A d \in Calls \ {c} : call'[d] = call[d]
         /\ UNCHANGED <<memory, goals, cb, main, ledger, resolved, unsaved>>
         /\ \A j \in Ids \ {Id(c)} : flight'[j] = flight[j] /\ fate'[j] = fate[j]
         /\ goals[Id(c)].there
<1> USE DEF Safe, Types, Discipline, SendStep
<1>1. Id(c) \in Ids /\ call[c].pc = "send"
  BY BusyFacts DEF SendGoal, CallSteps, At
<1>2. call'[c].pc = "await" /\ SameId(c) /\ \A d \in Calls \ {c} : call'[d] = call[d]
  BY GotoFacts DEF CallSteps, SameId
<1>3. ~RejectInMemory(c, "UNAVAILABLE")
  BY <1>2, GotoWithFacts, StateFacts DEF RejectInMemory, CallSteps
<1>4. /\ flight' = [flight EXCEPT ![Id(c)] = "sent"] /\ fate' = [fate EXCEPT ![Id(c)] = "asked"]
      /\ UNCHANGED <<memory, goals, cb, main, ledger, resolved, unsaved>>
  BY <1>3 DEF SendGoal
<1>5. \A j \in Ids \ {Id(c)} : flight'[j] = flight[j] /\ fate'[j] = fate[j]
  BY <1>1, <1>4 DEF FlightTyped, RestTyped, FateTyped
<1>6. goals[Id(c)].there
  BY <1>1 DEF Claims, At
<1> QED BY <1>1, <1>2, <1>4, <1>5, <1>6

LEMMA ResolveDone ==
  ASSUME Safe, NEW c \in Calls, ResolveStep(c)
  PROVE  /\ Id(c) \in Ids /\ call[c].pc = "resolve" /\ call'[c].pc = "resolved" /\ SameId(c)
         /\ \A d \in Calls \ {c} : call'[d] = call[d]
         /\ UNCHANGED <<memory, goals, cb, main, flight, fate, unsaved>>
         /\ \A j \in Ids \ {Id(c)} : ledger'[j] = ledger[j]
         /\ resolved' = resolved \cup {Id(c)}
<1> USE DEF Safe, Types, Discipline, ResolveStep
<1>1. /\ Id(c) \in Ids /\ Task(c) \in Tasks \cup {NoTask} /\ call[c].pc = "resolve"
      /\ call[c].said \in Terminal
  BY BusyFacts DEF ResolveOnDisk, CallSteps, At
<1>2. call'[c].pc = "resolved" /\ SameId(c) /\ \A d \in Calls \ {c} : call'[d] = call[d]
  BY GotoFacts DEF CallSteps, SameId
<1>3. Put(Id(c), Task(c), call[c].said) /\ resolved' = resolved \cup {Id(c)}
  BY <1>2, FinishFacts DEF ResolveOnDisk
<1>4. \A j \in Ids \ {Id(c)} : ledger'[j] = ledger[j]
  BY <1>1, <1>3, PutFacts
<1>5. UNCHANGED <<memory, goals, cb, main, flight, fate, unsaved>>
  BY DEF ResolveOnDisk
<1> QED BY <1>1, <1>2, <1>3, <1>4, <1>5

LEMMA RejectDone ==
  ASSUME Safe, NEW c \in Calls, RejectOnDisk(c)
  PROVE  /\ Id(c) \in Ids /\ call[c].pc = "reject" /\ call'[c].pc \in {"read", "idle"}
         /\ \A d \in Calls \ {c} : call'[d] = call[d]
         /\ UNCHANGED <<memory, goals, cb, main, flight, fate, resolved>>
         /\ \A j \in Ids \ {Id(c)} : ledger'[j] = ledger[j]
         /\ \/ ledger'[Id(c)].state = "REJECTED" /\ UNCHANGED unsaved
            \/ UNCHANGED ledger /\ unsaved' = unsaved \cup {Id(c)}
<1> USE DEF Safe, Types, Discipline
<1>1. Id(c) \in Ids /\ Task(c) \in Tasks \cup {NoTask} /\ call[c].pc = "reject"
  BY BusyFacts DEF RejectOnDisk, CallSteps, At
<1>2. call'[c].pc \in {"read", "idle"} /\ \A d \in Calls \ {c} : call'[d] = call[d]
  BY GotoFacts, FinishFacts DEF RejectOnDisk, CallSteps
<1>3. UNCHANGED <<memory, goals, cb, main, flight, fate, resolved>>
  BY DEF RejectOnDisk
<1>4. CASE Put(Id(c), Task(c), "REJECTED") /\ UNCHANGED unsaved
  <2>1. ledger' = [ledger EXCEPT ![Id(c)] = [task |-> Task(c), state |-> "REJECTED", old |-> FALSE]]
    BY <1>4 DEF Put
  <2>2. /\ ledger'[Id(c)].state = "REJECTED"
        /\ \A j \in Ids \ {Id(c)} : ledger'[j] = ledger[j]
    BY <1>1, <2>1 DEF LedgerTyped
  <2> QED BY <1>1, <1>2, <1>3, <1>4, <2>2
<1>5. CASE UNCHANGED ledger /\ unsaved' = unsaved \cup {Id(c)}
  BY <1>1, <1>2, <1>3, <1>5
<1> QED BY <1>4, <1>5 DEF RejectOnDisk, Complete

(* The rows, the records and the goals that a plain step may change, and   *)
(* where it leaves its handler.                                            *)
RowsFade == \A i \in Ids :
  ledger'[i].state = ledger[i].state \/ (ledger[i].state \in Terminal /\ ledger'[i].state = "none")

Control(c) ==
  /\ call'[c].pc \in OwnerSteps =>
       \/ call[c].pc \in OwnerSteps /\ SameId(c)
       \/ call'[c].id \in Ids /\ memory[call'[c].id].state = "none"
  /\ call'[c].pc \in WriterSteps => call[c].pc \in SenderSteps /\ SameId(c)
  /\ call'[c].pc \in {"decide", "emplace"} => call[c].pc \in {"decide", "emplace"}
  /\ call'[c].pc = "apply" =>
       /\ call[c].pc = "admit" /\ SameId(c) /\ ledger' = ledger
       /\ call'[c].said \in Terminal => ledger[Id(c)].state = call'[c].said
  /\ call'[c].pc # "resolved"

RecordMoves(c) == \A i \in Ids :
  \/ memory'[i].state = memory[i].state
  \/ memory'[i].state \notin Final
  \/ memory[i].state \in Terminal /\ memory'[i].state = "none"
  \/ i = Id(c) /\ call[c].pc \in OwnerSteps /\ memory'[i].state = "none"
  \/ i = Id(c) /\ At(c, "apply") /\ memory'[i].state = call[c].said
  \/ /\ i = Id(c) /\ call[c].pc \in SenderSteps /\ call'[c].pc = "reject" /\ SameId(c)
     /\ memory'[i].state = "REJECTED"
     /\ ~goals'[i].there \/ (call[c].pc \in {"decide", "emplace"} /\ goals' = goals)
  \/ i = Id(c) /\ At(c, "resolved")

GoalsOf(c) == \A i \in Ids :
  goals'[i].there => goals[i].there \/ (i = Id(c) /\ At(c, "emplace") /\ call'[c].pc = "send")

LEMMA PlainHistory ==
  ASSUME NEW c \in Calls, PlainStep(c)
  PROVE  UNCHANGED <<flight, fate, resolved, unsaved>>
<1> USE DEF PlainStep, ClaimStep, SendStep, ResolveStep, history
<1>1. CASE Claim(c) \/ SendGoal(c) \/ ResolveOnDisk(c) \/ AdmitNew(c)
  BY <1>1 DEF Claim, SendGoal, ResolveOnDisk, AdmitNew
<1>2. CASE ~(Claim(c) \/ SendGoal(c) \/ ResolveOnDisk(c) \/ AdmitNew(c))
  BY <1>2
     DEF CallNext, SubmitWorkflow, CancelWorkflow, ResolveUncertain, InsertKnown, InsertNew,
         CheckHistory, AdmitKnown, LookupWhenFull, Apply, ReadRecord, Decide, EmplaceGoal,
         AwaitResponse, Settle, TimeOut, DispatchCancel, CancelDispatched, RequestCancel,
         AnswerCancel, ResolveInMemory
<1> QED BY <1>1, <1>2

LEMMA PlainRows ==
  ASSUME Safe, NEW c \in Calls, PlainStep(c)
  PROVE  RowsFade
<1> USE DEF PlainStep, ClaimStep, ResolveStep, RowsFade
<1>1. CASE AdmitNew(c)
  BY <1>1, PruneFacts DEF AdmitNew, Reclaimable, Safe, Types
<1>2. CASE Claim(c) \/ ResolveOnDisk(c)
  BY <1>2 DEF Claim, ResolveOnDisk
<1>3. CASE ~(Claim(c) \/ ResolveOnDisk(c) \/ AdmitNew(c))
  BY <1>3
     DEF CallNext, SubmitWorkflow, CancelWorkflow, ResolveUncertain, InsertKnown, InsertNew,
         CheckHistory, AdmitKnown, LookupWhenFull, Apply, ReadRecord, Decide, EmplaceGoal,
         SendGoal, AwaitResponse, Settle, TimeOut, DispatchCancel, CancelDispatched,
         RequestCancel, AnswerCancel, ResolveInMemory
<1> QED BY <1>1, <1>2, <1>3

LEMMA PlainControl ==
  ASSUME Safe, NEW c \in Calls, PlainStep(c)
  PROVE  Control(c)
<1> USE StateFacts, BusyFacts
        DEF Safe, Types, Control, SameId, CallSteps, OwnerSteps, SenderSteps, WriterSteps, At, Id
<1>1. CASE \/ \E i \in Ids, t \in Tasks : SubmitWorkflow(c, i, t)
           \/ \E i \in Ids : CancelWorkflow(c, i)
  BY <1>1, StartFacts DEF SubmitWorkflow, CancelWorkflow
<1>2. CASE \E i \in Ids, s \in Terminal : ResolveUncertain(c, i, s)
  <2>1. PICK i \in Ids, s \in Terminal : ResolveUncertain(c, i, s)
    BY <1>2
  <2>2. ledger[i].task \in Tasks \cup {NoTask}
    BY DEF LedgerTyped
  <2>3. call'[c].pc = "resolve"
    BY <2>1, <2>2, StartFacts DEF ResolveUncertain
  <2> QED BY <2>3
<1>3. CASE InsertKnown(c) \/ LookupWhenFull(c) \/ CheckHistory(c) \/ AdmitNew(c)
  BY <1>3, GotoFacts, FinishFacts DEF InsertKnown, LookupWhenFull, CheckHistory, AdmitNew
<1>4. CASE InsertNew(c)
  <2>1. Id(c) \in Ids /\ (Goto(c, "full") \/ (Goto(c, "history") /\ ~Present(Id(c))))
    BY <1>4, InsertNewFacts
  <2>2. call'[c].pc \in {"full", "history"} /\ call'[c].id = call[c].id
    BY <2>1, GotoFacts
  <2>3. call'[c].pc = "history" => memory[call[c].id].state = "none"
    BY <2>1, GotoFacts DEF Present
  <2> QED BY <2>1, <2>2, <2>3
<1>5. CASE AdmitKnown(c)
  <2>1. Id(c) \in Ids /\ call[c].pc = "admit" /\ ledger' = ledger
    BY <1>5, BusyFacts DEF AdmitKnown, history
  <2>2. CASE Finish(c)
    BY <2>2, FinishFacts
  <2>3. CASE GotoWith(c, "apply", IF Uncertain(ledger[Id(c)].state) THEN "UNCERTAIN"
                                    ELSE ledger[Id(c)].state)
    <3>1. ledger[Id(c)].state \in Terminal \cup {"none", "ADMITTED"}
      BY <2>1 DEF LedgerTyped
    <3>2. /\ call'[c].pc = "apply" /\ call'[c].id = call[c].id
          /\ call'[c].said = IF Uncertain(ledger[Id(c)].state) THEN "UNCERTAIN"
                               ELSE ledger[Id(c)].state
      BY <2>3, <3>1, GotoWithFacts DEF Uncertain
    <3> QED BY <2>1, <3>2
  <2> QED BY <1>5, <2>2, <2>3 DEF AdmitKnown
<1>6. CASE Claim(c)
  BY <1>6, GotoFacts, FinishFacts DEF Claim, PlainStep, ClaimStep
<1>7. CASE Apply(c) \/ ReadRecord(c)
  BY <1>7, GotoFacts, FinishFacts DEF Apply, ReadRecord
<1>8. CASE Decide(c)
  BY <1>8, GotoFacts, GotoWithFacts DEF Decide, RejectInMemory
<1>9. CASE EmplaceGoal(c)
  <2>1. Goto(c, "send") \/ RejectInMemory(c, "UNAVAILABLE")
    BY <1>9, EmplaceGoalFacts
  <2> QED BY <1>9, <2>1, GotoFacts, GotoWithFacts DEF EmplaceGoal, RejectInMemory
<1>10. CASE SendGoal(c)
  BY <1>10, GotoFacts, GotoWithFacts DEF SendGoal, RejectInMemory
<1>11. CASE AwaitResponse(c) \/ Settle(c) \/ RequestCancel(c) \/ AnswerCancel(c)
  BY <1>11, GotoFacts, FinishFacts DEF AwaitResponse, Settle, RequestCancel, AnswerCancel
<1>12. CASE TimeOut(c)
  BY <1>12, GotoFacts, FinishFacts, GotoWithFacts DEF TimeOut
<1>13. CASE DispatchCancel(c) \/ CancelDispatched(c)
  BY <1>13, GotoFacts, FinishFacts DEF DispatchCancel, CancelDispatched, CancelIsOut
<1>14. CASE ResolveOnDisk(c) \/ ResolveInMemory(c)
  BY <1>14, FinishFacts DEF ResolveOnDisk, ResolveInMemory, PlainStep, ResolveStep
<1> QED BY <1>1, <1>2, <1>3, <1>4, <1>5, <1>6, <1>7, <1>8, <1>9, <1>10, <1>11, <1>12, <1>13,
           <1>14 DEF PlainStep, CallNext

LEMMA PlainGoals ==
  ASSUME Safe, NEW c \in Calls, PlainStep(c)
  PROVE  GoalsOf(c)
<1> USE DEF Safe, Types, Discipline, PlainStep, GoalsOf
<1>1. CASE EmplaceGoal(c) /\ Goto(c, "send")
  <2>1. At(c, "emplace") /\ call'[c].pc = "send"
    BY <1>1, GotoFacts DEF EmplaceGoal, CallSteps
  <2>2. \A j \in Ids \ {Id(c)} : goals'[j].there => goals[j].there
    BY <1>1, EmplaceGoalFacts
  <2> QED BY <2>1, <2>2
<1>2. CASE SendGoal(c)
  <2>1. Id(c) \in Ids /\ goals' = [goals EXCEPT ![Id(c)] = NoGoal]
    BY <1>2, BusyFacts DEF SendGoal, SendStep, CallSteps
  <2> QED BY <2>1, NoGoalFacts
<1>3. CASE ~(EmplaceGoal(c) /\ Goto(c, "send")) /\ ~SendGoal(c)
  <2>1. ~At(c, "send")
    BY <1>3 DEF CallNext, SubmitWorkflow, CancelWorkflow, ResolveUncertain, Start, At,
         InsertKnown, InsertNew, LookupWhenFull, CheckHistory, AdmitKnown, AdmitNew, Claim,
         Apply, ReadRecord, Decide, RejectOnDisk, EmplaceGoal, AwaitResponse, Settle, TimeOut,
         DispatchCancel, CancelDispatched, RequestCancel, AnswerCancel, ResolveOnDisk,
         ResolveInMemory
  <2> QED BY <1>3, <2>1, GoalsKeptStep DEF ClaimStep
<1> QED BY <1>1, <1>2, <1>3

LEMMA RejectsRecord ==
  ASSUME MemoryTyped, CallTyped, NEW c \in Calls, Id(c) \in Ids, NEW p \in SenderSteps, At(c, p),
         NEW s \in {"none", "UNAVAILABLE"}, RejectInMemory(c, s),
         ~goals'[Id(c)].there \/ (p \in {"decide", "emplace"} /\ goals' = goals)
  PROVE  RecordMoves(c)
<1>1. call'[c].pc = "reject" /\ SameId(c)
  BY GotoWithFacts, StateFacts DEF RejectInMemory, SameId, CallSteps
<1>2. /\ memory'[Id(c)].state = IF memory[Id(c)].state = "none" THEN "none" ELSE "REJECTED"
      /\ \A j \in Ids \ {Id(c)} : memory'[j] = memory[j]
  BY UpdateFacts, StateFacts DEF RejectInMemory
<1> QED BY <1>1, <1>2 DEF RecordMoves, At

LEMMA ErasesRecord ==
  ASSUME MemoryTyped, NEW c \in Calls, Id(c) \in Ids, call[c].pc \in OwnerSteps, Erase(Id(c))
  PROVE  RecordMoves(c)
BY EraseFacts DEF RecordMoves

LEMMA UpdatesRecord ==
  ASSUME MemoryTyped, NEW c \in Calls, Id(c) \in Ids, NEW s \in States,
         memory' = Update(memory, Id(c), s),
         \/ s \notin Final
         \/ At(c, "apply") /\ s = call[c].said
         \/ At(c, "resolved")
  PROVE  RecordMoves(c)
BY UpdateFacts DEF RecordMoves

LEMMA SoftMoves ==
  ASSUME NEW c \in Calls, Soft
  PROVE  RecordMoves(c)
BY DEF Soft, RecordMoves, Final

LEMMA PlainMemory ==
  ASSUME Safe, NEW c \in Calls, PlainStep(c)
  PROVE  RecordMoves(c)
<1> USE DEF Safe, Types, PlainStep
<1>1. ASSUME memory' = memory PROVE RecordMoves(c)
  BY <1>1 DEF RecordMoves
<1>2. ASSUME NEW p \in CallSteps \ {"idle"}, At(c, p) PROVE Id(c) \in Ids
  BY <1>2, BusyFacts
<1>3. CASE InsertNew(c)
  <2>1. Id(c) \in Ids /\ Task(c) \in Tasks
    BY <1>3, BusyFacts DEF InsertNew, CallSteps
  <2>2. \A j \in Ids \ {Id(c)} : memory'[j] = memory[j] \/ memory'[j] = NoRecord
    BY <1>3, <2>1, FreshFacts DEF InsertNew
  <2> QED BY <1>3, <2>2, InsertNewFacts, StateFacts DEF RecordMoves, Final, NoRecord
<1>4. CASE CheckHistory(c) \/ AdmitKnown(c) \/ AdmitNew(c) \/ Claim(c)
  <2>1. Id(c) \in Ids /\ call[c].pc \in OwnerSteps
    BY <1>2, <1>4 DEF CheckHistory, AdmitKnown, AdmitNew, Claim, CallSteps, OwnerSteps, At
  <2>2. memory' = memory \/ Erase(Id(c))
    BY <1>4 DEF CheckHistory, AdmitKnown, AdmitNew, Claim
  <2> QED BY <1>1, <2>1, <2>2, ErasesRecord
<1>5. CASE Apply(c)
  <2>1. Id(c) \in Ids /\ At(c, "apply") /\ call[c].said \in States
    BY <1>5, BusyFacts, StateFacts DEF Apply, CallSteps
  <2> QED BY <1>5, <2>1, UpdatesRecord DEF Apply
<1>6. CASE Decide(c)
  <2>1. Id(c) \in Ids /\ At(c, "decide") /\ goals' = goals
    BY <1>2, <1>6 DEF Decide, CallSteps
  <2> QED BY <1>1, <1>6, <2>1, RejectsRecord DEF Decide, SenderSteps
<1>7. CASE EmplaceGoal(c)
  <2>1. Id(c) \in Ids /\ At(c, "emplace")
    BY <1>2, <1>7 DEF EmplaceGoal, CallSteps
  <2>2. memory' = memory \/ (RejectInMemory(c, "UNAVAILABLE") /\ goals' = goals)
    BY <1>7 DEF EmplaceGoal
  <2> QED BY <1>1, <2>1, <2>2, RejectsRecord DEF SenderSteps
<1>8. CASE SendGoal(c)
  <2>1. Id(c) \in Ids /\ At(c, "send")
    BY <1>2, <1>8 DEF SendGoal, CallSteps
  <2>2. RejectInMemory(c, "UNAVAILABLE") /\ goals' = [goals EXCEPT ![Id(c)] = NoGoal]
    BY <1>8 DEF SendGoal, SendStep
  <2>3. ~goals'[Id(c)].there
    BY <2>1, <2>2, NoGoalFacts
  <2> QED BY <2>1, <2>2, <2>3, RejectsRecord DEF SenderSteps
<1>9. CASE TimeOut(c) \/ RequestCancel(c)
  <2>1. Id(c) \in Ids
    BY <1>2, <1>9 DEF TimeOut, RequestCancel, CallSteps
  <2>2. \/ memory' = memory
        \/ memory' = Update(memory, Id(c), "TIMED_OUT")
        \/ memory' = Update(memory, Id(c), "CANCELING")
    BY <1>9 DEF TimeOut, RequestCancel
  <2>3. "TIMED_OUT" \in States \ Final /\ "CANCELING" \in States \ Final
    BY StateFacts DEF Final
  <2> QED BY <1>1, <2>1, <2>2, <2>3, UpdatesRecord
<1>10. CASE CancelDispatched(c)
  <2>1. Id(c) \in Ids
    BY <1>2, <1>10 DEF CancelDispatched, CallSteps
  <2>2. memory' = memory \/ CancelThrows(Id(c))
    BY <1>10 DEF CancelDispatched
  <2> QED BY <1>1, <2>1, <2>2, CancelThrowsFacts, SoftMoves
<1>11. CASE ResolveInMemory(c)
  <2>1. Id(c) \in Ids /\ At(c, "resolved") /\ call[c].said \in States
    BY <1>11, BusyFacts, StateFacts DEF ResolveInMemory, CallSteps
  <2> QED BY <1>11, <2>1, UpdatesRecord DEF ResolveInMemory
<1>12. CASE ~(\/ InsertNew(c) \/ CheckHistory(c) \/ AdmitKnown(c) \/ AdmitNew(c) \/ Claim(c)
              \/ Apply(c) \/ Decide(c) \/ EmplaceGoal(c) \/ SendGoal(c) \/ TimeOut(c)
              \/ RequestCancel(c) \/ CancelDispatched(c) \/ ResolveInMemory(c))
  <2>1. memory' = memory
    BY <1>12
       DEF CallNext, SubmitWorkflow, CancelWorkflow, ResolveUncertain, InsertKnown,
           LookupWhenFull, ReadRecord, RejectOnDisk, AwaitResponse, Settle, DispatchCancel,
           AnswerCancel, ResolveOnDisk
  <2> QED BY <1>1, <2>1
<1> QED BY <1>3, <1>4, <1>5, <1>6, <1>7, <1>8, <1>9, <1>10, <1>11, <1>12

(***************************************************************************)
(* What the ledger says.  Most steps are calm: they finish no row, end no  *)
(* workflow and make nobody a writer.                                      *)
(***************************************************************************)
CallbackCalm ==
  \/ cb'.pc = "idle"
  \/ /\ cb.pc # "idle" /\ cb'.id = cb.id
     /\ cb'.pc \in {"refused", "refuse"} => cb.pc \in {"refused", "refuse"}
     /\ cb'.pc = "refuseMemory" => cb.pc = "refuseMemory"
     /\ cb'.pc = "complete" => cb.pc = "complete" /\ cb'.said = cb.said

Calm ==
  /\ \A i \in Ids : InFlight(i)' => InFlight(i)
  /\ fate' = fate /\ resolved' = resolved
  /\ RowsFade /\ CallbackCalm
  /\ \A c \in Calls : call'[c].pc \in WriterSteps => call[c].pc \in WriterSteps /\ SameId(c)

LEMMA WriterFacts ==
  ASSUME Names, NEW c \in Calls, call[c].pc \in WriterSteps
  PROVE  Id(c) \in Ids /\ call[c].pc \in PinSteps /\ call[c].pc # "idle"
BY DEF Names, WriterSteps, SenderSteps, PinSteps, At

LEMMA CalmIsTrue ==
  ASSUME Names, Names', Truth, Calm
  PROVE  Truth'
<1> USE DEF Truth
<1>1. "ADMITTED" \notin Terminal
  BY StateFacts
<1>2. ASSUME NEW c \in Calls, call'[c].pc \in WriterSteps
      PROVE  /\ ~InFlight(Id(c))' /\ (cb'.pc = "idle" \/ cb'.id # Id(c)')
             /\ fate'[Id(c)'] = "none"
             /\ Id(c)' \in resolved' \/ ledger'[Id(c)'].state = "ADMITTED"
             /\ \A d \in Calls : call'[d].pc \in WriterSteps /\ Id(d)' = Id(c)' => d = c
  <2>1. call[c].pc \in WriterSteps /\ Id(c)' = Id(c) /\ Id(c) \in Ids
    BY <1>2, WriterFacts DEF Calm, SameId, Id
  <2>2. ~InFlight(Id(c))'
    BY <2>1 DEF Calm, Writing, InFlight
  <2>3. cb'.pc = "idle" \/ cb'.id # Id(c)'
    BY <2>1 DEF Calm, Writing, CallbackCalm
  <2>4. \A d \in Calls : call'[d].pc \in WriterSteps /\ Id(d)' = Id(c)' => d = c
    BY <2>1 DEF Calm, Writing, SameId, Id
  <2>5. Id(c)' \in resolved' \/ ledger'[Id(c)'].state = "ADMITTED"
    BY <1>1, <2>1 DEF Calm, Writing, RowsFade
  <2>6. fate'[Id(c)'] = "none"
    BY <2>1 DEF Calm, Writing
  <2> QED BY <2>2, <2>3, <2>4, <2>5, <2>6
<1>3. \A i \in Ids \ resolved' : InFlight(i)' => ledger'[i].state = "ADMITTED"
  BY <1>1 DEF Calm, Writing, RowsFade
<1>4. Answering'
  <2>1. CASE cb'.pc = "idle"
    BY <2>1 DEF Answering
  <2>2. CASE cb'.pc # "idle"
    <3>1. cb'.id = cb.id /\ cb.id \in Ids
      BY <2>2 DEF Calm, CallbackCalm, Names
    <3> QED BY <1>1, <2>2, <3>1 DEF Answering, Calm, CallbackCalm, RowsFade, InFlight
  <2> QED BY <2>1, <2>2
<1>5. RowsCarryTheAnswer'
  BY StateFacts DEF Calm, RowsFade, RowsCarryTheAnswer
<1> QED BY <1>2, <1>3, <1>4, <1>5 DEF Writing

LEMMA ClaimIsTrue ==
  ASSUME Safe, Names', RestTyped, Truth, NEW c \in Calls, ClaimStep(c)
  PROVE  Truth'
<1> USE DEF Truth
<1>1. /\ Id(c) \in Ids /\ call[c].pc = "claim" /\ call'[c].pc = "decide" /\ SameId(c)
      /\ \A d \in Calls \ {c} : call'[d] = call[d]
      /\ UNCHANGED <<cb, flight>>
      /\ ledger'[Id(c)].state = "ADMITTED"
      /\ \A j \in Ids \ {Id(c)} : ledger'[j] = ledger[j] /\ fate'[j] = fate[j]
      /\ fate'[Id(c)] = "none" /\ resolved' = resolved \ {Id(c)}
      /\ Alone(c)
  BY ClaimDone
<1>2. Id(c)' = Id(c)
  BY <1>1 DEF SameId, Id
<1>3. ASSUME NEW d \in Calls, call'[d].pc \in WriterSteps, d # c
      PROVE  call'[d] = call[d] /\ Id(d)' = Id(d) /\ Id(d) # Id(c) /\ Id(d) \in Ids
  <2>1. call'[d] = call[d] /\ call[d].pc \in WriterSteps
    BY <1>1, <1>3
  <2>2. Id(d) # Id(c) /\ Id(d) \in Ids
    BY <1>1, <2>1, WriterFacts DEF Alone, Safe
  <2> QED BY <2>1, <2>2 DEF Id
<1>4. ASSUME NEW d \in Calls, call'[d].pc \in WriterSteps
      PROVE  /\ ~InFlight(Id(d))' /\ (cb'.pc = "idle" \/ cb'.id # Id(d)')
             /\ fate'[Id(d)'] = "none"
             /\ Id(d)' \in resolved' \/ ledger'[Id(d)'].state = "ADMITTED"
             /\ \A e \in Calls : call'[e].pc \in WriterSteps /\ Id(e)' = Id(d)' => e = d
  <2>1. CASE d = c
    BY <1>1, <1>2, <1>3, <2>1 DEF Alone, InFlight
  <2>2. CASE d # c
    <3>1. call[d].pc \in WriterSteps /\ Id(d)' = Id(d) /\ Id(d) # Id(c) /\ Id(d) \in Ids
      BY <1>3, <1>4, <2>2
    <3>2. \A e \in Calls : call'[e].pc \in WriterSteps /\ Id(e)' = Id(d)' => e = d
      BY <1>2, <1>3, <3>1 DEF Writing
    <3> QED BY <1>1, <3>1, <3>2 DEF Writing, InFlight
  <2> QED BY <2>1, <2>2
<1>5. \A i \in Ids \ resolved' : InFlight(i)' => ledger'[i].state = "ADMITTED"
  BY <1>1 DEF Writing, InFlight
<1>6. Answering'
  BY <1>1 DEF Answering, Alone, InFlight, Safe, Names
<1>7. RowsCarryTheAnswer'
  BY <1>1, StateFacts DEF RowsCarryTheAnswer
<1> QED BY <1>4, <1>5, <1>6, <1>7 DEF Writing

LEMMA SendIsTrue ==
  ASSUME Safe, Names', RestTyped, Truth, NEW c \in Calls, SendStep(c)
  PROVE  Truth'
<1> USE DEF Truth
<1>1. /\ Id(c) \in Ids /\ call[c].pc = "send" /\ call'[c].pc = "await"
      /\ \A d \in Calls \ {c} : call'[d] = call[d]
      /\ UNCHANGED <<cb, ledger, resolved>>
      /\ \A j \in Ids \ {Id(c)} : flight'[j] = flight[j] /\ fate'[j] = fate[j]
  BY SendDone
<1>2. call[c].pc \in WriterSteps /\ call'[c].pc \notin WriterSteps
  BY <1>1 DEF WriterSteps, SenderSteps
<1>3. /\ cb.pc = "idle" \/ cb.id # Id(c)
      /\ Id(c) \in resolved \/ ledger[Id(c)].state = "ADMITTED"
      /\ \A d \in Calls : call[d].pc \in WriterSteps /\ Id(d) = Id(c) => d = c
  BY <1>2 DEF Writing
<1>4. ASSUME NEW d \in Calls, call'[d].pc \in WriterSteps
      PROVE  call'[d] = call[d] /\ Id(d)' = Id(d) /\ Id(d) # Id(c) /\ Id(d) \in Ids
  <2>1. call'[d] = call[d] /\ call[d].pc \in WriterSteps /\ d # c
    BY <1>1, <1>2, <1>4
  <2> QED BY <1>3, <2>1, WriterFacts DEF Id, Safe
<1>5. ASSUME NEW d \in Calls, call'[d].pc \in WriterSteps
      PROVE  /\ ~InFlight(Id(d))' /\ (cb'.pc = "idle" \/ cb'.id # Id(d)')
             /\ fate'[Id(d)'] = "none"
             /\ Id(d)' \in resolved' \/ ledger'[Id(d)'].state = "ADMITTED"
             /\ \A e \in Calls : call'[e].pc \in WriterSteps /\ Id(e)' = Id(d)' => e = d
  <2>1. call[d].pc \in WriterSteps /\ Id(d)' = Id(d) /\ Id(d) # Id(c) /\ Id(d) \in Ids
    BY <1>4, <1>5
  <2>2. \A e \in Calls : call'[e].pc \in WriterSteps /\ Id(e)' = Id(d)' => e = d
    BY <1>4, <2>1 DEF Writing
  <2> QED BY <1>1, <2>1, <2>2 DEF Writing, InFlight
<1>6. \A i \in Ids \ resolved' : InFlight(i)' => ledger'[i].state = "ADMITTED"
  BY <1>1, <1>3 DEF Writing, InFlight
<1>7. Answering'
  BY <1>1, <1>3 DEF Answering, InFlight, Safe, Names
<1>8. RowsCarryTheAnswer'
  BY <1>1, <1>3, StateFacts DEF RowsCarryTheAnswer
<1> QED BY <1>5, <1>6, <1>7, <1>8 DEF Writing

LEMMA ResolveIsTrue ==
  ASSUME Safe, Names', Truth, NEW c \in Calls, ResolveStep(c)
  PROVE  Truth'
<1> USE DEF Truth
<1>1. /\ Id(c) \in Ids /\ call'[c].pc = "resolved"
      /\ \A d \in Calls \ {c} : call'[d] = call[d]
      /\ UNCHANGED <<cb, flight, fate>>
      /\ \A j \in Ids \ {Id(c)} : ledger'[j] = ledger[j]
      /\ resolved' = resolved \cup {Id(c)}
  BY ResolveDone
<1>2. ASSUME NEW d \in Calls, call'[d].pc \in WriterSteps
      PROVE  call[d].pc \in WriterSteps /\ Id(d)' = Id(d) /\ Id(d) \in Ids
  <2>1. call'[d] = call[d] /\ call[d].pc \in WriterSteps
    BY <1>1, <1>2 DEF WriterSteps, SenderSteps
  <2> QED BY <2>1, WriterFacts DEF Id, Safe
<1>3. ASSUME NEW d \in Calls, call'[d].pc \in WriterSteps
      PROVE  /\ ~InFlight(Id(d))' /\ (cb'.pc = "idle" \/ cb'.id # Id(d)')
             /\ fate'[Id(d)'] = "none"
             /\ Id(d)' \in resolved' \/ ledger'[Id(d)'].state = "ADMITTED"
             /\ \A e \in Calls : call'[e].pc \in WriterSteps /\ Id(e)' = Id(d)' => e = d
  <2>1. \A e \in Calls : call'[e].pc \in WriterSteps /\ Id(e)' = Id(d)' => e = d
    BY <1>2, <1>3 DEF Writing
  <2> QED BY <1>1, <1>2, <1>3, <2>1 DEF Writing, InFlight
<1>4. \A i \in Ids \ resolved' : InFlight(i)' => ledger'[i].state = "ADMITTED"
  BY <1>1 DEF Writing, InFlight
<1>5. Answering'
  BY <1>1 DEF Answering, InFlight, Safe, Names
<1>6. RowsCarryTheAnswer'
  BY <1>1 DEF RowsCarryTheAnswer
<1> QED BY <1>3, <1>4, <1>5, <1>6 DEF Writing

LEMMA RejectIsTrue ==
  ASSUME Safe, Names', Truth, NEW c \in Calls, RejectOnDisk(c)
  PROVE  Truth'
<1> USE DEF Truth
<1>1. /\ Id(c) \in Ids /\ call[c].pc = "reject" /\ call'[c].pc \in {"read", "idle"}
      /\ \A d \in Calls \ {c} : call'[d] = call[d]
      /\ UNCHANGED <<cb, flight, fate, resolved>>
      /\ \A j \in Ids \ {Id(c)} : ledger'[j] = ledger[j]
      /\ ledger'[Id(c)].state = "REJECTED" \/ ledger' = ledger
  BY RejectDone
<1>2. call[c].pc \in WriterSteps /\ call'[c].pc \notin WriterSteps
  BY <1>1 DEF WriterSteps, SenderSteps
<1>3. /\ ~InFlight(Id(c)) /\ (cb.pc = "idle" \/ cb.id # Id(c)) /\ fate[Id(c)] = "none"
      /\ \A d \in Calls : call[d].pc \in WriterSteps /\ Id(d) = Id(c) => d = c
  BY <1>2 DEF Writing
<1>4. ASSUME NEW d \in Calls, call'[d].pc \in WriterSteps
      PROVE  call[d].pc \in WriterSteps /\ Id(d)' = Id(d) /\ Id(d) # Id(c) /\ Id(d) \in Ids
  <2>1. call'[d] = call[d] /\ call[d].pc \in WriterSteps /\ d # c
    BY <1>1, <1>2, <1>4
  <2> QED BY <1>3, <2>1, WriterFacts DEF Id, Safe
<1>5. ASSUME NEW d \in Calls, call'[d].pc \in WriterSteps
      PROVE  /\ ~InFlight(Id(d))' /\ (cb'.pc = "idle" \/ cb'.id # Id(d)')
             /\ fate'[Id(d)'] = "none"
             /\ Id(d)' \in resolved' \/ ledger'[Id(d)'].state = "ADMITTED"
             /\ \A e \in Calls : call'[e].pc \in WriterSteps /\ Id(e)' = Id(d)' => e = d
  <2>1. \A e \in Calls : call'[e].pc \in WriterSteps /\ Id(e)' = Id(d)' => e = d
    BY <1>4, <1>5 DEF Writing
  <2> QED BY <1>1, <1>4, <1>5, <2>1 DEF Writing, InFlight
<1>6. \A i \in Ids \ resolved' : InFlight(i)' => ledger'[i].state = "ADMITTED"
  BY <1>1, <1>3 DEF Writing, InFlight
<1>7. Answering'
  BY <1>1, <1>3 DEF Answering, InFlight, Safe, Names
<1>8. RowsCarryTheAnswer'
  <2>1. "REJECTED" \notin Outcomes
    BY GatewayAssumption
  <2> QED BY <1>1, <1>3, <2>1 DEF RowsCarryTheAnswer
<1> QED BY <1>5, <1>6, <1>7, <1>8 DEF Writing

LEMMA ResponseIsTrue ==
  ASSUME Safe, Names', RestTyped, Truth, NEW i \in Ids, GoalResponse(i)
  PROVE  Truth'
<1> USE DEF Truth
<1>1. cb.pc = "idle" /\ InFlight(i) /\ UNCHANGED <<call, ledger, resolved>>
  BY DEF GoalResponse, CanCallBack, InFlight
<1>2. /\ cb'.id = i /\ cb'.pc \in {"accepted", "refused"}
      /\ cb'.pc = "refused" => flight'[i] = "refused" /\ fate'[i] = "refused"
      /\ \A j \in Ids \ {i} : flight'[j] = flight[j] /\ fate'[j] = fate[j]
  BY DEF GoalResponse, Callback, Safe, Types, FlightTyped, RestTyped, FateTyped
<1>3. i \in resolved \/ ledger[i].state = "ADMITTED"
  BY <1>1 DEF Writing
<1>4. \A j \in Ids : InFlight(j)' => InFlight(j)
  BY <1>1, <1>2 DEF InFlight
<1>5. ASSUME NEW d \in Calls, call'[d].pc \in WriterSteps
      PROVE  Id(d)' = Id(d) /\ Id(d) # i /\ Id(d) \in Ids
  BY <1>1, <1>5, WriterFacts DEF Writing, Id, Safe
<1>6. ASSUME NEW d \in Calls, call'[d].pc \in WriterSteps
      PROVE  /\ ~InFlight(Id(d))' /\ (cb'.pc = "idle" \/ cb'.id # Id(d)')
             /\ fate'[Id(d)'] = "none"
             /\ Id(d)' \in resolved' \/ ledger'[Id(d)'].state = "ADMITTED"
             /\ \A e \in Calls : call'[e].pc \in WriterSteps /\ Id(e)' = Id(d)' => e = d
  <2>1. \A e \in Calls : call'[e].pc \in WriterSteps /\ Id(e)' = Id(d)' => e = d
    BY <1>1, <1>5, <1>6 DEF Writing
  <2> QED BY <1>1, <1>2, <1>5, <1>6, <2>1 DEF Writing, InFlight
<1>7. \A j \in Ids \ resolved' : InFlight(j)' => ledger'[j].state = "ADMITTED"
  BY <1>1, <1>4 DEF Writing
<1>8. Answering'
  BY <1>1, <1>2, <1>3 DEF Answering, InFlight
<1>9. RowsCarryTheAnswer'
  BY <1>1, <1>2, <1>3, StateFacts DEF RowsCarryTheAnswer
<1> QED BY <1>6, <1>7, <1>8, <1>9 DEF Writing

LEMMA ResultIsTrue ==
  ASSUME Safe, Names', RestTyped, Truth, NEW i \in Ids, NEW o \in Outcomes \cup {"lost"},
         ResultCallback(i, o)
  PROVE  Truth'
<1> USE DEF Truth
<1>1. cb.pc = "idle" /\ InFlight(i) /\ goals[i].there /\ UNCHANGED <<call, ledger, resolved>>
  BY DEF ResultCallback, CanCallBack, InFlight, Safe, Discipline, Pins
<1>2. /\ cb'.id = i /\ cb'.pc = "complete" /\ cb'.said = StateForOutcome(o)
      /\ flight'[i] = "ended" /\ fate'[i] = o
      /\ \A j \in Ids \ {i} : flight'[j] = flight[j] /\ fate'[j] = fate[j]
  BY <1>1 DEF ResultCallback, Callback, Safe, Types, FlightTyped, RestTyped, FateTyped
<1>3. i \in resolved \/ ledger[i].state = "ADMITTED"
  BY <1>1 DEF Writing
<1>4. \A j \in Ids : InFlight(j)' => InFlight(j)
  BY <1>1, <1>2 DEF InFlight
<1>5. ASSUME NEW d \in Calls, call'[d].pc \in WriterSteps
      PROVE  Id(d)' = Id(d) /\ Id(d) # i /\ Id(d) \in Ids
  BY <1>1, <1>5, WriterFacts DEF Writing, Id, Safe
<1>6. ASSUME NEW d \in Calls, call'[d].pc \in WriterSteps
      PROVE  /\ ~InFlight(Id(d))' /\ (cb'.pc = "idle" \/ cb'.id # Id(d)')
             /\ fate'[Id(d)'] = "none"
             /\ Id(d)' \in resolved' \/ ledger'[Id(d)'].state = "ADMITTED"
             /\ \A e \in Calls : call'[e].pc \in WriterSteps /\ Id(e)' = Id(d)' => e = d
  <2>1. \A e \in Calls : call'[e].pc \in WriterSteps /\ Id(e)' = Id(d)' => e = d
    BY <1>1, <1>5, <1>6 DEF Writing
  <2> QED BY <1>1, <1>2, <1>5, <1>6, <2>1 DEF Writing, InFlight
<1>7. \A j \in Ids \ resolved' : InFlight(j)' => ledger'[j].state = "ADMITTED"
  BY <1>1, <1>4 DEF Writing
<1>8. Answering'
  BY <1>1, <1>2, <1>3 DEF Answering, InFlight, StateForOutcome
<1>9. RowsCarryTheAnswer'
  BY <1>1, <1>2, <1>3, StateFacts DEF RowsCarryTheAnswer
<1> QED BY <1>6, <1>7, <1>8, <1>9 DEF Writing

(* The callback that knows the end of a workflow writes its row.           *)
LEMMA WrittenRow ==
  ASSUME Safe, NEW s \in Terminal, cb.pc # "idle", Complete(cb.id, cb.task, s)
  PROVE  /\ cb.id \in Ids
         /\ \A j \in Ids \ {cb.id} : ledger'[j] = ledger[j]
         /\ \/ ledger'[cb.id].state = s /\ UNCHANGED unsaved
            \/ UNCHANGED ledger /\ unsaved' = unsaved \cup {cb.id}
<1>1. cb.id \in Ids /\ cb.task \in Tasks \cup {NoTask} /\ LedgerTyped
  BY CallbackFacts DEF Safe, Types
<1>2. CASE Put(cb.id, cb.task, s) /\ UNCHANGED unsaved
  BY <1>1, <1>2 DEF Put, LedgerTyped
<1>3. CASE UNCHANGED ledger /\ unsaved' = unsaved \cup {cb.id}
  BY <1>1, <1>3
<1> QED BY <1>2, <1>3 DEF Complete

LEMMA WritingStays ==
  ASSUME Safe, Writing, UNCHANGED <<call, flight, fate, resolved>>, NEW i \in Ids,
         \A j \in Ids \ {i} : ledger'[j] = ledger[j],
         i = cb.id, cb.pc # "idle", ~InFlight(i), cb'.pc = "idle" \/ cb'.id = cb.id
  PROVE  Writing'
<1>1. ASSUME NEW d \in Calls, call'[d].pc \in WriterSteps
      PROVE  Id(d)' = Id(d) /\ Id(d) # i /\ Id(d) \in Ids /\ call[d].pc \in WriterSteps
  BY <1>1, WriterFacts DEF Writing, Id, Safe
<1>2. ASSUME NEW d \in Calls, call'[d].pc \in WriterSteps
      PROVE  /\ ~InFlight(Id(d))' /\ (cb'.pc = "idle" \/ cb'.id # Id(d)')
             /\ fate'[Id(d)'] = "none"
             /\ Id(d)' \in resolved' \/ ledger'[Id(d)'].state = "ADMITTED"
             /\ \A e \in Calls : call'[e].pc \in WriterSteps /\ Id(e)' = Id(d)' => e = d
  <2>1. \A e \in Calls : call'[e].pc \in WriterSteps /\ Id(e)' = Id(d)' => e = d
    BY <1>1, <1>2 DEF Writing
  <2> QED BY <1>1, <1>2, <2>1 DEF Writing, InFlight
<1>3. \A j \in Ids \ resolved' : InFlight(j)' => ledger'[j].state = "ADMITTED"
  BY DEF Writing, InFlight
<1> QED BY <1>2, <1>3 DEF Writing

LEMMA RefusalOnDiskIsTrue ==
  ASSUME Safe, Truth, RefuseOnDisk
  PROVE  Truth'
<1> USE DEF Truth
<1>1. /\ cb.pc = "refuse" /\ cb'.pc = "refuseMemory" /\ cb'.id = cb.id
      /\ UNCHANGED <<call, flight, fate, resolved>>
  BY DEF RefuseOnDisk, Safe, Types, CallbackTyped
<1>2. /\ cb.id \in Ids /\ \A j \in Ids \ {cb.id} : ledger'[j] = ledger[j]
      /\ ledger'[cb.id].state = "REJECTED" \/ ledger' = ledger
  BY <1>1, WrittenRow, StateFacts DEF RefuseOnDisk
<1>3. fate[cb.id] = "refused" /\ ~InFlight(cb.id)
  BY <1>1 DEF Answering
<1>4. Writing'
  BY <1>1, <1>2, <1>3, WritingStays
<1>5. Answering'
  BY <1>1, <1>3 DEF Answering, InFlight
<1>6. RowsCarryTheAnswer'
  <2>1. "REJECTED" \notin Outcomes
    BY GatewayAssumption
  <2> QED BY <1>1, <1>2, <1>3, <2>1 DEF RowsCarryTheAnswer
<1> QED BY <1>4, <1>5, <1>6

LEMMA ResultOnDiskIsTrue ==
  ASSUME Safe, Truth, ResultOnDisk
  PROVE  Truth'
<1> USE DEF Truth
<1>1. cb.pc = "complete" /\ cb'.pc = "idle" /\ UNCHANGED <<call, flight, fate, resolved>>
  BY DEF ResultOnDisk, Idle
<1>2. cb.said \in Outcomes /\ cb.said \in Terminal
  BY <1>1, StateFacts DEF Safe, Names
<1>3. /\ cb.id \in Ids /\ \A j \in Ids \ {cb.id} : ledger'[j] = ledger[j]
      /\ ledger'[cb.id].state = cb.said \/ ledger' = ledger
  BY <1>1, <1>2, WrittenRow DEF ResultOnDisk
<1>4. /\ fate[cb.id] = cb.said \/ (fate[cb.id] = "lost" /\ cb.said = "COMPLETED")
      /\ ~InFlight(cb.id)
  BY <1>1 DEF Answering
<1>5. Writing'
  BY <1>1, <1>3, <1>4, WritingStays
<1>6. Answering'
  BY <1>1 DEF Answering
<1>7. RowsCarryTheAnswer'
  <2>1. "REJECTED" \notin Outcomes /\ "lost" \notin Outcomes
    BY GatewayAssumption
  <2> QED BY <1>1, <1>2, <1>3, <1>4, <2>1 DEF RowsCarryTheAnswer
<1> QED BY <1>5, <1>6, <1>7

LEMMA PlainIsCalm ==
  ASSUME Safe, NEW c \in Calls, PlainStep(c)
  PROVE  Calm
<1>1. UNCHANGED <<flight, fate, resolved, cb>>
  BY PlainHistory, WorkKept DEF PlainStep
<1>2. \A d \in Calls \ {c} : call'[d] = call[d]
  BY OthersStep DEF PlainStep, Safe
<1>3. \A d \in Calls : call'[d].pc \in WriterSteps => call[d].pc \in WriterSteps /\ SameId(d)
  BY <1>2, PlainControl DEF Control, WriterSteps, SameId
<1>4. RowsFade
  BY PlainRows
<1> QED BY <1>1, <1>3, <1>4 DEF Calm, CallbackCalm, InFlight

LEMMA ClientIsTrue ==
  ASSUME Safe, Names', RestTyped, Truth, ClientNext
  PROVE  Truth'
<1>1. CASE \E i \in Ids : GoalResponse(i)
  BY <1>1, ResponseIsTrue
<1>2. CASE \E i \in Ids : \E o \in Outcomes \cup {"lost"} : ResultCallback(i, o)
  BY <1>2, ResultIsTrue
<1>3. CASE RefuseOnDisk \/ ResultOnDisk
  BY <1>3, RefusalOnDiskIsTrue, ResultOnDiskIsTrue
<1>4. CASE \/ AcceptedCallback \/ CallbackCancel \/ CallbackCancelDispatched
           \/ RefusedCallback \/ RefuseInMemory
  <2>1. UNCHANGED <<call, flight, fate, resolved, ledger>>
    BY <1>4 DEF AcceptedCallback, CallbackCancel, CallbackCancelDispatched, RefusedCallback,
                RefuseInMemory, history
  <2>2. CallbackCalm
    <3> USE DEF CallbackCalm, Idle, Safe, Types, CallbackTyped
    <3>1. CASE AcceptedCallback
      BY <3>1 DEF AcceptedCallback
    <3>2. CASE CallbackCancel
      BY <3>2 DEF CallbackCancel
    <3>3. CASE RefusedCallback
      BY <3>3 DEF RefusedCallback
    <3>4. CASE CallbackCancelDispatched \/ RefuseInMemory
      BY <3>4 DEF CallbackCancelDispatched, RefuseInMemory
    <3> QED BY <1>4, <3>1, <3>2, <3>3, <3>4
  <2>3. Calm
    BY <2>1, <2>2 DEF Calm, RowsFade, InFlight, SameId
  <2> QED BY <2>3, CalmIsTrue DEF Safe
<1> QED BY <1>1, <1>2, <1>3, <1>4 DEF ClientNext

LEMMA TruthStep ==
  ASSUME Safe, Safe', RestTyped, Truth, [Next]_vars
  PROVE  Truth'
<1> USE DEF Safe
<1>1. CASE \E c \in Calls : CallNext(c)
  <2>1. PICK c \in Calls : CallNext(c)
    BY <1>1
  <2>2. CASE PlainStep(c)
    BY <2>2, PlainIsCalm, CalmIsTrue
  <2>3. CASE ClaimStep(c) \/ SendStep(c) \/ ResolveStep(c) \/ RejectOnDisk(c)
    BY <2>3, ClaimIsTrue, SendIsTrue, ResolveIsTrue, RejectIsTrue
  <2> QED BY <2>1, <2>2, <2>3 DEF PlainStep
<1>2. CASE ClientNext
  BY <1>2, ClientIsTrue
<1>3. CASE MainNext
  <2>1. UNCHANGED <<call, cb, flight, fate, resolved, ledger>>
    BY <1>3 DEF MainNext, StopAccepting, CancelActive, MainCancelDispatched, Drain, Exit,
                MainCancel, history
  <2>2. Calm
    BY <2>1 DEF Calm, CallbackCalm, RowsFade, InFlight, SameId
  <2> QED BY <2>2, CalmIsTrue
<1>4. CASE Restart
  <2>1. Calm
    BY <1>4 DEF Restart, Calm, CallbackCalm, RowsFade, InFlight, Idle, WriterSteps, SenderSteps,
                history
  <2> QED BY <2>1, CalmIsTrue
<1>5. CASE UNCHANGED vars \/ \E i \in Ids : Expire(i)
  <2>1. UNCHANGED <<call, cb, flight, fate, resolved>>
    BY <1>5 DEF vars, Expire, processVars, history
  <2>2. \A j \in Ids : ledger'[j].state = ledger[j].state
    BY <1>5 DEF vars, Expire, processVars, history, Types, LedgerTyped
  <2>3. Calm
    BY <2>1, <2>2 DEF Calm, CallbackCalm, RowsFade, InFlight, SameId
  <2> QED BY <2>3, CalmIsTrue
<1> QED BY <1>1, <1>2, <1>3, <1>4, <1>5 DEF Next

LEMMA InitIsTrue == Init => Truth
BY GatewayAssumption
   DEF Init, ProcessInit, Truth, Writing, Answering, RowsCarryTheAnswer, InFlight, Idle, NoRow,
       WriterSteps, SenderSteps

(* A terminal row that no operator wrote carries what the orchestrator     *)
(* answered, and REJECTED never hides a workflow that may run: over        *)
(* handlers that reject, callbacks that complete, operators that resolve,  *)
(* retention, crashes and restarts (DurableIdempotency::complete and its   *)
(* callers).  The row of a workflow whose result came back empty is not    *)
(* among them: it reads COMPLETED (gateway_service.cpp:431).               *)
THEOREM RowsCarryAnswers == Spec => []RowsCarryTheAnswer
<1>1. Spec => [](Safe /\ RestTyped)
  BY RestIsTyped, GatewaySafe, PTL DEF Spec
<1>2. Spec => []Truth
  BY <1>1, TruthStep, InitIsTrue, PTL DEF Spec
<1> QED BY <1>2, PTL DEF Truth

(***************************************************************************)
(* A workflow under way has a record.                                      *)
(***************************************************************************)
LEMMA NotDown ==
  ASSUME Downed, NEW c \in Calls, CallNext(c)
  PROVE  main.pc # "down"
BY DEF Downed, CallNext, SubmitWorkflow, CancelWorkflow, ResolveUncertain, InsertKnown, InsertNew,
       CheckHistory, AdmitKnown, AdmitNew, Claim, LookupWhenFull, Apply, ReadRecord, Decide,
       RejectOnDisk, EmplaceGoal, SendGoal, AwaitResponse, Settle, TimeOut, DispatchCancel,
       CancelDispatched, RequestCancel, AnswerCancel, ResolveOnDisk, ResolveInMemory, Start, At

(* Nothing new goes on, no record of what goes on becomes final, and no    *)
(* handler starts over with its id.                                        *)
LEMMA ShownStays ==
  ASSUME Shown, main'.pc # "down" => main.pc # "down",
         \A i \in Ids \ resolved' : Live(i)' =>
           /\ i \notin resolved /\ Live(i) /\ (Owned(i)' => Owned(i))
           /\ memory'[i].state = memory[i].state \/ memory'[i].state \notin Final
  PROVE  Shown'
BY DEF Shown, Final

LEMMA PlainIsVisible ==
  ASSUME Safe, Visible, NEW c \in Calls, PlainStep(c)
  PROVE  Visible'
<1> USE DEF Visible
<1>1. CallNext(c) /\ UNCHANGED <<cb, main, resolved>> /\ main.pc # "down"
  BY WorkKept, PlainHistory, NotDown DEF PlainStep
<1>2. \A d \in Calls \ {c} : call'[d] = call[d]
  BY <1>1, OthersStep DEF Safe
<1>3. Control(c) /\ RecordMoves(c) /\ GoalsOf(c)
  BY PlainControl, PlainMemory, PlainGoals
<1>4. ASSUME NEW d \in Calls, NEW e \in Calls, call[d].pc \in SenderSteps,
             call[e].pc \in SenderSteps, Id(d) = Id(e)
      PROVE  d = e
  BY <1>4 DEF Safe, Discipline, Claims
<1>5. call[c].pc \in SenderSteps =>
        (cb.pc = "idle" \/ cb.id # Id(c)) /\ Id(c) \in Ids
  BY WriterFacts DEF Safe, Discipline, Claims, WriterSteps
<1>6. ASSUME NEW i \in Ids, Sending(i)'
      PROVE  Sending(i)
  <2>1. PICK d \in Calls : call'[d].pc \in SenderSteps /\ call'[d].id = i
    BY <1>6 DEF Sending, Id
  <2>2. call[d].pc \in SenderSteps /\ call[d].id = i
    BY <1>2, <1>3, <2>1 DEF Control, WriterSteps, SameId
  <2> QED BY <2>2 DEF Sending, Id
<1>7. ASSUME NEW i \in Ids, Live(i)'
      PROVE  Live(i)
  <2>1. CASE goals'[i].there
    BY <1>3, <2>1 DEF GoalsOf, Live, Sending, SenderSteps, At
  <2>2. CASE Sending(i)' \/ Refusing(i)'
    BY <1>1, <1>6, <2>2 DEF Live, Refusing
  <2> QED BY <1>7, <2>1, <2>2 DEF Live
<1>8. ASSUME NEW i \in Ids \ resolved, Live(i)', Owned(i)'
      PROVE  Owned(i)
  <2>1. PICK d \in Calls : call'[d].pc \in OwnerSteps /\ call'[d].id = i
    BY <1>8 DEF Owned, Id
  <2>2. memory[i].state # "none"
    BY <1>1, <1>7, <1>8 DEF Shown, Final
  <2>3. call[d].pc \in OwnerSteps /\ call[d].id = i
    BY <1>2, <1>3, <2>1, <2>2 DEF Control, SameId
  <2> QED BY <2>3 DEF Owned, Id
<1>9. ASSUME NEW i \in Ids \ resolved, Live(i)'
      PROVE  memory'[i].state = memory[i].state \/ memory'[i].state \notin Final
  <2>1. memory[i].state \notin Final /\ ~Owned(i)
    BY <1>1, <1>7, <1>9 DEF Shown
  <2>2. ~(i = Id(c) /\ call[c].pc \in OwnerSteps) /\ ~(i = Id(c) /\ At(c, "apply"))
    BY <2>1 DEF Owned, OwnerSteps, At
  <2>3. ~(i = Id(c) /\ At(c, "resolved"))
    BY DEF Places
  <2>4. ASSUME i = Id(c), call[c].pc \in SenderSteps, call'[c].pc = "reject",
               ~goals'[i].there \/ (call[c].pc \in {"decide", "emplace"} /\ goals' = goals)
        PROVE  FALSE
    <3>1. ~goals'[i].there
      BY <2>4 DEF Places
    <3>2. ~Refusing(i)'
      BY <1>1, <1>5, <2>4 DEF Refusing
    <3>3. PICK d \in Calls : call'[d].pc \in SenderSteps /\ call'[d].id = i
      BY <1>9, <3>1, <3>2 DEF Live, Sending, Id
    <3>4. d # c
      BY <2>4, <3>3 DEF SenderSteps
    <3>5. call[d].pc \in SenderSteps /\ Id(d) = i
      BY <1>2, <3>3, <3>4 DEF Id
    <3> QED BY <1>4, <2>4, <3>4, <3>5
  <2> QED BY <1>3, <2>1, <2>2, <2>3, <2>4 DEF RecordMoves, Final
<1>10. Shown'
  BY <1>1, <1>7, <1>8, <1>9, ShownStays
<1>11. ASSUME NEW d \in Calls, call'[d].pc \in {"decide", "emplace"}
       PROVE  ~goals'[call'[d].id].there
  <2>1. call[d].pc \in {"decide", "emplace"} /\ call'[d].id = Id(d)
    BY <1>2, <1>3, <1>11 DEF Control, WriterSteps, SenderSteps, SameId, Id
  <2>2. ~goals[Id(d)].there /\ Id(d) \in Ids
    BY <2>1, WriterFacts DEF Places, Safe, WriterSteps, SenderSteps
  <2>3. ~(Id(d) = Id(c) /\ At(c, "emplace") /\ call'[c].pc = "send")
    BY <1>4, <1>11, <2>1 DEF SenderSteps, At
  <2> QED BY <1>3, <2>1, <2>2, <2>3 DEF GoalsOf
<1>12. ASSUME cb.pc \in {"refuse", "refuseMemory", "complete"}
       PROVE  ~goals'[cb.id].there
  <2>1. ~goals[cb.id].there /\ cb.id \in Ids
    BY <1>12 DEF Places, Safe, Names
  <2>2. ~(cb.id = Id(c) /\ At(c, "emplace"))
    BY <1>5, <1>12 DEF SenderSteps, At
  <2> QED BY <1>3, <2>1, <2>2 DEF GoalsOf
<1>13. \A d \in Calls : call'[d].pc = "resolved" => call'[d].id \in resolved
  BY <1>2, <1>3 DEF Control, Places, At, Id
<1>14. Places'
  BY <1>1, <1>11, <1>12, <1>13 DEF Places, At, Id
<1> QED BY <1>1, <1>10, <1>14 DEF Downed

LEMMA ClaimIsVisible ==
  ASSUME Safe, RestTyped, Visible, NEW c \in Calls, ClaimStep(c)
  PROVE  Visible'
<1> USE DEF Visible
<1>1. /\ Id(c) \in Ids /\ call'[c].pc = "decide" /\ call'[c].id = Id(c)
      /\ \A d \in Calls \ {c} : call'[d] = call[d]
      /\ UNCHANGED <<memory, goals, cb, main>> /\ resolved' = resolved \ {Id(c)}
      /\ Alone(c)
  BY ClaimDone DEF SameId, Id
<1>2. main.pc # "down"
  BY NotDown DEF ClaimStep, CallNext
<1>3. ASSUME NEW d \in Calls, call'[d].pc \in OwnerSteps
      PROVE  d # c /\ call[d].pc \in OwnerSteps /\ call'[d].id = Id(d) /\ Id(d) # Id(c)
  BY <1>1, <1>3 DEF Alone, OwnerSteps, Id
<1>4. ASSUME NEW i \in Ids \ resolved', Live(i)'
      PROVE  memory'[i].state \notin Final /\ ~Owned(i)'
  <2>1. CASE i = Id(c)
    BY <1>1, <1>3, <2>1 DEF Alone, Owned, Id
  <2>2. CASE i # Id(c)
    <3>1. i \notin resolved
      BY <1>1, <1>4, <2>2
    <3>2. Sending(i)' => Sending(i)
      BY <1>1, <2>2 DEF Sending, Id
    <3>3. Live(i)
      BY <1>1, <1>4, <3>2 DEF Live, Refusing
    <3>4. Owned(i)' => Owned(i)
      BY <1>3 DEF Owned, Id
    <3> QED BY <1>1, <1>2, <3>1, <3>3, <3>4 DEF Shown
  <2> QED BY <2>1, <2>2
<1>5. \A d \in Calls : call'[d].pc \in {"decide", "emplace"} => ~goals[call'[d].id].there
  BY <1>1 DEF Places, Alone, Id
<1>6. \A d \in Calls : call'[d].pc = "resolved" => call'[d].id \in resolved'
  BY <1>1 DEF Places, Alone, PinSteps, At, Id
<1>7. Places'
  BY <1>1, <1>5, <1>6 DEF Places, At, Id
<1> QED BY <1>1, <1>2, <1>4, <1>7 DEF Downed, Shown

(* A step after which its handler neither holds a record nor will send.    *)
LEMMA HandlerDone ==
  ASSUME Visible, NEW c \in Calls, main.pc # "down",
         \A d \in Calls \ {c} : call'[d] = call[d],
         call'[c].pc \notin OwnerSteps \cup SenderSteps,
         call'[c].pc = "resolved" => call'[c].id \in resolved',
         UNCHANGED <<memory, goals, cb, main>>, resolved \subseteq resolved'
  PROVE  Visible'
<1> USE DEF Visible
<1>1. ASSUME NEW i \in Ids
      PROVE  (Sending(i)' => Sending(i)) /\ (Owned(i)' => Owned(i))
  BY DEF Sending, Owned, Id
<1>2. Shown'
  BY <1>1 DEF Shown, Live, Refusing
<1>3. Places'
  BY DEF Places, SenderSteps, At, Id
<1> QED BY <1>2, <1>3 DEF Downed

LEMMA CallIsVisible ==
  ASSUME Safe, RestTyped, Visible, NEW c \in Calls, CallNext(c)
  PROVE  Visible'
<1>1. main.pc # "down"
  BY NotDown DEF Visible
<1>2. CASE PlainStep(c)
  BY <1>2, PlainIsVisible
<1>3. CASE ClaimStep(c)
  BY <1>3, ClaimIsVisible
<1>4. CASE SendStep(c)
  <2>1. /\ call'[c].pc = "await" /\ \A d \in Calls \ {c} : call'[d] = call[d]
        /\ UNCHANGED <<memory, goals, cb, main, resolved>>
    BY <1>4, SendDone
  <2>2. call'[c].pc \notin OwnerSteps \cup SenderSteps \cup {"resolved"}
    BY <2>1 DEF OwnerSteps, SenderSteps
  <2> QED BY <1>1, <2>1, <2>2, HandlerDone
<1>5. CASE ResolveStep(c)
  <2>1. /\ call'[c].pc = "resolved" /\ call'[c].id = Id(c)
        /\ \A d \in Calls \ {c} : call'[d] = call[d]
        /\ UNCHANGED <<memory, goals, cb, main>> /\ resolved' = resolved \cup {Id(c)}
    BY <1>5, ResolveDone DEF SameId, Id
  <2>2. call'[c].pc \notin OwnerSteps \cup SenderSteps
    BY <2>1 DEF OwnerSteps, SenderSteps
  <2> QED BY <1>1, <2>1, <2>2, HandlerDone
<1>6. CASE RejectOnDisk(c)
  <2>1. /\ call'[c].pc \in {"read", "idle"} /\ \A d \in Calls \ {c} : call'[d] = call[d]
        /\ UNCHANGED <<memory, goals, cb, main, resolved>>
    BY <1>6, RejectDone
  <2>2. call'[c].pc \notin OwnerSteps \cup SenderSteps \cup {"resolved"}
    BY <2>1 DEF OwnerSteps, SenderSteps
  <2> QED BY <1>1, <2>1, <2>2, HandlerDone
<1> QED BY <1>2, <1>3, <1>4, <1>5, <1>6 DEF PlainStep

(* A step of a callback or of main.                                        *)
LEMMA WorkIsVisible ==
  ASSUME Visible, UNCHANGED <<call, resolved>>, main'.pc = "down" <=> main.pc = "down",
         \A i \in Ids : memory[i].state = "none" => memory'[i].state = "none",
         \A i \in Ids : goals'[i].there => goals[i].there,
         \A i \in Ids : Live(i)' =>
           Live(i) /\ (memory'[i].state = memory[i].state \/ memory'[i].state \notin Final),
         cb'.pc \in {"refuse", "refuseMemory", "complete"} => ~goals'[cb'.id].there,
         Names
  PROVE  Visible'
<1> USE DEF Visible
<1>1. Shown'
  BY DEF Shown, Owned, Id, Final
<1>2. \A d \in Calls : call[d].pc \in {"decide", "emplace"} => Id(d) \in Ids
  BY DEF Names, At
<1>3. Places'
  BY <1>2 DEF Places, At, Id
<1> QED BY <1>1, <1>3 DEF Downed, Present, At

LEMMA SoftFacts ==
  ASSUME Soft
  PROVE  \A i \in Ids : /\ memory[i].state = "none" => memory'[i].state = "none"
                        /\ memory'[i].state = memory[i].state \/ memory'[i].state \notin Final
BY DEF Soft, Final

LEMMA RefusedIsVisible ==
  ASSUME Safe, Visible, RefusedCallback
  PROVE  Visible'
<1> USE DEF Safe, Types
<1>1. /\ cb.pc = "refused" /\ cb.id \in Ids /\ UNCHANGED <<memory, call, main, resolved>>
      /\ goals' = [goals EXCEPT ![cb.id] = NoGoal]
  BY DEF RefusedCallback, Names, history
<1>2. ~goals'[cb.id].there /\ \A j \in Ids \ {cb.id} : goals'[j] = goals[j]
  BY <1>1, NoGoalFacts
<1>3. \/ cb'.pc = "refuse" /\ cb'.id = cb.id /\ goals[cb.id].there
      \/ cb'.pc = "idle"
  BY <1>1 DEF RefusedCallback, CallbackTyped, Idle
<1>4. \A i \in Ids : Live(i)' => Live(i)
  BY <1>1, <1>2, <1>3 DEF Live, Refusing, Sending, Id
<1>5. \A i \in Ids : goals'[i].there => goals[i].there
  BY <1>2
<1>6. cb'.pc \in {"refuse", "refuseMemory", "complete"} => ~goals'[cb'.id].there
  BY <1>2, <1>3
<1> QED BY <1>1, <1>4, <1>5, <1>6, WorkIsVisible

LEMMA RefusalIsVisible ==
  ASSUME Safe, Visible, RefuseOnDisk \/ RefuseInMemory
  PROVE  Visible'
<1> USE DEF Safe, Types
<1>1. cb.id \in Ids /\ ~goals[cb.id].there /\ UNCHANGED <<goals, call, main, resolved>>
  BY DEF RefuseOnDisk, RefuseInMemory, Visible, Places, Names, history
<1>2. CASE RefuseOnDisk
  <2>1. cb.pc = "refuse" /\ cb'.pc = "refuseMemory" /\ cb'.id = cb.id /\ UNCHANGED memory
    BY <1>2 DEF RefuseOnDisk, CallbackTyped
  <2>2. \A i \in Ids : Live(i)' => Live(i)
    BY <1>1, <2>1 DEF Live, Refusing, Sending, Id
  <2> QED BY <1>1, <2>1, <2>2, WorkIsVisible
<1>3. CASE RefuseInMemory
  <2>1. cb.pc = "refuseMemory" /\ cb'.pc = "idle"
    BY <1>3 DEF RefuseInMemory, Idle
  <2>2. /\ memory'[cb.id].state = IF memory[cb.id].state = "none" THEN "none" ELSE "REJECTED"
        /\ \A j \in Ids \ {cb.id} : memory'[j] = memory[j]
    BY <1>1, <1>3, UpdateFacts, StateFacts DEF RefuseInMemory
  <2>3. ~Sending(cb.id)
    BY <2>1 DEF Sending, Discipline, Claims
  <2>4. \A i \in Ids : Live(i)' => Live(i) /\ i # cb.id
    BY <1>1, <2>1, <2>3 DEF Live, Refusing, Sending, Id
  <2>5. \A i \in Ids : Live(i)' => Live(i) /\ memory'[i].state = memory[i].state
    BY <2>2, <2>4
  <2>6. \A i \in Ids : memory[i].state = "none" => memory'[i].state = "none"
    BY <2>2
  <2> QED BY <1>1, <2>1, <2>5, <2>6, WorkIsVisible
<1> QED BY <1>2, <1>3

LEMMA ResultIsVisible ==
  ASSUME Safe, Visible, NEW i \in Ids, NEW o \in Outcomes \cup {"lost"}, ResultCallback(i, o)
  PROVE  Visible'
<1> USE DEF Safe, Types
<1>1. /\ cb.pc = "idle" /\ flight[i] = "accepted" /\ goals[i].there
      /\ UNCHANGED <<call, main, resolved>> /\ goals' = [goals EXCEPT ![i] = NoGoal]
      /\ memory' = Update(memory, i, StateForOutcome(o))
  BY DEF ResultCallback, CanCallBack, InFlight, Discipline, Pins
<1>2. ~goals'[i].there /\ \A j \in Ids \ {i} : goals'[j] = goals[j]
  BY <1>1, NoGoalFacts
<1>3. /\ memory[i].state = "none" => memory'[i].state = "none"
      /\ \A j \in Ids \ {i} : memory'[j] = memory[j]
  BY <1>1, UpdateFacts, OutcomeFacts, StateFacts
<1>4. cb'.pc = "complete" /\ cb'.id = i
  BY <1>1 DEF ResultCallback, Callback
<1>5. ~Sending(i)
  BY <1>1 DEF Sending, Discipline, Claims, InFlight
<1>6. \A j \in Ids : Live(j)' => Live(j) /\ j # i
  BY <1>1, <1>2, <1>4, <1>5 DEF Live, Refusing, Sending, Id
<1>7. \A j \in Ids : Live(j)' => Live(j) /\ memory'[j].state = memory[j].state
  BY <1>3, <1>6
<1>8. \A j \in Ids : memory[j].state = "none" => memory'[j].state = "none"
  BY <1>3
<1>9. \A j \in Ids : goals'[j].there => goals[j].there
  BY <1>2
<1> QED BY <1>1, <1>2, <1>4, <1>7, <1>8, <1>9, WorkIsVisible

LEMMA CallbackIsSoft ==
  ASSUME Safe,
         \/ \E i \in Ids : GoalResponse(i)
         \/ AcceptedCallback \/ CallbackCancel \/ CallbackCancelDispatched \/ ResultOnDisk
  PROVE  Soft /\ \A i \in Ids : goals'[i].there <=> goals[i].there
<1> USE DEF Safe, Types
<1>1. CASE UNCHANGED <<memory, goals>>
  BY <1>1 DEF Soft
<1>2. CASE AcceptedCallback /\ goals[cb.id].there
  <2>1. cb.id \in Ids /\ goals' = [goals EXCEPT ![cb.id].handle = TRUE]
    BY <1>2 DEF AcceptedCallback, Names
  <2>2. \A i \in Ids : goals'[i].there <=> goals[i].there
    BY <2>1, HandleFacts
  <2>3. memory' = Update(memory, cb.id, "CANCELING") \/ memory' = Update(memory, cb.id, "RUNNING")
    BY <1>2 DEF AcceptedCallback
  <2>4. {"CANCELING", "RUNNING"} \cap Final = {} /\ {"CANCELING", "RUNNING"} \subseteq States
    BY StateFacts DEF Final
  <2> QED BY <2>1, <2>2, <2>3, <2>4, UpdateFacts DEF Soft, Final
<1>3. CASE CallbackCancel
  <2>1. cb.id \in Ids /\ UNCHANGED memory /\ (MarkCancel(cb.id) \/ UNCHANGED goals)
    BY <1>3 DEF CallbackCancel, Names
  <2> QED BY <2>1, MarkCancelFacts DEF Soft
<1>4. CASE CallbackCancelDispatched
  <2>1. cb.id \in Ids /\ (CancelThrows(cb.id) \/ UNCHANGED <<goals, memory>>)
    BY <1>4 DEF CallbackCancelDispatched, Names
  <2> QED BY <1>1, <2>1, CancelThrowsFacts
<1> QED BY <1>1, <1>2, <1>3, <1>4 DEF GoalResponse, AcceptedCallback, ResultOnDisk

LEMMA CallbackIsVisible ==
  ASSUME Safe, Visible,
         \/ \E i \in Ids : GoalResponse(i)
         \/ AcceptedCallback \/ CallbackCancel \/ CallbackCancelDispatched \/ ResultOnDisk
  PROVE  Visible'
<1> USE DEF Safe, Types
<1>1. UNCHANGED <<call, main, resolved>>
  BY DEF GoalResponse, AcceptedCallback, CallbackCancel, CallbackCancelDispatched, ResultOnDisk,
         history
<1>2. cb'.pc \notin {"refuse", "refuseMemory", "complete"}
  <2> USE DEF Idle, CallbackTyped
  <2>1. CASE \E i \in Ids : GoalResponse(i)
    BY <2>1 DEF GoalResponse, Callback
  <2>2. CASE AcceptedCallback
    BY <2>2 DEF AcceptedCallback
  <2>3. CASE CallbackCancel
    BY <2>3 DEF CallbackCancel
  <2>4. CASE CallbackCancelDispatched \/ ResultOnDisk
    BY <2>4 DEF CallbackCancelDispatched, ResultOnDisk
  <2> QED BY <2>1, <2>2, <2>3, <2>4
<1>3. Soft /\ \A i \in Ids : goals'[i].there <=> goals[i].there
  BY CallbackIsSoft
<1>4. \A i \in Ids : Live(i)' => Live(i)
  BY <1>1, <1>2, <1>3 DEF Live, Refusing, Sending, Id
<1> QED BY <1>1, <1>2, <1>3, <1>4, SoftFacts, WorkIsVisible

LEMMA MainIsSoft ==
  ASSUME Safe, MainNext, ~Exit
  PROVE  Soft /\ \A i \in Ids : goals'[i].there <=> goals[i].there
<1> USE DEF Safe, Types
<1>1. CASE UNCHANGED <<memory, goals>>
  BY <1>1 DEF Soft
<1>2. CASE CancelActive
  BY <1>2, CancelActiveFacts
<1>3. CASE MainCancelDispatched
  BY <1>1, <1>3, CancelThrowsFacts DEF MainCancelDispatched, Names
<1>4. CASE \E i \in Ids : MainCancel(i)
  <2>1. UNCHANGED memory /\ (UNCHANGED goals \/ \E i \in Ids : MarkCancel(i))
    BY <1>4 DEF MainCancel
  <2> QED BY <2>1, MarkCancelFacts DEF Soft
<1> QED BY <1>1, <1>2, <1>3, <1>4 DEF MainNext, StopAccepting, Drain

LEMMA MainIsVisible ==
  ASSUME Safe, Visible, MainNext, ~Exit
  PROVE  Visible'
<1> USE DEF Safe, Types
<1>1. UNCHANGED <<call, cb, resolved>>
  BY DEF MainNext, StopAccepting, CancelActive, MainCancelDispatched, Drain, MainCancel, history
<1>2. main.pc # "down" /\ main'.pc # "down"
  <2>0. main \in [pc: MainSteps, todo: SUBSET Ids, id: Ids \cup {NoId}]
    BY DEF Names
  <2>1. CASE StopAccepting
    BY <2>0, <2>1 DEF StopAccepting
  <2>2. CASE CancelActive
    BY <2>0, <2>2 DEF CancelActive
  <2>3. CASE MainCancelDispatched
    BY <2>0, <2>3 DEF MainCancelDispatched
  <2>4. CASE Drain
    BY <2>0, <2>4 DEF Drain
  <2>5. CASE \E i \in Ids : MainCancel(i)
    BY <2>0, <2>5 DEF MainCancel
  <2> QED BY <2>1, <2>2, <2>3, <2>4, <2>5 DEF MainNext
<1>3. Soft /\ \A i \in Ids : goals'[i].there <=> goals[i].there
  BY MainIsSoft
<1>4. \A i \in Ids : Live(i)' => Live(i)
  BY <1>1, <1>3 DEF Live, Refusing, Sending, Id
<1>5. cb'.pc \in {"refuse", "refuseMemory", "complete"} => ~goals'[cb'.id].there
  BY <1>1, <1>3 DEF Visible, Places, Names
<1> QED BY <1>1, <1>2, <1>3, <1>4, <1>5, SoftFacts, WorkIsVisible

LEMMA VisibleStep ==
  ASSUME Safe, RestTyped, Visible, [Next]_vars
  PROVE  Visible'
<1>1. CASE \E c \in Calls : CallNext(c)
  BY <1>1, CallIsVisible
<1>2. CASE ClientNext
  BY <1>2, RefusedIsVisible, RefusalIsVisible, ResultIsVisible, CallbackIsVisible DEF ClientNext
<1>3. CASE Exit
  <2>1. /\ main \in [pc: MainSteps, todo: SUBSET Ids, id: Ids \cup {NoId}]
        /\ main' = [main EXCEPT !.pc = "down"]
    BY <1>3 DEF Exit, Safe, Names
  <2>2. /\ main'.pc = "down" /\ UNCHANGED <<goals, call, cb, resolved>>
        /\ \A c \in Calls : At(c, "idle")
        /\ \A i \in Ids : memory'[i].state = "none"
    BY <1>3, <2>1 DEF Exit, NoRecord, history
  <2> QED BY <2>2 DEF Visible, Downed, Places, Shown, Present, At, Id
<1>4. CASE MainNext /\ ~Exit
  BY <1>4, MainIsVisible
<1>5. CASE Restart
  <2>1. /\ main'.pc = "serving" /\ cb'.pc = "idle" /\ \A c \in Calls : call'[c].pc = "idle"
        /\ \A i \in Ids : ~goals'[i].there
    BY <1>5 DEF Restart, Idle, NoGoal
  <2>2. \A i \in Ids : ~Live(i)'
    BY <2>1 DEF Live, Sending, Refusing, SenderSteps
  <2> QED BY <2>1, <2>2 DEF Visible, Downed, Places, Shown, At
<1>6. CASE UNCHANGED vars \/ \E i \in Ids : Expire(i)
  <2>1. UNCHANGED <<memory, goals, call, cb, main, resolved>>
    BY <1>6 DEF vars, Expire, processVars, history
  <2>2. \A i \in Ids : Live(i)' => Live(i)
    BY <2>1 DEF Live, Refusing, Sending, Id
  <2>3. cb'.pc \in {"refuse", "refuseMemory", "complete"} => ~goals'[cb'.id].there
    BY <2>1 DEF Visible, Places
  <2> QED BY <2>1, <2>2, <2>3, WorkIsVisible DEF Safe
<1> QED BY <1>1, <1>2, <1>3, <1>4, <1>5, <1>6 DEF Next, MainNext

LEMMA InitIsVisible == Init => Visible
BY DEF Init, ProcessInit, Visible, Downed, Places, Shown, Live, Sending, Refusing, SenderSteps,
       Idle, NoGoal, At

(* A workflow under way has a record that is not terminal, so that insert  *)
(* never evicts it and cancel, duplicate and GetTask find it, until the    *)
(* process ends or an operator resolves the request: over handlers that    *)
(* reject and time out, callbacks, cancels and a shutdown                  *)
(* (RequestRegistry::insert, the goals map of gateway_service.cpp).        *)
THEOREM RunningIsVisible == Spec => []ActiveStaysVisible
<1>1. Spec => [](Safe /\ RestTyped)
  BY RestIsTyped, GatewaySafe, PTL DEF Spec
<1>2. Spec => []Visible
  BY <1>1, VisibleStep, InitIsVisible, PTL DEF Spec
<1>3. Visible => ActiveStaysVisible
  BY DEF Visible, Shown, Live, Final, Present, ActiveStaysVisible
<1> QED BY <1>2, <1>3, PTL

(***************************************************************************)
(* Registry and ledger agree.                                              *)
(***************************************************************************)
LEMMA RejectingStep ==
  ASSUME NEW c \in Calls, CallNext(c), At(c, "reject")
  PROVE  RejectOnDisk(c)
BY DEF CallNext, SubmitWorkflow, CancelWorkflow, ResolveUncertain, InsertKnown, InsertNew,
       CheckHistory, AdmitKnown, AdmitNew, Claim, LookupWhenFull, Apply, ReadRecord, Decide,
       EmplaceGoal, SendGoal, AwaitResponse, Settle, TimeOut, DispatchCancel,
       CancelDispatched, RequestCancel, AnswerCancel, ResolveOnDisk, ResolveInMemory, Start, At

LEMMA PlainAgrees ==
  ASSUME Safe, Safe', Visible, Agreement, NEW c \in Calls, PlainStep(c)
  PROVE  Agreement'
<1> USE DEF Agreement
<1>1. CallNext(c) /\ UNCHANGED <<cb, resolved, unsaved>> /\ call[c].pc # "reject"
  BY WorkKept, PlainHistory, RejectingStep DEF PlainStep, At
<1>2. \A d \in Calls \ {c} : call'[d] = call[d]
  BY <1>1, OthersStep DEF Safe
<1>3. Control(c) /\ RecordMoves(c) /\ RowsFade
  BY PlainControl, PlainMemory, PlainRows
<1>4. ASSUME NEW d \in Calls, call'[d].pc = "apply", call'[d].said \in Terminal,
             call'[d].id \notin resolved, ledger'[call'[d].id].state # "none"
      PROVE  ledger'[call'[d].id].state = call'[d].said
  <2>1. CASE d = c
    BY <1>3, <1>4, <2>1 DEF Control, SameId, Id
  <2>2. CASE d # c
    <3>1. call'[d] = call[d] /\ At(d, "apply") /\ Id(d) \in Ids
      BY <1>2, <1>4, <2>2 DEF Safe, Names, At, Id
    <3>2. ledger'[Id(d)].state = ledger[Id(d)].state
      BY <1>3, <1>4, <3>1 DEF RowsFade, Id
    <3> QED BY <1>4, <3>1, <3>2 DEF Replays, Id
  <2> QED BY <2>1, <2>2
<1>5. Refusals'
  <2> SUFFICES ASSUME cb.pc = "refuseMemory", cb.id \notin resolved \cup unsaved
               PROVE  ledger'[cb.id].state = "REJECTED"
    BY <1>1 DEF Refusals
  <2>1. cb.id \in Ids /\ ledger[cb.id].state = "REJECTED"
    BY DEF Refusals, Safe, Names
  <2>2. ledger'[cb.id].state # "none"
    BY <1>1 DEF Safe, Discipline, Pins, Pinned
  <2> QED BY <1>3, <2>1, <2>2 DEF RowsFade
<1>6. ASSUME NEW i \in Ids \ (resolved \cup unsaved), memory'[i].state \in Terminal,
             ledger'[i].state # "none"
      PROVE  Confirmed(i)'
  <2>1. ledger'[i].state = ledger[i].state
    BY <1>3, <1>6 DEF RowsFade
  <2>2. CASE memory'[i].state = memory[i].state
    <3>1. Confirmed(i)
      BY <1>6, <2>1, <2>2 DEF Records
    <3>2. CASE \E d \in Calls : At(d, "reject") /\ Id(d) = i
      <4>1. PICK d \in Calls : At(d, "reject") /\ Id(d) = i
        BY <3>2
      <4>2. call'[d] = call[d]
        BY <1>1, <1>2, <4>1 DEF At
      <4> QED BY <1>1, <2>1, <2>2, <3>1, <4>1, <4>2 DEF Confirmed, At, Id
    <3> QED BY <1>1, <2>1, <2>2, <3>1, <3>2 DEF Confirmed
  <2>3. CASE i = Id(c) /\ At(c, "apply") /\ memory'[i].state = call[c].said
    <3>1. ledger[i].state = call[c].said
      BY <1>6, <2>1, <2>3 DEF Replays
    <3> QED BY <2>1, <2>3, <3>1 DEF Confirmed
  <2>4. CASE i = Id(c) /\ call'[c].pc = "reject" /\ SameId(c) /\ memory'[i].state = "REJECTED"
    BY <2>4 DEF Confirmed, SameId, At, Id
  <2>5. ~(i = Id(c) /\ At(c, "resolved"))
    BY DEF Visible, Places
  <2>6. memory'[i].state \in Final /\ memory'[i].state # "none"
    BY <1>6, StateFacts DEF Final
  <2> QED BY <1>3, <2>2, <2>3, <2>4, <2>5, <2>6 DEF RecordMoves
<1>7. Replays'
  BY <1>1, <1>4 DEF Replays, At, Id
<1>8. Records'
  BY <1>1, <1>6 DEF Records
<1> QED BY <1>5, <1>7, <1>8

LEMMA ClaimAgrees ==
  ASSUME Safe, RestTyped, Agreement, NEW c \in Calls, ClaimStep(c)
  PROVE  Agreement'
<1> USE DEF Agreement
<1>1. /\ Id(c) \in Ids /\ call[c].pc = "claim" /\ call'[c].pc = "decide"
      /\ \A d \in Calls \ {c} : call'[d] = call[d]
      /\ UNCHANGED <<memory, cb>>
      /\ \A j \in Ids \ {Id(c)} : ledger'[j] = ledger[j]
      /\ resolved' = resolved \ {Id(c)} /\ unsaved' = unsaved \ {Id(c)}
      /\ Alone(c)
  BY ClaimDone
<1>2. ASSUME NEW d \in Calls, call'[d].pc = "apply", call'[d].said \in Terminal,
             call'[d].id \notin resolved', ledger'[call'[d].id].state # "none"
      PROVE  ledger'[call'[d].id].state = call'[d].said
  <2>1. call'[d] = call[d] /\ At(d, "apply") /\ Id(d) \in Ids /\ d # c
    BY <1>1, <1>2 DEF Safe, Names, At, Id
  <2>2. Id(d) # Id(c)
    BY <1>1, <2>1 DEF Alone, OwnerSteps, At
  <2> QED BY <1>1, <1>2, <2>1, <2>2 DEF Replays, Id
<1>3. Refusals'
  BY <1>1 DEF Refusals, Alone, Safe, Names
<1>4. ASSUME NEW i \in Ids \ (resolved' \cup unsaved'), memory[i].state \in Terminal,
             ledger'[i].state # "none"
      PROVE  Confirmed(i)'
  <2>1. i # Id(c)
    BY <1>1, <1>4 DEF Alone, Final
  <2>2. Confirmed(i) /\ ledger'[i] = ledger[i]
    BY <1>1, <1>4, <2>1 DEF Records
  <2>3. CASE \E d \in Calls : At(d, "reject") /\ Id(d) = i
    <3>1. PICK d \in Calls : At(d, "reject") /\ Id(d) = i
      BY <2>3
    <3>2. call'[d] = call[d]
      BY <1>1, <3>1 DEF At
    <3> QED BY <1>1, <2>2, <3>1, <3>2 DEF Confirmed, At, Id
  <2> QED BY <1>1, <2>2, <2>3 DEF Confirmed
<1> QED BY <1>1, <1>2, <1>3, <1>4 DEF Replays, Records, At, Id

(* A handler moves on without touching a record, a row of another request  *)
(* or what the history says of it.                                         *)
LEMMA OneRowAgrees ==
  ASSUME Names, Agreement, NEW c \in Calls, NEW i \in Ids,
         \A d \in Calls \ {c} : call'[d] = call[d],
         call'[c].pc \notin {"reject", "apply"}, call[c].pc = "reject" => i = Id(c),
         UNCHANGED <<memory, cb>>,
         \A j \in Ids \ {i} :
           /\ ledger'[j] = ledger[j]
           /\ j \in resolved \cup unsaved <=> j \in resolved' \cup unsaved'
           /\ j \in resolved <=> j \in resolved',
         \/ ledger' = ledger /\ unsaved' = unsaved /\ resolved' = resolved /\ ~At(c, "reject")
         \/ i \in resolved' \cup unsaved'
         \/ ledger'[i].state = memory[i].state
         \/ memory[i].state \notin Terminal,
         \/ i \in resolved'
         \/ ledger' = ledger /\ (i \in resolved => i \in resolved')
         \/ i \notin resolved /\ ledger[i].state \notin Terminal \cup {"none"},
         cb.pc = "refuseMemory" => cb.id # i \/ i \in resolved'
  PROVE  Agreement'
<1> USE DEF Agreement
<1>1. ASSUME NEW d \in Calls, call'[d].pc = "apply", call'[d].said \in Terminal,
             call'[d].id \notin resolved', ledger'[call'[d].id].state # "none"
      PROVE  ledger'[call'[d].id].state = call'[d].said
  <2>1. call'[d] = call[d] /\ At(d, "apply") /\ Id(d) \in Ids
    BY <1>1 DEF Names, At, Id
  <2>2. CASE Id(d) = i
    BY <1>1, <2>1, <2>2 DEF Replays, Id
  <2>3. CASE Id(d) # i
    BY <1>1, <2>1, <2>3 DEF Replays, Id
  <2> QED BY <2>2, <2>3
<1>2. Refusals'
  BY DEF Refusals, Names
<1>3. ASSUME NEW j \in Ids \ (resolved' \cup unsaved'), memory[j].state \in Terminal,
             ledger'[j].state # "none"
      PROVE  Confirmed(j)'
  <2> DEFINE Kept == /\ ledger' = ledger /\ unsaved' = unsaved /\ resolved' = resolved
                     /\ ~At(c, "reject")
  <2>1. CASE j = i /\ ~Kept
    BY <1>3, <2>1 DEF Confirmed
  <2>2. CASE j # i \/ Kept
    <3>1. Confirmed(j) /\ ledger'[j] = ledger[j]
      BY <1>3, <2>2 DEF Records
    <3>2. CASE \E d \in Calls : At(d, "reject") /\ Id(d) = j
      <4>1. PICK d \in Calls : At(d, "reject") /\ Id(d) = j
        BY <3>2
      <4>2. call'[d] = call[d]
        BY <2>2, <4>1 DEF At
      <4> QED BY <3>1, <4>1, <4>2 DEF Confirmed, At, Id
    <3> QED BY <3>1, <3>2 DEF Confirmed
  <2> QED BY <2>1, <2>2
<1> QED BY <1>1, <1>2, <1>3 DEF Replays, Records, At, Id

LEMMA CallAgrees ==
  ASSUME Safe, Safe', RestTyped, Truth, Visible, Agreement, NEW c \in Calls, CallNext(c)
  PROVE  Agreement'
<1> USE DEF Safe
<1>1. CASE PlainStep(c)
  BY <1>1, PlainAgrees
<1>2. CASE ClaimStep(c)
  BY <1>2, ClaimAgrees
<1>3. CASE SendStep(c)
  <2>1. /\ Id(c) \in Ids /\ call[c].pc = "send" /\ call'[c].pc = "await"
        /\ \A d \in Calls \ {c} : call'[d] = call[d]
        /\ UNCHANGED <<memory, cb, ledger, resolved, unsaved>>
    BY <1>3, SendDone
  <2>2. cb.pc = "refuseMemory" => cb.id # Id(c)
    BY <2>1 DEF Discipline, Claims, SenderSteps
  <2> QED BY <2>1, <2>2, OneRowAgrees DEF At
<1>4. CASE ResolveStep(c)
  <2>1. /\ Id(c) \in Ids /\ call[c].pc = "resolve" /\ call'[c].pc = "resolved"
        /\ \A d \in Calls \ {c} : call'[d] = call[d]
        /\ UNCHANGED <<memory, cb, unsaved>>
        /\ \A j \in Ids \ {Id(c)} : ledger'[j] = ledger[j]
        /\ resolved' = resolved \cup {Id(c)}
    BY <1>4, ResolveDone
  <2> QED BY <2>1, OneRowAgrees
<1>5. CASE RejectOnDisk(c)
  <2>1. /\ Id(c) \in Ids /\ call[c].pc = "reject" /\ call'[c].pc \in {"read", "idle"}
        /\ \A d \in Calls \ {c} : call'[d] = call[d]
        /\ UNCHANGED <<memory, cb, resolved>>
        /\ \A j \in Ids \ {Id(c)} : ledger'[j] = ledger[j]
        /\ \/ ledger'[Id(c)].state = "REJECTED" /\ UNCHANGED unsaved
           \/ UNCHANGED ledger /\ unsaved' = unsaved \cup {Id(c)}
    BY <1>5, RejectDone
  <2>2. /\ cb.pc = "idle" \/ cb.id # Id(c)
        /\ Id(c) \in resolved \/ ledger[Id(c)].state = "ADMITTED"
    BY <2>1 DEF Truth, Writing, WriterSteps
  <2>3. "ADMITTED" \notin Terminal \cup {"none"}
    BY StateFacts
  <2>4. Id(c) \notin resolved \cup unsaved /\ memory[Id(c)].state \in Terminal =>
          memory[Id(c)].state = "REJECTED"
    BY <2>1, <2>2, <2>3 DEF Agreement, Records, Confirmed
  <2> QED BY <2>1, <2>2, <2>3, <2>4, OneRowAgrees
<1> QED BY <1>1, <1>2, <1>3, <1>4, <1>5 DEF PlainStep

(* A callback or main moves on without touching a row or making a record   *)
(* final.                                                                  *)
LEMMA WorkAgrees ==
  ASSUME Names, Agreement, UNCHANGED <<call, resolved, unsaved>>,
         \A i \in Ids : ledger'[i].state = ledger[i].state,
         \A i \in Ids :
           memory'[i].state = memory[i].state \/ memory'[i].state \notin Terminal,
         cb' = cb \/ (cb'.pc # "refuseMemory" /\ cb.pc # "complete")
  PROVE  Agreement'
<1> USE DEF Agreement
<1>1. Replays'
  BY DEF Replays, Names, At, Id
<1>2. Refusals'
  BY DEF Refusals, Names
<1>3. Records'
  BY DEF Records, Confirmed, At, Id
<1> QED BY <1>1, <1>2, <1>3

LEMMA WrittenAgrees ==
  ASSUME Safe, Truth, Agreement, NEW s \in Terminal, cb.pc \in {"refuse", "complete"},
         cb.pc = "refuse" => s = "REJECTED", cb.pc = "complete" => s = cb.said,
         Complete(cb.id, cb.task, s), UNCHANGED <<call, memory, resolved>>,
         \/ cb'.pc = "idle"
         \/ cb'.pc = "refuseMemory" /\ cb'.id = cb.id /\ cb.pc = "refuse"
  PROVE  Agreement'
<1> USE DEF Agreement
<1>1. /\ cb.id \in Ids /\ \A j \in Ids \ {cb.id} : ledger'[j] = ledger[j]
      /\ \/ ledger'[cb.id].state = s /\ UNCHANGED unsaved
         \/ UNCHANGED ledger /\ unsaved' = unsaved \cup {cb.id}
  BY WrittenRow
<1>2. cb.id \in resolved \/ ledger[cb.id].state = "ADMITTED"
  BY DEF Truth, Answering
<1>3. "ADMITTED" \notin Terminal \cup {"none"}
  BY StateFacts
<1>4. \A d \in Calls : At(d, "reject") => Id(d) # cb.id
  BY DEF Truth, Writing, WriterSteps, At
<1>5. ASSUME NEW d \in Calls, At(d, "apply"), call[d].said \in Terminal, Id(d) \notin resolved,
             ledger'[Id(d)].state # "none"
      PROVE  ledger'[Id(d)].state = call[d].said
  <2>1. Id(d) \in Ids
    BY <1>5 DEF Safe, Names, At
  <2>2. Id(d) # cb.id
    BY <1>2, <1>3, <1>5 DEF Replays
  <2> QED BY <1>1, <1>5, <2>1, <2>2 DEF Replays
<1>6. Refusals'
  BY <1>1 DEF Refusals
<1>7. ASSUME NEW i \in Ids \ (resolved \cup unsaved'), memory[i].state \in Terminal,
             ledger'[i].state # "none"
      PROVE  Confirmed(i)'
  <2>1. CASE i = cb.id
    <3>1. Confirmed(i) /\ ledger[i].state = "ADMITTED" /\ i \notin unsaved
      BY <1>1, <1>2, <1>3, <1>7, <2>1 DEF Records
    <3>2. memory[i].state = s
      BY <1>3, <1>4, <1>7, <2>1, <3>1 DEF Confirmed
    <3> QED BY <1>1, <1>7, <2>1, <3>2 DEF Confirmed
  <2>2. CASE i # cb.id
    <3>1. Confirmed(i) /\ ledger'[i] = ledger[i]
      BY <1>1, <1>7, <2>2 DEF Records
    <3> QED BY <2>2, <3>1 DEF Confirmed, At, Id
  <2> QED BY <2>1, <2>2
<1> QED BY <1>5, <1>6, <1>7 DEF Replays, Records, At, Id

LEMMA RefusedRecordAgrees ==
  ASSUME Safe, Agreement, RefuseInMemory
  PROVE  Agreement'
<1> USE DEF Agreement
<1>1. /\ cb.pc = "refuseMemory" /\ cb'.pc = "idle" /\ cb.id \in Ids
      /\ UNCHANGED <<call, ledger, resolved, unsaved>>
  BY DEF RefuseInMemory, Idle, Safe, Names, history
<1>2. /\ memory'[cb.id].state = IF memory[cb.id].state = "none" THEN "none" ELSE "REJECTED"
      /\ \A j \in Ids \ {cb.id} : memory'[j] = memory[j]
  BY <1>1, UpdateFacts, StateFacts DEF RefuseInMemory, Safe, Types
<1>3. Replays'
  BY <1>1 DEF Replays, At, Id
<1>4. ASSUME NEW i \in Ids \ (resolved \cup unsaved), memory'[i].state \in Terminal,
             ledger[i].state # "none"
      PROVE  Confirmed(i)'
  <2>1. CASE i = cb.id
    BY <1>1, <1>2, <1>4, <2>1, StateFacts DEF Refusals, Confirmed
  <2>2. CASE i # cb.id
    <3>1. Confirmed(i) /\ memory'[i] = memory[i]
      BY <1>2, <1>4, <2>2 DEF Records
    <3> QED BY <1>1, <3>1 DEF Confirmed, At, Id
  <2> QED BY <2>1, <2>2
<1> QED BY <1>1, <1>3, <1>4 DEF Refusals, Records

LEMMA ResultAgrees ==
  ASSUME Safe, Agreement, NEW i \in Ids, NEW o \in Outcomes \cup {"lost"}, ResultCallback(i, o)
  PROVE  Agreement'
<1> USE DEF Agreement
<1>1. /\ cb.pc = "idle" /\ goals[i].there /\ UNCHANGED <<call, ledger, resolved, unsaved>>
      /\ memory' = Update(memory, i, StateForOutcome(o))
  BY DEF ResultCallback, CanCallBack, InFlight, Safe, Discipline, Pins
<1>2. cb'.pc = "complete" /\ cb'.id = i /\ cb'.said = StateForOutcome(o)
  BY <1>1 DEF ResultCallback, Callback
<1>3. StateForOutcome(o) \in States
  BY OutcomeFacts, StateFacts
<1>4. /\ memory'[i].state = IF memory[i].state = "none" THEN "none" ELSE StateForOutcome(o)
      /\ \A j \in Ids \ {i} : memory'[j] = memory[j]
  BY <1>1, <1>3, UpdateFacts DEF Safe, Types
<1>5. Replays'
  BY <1>1 DEF Replays, At, Id
<1>6. ASSUME NEW j \in Ids \ (resolved \cup unsaved), memory'[j].state \in Terminal,
             ledger[j].state # "none"
      PROVE  Confirmed(j)'
  <2>1. CASE j = i
    BY <1>2, <1>4, <1>6, <2>1, StateFacts DEF Confirmed
  <2>2. CASE j # i
    <3>1. Confirmed(j) /\ memory'[j] = memory[j]
      BY <1>4, <1>6, <2>2 DEF Records
    <3> QED BY <1>1, <3>1 DEF Confirmed, At, Id
  <2> QED BY <2>1, <2>2
<1> QED BY <1>1, <1>2, <1>5, <1>6 DEF Refusals, Records

LEMMA ClientAgrees ==
  ASSUME Safe, Truth, Agreement, ClientNext
  PROVE  Agreement'
<1> USE DEF Safe, Types
<1>1. CASE RefuseOnDisk
  <2>1. /\ cb.pc = "refuse" /\ cb'.pc = "refuseMemory" /\ cb'.id = cb.id
        /\ Complete(cb.id, cb.task, "REJECTED") /\ UNCHANGED <<call, memory, resolved>>
    BY <1>1 DEF RefuseOnDisk, CallbackTyped
  <2> QED BY <2>1, StateFacts, WrittenAgrees
<1>2. CASE ResultOnDisk
  <2>1. /\ cb.pc = "complete" /\ cb'.pc = "idle" /\ cb.said \in Terminal
        /\ Complete(cb.id, cb.task, cb.said) /\ UNCHANGED <<call, memory, resolved>>
    BY <1>2, StateFacts DEF ResultOnDisk, Idle, Names
  <2> QED BY <2>1, WrittenAgrees
<1>3. CASE RefuseInMemory \/ \E i \in Ids, o \in Outcomes \cup {"lost"} : ResultCallback(i, o)
  BY <1>3, RefusedRecordAgrees, ResultAgrees
<1>4. CASE \/ \E i \in Ids : GoalResponse(i)
           \/ AcceptedCallback \/ CallbackCancel \/ CallbackCancelDispatched \/ RefusedCallback
  <2>1. UNCHANGED <<call, ledger, resolved, unsaved>>
    BY <1>4 DEF GoalResponse, AcceptedCallback, CallbackCancel, CallbackCancelDispatched,
                RefusedCallback, history
  <2>2. cb'.pc # "refuseMemory" /\ cb.pc # "complete"
    <3> USE DEF Idle, CallbackTyped
    <3>1. CASE \E i \in Ids : GoalResponse(i)
      BY <3>1 DEF GoalResponse, Callback, CanCallBack
    <3>2. CASE AcceptedCallback
      BY <3>2 DEF AcceptedCallback
    <3>3. CASE CallbackCancel \/ CallbackCancelDispatched
      BY <3>3 DEF CallbackCancel, CallbackCancelDispatched
    <3>4. CASE RefusedCallback
      BY <3>4 DEF RefusedCallback
    <3> QED BY <1>4, <3>1, <3>2, <3>3, <3>4
  <2>3. Soft
    <3>1. ASSUME memory' = memory PROVE Soft
      BY <3>1 DEF Soft
    <3>2. CASE RefusedCallback
      BY <3>1, <3>2 DEF RefusedCallback
    <3>3. CASE ~RefusedCallback
      BY <1>4, <3>3, CallbackIsSoft
    <3> QED BY <3>2, <3>3
  <2> QED BY <2>1, <2>2, <2>3, SoftFacts, WorkAgrees DEF Final
<1> QED BY <1>1, <1>2, <1>3, <1>4 DEF ClientNext

LEMMA AgreementStep ==
  ASSUME Safe, Safe', RestTyped, Truth, Visible, Agreement, [Next]_vars
  PROVE  Agreement'
<1> USE DEF Safe
<1>1. CASE \E c \in Calls : CallNext(c)
  BY <1>1, CallAgrees
<1>2. CASE ClientNext
  BY <1>2, ClientAgrees
<1>3. CASE MainNext
  <2>1. UNCHANGED <<call, cb, ledger, resolved, unsaved>>
    BY <1>3 DEF MainNext, StopAccepting, CancelActive, MainCancelDispatched, Drain, Exit,
                MainCancel, history
  <2>2. \A i \in Ids : memory'[i].state = memory[i].state \/ memory'[i].state \notin Terminal
    <3>1. CASE Exit
      BY <3>1, StateFacts DEF Exit, NoRecord
    <3>2. CASE ~Exit
      BY <1>3, <3>2, MainIsSoft, SoftFacts DEF Final
    <3> QED BY <3>1, <3>2
  <2> QED BY <2>1, <2>2, WorkAgrees
<1>4. CASE Restart
  <2>1. /\ cb'.pc = "idle" /\ \A c \in Calls : call'[c].pc = "idle"
        /\ \A i \in Ids : memory'[i].state = "none"
    BY <1>4 DEF Restart, Idle, NoRecord
  <2> QED BY <2>1, StateFacts DEF Agreement, Replays, Refusals, Records, At
<1>5. CASE UNCHANGED vars \/ \E i \in Ids : Expire(i)
  <2>1. UNCHANGED <<memory, call, cb, resolved, unsaved>>
    BY <1>5 DEF vars, Expire, processVars, history
  <2>2. \A j \in Ids : ledger'[j].state = ledger[j].state
    BY <1>5 DEF vars, Expire, processVars, history, Types, LedgerTyped
  <2> QED BY <2>1, <2>2, WorkAgrees
<1> QED BY <1>1, <1>2, <1>3, <1>4, <1>5 DEF Next

LEMMA InitAgrees == Init => Agreement
BY StateFacts
   DEF Init, ProcessInit, Agreement, Replays, Refusals, Records, Idle, NoRecord, At

(* Once nobody works on a finished request, the registry and its row say   *)
(* the same, whichever of insert, replay, reject, refusal, completion and  *)
(* shutdown came last, unless the row could not be written or an operator  *)
(* wrote it (RequestRegistry::update_terminal and                          *)
(* DurableIdempotency::complete, which no lock holds together).            *)
THEOREM RegistryAgreesWithLedger == Spec => []MemoryAgreesWithLedger
<1>1. Spec => [](Safe /\ RestTyped)
  BY RestIsTyped, GatewaySafe, PTL DEF Spec
<1>2. Spec => [](Truth /\ Visible)
  BY <1>1, TruthStep, InitIsTrue, VisibleStep, InitIsVisible, PTL DEF Spec
<1>3. Spec => []Agreement
  BY <1>1, <1>2, AgreementStep, InitAgrees, PTL DEF Spec
<1>4. Agreement => MemoryAgreesWithLedger
  BY DEF Agreement, Records, Confirmed, Quiet, MemoryAgreesWithLedger, At
<1> QED BY <1>3, <1>4, PTL
=============================================================================
