--------------------------- MODULE GatewayProofs ---------------------------
(***************************************************************************)
(* Theorems about Gateway, for any number of requests, tasks, handler      *)
(* threads and restarts: a request is dispatched at most once for each     *)
(* time the ledger forgot its finished row.                                *)
(***************************************************************************)
EXTENDS Gateway, TLAPS

(* Steps of a handler that holds the record it inserted and has not yet    *)
(* claimed the request, and of one that claimed it and has not yet sent.   *)
OwnerSteps  == {"history", "admit", "claim", "apply"}
SenderSteps == {"decide", "emplace", "send"}
PinSteps    == SenderSteps \cup {"reject", "resolve", "resolved"}

(* A row that retention will not take. *)
Pinned(i) == ledger[i].state # "none" /\ ~(ledger[i].old /\ ledger[i].state \in Terminal)

InFlight(i) == flight[i] \in {"sent", "accepted"}

(* The types the argument needs. *)
MemoryTyped == memory \in [Ids -> [task: Tasks \cup {NoTask}, state: States]]
GoalsTyped ==
  goals \in [Ids -> [there: BOOLEAN, task: Tasks \cup {NoTask}, handle: BOOLEAN,
                     cancelReq: BOOLEAN, cancelSent: BOOLEAN, cancelFailed: BOOLEAN]]
CallTyped ==
  call \in [Calls -> [pc: CallSteps, id: Ids \cup {NoId}, task: Tasks \cup {NoTask},
                      said: States \cup {"UNAVAILABLE", "DEADLINE"}]]
CallbackTyped ==
  cb \in [pc: CallbackSteps, id: Ids \cup {NoId}, task: Tasks \cup {NoTask}, said: States]
FlightTyped == flight \in [Ids -> {"none", "sent", "accepted", "refused", "ended"}]
LedgerTyped ==
  ledger \in [Ids -> [task: Tasks \cup {NoTask}, state: Terminal \cup {"none", "ADMITTED"},
                      old: BOOLEAN]]
CountsTyped == sent \in [Ids -> Nat] /\ reclaimed \in [Ids -> Nat]
Types == MemoryTyped /\ GoalsTyped /\ CallTyped /\ CallbackTyped /\ FlightTyped /\ LedgerTyped
           /\ CountsTyped

(* Whoever works on a request knows which, and what it writes is an        *)
(* outcome.                                                                *)
Names ==
  /\ \A c \in Calls : ~At(c, "idle") => Id(c) \in Ids
  /\ \A c \in Calls : call[c].pc \in {"resolve", "resolved"} => call[c].said \in Terminal
  /\ \A c \in Calls : At(c, "apply") => call[c].said \in Terminal \cup {"UNCERTAIN"}
  /\ \A c \in Calls : call[c].pc \in {"insert"} \cup OwnerSteps \cup SenderSteps => Task(c) \in Tasks
  /\ cb.pc # "idle" => cb.id \in Ids
  /\ cb.pc = "complete" => cb.said \in Outcomes
  /\ main.pc = "canceling" => main.id \in Ids
  /\ main \in [pc: MainSteps, todo: SUBSET Ids, id: Ids \cup {NoId}]

(* Whoever may still dispatch, finish or resolve a request has a row that  *)
(* stays.                                                                  *)
Pins ==
  /\ \A i \in Ids : InFlight(i) => goals[i].there
  /\ \A i \in Ids : goals[i].there => Pinned(i)
  /\ cb.pc # "idle" => Pinned(cb.id)
  /\ \A c \in Calls : call[c].pc \in PinSteps => Pinned(Id(c))

(* Without such a row, one handler at most works towards a claim, and its  *)
(* record is not evicted.                                                  *)
Exclusive ==
  \A c \in Calls : call[c].pc \in OwnerSteps /\ ~Pinned(Id(c)) =>
    /\ memory[Id(c)].state \notin Terminal \cup {"none"}
    /\ \A d \in Calls : call[d].pc \in OwnerSteps /\ Id(d) = Id(c) => d = c

(* A claim is made for a request without a row, and whoever made it is     *)
(* alone with it until the goal is sent.                                   *)
Claims ==
  /\ \A c \in Calls : At(c, "claim") => ledger[Id(c)].state = "none"
  /\ \A c \in Calls : call[c].pc \in SenderSteps =>
       /\ ~InFlight(Id(c)) /\ (cb.pc = "idle" \/ cb.id # Id(c))
       /\ sent[Id(c)] <= reclaimed[Id(c)]
       /\ \A d \in Calls : call[d].pc \in SenderSteps /\ Id(d) = Id(c) => d = c
  /\ \A c \in Calls : At(c, "send") => goals[Id(c)].there
  /\ cb.pc = "refused" => ~InFlight(cb.id)

Counts == \A i \in Ids :
  sent[i] <= reclaimed[i] + (IF ledger[i].state = "none" THEN 0 ELSE 1)

Discipline == Pins /\ Exclusive /\ Claims /\ Counts
Safe == Types /\ Names /\ Discipline

LEMMA StateFacts ==
  /\ Terminal \subseteq States /\ Active \subseteq States /\ Outcomes \subseteq Terminal
  /\ {"none", "UNCERTAIN", "TIMED_OUT", "CANCEL_FAILED", "SUBMITTING", "RUNNING", "CANCELING",
      "REJECTED", "COMPLETED", "ADMITTED"} \cap Terminal = {"REJECTED", "COMPLETED"}
  /\ {"none", "UNCERTAIN", "TIMED_OUT", "CANCEL_FAILED", "SUBMITTING", "RUNNING", "CANCELING",
      "REJECTED", "COMPLETED"} \subseteq States
  /\ NoTask \notin Tasks /\ NoId \notin Ids
BY GatewayAssumption DEF Terminal, Active, States

(***************************************************************************)
(* What the helpers of the model do, as facts.                             *)
(***************************************************************************)
LEMMA CallFacts ==
  ASSUME CallTyped, NEW c \in Calls
  PROVE  /\ call[c].pc \in CallSteps /\ call[c].id \in Ids \cup {NoId}
         /\ call[c].task \in Tasks \cup {NoTask}
         /\ call[c].said \in States \cup {"UNAVAILABLE", "DEADLINE"}
BY DEF CallTyped

LEMMA GotoWithFacts ==
  ASSUME CallTyped, NEW c \in Calls, NEW p \in CallSteps,
         NEW s \in States \cup {"UNAVAILABLE", "DEADLINE"}, GotoWith(c, p, s)
  PROVE  /\ CallTyped'
         /\ call'[c].pc = p /\ call'[c].said = s
         /\ call'[c].id = call[c].id /\ call'[c].task = call[c].task
         /\ \A d \in Calls \ {c} : call'[d] = call[d]
BY DEF CallTyped, GotoWith

LEMMA GotoFacts ==
  ASSUME CallTyped, NEW c \in Calls, NEW p \in CallSteps, Goto(c, p)
  PROVE  /\ CallTyped'
         /\ call'[c].pc = p /\ call'[c].said = call[c].said
         /\ call'[c].id = call[c].id /\ call'[c].task = call[c].task
         /\ \A d \in Calls \ {c} : call'[d] = call[d]
BY DEF CallTyped, Goto

LEMMA FinishFacts ==
  ASSUME CallTyped, NEW c \in Calls, Finish(c)
  PROVE  /\ CallTyped'
         /\ call'[c].pc = "idle"
         /\ \A d \in Calls \ {c} : call'[d] = call[d]
BY StateFacts DEF CallTyped, Finish, Idle, CallSteps

LEMMA StartFacts ==
  ASSUME CallTyped, NEW c \in Calls, NEW p \in CallSteps, NEW i \in Ids,
         NEW t \in Tasks \cup {NoTask}, NEW s \in States, Start(c, p, i, t, s)
  PROVE  /\ CallTyped'
         /\ call'[c].pc = p /\ call'[c].said = s
         /\ call'[c].id = i /\ call'[c].task = t
         /\ \A d \in Calls \ {c} : call'[d] = call[d]
BY DEF CallTyped, Start

LEMMA UpdateFacts ==
  ASSUME MemoryTyped, NEW i \in Ids, NEW s \in States, memory' = Update(memory, i, s)
  PROVE  /\ MemoryTyped'
         /\ memory'[i].state = IF memory[i].state = "none" THEN "none" ELSE s
         /\ \A j \in Ids \ {i} : memory'[j] = memory[j]
BY DEF MemoryTyped, Update

LEMMA EraseFacts ==
  ASSUME MemoryTyped, NEW i \in Ids, Erase(i)
  PROVE  /\ MemoryTyped'
         /\ memory'[i].state = "none"
         /\ \A j \in Ids \ {i} : memory'[j] = memory[j]
BY StateFacts DEF MemoryTyped, Erase, NoRecord

LEMMA PutFacts ==
  ASSUME LedgerTyped, NEW i \in Ids, NEW t \in Tasks \cup {NoTask},
         NEW s \in Terminal \cup {"ADMITTED"}, Put(i, t, s)
  PROVE  /\ LedgerTyped'
         /\ ledger'[i].state = s /\ ledger'[i].old = FALSE
         /\ \A j \in Ids \ {i} : ledger'[j] = ledger[j]
BY DEF LedgerTyped, Put

LEMMA PruneFacts ==
  ASSUME LedgerTyped, CountsTyped, Prune
  PROVE  /\ LedgerTyped' /\ reclaimed' \in [Ids -> Nat]
         /\ \A i \in Ids : ~Reclaimable(i) => ledger'[i] = ledger[i] /\ reclaimed'[i] = reclaimed[i]
         /\ \A i \in Ids : Reclaimable(i) => ledger'[i].state = "none" /\ reclaimed'[i] = reclaimed[i] + 1
<1>1. NoRow \in [task: Tasks \cup {NoTask}, state: Terminal \cup {"none", "ADMITTED"}, old: BOOLEAN]
  BY DEF NoRow
<1>2. LedgerTyped'
  BY <1>1 DEF Prune, LedgerTyped
<1>3. \A i \in Ids : Reclaimable(i) => ledger'[i].state = "none"
  BY DEF Prune, NoRow
<1>4. \A i \in Ids : Reclaimable(i) => ledger[i].state \in Terminal
  BY DEF Reclaimable
<1>5. /\ reclaimed' \in [Ids -> Nat]
      /\ \A i \in Ids : Reclaimable(i) => reclaimed'[i] = reclaimed[i] + 1
      /\ \A i \in Ids : ~Reclaimable(i) => reclaimed'[i] = reclaimed[i]
  BY <1>4 DEF Prune, CountsTyped
<1>6. \A i \in Ids : ~Reclaimable(i) => ledger'[i] = ledger[i]
  BY DEF Prune
<1> QED BY <1>2, <1>3, <1>5, <1>6

(* Every record that changes stays, in a state that is not final. *)
Soft == \A j \in Ids :
  \/ memory'[j].state = memory[j].state
  \/ memory[j].state # "none" /\ memory'[j].state \notin Terminal \cup {"none"}

LEMMA BusyFacts ==
  ASSUME CallTyped, Names, NEW c \in Calls, NEW p \in CallSteps \ {"idle"}, At(c, p)
  PROVE  /\ Id(c) \in Ids /\ Task(c) \in Tasks \cup {NoTask}
         /\ p \in {"insert"} \cup OwnerSteps \cup SenderSteps => Task(c) \in Tasks
         /\ p \in {"resolve", "resolved"} => call[c].said \in Terminal
         /\ p = "apply" => call[c].said \in Terminal \cup {"UNCERTAIN"}
BY DEF CallTyped, Names, At, Id, Task

LEMMA FreshFacts ==
  ASSUME MemoryTyped, NEW i \in Ids, NEW t \in Tasks
  PROVE  /\ Fresh(i, t) \in [Ids -> [task: Tasks \cup {NoTask}, state: States]]
         /\ Fresh(i, t)[i].state = "SUBMITTING"
         /\ \A j \in Ids \ {i} : Fresh(i, t)[j] = memory[j]
BY StateFacts DEF MemoryTyped, Fresh

LEMMA InsertFacts ==
  ASSUME MemoryTyped, NEW i \in Ids, NEW t \in Tasks, ~Present(i), NEW n,
         memory' = [Fresh(i, t) EXCEPT ![order[n]] = NoRecord], Evictable(n)
  PROVE  /\ MemoryTyped' /\ memory'[i].state = "SUBMITTING"
         /\ \A j \in Ids \ {i} : memory'[j] = memory[j] \/ memory[j].state \in Terminal
<1>1. order[n] # i
  BY StateFacts DEF Evictable, Present
<1>2. NoRecord \in [task: Tasks \cup {NoTask}, state: States]
  BY StateFacts DEF NoRecord
<1>3. MemoryTyped'
  BY <1>2, FreshFacts DEF MemoryTyped
<1>4. memory'[i].state = "SUBMITTING"
  BY <1>1, FreshFacts
<1>5. ASSUME NEW j \in Ids \ {i}
      PROVE  memory'[j] = memory[j] \/ memory[j].state \in Terminal
  BY FreshFacts DEF Evictable
<1> QED BY <1>3, <1>4, <1>5

LEMMA NewGoalFacts ==
  ASSUME GoalsTyped, NEW i \in Ids, NEW t \in Tasks
  PROVE  LET g == [goals EXCEPT ![i] = [NoGoal EXCEPT !.there = TRUE, !.task = t]]
         IN  /\ g \in [Ids -> [there: BOOLEAN, task: Tasks \cup {NoTask}, handle: BOOLEAN,
                               cancelReq: BOOLEAN, cancelSent: BOOLEAN, cancelFailed: BOOLEAN]]
             /\ g[i].there /\ \A j \in Ids \ {i} : g[j] = goals[j]
BY DEF GoalsTyped, NoGoal

LEMMA NoGoalFacts ==
  ASSUME GoalsTyped, NEW i \in Ids
  PROVE  LET g == [goals EXCEPT ![i] = NoGoal]
         IN  /\ g \in [Ids -> [there: BOOLEAN, task: Tasks \cup {NoTask}, handle: BOOLEAN,
                               cancelReq: BOOLEAN, cancelSent: BOOLEAN, cancelFailed: BOOLEAN]]
             /\ ~g[i].there /\ \A j \in Ids \ {i} : g[j] = goals[j]
BY DEF GoalsTyped, NoGoal

LEMMA CancelReqFacts ==
  ASSUME GoalsTyped, NEW i \in Ids
  PROVE  LET g == [goals EXCEPT ![i].cancelReq = TRUE]
         IN  /\ g \in [Ids -> [there: BOOLEAN, task: Tasks \cup {NoTask}, handle: BOOLEAN,
                               cancelReq: BOOLEAN, cancelSent: BOOLEAN, cancelFailed: BOOLEAN]]
             /\ \A j \in Ids : g[j].there <=> goals[j].there
<1> DEFINE g == [goals EXCEPT ![i].cancelReq = TRUE]
<1>1. g \in [Ids -> [there: BOOLEAN, task: Tasks \cup {NoTask}, handle: BOOLEAN,
                    cancelReq: BOOLEAN, cancelSent: BOOLEAN, cancelFailed: BOOLEAN]]
  BY DEF GoalsTyped
<1>2. \A j \in Ids : g[j].there <=> goals[j].there
  BY DEF GoalsTyped
<1> QED BY <1>1, <1>2

LEMMA MarkCancelFacts ==
  ASSUME GoalsTyped, NEW i \in Ids, MarkCancel(i)
  PROVE  GoalsTyped' /\ \A j \in Ids : goals'[j].there <=> goals[j].there
<1>1. GoalsTyped'
  BY DEF GoalsTyped, MarkCancel
<1>2. \A j \in Ids : goals'[j].there <=> goals[j].there
  BY DEF GoalsTyped, MarkCancel
<1> QED BY <1>1, <1>2

LEMMA CancelThrowsFacts ==
  ASSUME GoalsTyped, MemoryTyped, NEW i \in Ids, CancelThrows(i)
  PROVE  /\ GoalsTyped' /\ MemoryTyped' /\ Soft
         /\ \A j \in Ids : goals'[j].there <=> goals[j].there
<1>1. CASE goals[i].there
  <2>1. memory' = Update(memory, i, "CANCEL_FAILED")
    BY <1>1 DEF CancelThrows
  <2>2. MemoryTyped' /\ Soft
    BY <2>1, UpdateFacts, StateFacts DEF Soft
  <2>3. goals' = [goals EXCEPT ![i].cancelSent = FALSE, ![i].cancelFailed = TRUE]
    BY <1>1 DEF CancelThrows
  <2>4. GoalsTyped'
    BY <2>3 DEF GoalsTyped
  <2>5. \A j \in Ids : goals'[j].there <=> goals[j].there
    BY <2>3 DEF GoalsTyped
  <2> QED BY <2>2, <2>4, <2>5
<1>2. CASE ~goals[i].there
  BY <1>2 DEF CancelThrows, GoalsTyped, MemoryTyped, Soft
<1> QED BY <1>1, <1>2

LEMMA InsertNewFacts ==
  ASSUME MemoryTyped, CallTyped, Names, NEW c \in Calls, InsertNew(c)
  PROVE  /\ MemoryTyped' /\ Id(c) \in Ids
         /\ \/ memory' = memory /\ Goto(c, "full")
            \/ /\ Goto(c, "history") /\ ~Present(Id(c))
               /\ memory'[Id(c)].state = "SUBMITTING"
               /\ \A j \in Ids \ {Id(c)} : memory'[j] = memory[j] \/ memory[j].state \in Terminal
<1>1. Id(c) \in Ids /\ Task(c) \in Tasks /\ "insert" \in CallSteps
  BY BusyFacts DEF InsertNew, CallSteps
<1>2. CASE memory' = memory /\ Goto(c, "full")
  BY <1>1, <1>2 DEF MemoryTyped
<1>3. CASE memory' = Fresh(Id(c), Task(c)) /\ Goto(c, "history")
  BY <1>1, <1>3, FreshFacts DEF InsertNew, Present, MemoryTyped
<1>4. CASE /\ \E n \in 1..Len(order) :
                Evictable(n) /\ memory' = [Fresh(Id(c), Task(c)) EXCEPT ![order[n]] = NoRecord]
           /\ Goto(c, "history")
  <2>1. PICK n \in 1..Len(order) :
               Evictable(n) /\ memory' = [Fresh(Id(c), Task(c)) EXCEPT ![order[n]] = NoRecord]
    BY <1>4
  <2>2. ~Present(Id(c))
    BY <1>1 DEF InsertNew
  <2> QED BY <1>1, <1>4, <2>1, <2>2, InsertFacts
<1> QED BY <1>2, <1>3, <1>4 DEF InsertNew

LEMMA EmplaceGoalFacts ==
  ASSUME GoalsTyped, CallTyped, Names, NEW c \in Calls, EmplaceGoal(c)
  PROVE  /\ GoalsTyped' /\ Id(c) \in Ids
         /\ \/ goals' = goals /\ RejectInMemory(c, "UNAVAILABLE")
            \/ /\ Goto(c, "send") /\ UNCHANGED memory /\ goals'[Id(c)].there
               /\ \A j \in Ids \ {Id(c)} : goals'[j] = goals[j]
<1>1. Id(c) \in Ids /\ Task(c) \in Tasks
  BY BusyFacts DEF EmplaceGoal, CallSteps, SenderSteps
<1>2. CASE goals' = goals /\ RejectInMemory(c, "UNAVAILABLE")
  BY <1>1, <1>2 DEF GoalsTyped
<1>3. CASE Goto(c, "send") /\ UNCHANGED memory /\ goals[Id(c)].there /\ goals' = goals
  BY <1>1, <1>3 DEF GoalsTyped
<1>4. CASE /\ Goto(c, "send") /\ UNCHANGED memory
           /\ goals' = [goals EXCEPT ![Id(c)] = [NoGoal EXCEPT !.there = TRUE, !.task = Task(c)]]
  BY <1>1, <1>4, NewGoalFacts DEF GoalsTyped
<1> QED BY <1>2, <1>3, <1>4 DEF EmplaceGoal

(***************************************************************************)
(* Steps of the handlers: types, and who works on what.                    *)
(***************************************************************************)
LEMMA CallTypedStep ==
  ASSUME Types, Names, NEW c \in Calls, CallNext(c)
  PROVE  CallTyped'
<1> USE StateFacts DEF Types, CallSteps
<1>1. CASE \/ \E i \in Ids, t \in Tasks : SubmitWorkflow(c, i, t)
           \/ \E i \in Ids : CancelWorkflow(c, i)
  BY <1>1, StartFacts DEF SubmitWorkflow, CancelWorkflow
<1>2. CASE \E i \in Ids, s \in Terminal : ResolveUncertain(c, i, s)
  <2>1. PICK i \in Ids, s \in Terminal : ResolveUncertain(c, i, s)
    BY <1>2
  <2>2. ledger[i].task \in Tasks \cup {NoTask}
    BY DEF LedgerTyped
  <2> QED BY <2>1, <2>2, StartFacts DEF ResolveUncertain
<1>3. CASE \/ InsertKnown(c) \/ InsertNew(c) \/ LookupWhenFull(c) \/ CheckHistory(c)
           \/ AdmitNew(c) \/ Claim(c) \/ Apply(c) \/ ReadRecord(c) \/ RejectOnDisk(c)
           \/ AwaitResponse(c) \/ Settle(c) \/ RequestCancel(c) \/ AnswerCancel(c)
           \/ ResolveOnDisk(c) \/ ResolveInMemory(c)
  BY <1>3, GotoFacts, FinishFacts
     DEF InsertKnown, InsertNew, LookupWhenFull, CheckHistory, AdmitNew, Claim, Apply,
         ReadRecord, RejectOnDisk, AwaitResponse, Settle, RequestCancel, AnswerCancel,
         ResolveOnDisk, ResolveInMemory
<1>4. CASE AdmitKnown(c)
  BY <1>4, GotoFacts, FinishFacts, GotoWithFacts DEF AdmitKnown, Uncertain
<1>5. CASE Decide(c) \/ EmplaceGoal(c) \/ SendGoal(c)
  BY <1>5, GotoFacts, FinishFacts, GotoWithFacts
     DEF Decide, EmplaceGoal, SendGoal, RejectInMemory
<1>6. CASE TimeOut(c)
  BY <1>6, GotoFacts, FinishFacts, GotoWithFacts DEF TimeOut
<1>7. CASE DispatchCancel(c) \/ CancelDispatched(c)
  BY <1>7, GotoFacts, FinishFacts DEF DispatchCancel, CancelDispatched, CancelIsOut
<1> QED BY <1>1, <1>2, <1>3, <1>4, <1>5, <1>6, <1>7 DEF CallNext

LEMMA MemoryTypedStep ==
  ASSUME Types, Names, NEW c \in Calls, CallNext(c)
  PROVE  MemoryTyped'
<1> USE StateFacts, BusyFacts DEF Types, CallSteps, OwnerSteps, SenderSteps
<1>1. CASE \/ \E i \in Ids, t \in Tasks : SubmitWorkflow(c, i, t)
           \/ \E i \in Ids : CancelWorkflow(c, i)
           \/ \E i \in Ids, s \in Terminal : ResolveUncertain(c, i, s)
           \/ InsertKnown(c) \/ LookupWhenFull(c) \/ ReadRecord(c) \/ RejectOnDisk(c)
           \/ AwaitResponse(c) \/ Settle(c) \/ DispatchCancel(c) \/ AnswerCancel(c)
           \/ ResolveOnDisk(c)
  BY <1>1
     DEF SubmitWorkflow, CancelWorkflow, ResolveUncertain, InsertKnown, LookupWhenFull,
         ReadRecord, RejectOnDisk, AwaitResponse, Settle, DispatchCancel, AnswerCancel,
         ResolveOnDisk, MemoryTyped
<1>2. CASE InsertNew(c)
  BY <1>2, InsertNewFacts
<1>3. CASE CheckHistory(c) \/ AdmitKnown(c) \/ AdmitNew(c) \/ Claim(c)
  BY <1>3, EraseFacts DEF CheckHistory, AdmitKnown, AdmitNew, Claim, MemoryTyped
<1>4. CASE Apply(c)
  BY <1>4, UpdateFacts, CallFacts DEF Apply, MemoryTyped
<1>5. CASE Decide(c) \/ EmplaceGoal(c) \/ SendGoal(c)
  BY <1>5, UpdateFacts DEF Decide, EmplaceGoal, SendGoal, MemoryTyped, RejectInMemory
<1>6. CASE TimeOut(c) \/ RequestCancel(c) \/ ResolveInMemory(c)
  BY <1>6, UpdateFacts DEF TimeOut, RequestCancel, ResolveInMemory, MemoryTyped
<1>7. CASE CancelDispatched(c)
  BY <1>7, CancelThrowsFacts DEF CancelDispatched, MemoryTyped
<1> QED BY <1>1, <1>2, <1>3, <1>4, <1>5, <1>6, <1>7 DEF CallNext

LEMMA GoalsTypedStep ==
  ASSUME Types, Names, NEW c \in Calls, CallNext(c)
  PROVE  GoalsTyped'
<1> USE StateFacts, BusyFacts DEF Types, CallSteps, OwnerSteps, SenderSteps
<1>1. CASE \/ \E i \in Ids, t \in Tasks : SubmitWorkflow(c, i, t)
           \/ \E i \in Ids : CancelWorkflow(c, i)
           \/ \E i \in Ids, s \in Terminal : ResolveUncertain(c, i, s)
           \/ InsertKnown(c) \/ InsertNew(c) \/ LookupWhenFull(c) \/ CheckHistory(c)
           \/ AdmitKnown(c) \/ AdmitNew(c) \/ Claim(c) \/ Apply(c) \/ ReadRecord(c)
           \/ Decide(c) \/ RejectOnDisk(c) \/ AwaitResponse(c) \/ Settle(c)
           \/ AnswerCancel(c) \/ ResolveOnDisk(c) \/ ResolveInMemory(c)
  BY <1>1
     DEF SubmitWorkflow, CancelWorkflow, ResolveUncertain, InsertKnown, InsertNew,
         LookupWhenFull, CheckHistory, AdmitKnown, AdmitNew, Claim, Apply, ReadRecord,
         Decide, RejectOnDisk, AwaitResponse, Settle, AnswerCancel, ResolveOnDisk,
         ResolveInMemory, GoalsTyped
<1>2. CASE EmplaceGoal(c)
  BY <1>2, EmplaceGoalFacts
<1>3. CASE SendGoal(c)
  BY <1>3, NoGoalFacts DEF SendGoal, GoalsTyped
<1>4. CASE TimeOut(c) \/ RequestCancel(c)
  BY <1>4, CancelReqFacts DEF TimeOut, RequestCancel, GoalsTyped
<1>5. CASE DispatchCancel(c)
  BY <1>5, MarkCancelFacts DEF DispatchCancel, GoalsTyped
<1>6. CASE CancelDispatched(c)
  BY <1>6, CancelThrowsFacts DEF CancelDispatched, GoalsTyped
<1> QED BY <1>1, <1>2, <1>3, <1>4, <1>5, <1>6 DEF CallNext

LEMMA LedgerTypedStep ==
  ASSUME Types, Names, NEW c \in Calls, CallNext(c)
  PROVE  LedgerTyped'
<1> USE StateFacts, BusyFacts DEF Types, CallSteps, OwnerSteps, SenderSteps
<1>1. CASE \/ \E i \in Ids, t \in Tasks : SubmitWorkflow(c, i, t)
           \/ \E i \in Ids : CancelWorkflow(c, i)
           \/ \E i \in Ids, s \in Terminal : ResolveUncertain(c, i, s)
           \/ InsertKnown(c) \/ InsertNew(c) \/ LookupWhenFull(c) \/ CheckHistory(c)
           \/ AdmitKnown(c) \/ Apply(c) \/ ReadRecord(c) \/ Decide(c) \/ EmplaceGoal(c)
           \/ SendGoal(c) \/ AwaitResponse(c) \/ Settle(c) \/ TimeOut(c)
           \/ DispatchCancel(c) \/ CancelDispatched(c) \/ RequestCancel(c)
           \/ AnswerCancel(c) \/ ResolveInMemory(c)
  BY <1>1
     DEF SubmitWorkflow, CancelWorkflow, ResolveUncertain, InsertKnown, InsertNew,
         LookupWhenFull, CheckHistory, AdmitKnown, Apply, ReadRecord, Decide, EmplaceGoal,
         SendGoal, AwaitResponse, Settle, TimeOut, DispatchCancel, CancelDispatched,
         RequestCancel, AnswerCancel, ResolveInMemory, LedgerTyped
<1>2. CASE AdmitNew(c)
  BY <1>2, PruneFacts DEF AdmitNew, LedgerTyped
<1>3. CASE Claim(c) \/ ResolveOnDisk(c)
  BY <1>3, PutFacts DEF Claim, ResolveOnDisk, LedgerTyped
<1>4. CASE RejectOnDisk(c)
  BY <1>4, PutFacts DEF RejectOnDisk, Complete, LedgerTyped
<1> QED BY <1>1, <1>2, <1>3, <1>4 DEF CallNext

LEMMA RestTypedStep ==
  ASSUME Types, Names, NEW c \in Calls, CallNext(c)
  PROVE  CallbackTyped' /\ FlightTyped' /\ CountsTyped'
<1> USE StateFacts, BusyFacts DEF Types, CallSteps, OwnerSteps, SenderSteps, history
<1>1. CASE \/ \E i \in Ids, t \in Tasks : SubmitWorkflow(c, i, t)
           \/ \E i \in Ids : CancelWorkflow(c, i)
           \/ \E i \in Ids, s \in Terminal : ResolveUncertain(c, i, s)
           \/ InsertKnown(c) \/ InsertNew(c) \/ LookupWhenFull(c) \/ CheckHistory(c)
           \/ AdmitKnown(c) \/ Claim(c)
  BY <1>1
     DEF SubmitWorkflow, CancelWorkflow, ResolveUncertain, InsertKnown, InsertNew,
         LookupWhenFull, CheckHistory, AdmitKnown, Claim, CountsTyped, FlightTyped,
         CallbackTyped
<1>2. CASE AdmitNew(c)
  BY <1>2, PruneFacts DEF AdmitNew, CountsTyped, FlightTyped, CallbackTyped
<1>3. CASE \/ Apply(c) \/ ReadRecord(c) \/ Decide(c) \/ RejectOnDisk(c) \/ EmplaceGoal(c)
           \/ SendGoal(c) \/ AwaitResponse(c) \/ Settle(c) \/ TimeOut(c)
  BY <1>3
     DEF Apply, ReadRecord, Decide, RejectOnDisk, EmplaceGoal, SendGoal, AwaitResponse,
         Settle, TimeOut, CountsTyped, FlightTyped, CallbackTyped
<1>4. CASE \/ DispatchCancel(c) \/ CancelDispatched(c) \/ RequestCancel(c)
           \/ AnswerCancel(c) \/ ResolveOnDisk(c) \/ ResolveInMemory(c)
  BY <1>4
     DEF DispatchCancel, CancelDispatched, RequestCancel, AnswerCancel, ResolveOnDisk,
         ResolveInMemory, CountsTyped, FlightTyped, CallbackTyped
<1> QED BY <1>1, <1>2, <1>3, <1>4 DEF CallNext

LEMMA NamesStep ==
  ASSUME Types, Names, NEW c \in Calls, CallNext(c)
  PROVE  Names'
<1> USE StateFacts, BusyFacts
        DEF Types, Names, OwnerSteps, SenderSteps, CallSteps, At, Id, Task
<1>1. CASE \E i \in Ids, t \in Tasks : SubmitWorkflow(c, i, t)
  BY <1>1, StartFacts DEF SubmitWorkflow
<1>2. CASE \E i \in Ids : CancelWorkflow(c, i)
  BY <1>2, StartFacts DEF CancelWorkflow
<1>3. CASE \E i \in Ids, s \in Terminal : ResolveUncertain(c, i, s)
  <2>1. PICK i \in Ids, s \in Terminal : ResolveUncertain(c, i, s)
    BY <1>3
  <2>2. /\ call'[c].pc = "resolve" /\ call'[c].id = i /\ call'[c].said = s
        /\ \A d \in Calls \ {c} : call'[d] = call[d]
    <3>1. ledger[i].task \in Tasks \cup {NoTask}
      BY DEF LedgerTyped
    <3> QED BY <2>1, <3>1, StartFacts DEF ResolveUncertain
  <2> QED BY <1>3, <2>1, <2>2 DEF ResolveUncertain
<1>4. CASE InsertKnown(c)
  BY <1>4, GotoFacts, FinishFacts DEF InsertKnown
<1>5. CASE InsertNew(c)
  <2>1. Id(c) \in Ids /\ Task(c) \in Tasks
    BY <1>5, BusyFacts DEF InsertNew
  <2>2. /\ call'[c].pc \in {"full", "history"} /\ call'[c].id = call[c].id
        /\ call'[c].task = call[c].task /\ \A d \in Calls \ {c} : call'[d] = call[d]
    BY <1>5, GotoFacts DEF InsertNew
  <2> QED BY <1>5, <2>1, <2>2 DEF InsertNew
<1>6. CASE LookupWhenFull(c)
  BY <1>6, GotoFacts, FinishFacts DEF LookupWhenFull
<1>7. CASE CheckHistory(c)
  BY <1>7, GotoFacts, FinishFacts DEF CheckHistory
<1>8. CASE AdmitKnown(c)
  <2>1. Id(c) \in Ids
    BY <1>8, BusyFacts DEF AdmitKnown
  <2>2. CASE Finish(c)
    BY <1>8, <2>1, <2>2, FinishFacts DEF AdmitKnown
  <2>3. CASE /\ ledger[Id(c)].state # "none"
             /\ GotoWith(c, "apply", IF Uncertain(ledger[Id(c)].state) THEN "UNCERTAIN"
                                       ELSE ledger[Id(c)].state)
    <3>1. ledger[Id(c)].state \in Terminal \cup {"none", "ADMITTED"}
      BY <2>1 DEF LedgerTyped
    <3>2. /\ call'[c].pc = "apply" /\ call'[c].id = Id(c) /\ call'[c].task = Task(c)
          /\ call'[c].said \in Terminal \cup {"UNCERTAIN"}
          /\ \A d \in Calls \ {c} : call'[d] = call[d]
      BY <2>3, <3>1, GotoWithFacts DEF Uncertain, Id, Task
    <3> QED BY <1>8, <2>1, <3>2 DEF AdmitKnown
  <2> QED BY <1>8, <2>2, <2>3 DEF AdmitKnown
<1>9. CASE AdmitNew(c)
  BY <1>9, GotoFacts, FinishFacts DEF AdmitNew
<1>10. CASE Claim(c)
  BY <1>10, GotoFacts, FinishFacts DEF Claim
<1>11. CASE Apply(c)
  BY <1>11, GotoFacts, FinishFacts DEF Apply
<1>12. CASE ReadRecord(c)
  BY <1>12, GotoFacts, FinishFacts DEF ReadRecord
<1>13. CASE Decide(c)
  BY <1>13, GotoFacts, FinishFacts, GotoWithFacts DEF Decide, RejectInMemory
<1>14. CASE RejectOnDisk(c)
  BY <1>14, GotoFacts, FinishFacts DEF RejectOnDisk
<1>15. CASE EmplaceGoal(c)
  BY <1>15, GotoFacts, FinishFacts, GotoWithFacts DEF EmplaceGoal, RejectInMemory
<1>16. CASE SendGoal(c)
  BY <1>16, GotoFacts, FinishFacts, GotoWithFacts DEF SendGoal, RejectInMemory
<1>17. CASE AwaitResponse(c)
  BY <1>17, GotoFacts, FinishFacts DEF AwaitResponse
<1>18. CASE Settle(c)
  BY <1>18, GotoFacts, FinishFacts DEF Settle
<1>19. CASE TimeOut(c)
  BY <1>19, GotoFacts, FinishFacts, GotoWithFacts DEF TimeOut
<1>20. CASE DispatchCancel(c)
  BY <1>20, GotoFacts, FinishFacts DEF DispatchCancel, CancelIsOut
<1>21. CASE CancelDispatched(c)
  BY <1>21, GotoFacts, FinishFacts DEF CancelDispatched, CancelIsOut
<1>22. CASE RequestCancel(c)
  BY <1>22, GotoFacts, FinishFacts DEF RequestCancel
<1>23. CASE AnswerCancel(c)
  BY <1>23, GotoFacts, FinishFacts DEF AnswerCancel
<1>24. CASE ResolveOnDisk(c)
  BY <1>24, GotoFacts, FinishFacts DEF ResolveOnDisk
<1>25. CASE ResolveInMemory(c)
  BY <1>25, GotoFacts, FinishFacts DEF ResolveInMemory
<1> QED BY <1>1, <1>2, <1>3, <1>4, <1>5, <1>6, <1>7, <1>8, <1>9, <1>10, <1>11, <1>12,
           <1>13, <1>14, <1>15, <1>16, <1>17, <1>18, <1>19, <1>20, <1>21, <1>22, <1>23,
           <1>24, <1>25 DEF CallNext

(***************************************************************************)
(* Most steps are gentle: they send nothing, admit nothing and remove no   *)
(* goal.  What they do to rows, records and handlers is summed up here.    *)
(***************************************************************************)
Final == Terminal \cup {"none"}

RowsKept == \A i \in Ids :
  \/ ledger'[i] = ledger[i] /\ reclaimed'[i] = reclaimed[i]
  \/ Pinned(i) /\ Pinned(i)' /\ reclaimed'[i] = reclaimed[i]
  \/ Reclaimable(i) /\ ledger'[i].state = "none" /\ reclaimed'[i] = reclaimed[i] + 1

(* A record that a handler without a pinned row relies on only becomes     *)
(* final, or goes, when that handler gives up.                             *)
RecordsKept == \A i \in Ids :
  \/ Pinned(i)
  \/ memory[i].state \in Final
  \/ memory'[i].state \notin Final
  \/ \E c \in Calls : call[c].pc \in OwnerSteps /\ Id(c) = i /\ call'[c].pc \notin OwnerSteps

SameId(c) == call'[c].id = call[c].id

(* Where handler c may go. *)
Follows(c) ==
  /\ call'[c].pc \in OwnerSteps =>
       \/ call[c].pc \in OwnerSteps /\ SameId(c)
       \/ /\ call'[c].id \in Ids /\ memory[call'[c].id].state = "none"
          /\ memory'[call'[c].id].state \notin Final
  /\ call'[c].pc = "claim" => ledger[call'[c].id].state = "none"
  /\ call'[c].pc \in SenderSteps => call[c].pc \in SenderSteps /\ SameId(c)
  /\ call'[c].pc = "send" => call[c].pc = "send"
  /\ call'[c].pc \in PinSteps => Pinned(call'[c].id)

HandlersKept ==
  /\ \A c \in Calls : call'[c] = call[c] \/ Follows(c)
  /\ \A c, d \in Calls : call'[c] # call[c] /\ call'[d] # call[d] => c = d

CallbackKept ==
  \/ cb'.pc = "idle"
  \/ cb.pc # "idle" /\ cb'.id = cb.id /\ (cb'.pc = "refused" => cb.pc = "refused")

Gentle ==
  /\ UNCHANGED <<flight, sent>>
  /\ \A i \in Ids : goals'[i].there <=> goals[i].there
  /\ RowsKept /\ RecordsKept /\ HandlersKept /\ CallbackKept

LEMMA GentleRows ==
  ASSUME LedgerTyped, NEW i \in Ids, RowsKept
  PROVE  /\ Pinned(i)' <=> Pinned(i)
         /\ ledger[i].state = "none" => ledger'[i].state = "none"
BY DEF RowsKept, Pinned, Reclaimable, LedgerTyped

LEMMA GentlePins ==
  ASSUME Types, Types', Names, Names', Pins, Gentle
  PROVE  Pins'
<1>1. \A i \in Ids : Pinned(i)' <=> Pinned(i)
  BY GentleRows DEF Types, Gentle
<1>2. \A i \in Ids : InFlight(i)' => goals'[i].there
  BY DEF Pins, Gentle, InFlight
<1>3. \A i \in Ids : goals'[i].there => Pinned(i)'
  BY <1>1 DEF Pins, Gentle
<1>4. cb'.pc # "idle" => Pinned(cb.id)'
  BY <1>1 DEF Pins, Gentle, CallbackKept, Names
<1>5. ASSUME NEW c \in Calls, call'[c].pc \in PinSteps
      PROVE  Pinned(Id(c))'
  <2>1. Id(c)' \in Ids /\ Id(c)' = call'[c].id
    BY <1>5 DEF Names, At, Id, PinSteps, SenderSteps
  <2>2. CASE call'[c] = call[c]
    BY <1>1, <1>5, <2>1, <2>2 DEF Pins, Id
  <2>3. CASE Follows(c)
    BY <1>1, <1>5, <2>1, <2>3 DEF Follows, Id
  <2> QED BY <2>2, <2>3 DEF Gentle, HandlersKept
<1> QED BY <1>2, <1>3, <1>4, <1>5 DEF Pins

LEMMA GentleExclusive ==
  ASSUME Types, Types', Names, Names', Exclusive, Gentle
  PROVE  Exclusive'
<1>1. \A i \in Ids : Pinned(i)' <=> Pinned(i)
  BY GentleRows DEF Types, Gentle
<1> SUFFICES ASSUME NEW c \in Calls, call'[c].pc \in OwnerSteps, ~Pinned(Id(c))'
             PROVE  /\ memory'[call'[c].id].state \notin Final
                    /\ \A d \in Calls : call'[d].pc \in OwnerSteps /\ call'[d].id = call'[c].id => d = c
  BY DEF Exclusive, Final, Id
<1> DEFINE i == call'[c].id
<1>2. i \in Ids /\ ~Pinned(i)
  BY <1>1 DEF Names, At, Id, OwnerSteps
(* An owner of i that was one before. *)
<1>3. ASSUME NEW d \in Calls, call[d].pc \in OwnerSteps, Id(d) = i
      PROVE  /\ memory[i].state \notin Final
             /\ \A e \in Calls : call[e].pc \in OwnerSteps /\ Id(e) = i => e = d
  BY <1>2, <1>3 DEF Exclusive, Final
<1>4. ASSUME NEW d \in Calls, call'[d].pc \in OwnerSteps, call'[d].id = i
      PROVE  \/ call[d].pc \in OwnerSteps /\ Id(d) = i
             \/ call'[d] # call[d] /\ memory[i].state = "none" /\ memory'[i].state \notin Final
  BY <1>4 DEF Gentle, HandlersKept, Follows, SameId, Id
<1>5. CASE call[c].pc \in OwnerSteps /\ Id(c) = i
  <2>1. memory[i].state \notin Final
        /\ \A e \in Calls : call[e].pc \in OwnerSteps /\ Id(e) = i => e = c
    BY <1>3, <1>5
  <2>2. memory'[i].state \notin Final
    BY <1>2, <2>1 DEF Gentle, RecordsKept
  <2>3. \A d \in Calls : call'[d].pc \in OwnerSteps /\ call'[d].id = i => d = c
    BY <1>4, <2>1 DEF Final
  <2> QED BY <2>2, <2>3
<1>6. CASE call'[c] # call[c] /\ memory[i].state = "none" /\ memory'[i].state \notin Final
  <2>1. ASSUME NEW d \in Calls, call'[d].pc \in OwnerSteps, call'[d].id = i
        PROVE  d = c
    <3>1. ~(call[d].pc \in OwnerSteps /\ Id(d) = i)
      BY <1>3, <1>6 DEF Final
    <3>2. call'[d] # call[d]
      BY <1>4, <2>1, <3>1
    <3> QED BY <1>6, <3>2 DEF Gentle, HandlersKept
  <2> QED BY <1>6, <2>1
<1> QED BY <1>4, <1>5, <1>6

LEMMA GentleClaims ==
  ASSUME Types, Types', Names, Names', Claims, Gentle
  PROVE  Claims'
<1>1. ASSUME NEW c \in Calls, call'[c].pc \in SenderSteps
      PROVE  call[c].pc \in SenderSteps /\ call'[c].id = call[c].id /\ Id(c) \in Ids
  BY <1>1 DEF Gentle, HandlersKept, Follows, SameId, Names, At, Id, SenderSteps
<1>2. ASSUME NEW c \in Calls, At(c, "claim")'
      PROVE  ledger'[Id(c)'].state = "none"
  <2>1. Id(c)' = call'[c].id /\ Id(c)' \in Ids /\ call'[c].pc = "claim"
    BY <1>2 DEF Names, At, Id
  <2>2. ledger[call'[c].id].state = "none"
    BY <2>1 DEF Gentle, HandlersKept, Follows, Claims, At, Id
  <2> QED BY <2>1, <2>2, GentleRows DEF Types, Gentle
<1>3. ASSUME NEW c \in Calls, call'[c].pc \in SenderSteps
      PROVE  /\ ~InFlight(Id(c))' /\ (cb'.pc = "idle" \/ cb'.id # Id(c)')
             /\ sent'[Id(c)'] <= reclaimed'[Id(c)']
             /\ \A d \in Calls : call'[d].pc \in SenderSteps /\ Id(d)' = Id(c)' => d = c
  <2>1. call[c].pc \in SenderSteps /\ Id(c)' = Id(c) /\ Id(c) \in Ids
    BY <1>1, <1>3 DEF Id
  <2>2. /\ ~InFlight(Id(c)) /\ (cb.pc = "idle" \/ cb.id # Id(c))
        /\ sent[Id(c)] <= reclaimed[Id(c)]
        /\ \A d \in Calls : call[d].pc \in SenderSteps /\ Id(d) = Id(c) => d = c
    BY <2>1 DEF Claims
  <2>3. ~InFlight(Id(c))' /\ (cb'.pc = "idle" \/ cb'.id # Id(c)')
    BY <2>1, <2>2 DEF Gentle, CallbackKept, InFlight
  <2>4. sent'[Id(c)'] <= reclaimed'[Id(c)']
    <3>1. reclaimed'[Id(c)] = reclaimed[Id(c)] \/ reclaimed'[Id(c)] = reclaimed[Id(c)] + 1
      BY <2>1 DEF Gentle, RowsKept
    <3> QED BY <2>1, <2>2, <3>1 DEF Gentle, Types, CountsTyped
  <2>5. \A d \in Calls : call'[d].pc \in SenderSteps /\ Id(d)' = Id(c)' => d = c
    BY <1>1, <2>1, <2>2 DEF Id
  <2> QED BY <2>3, <2>4, <2>5
<1>4. ASSUME NEW c \in Calls, At(c, "send")'
      PROVE  goals'[Id(c)'].there
  BY <1>1, <1>4 DEF Gentle, HandlersKept, Follows, Claims, At, Id, SenderSteps
<1>5. cb'.pc = "refused" => ~InFlight(cb.id)'
  BY DEF Gentle, CallbackKept, Claims, InFlight
<1> QED BY <1>2, <1>3, <1>4, <1>5 DEF Claims

LEMMA GentleCounts ==
  ASSUME Types, Types', Counts, Gentle
  PROVE  Counts'
<1> SUFFICES ASSUME NEW i \in Ids
             PROVE  sent'[i] <= reclaimed'[i] + (IF ledger'[i].state = "none" THEN 0 ELSE 1)
  BY DEF Counts
<1>1. /\ sent'[i] = sent[i] /\ sent[i] \in Nat /\ reclaimed[i] \in Nat
      /\ sent[i] <= reclaimed[i] + (IF ledger[i].state = "none" THEN 0 ELSE 1)
  BY DEF Gentle, Types, CountsTyped, Counts
<1>2. CASE ledger'[i] = ledger[i] /\ reclaimed'[i] = reclaimed[i]
  BY <1>1, <1>2
<1>3. CASE Pinned(i) /\ Pinned(i)' /\ reclaimed'[i] = reclaimed[i]
  BY <1>1, <1>3 DEF Pinned
<1>4. CASE Reclaimable(i) /\ ledger'[i].state = "none" /\ reclaimed'[i] = reclaimed[i] + 1
  BY <1>1, <1>4
<1> QED BY <1>2, <1>3, <1>4 DEF Gentle, RowsKept

(***************************************************************************)
(* Steps of the handlers: all are gentle but the claim, the emplacing of   *)
(* the goal and the dispatch.                                              *)
(***************************************************************************)
LEMMA PinFacts ==
  ASSUME Pins, NEW c \in Calls, NEW p \in PinSteps, At(c, p)
  PROVE  Pinned(Id(c))
BY DEF Pins, At, Id

LEMMA PutKeepsRows ==
  ASSUME LedgerTyped, NEW i \in Ids, NEW t \in Tasks \cup {NoTask}, NEW s \in Terminal,
         Put(i, t, s), Pinned(i), reclaimed' = reclaimed
  PROVE  RowsKept
<1>1. /\ ledger'[i].state = s /\ ledger'[i].old = FALSE
      /\ \A j \in Ids \ {i} : ledger'[j] = ledger[j]
  BY PutFacts
<1>2. Pinned(i)'
  BY <1>1, StateFacts DEF Pinned
<1> QED BY <1>1, <1>2 DEF RowsKept

LEMMA UpdateKeepsRecords ==
  ASSUME MemoryTyped, NEW i \in Ids, NEW s \in States, memory' = Update(memory, i, s), Pinned(i)
  PROVE  RecordsKept
BY UpdateFacts DEF RecordsKept

LEMMA GivingUpKeepsRecords ==
  ASSUME NEW c \in Calls, NEW p \in OwnerSteps, At(c, p), call'[c].pc \notin OwnerSteps,
         \A j \in Ids \ {Id(c)} : memory'[j] = memory[j]
  PROVE  RecordsKept
BY DEF RecordsKept, At

LEMMA OneHandler ==
  ASSUME NEW c \in Calls, \A d \in Calls \ {c} : call'[d] = call[d], Follows(c)
  PROVE  HandlersKept
BY DEF HandlersKept

LEMMA FollowsStep ==
  ASSUME Types, Names, Pins, NEW c \in Calls, CallNext(c), ~At(c, "send"),
         ~(EmplaceGoal(c) /\ Goto(c, "send")), ~(Claim(c) /\ Goto(c, "decide"))
  PROVE  Follows(c)
<1> USE StateFacts, BusyFacts, CallFacts
        DEF Types, Pins, Follows, SameId, Final, Pinned, Uncertain, CallSteps, OwnerSteps,
            SenderSteps, PinSteps, At, Id
<1>1. CASE \/ \E i \in Ids, t \in Tasks : SubmitWorkflow(c, i, t)
           \/ \E i \in Ids : CancelWorkflow(c, i)
  BY <1>1, StartFacts DEF SubmitWorkflow, CancelWorkflow
<1>2. CASE \E i \in Ids, s \in Terminal : ResolveUncertain(c, i, s)
  <2>1. PICK i \in Ids, s \in Terminal : ResolveUncertain(c, i, s)
    BY <1>2
  <2>2. call'[c].pc = "resolve" /\ call'[c].id = i
    <3>1. ledger[i].task \in Tasks \cup {NoTask}
      BY DEF LedgerTyped
    <3> QED BY <2>1, <3>1, StartFacts DEF ResolveUncertain
  <2>3. Pinned(i)
    BY <2>1 DEF ResolveUncertain
  <2> QED BY <2>2, <2>3
<1>3. CASE InsertKnown(c) \/ LookupWhenFull(c) \/ CheckHistory(c) \/ AdmitNew(c)
  BY <1>3, GotoFacts, FinishFacts DEF InsertKnown, LookupWhenFull, CheckHistory, AdmitNew
<1>4. CASE InsertNew(c)
  <2>1. Id(c) \in Ids /\ (Goto(c, "full") \/
          (Goto(c, "history") /\ ~Present(Id(c)) /\ memory'[Id(c)].state = "SUBMITTING"))
    BY <1>4, InsertNewFacts
  <2>2. CASE Goto(c, "full")
    BY <2>2, GotoFacts
  <2>3. CASE Goto(c, "history") /\ ~Present(Id(c)) /\ memory'[Id(c)].state = "SUBMITTING"
    <3>1. call'[c].pc = "history" /\ call'[c].id = Id(c)
      BY <2>3, GotoFacts
    <3> QED BY <2>1, <2>3, <3>1 DEF Present
  <2> QED BY <2>1, <2>2, <2>3
<1>5. CASE AdmitKnown(c)
  <2>1. Id(c) \in Ids
    BY <1>5, BusyFacts DEF AdmitKnown
  <2>2. CASE Finish(c)
    BY <1>5, <2>1, <2>2, FinishFacts DEF AdmitKnown
  <2>3. CASE /\ ledger[Id(c)].state # "none"
             /\ GotoWith(c, "apply", IF Uncertain(ledger[Id(c)].state) THEN "UNCERTAIN"
                                       ELSE ledger[Id(c)].state)
    <3>1. ledger[Id(c)].state \in Terminal \cup {"none", "ADMITTED"}
      BY <2>1 DEF LedgerTyped
    <3>2. /\ call'[c].pc = "apply" /\ call'[c].id = Id(c) /\ call'[c].task = Task(c)
          /\ call'[c].said \in Terminal \cup {"UNCERTAIN"}
          /\ \A d \in Calls \ {c} : call'[d] = call[d]
      BY <2>3, <3>1, GotoWithFacts DEF Uncertain, Id, Task
    <3> QED BY <1>5, <2>1, <3>2 DEF AdmitKnown
  <2> QED BY <1>5, <2>2, <2>3 DEF AdmitKnown
<1>6. CASE Claim(c) \/ Apply(c) \/ ReadRecord(c) \/ RejectOnDisk(c)
  BY <1>6, GotoFacts, FinishFacts DEF Claim, Apply, ReadRecord, RejectOnDisk
<1>7. CASE Decide(c) \/ SendGoal(c)
  BY <1>7, GotoFacts, FinishFacts, GotoWithFacts DEF Decide, SendGoal, RejectInMemory
<1>8. CASE EmplaceGoal(c)
  <2>1. RejectInMemory(c, "UNAVAILABLE")
    BY <1>8, EmplaceGoalFacts
  <2> QED BY <1>8, <2>1, GotoWithFacts DEF EmplaceGoal, RejectInMemory
<1>9. CASE AwaitResponse(c) \/ Settle(c) \/ RequestCancel(c) \/ AnswerCancel(c)
  BY <1>9, GotoFacts, FinishFacts DEF AwaitResponse, Settle, RequestCancel, AnswerCancel
<1>10. CASE TimeOut(c)
  BY <1>10, GotoFacts, FinishFacts, GotoWithFacts DEF TimeOut
<1>11. CASE DispatchCancel(c) \/ CancelDispatched(c)
  BY <1>11, GotoFacts, FinishFacts DEF DispatchCancel, CancelDispatched, CancelIsOut
<1>12. CASE ResolveOnDisk(c) \/ ResolveInMemory(c)
  BY <1>12, GotoFacts, FinishFacts DEF ResolveOnDisk, ResolveInMemory
<1> QED BY <1>1, <1>2, <1>3, <1>4, <1>5, <1>6, <1>7, <1>8, <1>9, <1>10, <1>11, <1>12 DEF CallNext

LEMMA OthersStep ==
  ASSUME Types, Names, NEW c \in Calls, CallNext(c)
  PROVE  \A d \in Calls \ {c} : call'[d] = call[d]
<1> USE StateFacts DEF Types, CallSteps
<1>1. CASE \/ \E i \in Ids, t \in Tasks : SubmitWorkflow(c, i, t)
           \/ \E i \in Ids : CancelWorkflow(c, i)
  BY <1>1, StartFacts DEF SubmitWorkflow, CancelWorkflow
<1>2. CASE \E i \in Ids, s \in Terminal : ResolveUncertain(c, i, s)
  BY <1>2, StartFacts DEF ResolveUncertain, LedgerTyped
<1>3. CASE \/ InsertKnown(c) \/ InsertNew(c) \/ LookupWhenFull(c) \/ CheckHistory(c)
           \/ AdmitNew(c) \/ Claim(c) \/ Apply(c) \/ ReadRecord(c) \/ RejectOnDisk(c)
           \/ AwaitResponse(c) \/ Settle(c) \/ RequestCancel(c) \/ AnswerCancel(c)
           \/ ResolveOnDisk(c) \/ ResolveInMemory(c)
  BY <1>3, GotoFacts, FinishFacts
     DEF InsertKnown, InsertNew, LookupWhenFull, CheckHistory, AdmitNew, Claim, Apply,
         ReadRecord, RejectOnDisk, AwaitResponse, Settle, RequestCancel, AnswerCancel,
         ResolveOnDisk, ResolveInMemory
<1>4. CASE AdmitKnown(c)
  BY <1>4, GotoFacts, FinishFacts, GotoWithFacts DEF AdmitKnown, Uncertain
<1>5. CASE Decide(c) \/ EmplaceGoal(c) \/ SendGoal(c)
  BY <1>5, GotoFacts, FinishFacts, GotoWithFacts
     DEF Decide, EmplaceGoal, SendGoal, RejectInMemory
<1>6. CASE TimeOut(c)
  BY <1>6, GotoFacts, FinishFacts, GotoWithFacts DEF TimeOut
<1>7. CASE DispatchCancel(c) \/ CancelDispatched(c)
  BY <1>7, GotoFacts, FinishFacts DEF DispatchCancel, CancelDispatched, CancelIsOut
<1> QED BY <1>1, <1>2, <1>3, <1>4, <1>5, <1>6, <1>7 DEF CallNext

LEMMA GoalsKeptStep ==
  ASSUME Types, Names, Pins, NEW c \in Calls, CallNext(c), ~At(c, "send"),
         ~(EmplaceGoal(c) /\ Goto(c, "send")), ~(Claim(c) /\ Goto(c, "decide"))
  PROVE  \A i \in Ids : goals'[i].there <=> goals[i].there
<1> USE StateFacts, BusyFacts DEF Types, CallSteps, SenderSteps
<1>1. CASE \/ \E i \in Ids, t \in Tasks : SubmitWorkflow(c, i, t)
           \/ \E i \in Ids : CancelWorkflow(c, i)
           \/ \E i \in Ids, s \in Terminal : ResolveUncertain(c, i, s)
           \/ InsertKnown(c) \/ InsertNew(c) \/ LookupWhenFull(c) \/ CheckHistory(c)
           \/ AdmitKnown(c) \/ AdmitNew(c) \/ Claim(c) \/ Apply(c) \/ ReadRecord(c)
           \/ Decide(c) \/ RejectOnDisk(c) \/ SendGoal(c) \/ AwaitResponse(c) \/ Settle(c)
           \/ AnswerCancel(c) \/ ResolveOnDisk(c) \/ ResolveInMemory(c)
  BY <1>1
     DEF SubmitWorkflow, CancelWorkflow, ResolveUncertain, InsertKnown, InsertNew,
         LookupWhenFull, CheckHistory, AdmitKnown, AdmitNew, Claim, Apply, ReadRecord,
         Decide, RejectOnDisk, SendGoal, AwaitResponse, Settle, AnswerCancel,
         ResolveOnDisk, ResolveInMemory
<1>2. CASE EmplaceGoal(c)
  BY <1>2, EmplaceGoalFacts DEF EmplaceGoal, RejectInMemory
<1>3. CASE TimeOut(c) \/ RequestCancel(c)
  BY <1>3, CancelReqFacts DEF TimeOut, RequestCancel
<1>4. CASE DispatchCancel(c)
  BY <1>4, MarkCancelFacts DEF DispatchCancel
<1>5. CASE CancelDispatched(c)
  BY <1>5, CancelThrowsFacts DEF CancelDispatched
<1> QED BY <1>1, <1>2, <1>3, <1>4, <1>5 DEF CallNext

LEMMA QuietStep ==
  ASSUME Types, Names, Pins, NEW c \in Calls, CallNext(c), ~At(c, "send"),
         ~(EmplaceGoal(c) /\ Goto(c, "send")), ~(Claim(c) /\ Goto(c, "decide"))
  PROVE  UNCHANGED <<flight, sent, cb>>
<1> USE DEF history
<1>1. CASE \/ \E i \in Ids, t \in Tasks : SubmitWorkflow(c, i, t)
           \/ \E i \in Ids : CancelWorkflow(c, i)
           \/ \E i \in Ids, s \in Terminal : ResolveUncertain(c, i, s)
           \/ InsertKnown(c) \/ InsertNew(c) \/ LookupWhenFull(c) \/ CheckHistory(c)
           \/ AdmitKnown(c) \/ AdmitNew(c) \/ Claim(c) \/ Apply(c) \/ ReadRecord(c)
           \/ Decide(c) \/ RejectOnDisk(c) \/ EmplaceGoal(c) \/ SendGoal(c)
           \/ AwaitResponse(c) \/ Settle(c) \/ TimeOut(c) \/ DispatchCancel(c)
           \/ CancelDispatched(c) \/ RequestCancel(c) \/ AnswerCancel(c) \/ ResolveOnDisk(c)
           \/ ResolveInMemory(c)
  BY <1>1
     DEF SubmitWorkflow, CancelWorkflow, ResolveUncertain, InsertKnown, InsertNew,
         LookupWhenFull, CheckHistory, AdmitKnown, AdmitNew, Claim, Apply, ReadRecord,
         Decide, RejectOnDisk, EmplaceGoal, SendGoal, AwaitResponse, Settle, TimeOut,
         DispatchCancel, CancelDispatched, RequestCancel, AnswerCancel, ResolveOnDisk,
         ResolveInMemory
<1> QED BY <1>1 DEF CallNext

LEMMA RowsKeptStep ==
  ASSUME Types, Names, Pins, NEW c \in Calls, CallNext(c), ~At(c, "send"),
         ~(EmplaceGoal(c) /\ Goto(c, "send")), ~(Claim(c) /\ Goto(c, "decide"))
  PROVE  RowsKept
<1> USE StateFacts, BusyFacts, CallFacts
        DEF Types, Pins, RowsKept, Pinned, CallSteps, SenderSteps, PinSteps, At, Id, history
<1>1. CASE \/ \E i \in Ids, t \in Tasks : SubmitWorkflow(c, i, t)
           \/ \E i \in Ids : CancelWorkflow(c, i)
           \/ \E i \in Ids, s \in Terminal : ResolveUncertain(c, i, s)
           \/ InsertKnown(c) \/ InsertNew(c) \/ LookupWhenFull(c) \/ CheckHistory(c)
           \/ AdmitKnown(c) \/ Apply(c) \/ ReadRecord(c) \/ Decide(c) \/ EmplaceGoal(c)
           \/ SendGoal(c) \/ AwaitResponse(c) \/ Settle(c) \/ TimeOut(c)
           \/ DispatchCancel(c) \/ CancelDispatched(c) \/ RequestCancel(c)
           \/ AnswerCancel(c) \/ ResolveInMemory(c)
  BY <1>1
     DEF SubmitWorkflow, CancelWorkflow, ResolveUncertain, InsertKnown, InsertNew,
         LookupWhenFull, CheckHistory, AdmitKnown, Apply, ReadRecord, Decide, EmplaceGoal,
         SendGoal, AwaitResponse, Settle, TimeOut, DispatchCancel, CancelDispatched,
         RequestCancel, AnswerCancel, ResolveInMemory
<1>2. CASE AdmitNew(c)
  BY <1>2, PruneFacts DEF AdmitNew
<1>3. CASE Claim(c)
  BY <1>3, PutFacts DEF Claim
<1>4. CASE RejectOnDisk(c)
  <2>1. Id(c) \in Ids /\ Task(c) \in Tasks \cup {NoTask} /\ Pinned(Id(c)) 
    BY <1>4, BusyFacts, PinFacts DEF RejectOnDisk
  <2>2. CASE ledger' = ledger
    BY <1>4, <2>2 DEF RejectOnDisk, RowsKept, history
  <2>3. CASE Put(Id(c), Task(c), "REJECTED")
    BY <1>4, <2>1, <2>3, StateFacts, PutKeepsRows DEF RejectOnDisk
  <2> QED BY <1>4, <2>2, <2>3 DEF RejectOnDisk, Complete
<1>5. CASE ResolveOnDisk(c)
  <2>1. Id(c) \in Ids /\ Task(c) \in Tasks \cup {NoTask} /\ Pinned(Id(c)) /\ call[c].said \in Terminal
    BY <1>5, BusyFacts, PinFacts DEF ResolveOnDisk
  <2>2. CASE ledger' = ledger
    BY <1>5, <2>2 DEF ResolveOnDisk, RowsKept, history
  <2>3. CASE Put(Id(c), Task(c), call[c].said)
    BY <1>5, <2>1, <2>3, StateFacts, PutKeepsRows DEF ResolveOnDisk
  <2> QED BY <1>5, <2>2, <2>3 DEF ResolveOnDisk
<1> QED BY <1>1, <1>2, <1>3, <1>4, <1>5 DEF CallNext

LEMMA RecordsKeptStep ==
  ASSUME Types, Names, Pins, NEW c \in Calls, CallNext(c), ~At(c, "send"),
         ~(EmplaceGoal(c) /\ Goto(c, "send")), ~(Claim(c) /\ Goto(c, "decide"))
  PROVE  RecordsKept
<1> USE StateFacts, BusyFacts
        DEF Types, Pins, RecordsKept, Final, CallSteps, OwnerSteps, SenderSteps, PinSteps
<1>1. CASE \/ \E i \in Ids, t \in Tasks : SubmitWorkflow(c, i, t)
           \/ \E i \in Ids : CancelWorkflow(c, i)
           \/ \E i \in Ids, s \in Terminal : ResolveUncertain(c, i, s)
           \/ InsertKnown(c) \/ LookupWhenFull(c) \/ ReadRecord(c) \/ RejectOnDisk(c)
           \/ SendGoal(c) \/ AwaitResponse(c) \/ Settle(c) \/ DispatchCancel(c)
           \/ AnswerCancel(c) \/ ResolveOnDisk(c)
  BY <1>1
     DEF SubmitWorkflow, CancelWorkflow, ResolveUncertain, InsertKnown, LookupWhenFull,
         ReadRecord, RejectOnDisk, SendGoal, AwaitResponse, Settle, DispatchCancel,
         AnswerCancel, ResolveOnDisk
<1>2. CASE InsertNew(c)
  BY <1>2, InsertNewFacts DEF InsertNew
<1>3. CASE CheckHistory(c)
  <2>1. Id(c) \in Ids
    BY <1>3, BusyFacts DEF CheckHistory
  <2>2. CASE memory' = memory
    BY <2>2 DEF RecordsKept
  <2>3. CASE Finish(c) /\ Erase(Id(c))
    <3>1. call'[c].pc = "idle" /\ \A j \in Ids \ {Id(c)} : memory'[j] = memory[j]
      BY <2>1, <2>3, FinishFacts, EraseFacts
    <3> QED BY <1>3, <3>1, GivingUpKeepsRecords DEF CheckHistory
  <2> QED BY <1>3, <2>2, <2>3 DEF CheckHistory
<1>4. CASE AdmitKnown(c)
  <2>1. Id(c) \in Ids
    BY <1>4, BusyFacts DEF AdmitKnown
  <2>2. CASE memory' = memory
    BY <2>2 DEF RecordsKept
  <2>3. CASE Finish(c) /\ Erase(Id(c))
    <3>1. call'[c].pc = "idle" /\ \A j \in Ids \ {Id(c)} : memory'[j] = memory[j]
      BY <2>1, <2>3, FinishFacts, EraseFacts
    <3> QED BY <1>4, <3>1, GivingUpKeepsRecords DEF AdmitKnown
  <2> QED BY <1>4, <2>2, <2>3 DEF AdmitKnown
<1>5. CASE AdmitNew(c)
  <2>1. Id(c) \in Ids
    BY <1>5, BusyFacts DEF AdmitNew
  <2>2. CASE memory' = memory
    BY <2>2 DEF RecordsKept
  <2>3. CASE Finish(c) /\ Erase(Id(c))
    <3>1. call'[c].pc = "idle" /\ \A j \in Ids \ {Id(c)} : memory'[j] = memory[j]
      BY <2>1, <2>3, FinishFacts, EraseFacts
    <3> QED BY <1>5, <3>1, GivingUpKeepsRecords DEF AdmitNew
  <2> QED BY <1>5, <2>2, <2>3 DEF AdmitNew
<1>6. CASE Claim(c)
  <2>1. Id(c) \in Ids
    BY <1>6, BusyFacts DEF Claim
  <2>2. CASE memory' = memory
    BY <2>2 DEF RecordsKept
  <2>3. CASE Finish(c) /\ Erase(Id(c))
    <3>1. call'[c].pc = "idle" /\ \A j \in Ids \ {Id(c)} : memory'[j] = memory[j]
      BY <2>1, <2>3, FinishFacts, EraseFacts
    <3> QED BY <1>6, <3>1, GivingUpKeepsRecords DEF Claim
  <2> QED BY <1>6, <2>2, <2>3 DEF Claim
<1>7. CASE Apply(c)
  <2>1. Id(c) \in Ids /\ call[c].said \in States
    BY <1>7, BusyFacts DEF Apply
  <2>2. call'[c].pc = "read" /\ \A j \in Ids \ {Id(c)} : memory'[j] = memory[j]
    BY <1>7, <2>1, GotoFacts, UpdateFacts DEF Apply
  <2> QED BY <1>7, <2>2, GivingUpKeepsRecords DEF Apply
<1>8. CASE Decide(c)
  <2>1. Id(c) \in Ids /\ Pinned(Id(c))
    BY <1>8, BusyFacts, PinFacts DEF Decide
  <2>2. CASE memory' = memory
    BY <2>2 DEF RecordsKept
  <2>3. CASE memory' = Update(memory, Id(c), "REJECTED")
    BY <2>1, <2>3, StateFacts, UpdateKeepsRecords
  <2> QED BY <1>8, <2>2, <2>3 DEF Decide, RejectInMemory
<1>9. CASE EmplaceGoal(c)
  <2>1. Id(c) \in Ids /\ Pinned(Id(c))
    BY <1>9, BusyFacts, PinFacts DEF EmplaceGoal
  <2>2. CASE memory' = memory
    BY <2>2 DEF RecordsKept
  <2>3. CASE memory' = Update(memory, Id(c), "REJECTED")
    BY <2>1, <2>3, StateFacts, UpdateKeepsRecords
  <2> QED BY <1>9, <2>2, <2>3 DEF EmplaceGoal, RejectInMemory
<1>10. CASE TimeOut(c) \/ RequestCancel(c)
  BY <1>10, UpdateFacts DEF TimeOut, RequestCancel
<1>11. CASE CancelDispatched(c)
  BY <1>11, CancelThrowsFacts DEF CancelDispatched, Soft
<1>12. CASE ResolveInMemory(c)
  <2>1. Id(c) \in Ids /\ Pinned(Id(c)) /\ call[c].said \in Terminal
    BY <1>12, BusyFacts, PinFacts DEF ResolveInMemory
  <2>2. CASE memory' = memory
    BY <2>2 DEF RecordsKept
  <2>3. CASE memory' = Update(memory, Id(c), call[c].said)
    BY <2>1, <2>3, StateFacts, UpdateKeepsRecords
  <2> QED BY <1>12, <2>2, <2>3 DEF ResolveInMemory
<1> QED BY <1>1, <1>2, <1>3, <1>4, <1>5, <1>6, <1>7, <1>8, <1>9, <1>10, <1>11, <1>12 DEF CallNext

(***************************************************************************)
(* Steps of the action client's callbacks.                                 *)
(***************************************************************************)
LEMMA HandleFacts ==
  ASSUME GoalsTyped, NEW i \in Ids
  PROVE  LET g == [goals EXCEPT ![i].handle = TRUE]
         IN  /\ g \in [Ids -> [there: BOOLEAN, task: Tasks \cup {NoTask}, handle: BOOLEAN,
                               cancelReq: BOOLEAN, cancelSent: BOOLEAN, cancelFailed: BOOLEAN]]
             /\ \A j \in Ids : g[j].there <=> goals[j].there
<1> DEFINE g == [goals EXCEPT ![i].handle = TRUE]
<1>1. g \in [Ids -> [there: BOOLEAN, task: Tasks \cup {NoTask}, handle: BOOLEAN,
                    cancelReq: BOOLEAN, cancelSent: BOOLEAN, cancelFailed: BOOLEAN]]
  BY DEF GoalsTyped
<1>2. \A j \in Ids : g[j].there <=> goals[j].there
  BY DEF GoalsTyped
<1> QED BY <1>1, <1>2

LEMMA CancelActiveFacts ==
  ASSUME GoalsTyped, MemoryTyped, CancelActive
  PROVE  /\ GoalsTyped' /\ MemoryTyped' /\ Soft
         /\ \A j \in Ids : goals'[j].there <=> goals[j].there
<1>1. GoalsTyped'
  BY DEF CancelActive, GoalsTyped
<1>2. MemoryTyped'
  BY StateFacts DEF CancelActive, MemoryTyped
<1>3. Soft
  BY StateFacts DEF CancelActive, MemoryTyped, Soft, Present
<1>4. \A j \in Ids : goals'[j].there <=> goals[j].there
  BY DEF CancelActive, GoalsTyped
<1> QED BY <1>1, <1>2, <1>3, <1>4

LEMMA CallbackFacts ==
  ASSUME CallbackTyped, Names, cb.pc # "idle"
  PROVE  cb.id \in Ids /\ cb.task \in Tasks \cup {NoTask}
         /\ (cb.pc = "complete" => cb.said \in Outcomes)
BY DEF CallbackTyped, Names

LEMMA OutcomeFacts ==
  ASSUME NEW o \in Outcomes \cup {"lost"}
  PROVE  StateForOutcome(o) \in Outcomes
BY GatewayAssumption DEF StateForOutcome

LEMMA ClientMemory ==
  ASSUME Types, Names, ClientNext
  PROVE  MemoryTyped'
<1> USE StateFacts, CallbackFacts DEF Types
<1>1. CASE \/ \E i \in Ids : GoalResponse(i)
           \/ CallbackCancel \/ RefusedCallback \/ RefuseOnDisk \/ ResultOnDisk
  BY <1>1
     DEF GoalResponse, CallbackCancel, RefusedCallback, RefuseOnDisk, ResultOnDisk,
         MemoryTyped
<1>2. CASE \E i \in Ids, o \in Outcomes \cup {"lost"} : ResultCallback(i, o)
  BY <1>2, UpdateFacts, OutcomeFacts DEF ResultCallback, MemoryTyped
<1>3. CASE AcceptedCallback \/ RefuseInMemory
  BY <1>3, UpdateFacts DEF AcceptedCallback, RefuseInMemory, MemoryTyped
<1>4. CASE CallbackCancelDispatched
  BY <1>4, CancelThrowsFacts DEF CallbackCancelDispatched, MemoryTyped
<1> QED BY <1>1, <1>2, <1>3, <1>4 DEF ClientNext

LEMMA ClientGoals ==
  ASSUME Types, Names, ClientNext
  PROVE  GoalsTyped'
<1> USE StateFacts, CallbackFacts DEF Types
<1>1. CASE \/ \E i \in Ids : GoalResponse(i)
           \/ RefuseOnDisk \/ RefuseInMemory \/ ResultOnDisk
  BY <1>1 DEF GoalResponse, RefuseOnDisk, RefuseInMemory, ResultOnDisk, GoalsTyped
<1>2. CASE \/ \E i \in Ids, o \in Outcomes \cup {"lost"} : ResultCallback(i, o)
           \/ RefusedCallback
  BY <1>2, NoGoalFacts DEF ResultCallback, RefusedCallback, GoalsTyped
<1>3. CASE AcceptedCallback
  BY <1>3, HandleFacts DEF AcceptedCallback, GoalsTyped
<1>4. CASE CallbackCancel
  BY <1>4, MarkCancelFacts DEF CallbackCancel, GoalsTyped
<1>5. CASE CallbackCancelDispatched
  BY <1>5, CancelThrowsFacts DEF CallbackCancelDispatched, GoalsTyped
<1> QED BY <1>1, <1>2, <1>3, <1>4, <1>5 DEF ClientNext

LEMMA ClientCallback ==
  ASSUME Types, Names, ClientNext
  PROVE  CallbackTyped'
<1> USE StateFacts, CallbackFacts DEF Types, CallbackTyped, CallbackSteps, Callback, Idle
<1>1. CASE \/ \E i \in Ids : GoalResponse(i)
           \/ AcceptedCallback \/ CallbackCancel \/ CallbackCancelDispatched \/ RefuseOnDisk
           \/ RefuseInMemory \/ ResultOnDisk
  BY <1>1
     DEF GoalResponse, AcceptedCallback, CallbackCancel, CallbackCancelDispatched,
         RefuseOnDisk, RefuseInMemory, ResultOnDisk
<1>2. CASE \E i \in Ids, o \in Outcomes \cup {"lost"} : ResultCallback(i, o)
  BY <1>2, OutcomeFacts DEF ResultCallback, GoalsTyped
<1>3. CASE RefusedCallback
  BY <1>3 DEF RefusedCallback, GoalsTyped
<1> QED BY <1>1, <1>2, <1>3 DEF ClientNext

LEMMA ClientLedger ==
  ASSUME Types, Names, ClientNext
  PROVE  LedgerTyped'
<1> USE StateFacts, CallbackFacts DEF Types
<1>1. CASE \/ \E i \in Ids : GoalResponse(i)
           \/ \E i \in Ids, o \in Outcomes \cup {"lost"} : ResultCallback(i, o)
           \/ AcceptedCallback \/ CallbackCancel \/ CallbackCancelDispatched
           \/ RefusedCallback \/ RefuseInMemory
  BY <1>1
     DEF GoalResponse, ResultCallback, AcceptedCallback, CallbackCancel,
         CallbackCancelDispatched, RefusedCallback, RefuseInMemory, LedgerTyped
<1>2. CASE RefuseOnDisk \/ ResultOnDisk
  BY <1>2, PutFacts DEF RefuseOnDisk, ResultOnDisk, LedgerTyped, Complete
<1> QED BY <1>1, <1>2 DEF ClientNext

LEMMA ClientRest ==
  ASSUME Types, Names, ClientNext
  PROVE  CallTyped' /\ FlightTyped' /\ CountsTyped'
<1> USE DEF Types, CallTyped, FlightTyped, CountsTyped, history
<1>1. CASE \/ \E i \in Ids : GoalResponse(i)
           \/ \E i \in Ids, o \in Outcomes \cup {"lost"} : ResultCallback(i, o)
           \/ AcceptedCallback \/ CallbackCancel \/ CallbackCancelDispatched
           \/ RefusedCallback \/ RefuseOnDisk \/ RefuseInMemory \/ ResultOnDisk
  BY <1>1
     DEF GoalResponse, ResultCallback, AcceptedCallback, CallbackCancel,
         CallbackCancelDispatched, RefusedCallback, RefuseOnDisk, RefuseInMemory,
         ResultOnDisk
<1> QED BY <1>1 DEF ClientNext

LEMMA ClientNames ==
  ASSUME Types, Names, ClientNext
  PROVE  Names'
<1> USE StateFacts DEF Types, CallbackTyped, Names, Callback, Idle, At, Id, Task
<1>1. CASE \E i \in Ids : GoalResponse(i)
  BY <1>1 DEF GoalResponse
<1>2. CASE \E i \in Ids, o \in Outcomes \cup {"lost"} : ResultCallback(i, o)
  BY <1>2, OutcomeFacts DEF ResultCallback
<1>3. CASE AcceptedCallback
  BY <1>3 DEF AcceptedCallback
<1>4. CASE CallbackCancel
  BY <1>4 DEF CallbackCancel
<1>5. CASE CallbackCancelDispatched
  BY <1>5 DEF CallbackCancelDispatched
<1>6. CASE RefusedCallback
  BY <1>6 DEF RefusedCallback
<1>7. CASE RefuseOnDisk
  BY <1>7 DEF RefuseOnDisk
<1>8. CASE RefuseInMemory
  BY <1>8 DEF RefuseInMemory
<1>9. CASE ResultOnDisk
  BY <1>9 DEF ResultOnDisk
<1> QED BY <1>1, <1>2, <1>3, <1>4, <1>5, <1>6, <1>7, <1>8, <1>9 DEF ClientNext

(***************************************************************************)
(* Steps of main, and the gentle steps of the callbacks.                   *)
(***************************************************************************)
LEMMA MainMemory ==
  ASSUME Types, Names, MainNext
  PROVE  MemoryTyped'
<1> USE StateFacts DEF Types
<1>1. CASE \/ \E i \in Ids : MainCancel(i)
           \/ StopAccepting \/ Drain
  BY <1>1 DEF StopAccepting, Drain, MainCancel, MemoryTyped
<1>2. CASE CancelActive
  BY <1>2, CancelActiveFacts DEF CancelActive, MemoryTyped
<1>3. CASE MainCancelDispatched
  BY <1>3, CancelThrowsFacts DEF MainCancelDispatched, MemoryTyped, Names
<1>4. CASE Exit
  BY <1>4 DEF Exit, MemoryTyped, NoRecord
<1> QED BY <1>1, <1>2, <1>3, <1>4 DEF MainNext

LEMMA MainGoals ==
  ASSUME Types, Names, MainNext
  PROVE  GoalsTyped'
<1> USE StateFacts DEF Types
<1>1. CASE StopAccepting \/ Drain \/ Exit
  BY <1>1 DEF StopAccepting, Drain, Exit, GoalsTyped
<1>2. CASE CancelActive
  BY <1>2, CancelActiveFacts DEF CancelActive, GoalsTyped
<1>3. CASE MainCancelDispatched
  BY <1>3, CancelThrowsFacts DEF MainCancelDispatched, GoalsTyped, Names
<1>4. CASE \E i \in Ids : MainCancel(i)
  BY <1>4, MarkCancelFacts DEF MainCancel, GoalsTyped
<1> QED BY <1>1, <1>2, <1>3, <1>4 DEF MainNext

LEMMA MainRest ==
  ASSUME Types, Names, MainNext
  PROVE  CallTyped' /\ CallbackTyped' /\ FlightTyped' /\ LedgerTyped' /\ CountsTyped'
<1> USE DEF Types, CallTyped, CallbackTyped, FlightTyped, LedgerTyped, CountsTyped, history
<1>1. CASE \/ \E i \in Ids : MainCancel(i)
           \/ StopAccepting \/ CancelActive \/ MainCancelDispatched \/ Drain \/ Exit
  BY <1>1 DEF StopAccepting, CancelActive, MainCancelDispatched, Drain, Exit, MainCancel
<1> QED BY <1>1 DEF MainNext

LEMMA MainNames ==
  ASSUME Types, Names, MainNext
  PROVE  Names'
<1> USE DEF Types, Names, MainSteps, GoalsTyped, At, Id, Task
<1>1. CASE StopAccepting
  BY <1>1 DEF StopAccepting
<1>2. CASE CancelActive
  BY <1>2 DEF CancelActive
<1>3. CASE MainCancelDispatched
  BY <1>3 DEF MainCancelDispatched
<1>4. CASE Drain
  BY <1>4 DEF Drain
<1>5. CASE Exit
  BY <1>5 DEF Exit
<1>6. CASE \E i \in Ids : MainCancel(i)
  BY <1>6 DEF MainCancel
<1> QED BY <1>1, <1>2, <1>3, <1>4, <1>5, <1>6 DEF MainNext

GentleClient ==
  \/ AcceptedCallback \/ CallbackCancel \/ CallbackCancelDispatched
  \/ RefuseOnDisk \/ RefuseInMemory \/ ResultOnDisk
GentleMain ==
  \/ StopAccepting \/ CancelActive \/ MainCancelDispatched \/ Drain
  \/ \E i \in Ids : MainCancel(i)

LEMMA SoftKeepsRecords ==
  ASSUME Soft PROVE RecordsKept
BY DEF Soft, RecordsKept, Final

LEMMA ClientGoalsKept ==
  ASSUME Types, Names, Pins, GentleClient
  PROVE  \A i \in Ids : goals'[i].there <=> goals[i].there
<1> USE CallbackFacts DEF Types
<1>1. CASE AcceptedCallback
  BY <1>1, HandleFacts DEF AcceptedCallback
<1>2. CASE CallbackCancel
  BY <1>2, MarkCancelFacts DEF CallbackCancel
<1>3. CASE CallbackCancelDispatched
  BY <1>3, CancelThrowsFacts DEF CallbackCancelDispatched
<1>4. CASE RefuseOnDisk \/ RefuseInMemory \/ ResultOnDisk
  BY <1>4 DEF RefuseOnDisk, RefuseInMemory, ResultOnDisk
<1> QED BY <1>1, <1>2, <1>3, <1>4 DEF GentleClient

LEMMA ClientRowsKept ==
  ASSUME Types, Names, Pins, GentleClient
  PROVE  RowsKept
<1> USE DEF Types, RowsKept, history
<1>1. CASE \/ AcceptedCallback \/ CallbackCancel \/ CallbackCancelDispatched
           \/ RefuseInMemory
  BY <1>1 DEF AcceptedCallback, CallbackCancel, CallbackCancelDispatched, RefuseInMemory
<1>2. CASE RefuseOnDisk
  <2>1. cb.id \in Ids /\ cb.task \in Tasks \cup {NoTask} /\ Pinned(cb.id) /\ "REJECTED" \in Terminal
    BY <1>2, CallbackFacts, StateFacts DEF RefuseOnDisk, Pins
  <2>2. CASE Put(cb.id, cb.task, "REJECTED")
    BY <1>2, <2>1, <2>2, PutKeepsRows DEF RefuseOnDisk
  <2>3. CASE ledger' = ledger
    BY <1>2, <2>3 DEF RefuseOnDisk, RowsKept
  <2> QED BY <1>2, <2>2, <2>3 DEF RefuseOnDisk, Complete
<1>3. CASE ResultOnDisk
  <2>1. cb.id \in Ids /\ cb.task \in Tasks \cup {NoTask} /\ Pinned(cb.id) /\ cb.said \in Terminal
    BY <1>3, CallbackFacts, StateFacts DEF ResultOnDisk, Pins
  <2>2. CASE Put(cb.id, cb.task, cb.said)
    BY <1>3, <2>1, <2>2, PutKeepsRows DEF ResultOnDisk
  <2>3. CASE ledger' = ledger
    BY <1>3, <2>3 DEF ResultOnDisk, RowsKept
  <2> QED BY <1>3, <2>2, <2>3 DEF ResultOnDisk, Complete
<1> QED BY <1>1, <1>2, <1>3 DEF GentleClient

LEMMA ClientRecordsKept ==
  ASSUME Types, Names, Pins, GentleClient
  PROVE  RecordsKept
<1> USE StateFacts, CallbackFacts DEF Types
<1>1. CASE AcceptedCallback
  <2>1. CASE memory' = memory
    BY <2>1 DEF RecordsKept
  <2>2. ASSUME NEW s \in {"CANCELING", "RUNNING"}, memory' = Update(memory, cb.id, s)
        PROVE  Soft
    BY <1>1, <2>2, UpdateFacts DEF Soft, AcceptedCallback
  <2> QED BY <1>1, <2>1, <2>2, SoftKeepsRecords DEF AcceptedCallback
<1>2. CASE CallbackCancel \/ RefuseOnDisk \/ ResultOnDisk
  BY <1>2 DEF CallbackCancel, RefuseOnDisk, ResultOnDisk, RecordsKept
<1>3. CASE CallbackCancelDispatched
  <2>1. CASE memory' = memory
    BY <2>1 DEF RecordsKept
  <2> QED BY <1>3, <2>1, CancelThrowsFacts, SoftKeepsRecords DEF CallbackCancelDispatched
<1>4. CASE RefuseInMemory
  <2>1. cb.id \in Ids /\ Pinned(cb.id)
    BY <1>4 DEF RefuseInMemory, Pins
  <2> QED BY <1>4, <2>1, UpdateKeepsRecords DEF RefuseInMemory
<1> QED BY <1>1, <1>2, <1>3, <1>4 DEF GentleClient

LEMMA ClientGentle ==
  ASSUME Types, Names, Pins, GentleClient
  PROVE  UNCHANGED <<flight, sent, call>> /\ CallbackKept
<1> USE DEF history, CallbackKept, Idle, Types, CallbackTyped
<1>1. CASE \/ AcceptedCallback \/ CallbackCancel \/ CallbackCancelDispatched \/ RefuseOnDisk
           \/ RefuseInMemory \/ ResultOnDisk
  BY <1>1
     DEF AcceptedCallback, CallbackCancel, CallbackCancelDispatched, RefuseOnDisk,
         RefuseInMemory, ResultOnDisk
<1> QED BY <1>1 DEF GentleClient

LEMMA MainGoalsKept ==
  ASSUME Types, Names, GentleMain
  PROVE  \A i \in Ids : goals'[i].there <=> goals[i].there
<1> USE DEF Types
<1>1. CASE StopAccepting \/ Drain
  BY <1>1 DEF StopAccepting, Drain
<1>2. CASE CancelActive
  BY <1>2, CancelActiveFacts DEF CancelActive
<1>3. CASE MainCancelDispatched
  BY <1>3, CancelThrowsFacts DEF MainCancelDispatched, Names
<1>4. CASE \E i \in Ids : MainCancel(i)
  BY <1>4, MarkCancelFacts DEF MainCancel
<1> QED BY <1>1, <1>2, <1>3, <1>4 DEF GentleMain

LEMMA MainRecordsKept ==
  ASSUME Types, Names, GentleMain
  PROVE  RecordsKept
<1> USE StateFacts DEF Types
<1>1. CASE \/ \E i \in Ids : MainCancel(i)
           \/ StopAccepting \/ Drain
  BY <1>1 DEF StopAccepting, Drain, MainCancel, RecordsKept
<1>2. CASE CancelActive
  BY <1>2, CancelActiveFacts, SoftKeepsRecords
<1>3. CASE MainCancelDispatched
  <2>1. CASE memory' = memory
    BY <2>1 DEF RecordsKept
  <2> QED BY <1>3, <2>1, CancelThrowsFacts, SoftKeepsRecords DEF MainCancelDispatched, Names
<1> QED BY <1>1, <1>2, <1>3 DEF GentleMain

LEMMA MainGentle ==
  ASSUME Types, Names, GentleMain
  PROVE  UNCHANGED <<flight, sent, call, ledger, reclaimed>> /\ RowsKept /\ CallbackKept
<1> USE DEF history, CallbackKept, RowsKept
<1>1. CASE \/ \E i \in Ids : MainCancel(i)
           \/ StopAccepting \/ CancelActive \/ MainCancelDispatched \/ Drain
  BY <1>1 DEF StopAccepting, CancelActive, MainCancelDispatched, Drain, MainCancel
<1> QED BY <1>1 DEF GentleMain

(***************************************************************************)
(* The steps that are not gentle, one by one.                              *)
(***************************************************************************)
LEMMA EmplaceIsSafe ==
  ASSUME Safe, Types', Names', NEW c \in Calls, CallNext(c), EmplaceGoal(c), Goto(c, "send")
  PROVE  Discipline'
<1> USE DEF Safe, Types, Discipline
<1>1. Id(c) \in Ids /\ Pinned(Id(c)) /\ At(c, "emplace")
  BY BusyFacts, PinFacts DEF EmplaceGoal, CallSteps, PinSteps, SenderSteps
<1>2. /\ call'[c].pc = "send" /\ call'[c].id = call[c].id
      /\ \A d \in Calls \ {c} : call'[d] = call[d]
  BY GotoFacts DEF CallSteps
<1>3. /\ UNCHANGED memory /\ goals'[Id(c)].there
      /\ \A j \in Ids \ {Id(c)} : goals'[j] = goals[j]
  BY <1>2, EmplaceGoalFacts, GotoWithFacts, StateFacts DEF RejectInMemory, CallSteps
<1>4. UNCHANGED <<ledger, flight, sent, reclaimed, cb>>
  BY DEF EmplaceGoal, history
<1>5. Pins'
  BY <1>1, <1>2, <1>3, <1>4 DEF Pins, Pinned, InFlight, Id, Names
<1>6. Exclusive'
  BY <1>2, <1>3, <1>4 DEF Exclusive, Pinned, Id, OwnerSteps
<1>7. \A d \in Calls : At(d, "send")' => goals'[Id(d)'].there
  BY <1>2, <1>3 DEF Claims, Id, At, Names
<1>8. Claims'
  BY <1>1, <1>2, <1>4, <1>7 DEF Claims, InFlight, Id, At, SenderSteps
<1>9. Counts'
  BY <1>4 DEF Counts
<1> QED BY <1>5, <1>6, <1>8, <1>9

LEMMA SendIsSafe ==
  ASSUME Safe, Types', Names', NEW c \in Calls, SendGoal(c)
  PROVE  Discipline'
<1> USE DEF Safe, Types, Discipline
<1>1. Id(c) \in Ids /\ Pinned(Id(c)) /\ call[c].pc = "send"
  BY BusyFacts, PinFacts DEF SendGoal, CallSteps, PinSteps, SenderSteps, At
<1>2. /\ ~InFlight(Id(c)) /\ (cb.pc = "idle" \/ cb.id # Id(c)) /\ goals[Id(c)].there
      /\ sent[Id(c)] <= reclaimed[Id(c)]
      /\ \A d \in Calls : call[d].pc \in SenderSteps /\ Id(d) = Id(c) => d = c
  BY <1>1 DEF Claims, SenderSteps, At
<1>3. UNCHANGED <<ledger, reclaimed, cb>>
  BY DEF SendGoal
<1>4. CASE /\ sent' = [sent EXCEPT ![Id(c)] = @ + 1]
           /\ flight' = [flight EXCEPT ![Id(c)] = "sent"]
           /\ Goto(c, "await") /\ UNCHANGED <<memory, goals>>
  <2>1. /\ call'[c].pc = "await" /\ call'[c].id = call[c].id
        /\ \A d \in Calls \ {c} : call'[d] = call[d]
    BY <1>4, GotoFacts DEF CallSteps
  <2>2. /\ sent'[Id(c)] = sent[Id(c)] + 1 /\ flight'[Id(c)] = "sent"
        /\ \A j \in Ids \ {Id(c)} : sent'[j] = sent[j] /\ flight'[j] = flight[j]
    BY <1>1, <1>4 DEF CountsTyped, FlightTyped
  <2>3. Pins'
    BY <1>2, <1>3, <1>4, <2>1, <2>2 DEF Pins, Pinned, InFlight, Id, PinSteps, SenderSteps
  <2>4. Exclusive'
    BY <1>3, <1>4, <2>1 DEF Exclusive, Pinned, Id, OwnerSteps
  <2>5. ASSUME NEW d \in Calls, call'[d].pc \in SenderSteps
        PROVE  d # c /\ call'[d] = call[d] /\ Id(d) # Id(c) /\ Id(d) \in Ids
    BY <1>2, <2>1, <2>5 DEF SenderSteps, Names, At, Id
  <2>6. Claims'
    BY <1>2, <1>3, <1>4, <2>1, <2>2, <2>5 DEF Claims, InFlight, Id, At, SenderSteps, Names
  <2>7. Counts'
    BY <1>1, <1>2, <1>3, <2>2 DEF Counts, Pinned, CountsTyped
  <2> QED BY <2>3, <2>4, <2>6, <2>7
<1>5. CASE /\ goals' = [goals EXCEPT ![Id(c)] = NoGoal]
           /\ RejectInMemory(c, "UNAVAILABLE")
           /\ UNCHANGED <<sent, flight, fate>>
  <2>1. /\ call'[c].pc = "reject" /\ call'[c].id = call[c].id
        /\ \A d \in Calls \ {c} : call'[d] = call[d]
    BY <1>5, GotoWithFacts DEF CallSteps, RejectInMemory
  <2>2. \A j \in Ids \ {Id(c)} : memory'[j] = memory[j] /\ goals'[j] = goals[j]
    BY <1>1, <1>5, StateFacts, UpdateFacts, NoGoalFacts DEF RejectInMemory
  <2>3. Pins'
    BY <1>1, <1>2, <1>3, <1>5, <2>1, <2>2, NoGoalFacts DEF Pins, Pinned, InFlight, Id
  <2>4. ASSUME NEW d \in Calls, call'[d].pc \in OwnerSteps, ~Pinned(Id(d))'
        PROVE  d # c /\ call'[d] = call[d] /\ Id(d) # Id(c) /\ Id(d) \in Ids
    BY <1>1, <1>3, <2>1, <2>4 DEF OwnerSteps, Names, At, Id, Pinned
  <2>5. Exclusive'
    BY <1>3, <2>1, <2>2, <2>4 DEF Exclusive, Pinned, Id, OwnerSteps
  <2>6. ASSUME NEW d \in Calls, call'[d].pc \in SenderSteps
        PROVE  d # c /\ call'[d] = call[d] /\ Id(d) # Id(c) /\ Id(d) \in Ids
    BY <1>2, <2>1, <2>6 DEF SenderSteps, Names, At, Id
  <2>7. Claims'
    BY <1>2, <1>3, <1>5, <2>1, <2>2, <2>6 DEF Claims, InFlight, Id, At, SenderSteps
  <2>8. Counts'
    BY <1>3, <1>5 DEF Counts
  <2> QED BY <2>3, <2>5, <2>7, <2>8
<1> QED BY <1>4, <1>5 DEF SendGoal

LEMMA ClaimIsSafe ==
  ASSUME Safe, Types', Names', NEW c \in Calls, Claim(c), Goto(c, "decide")
  PROVE  Discipline'
<1> USE DEF Safe, Types, Discipline
<1>1. Id(c) \in Ids /\ Task(c) \in Tasks /\ call[c].pc = "claim"
  BY BusyFacts DEF Claim, CallSteps, OwnerSteps, At
<1>2. ledger[Id(c)].state = "none" /\ ~Pinned(Id(c))
  BY <1>1 DEF Claims, At, Pinned
<1>3. /\ call'[c].pc = "decide" /\ call'[c].id = call[c].id
      /\ \A d \in Calls \ {c} : call'[d] = call[d]
  BY GotoFacts DEF CallSteps
<1>4. Put(Id(c), Task(c), "ADMITTED") /\ UNCHANGED memory
  BY <1>3, FinishFacts DEF Claim
<1>5. /\ ledger'[Id(c)].state = "ADMITTED" /\ ledger'[Id(c)].old = FALSE
      /\ \A j \in Ids \ {Id(c)} : ledger'[j] = ledger[j]
  BY <1>1, <1>4, PutFacts
<1>6. Pinned(Id(c))' /\ \A j \in Ids \ {Id(c)} : Pinned(j)' <=> Pinned(j)
  BY <1>3, <1>5, StateFacts DEF Pinned, Id
<1>7. UNCHANGED <<goals, flight, sent, reclaimed, cb>>
  BY DEF Claim
<1>8. /\ ~goals[Id(c)].there /\ ~InFlight(Id(c)) /\ (cb.pc = "idle" \/ cb.id # Id(c))
      /\ \A d \in Calls : call[d].pc \in PinSteps => Id(d) # Id(c)
      /\ \A d \in Calls : call[d].pc \in OwnerSteps /\ Id(d) = Id(c) => d = c
      /\ sent[Id(c)] <= reclaimed[Id(c)]
  BY <1>1, <1>2 DEF Pins, Exclusive, Counts, OwnerSteps, CountsTyped
<1>9. Id(c)' = Id(c)
  BY <1>3 DEF Id
<1>10. Pins'
  <2>1. \A j \in Ids : Pinned(j) => Pinned(j)'
    BY <1>6, <1>9
  <2>2. \A i \in Ids : InFlight(i)' => goals'[i].there
    BY <1>7 DEF Pins, InFlight
  <2>3. \A i \in Ids : goals'[i].there => Pinned(i)'
    BY <1>7, <2>1 DEF Pins
  <2>4. cb'.pc # "idle" => Pinned(cb.id)'
    BY <1>7, <2>1 DEF Pins, Names
  <2>5. ASSUME NEW d \in Calls, call'[d].pc \in PinSteps
        PROVE  Pinned(Id(d))'
    <3>1. CASE d = c
      BY <1>6, <3>1
    <3>2. CASE d # c
      <4>1. Id(d)' = Id(d) /\ Id(d) \in Ids /\ Pinned(Id(d))
        BY <1>3, <2>5, <3>2 DEF Id, Pins, Names, At, PinSteps, SenderSteps
      <4> QED BY <2>1, <4>1
    <3> QED BY <3>1, <3>2
  <2> QED BY <2>2, <2>3, <2>4, <2>5 DEF Pins
<1>11. Exclusive'
  <2> SUFFICES ASSUME NEW d \in Calls, call'[d].pc \in OwnerSteps, ~Pinned(Id(d))'
               PROVE  /\ memory'[Id(d)'].state \notin Terminal \cup {"none"}
                      /\ \A e \in Calls : call'[e].pc \in OwnerSteps /\ Id(e)' = Id(d)' => e = d
    BY DEF Exclusive
  <2>1. d # c /\ Id(d)' = Id(d) /\ call'[d] = call[d] /\ Id(d) \in Ids
    BY <1>3 DEF Id, OwnerSteps, Names, At
  <2>2. ~Pinned(Id(d))
    BY <1>6, <1>9, <2>1
  <2>3. /\ memory[Id(d)].state \notin Terminal \cup {"none"}
        /\ \A e \in Calls : call[e].pc \in OwnerSteps /\ Id(e) = Id(d) => e = d
    BY <2>1, <2>2 DEF Exclusive
  <2>4. ASSUME NEW e \in Calls, call'[e].pc \in OwnerSteps, Id(e)' = Id(d)'
        PROVE  e = d
    <3>1. e # c /\ call'[e] = call[e] /\ Id(e)' = Id(e)
      BY <1>3, <2>4 DEF Id, OwnerSteps
    <3> QED BY <2>1, <2>3, <2>4, <3>1
  <2> QED BY <1>4, <2>1, <2>3, <2>4
<1>12. Claims'
  <2>1. ASSUME NEW d \in Calls, At(d, "claim")'
        PROVE  ledger'[Id(d)'].state = "none"
    <3>1. d # c /\ call'[d] = call[d] /\ call[d].pc = "claim" /\ Id(d)' = Id(d) /\ Id(d) \in Ids
      BY <1>3, <2>1 DEF At, Id, Names
    <3>2. Id(d) # Id(c)
      BY <1>8, <3>1 DEF OwnerSteps
    <3> QED BY <1>5, <3>1, <3>2 DEF Claims, At
  <2>2. ASSUME NEW d \in Calls, call'[d].pc \in SenderSteps
        PROVE  /\ ~InFlight(Id(d))' /\ (cb'.pc = "idle" \/ cb'.id # Id(d)')
               /\ sent'[Id(d)'] <= reclaimed'[Id(d)']
               /\ \A e \in Calls : call'[e].pc \in SenderSteps /\ Id(e)' = Id(d)' => e = d
    <3>1. ASSUME NEW e \in Calls, call'[e].pc \in SenderSteps, e # c
          PROVE  call'[e] = call[e] /\ call[e].pc \in SenderSteps /\ Id(e)' = Id(e) /\ Id(e) # Id(c)
      BY <1>3, <1>8, <3>1 DEF Id, PinSteps
    <3>2. CASE d = c
      BY <1>7, <1>8, <1>9, <3>1, <3>2 DEF InFlight
    <3>3. CASE d # c
      <4>1. /\ ~InFlight(Id(d)) /\ (cb.pc = "idle" \/ cb.id # Id(d))
            /\ sent[Id(d)] <= reclaimed[Id(d)]
            /\ \A e \in Calls : call[e].pc \in SenderSteps /\ Id(e) = Id(d) => e = d
        BY <2>2, <3>1, <3>3 DEF Claims
      <4>2. Id(d)' = Id(d) /\ Id(d) # Id(c)
        BY <2>2, <3>1, <3>3
      <4>3. \A e \in Calls : call'[e].pc \in SenderSteps /\ Id(e)' = Id(d)' => e = d
        BY <1>9, <3>1, <4>1, <4>2
      <4> QED BY <1>7, <4>1, <4>2, <4>3 DEF InFlight
    <3> QED BY <3>2, <3>3
  <2>3. \A d \in Calls : At(d, "send")' => goals'[Id(d)'].there
    BY <1>3, <1>7 DEF Claims, At, Id
  <2>4. cb'.pc = "refused" => ~InFlight(cb.id)'
    BY <1>7 DEF Claims, InFlight
  <2> QED BY <2>1, <2>2, <2>3, <2>4 DEF Claims
<1>13. Counts'
  BY <1>5, <1>7, <1>8 DEF Counts, CountsTyped
<1> QED BY <1>10, <1>11, <1>12, <1>13

LEMMA ResponseIsSafe ==
  ASSUME Safe, Types', Names', NEW i \in Ids, GoalResponse(i)
  PROVE  Discipline'
<1> USE DEF Safe, Types, Discipline
<1>1. cb.pc = "idle" /\ InFlight(i) /\ Pinned(i) /\ goals[i].there
  BY DEF GoalResponse, CanCallBack, InFlight, Pins
<1>2. UNCHANGED <<memory, goals, call, ledger, sent, reclaimed>>
  BY DEF GoalResponse
<1>3. /\ cb'.id = i /\ cb'.pc \in {"accepted", "refused"}
      /\ flight' = [flight EXCEPT ![i] = cb'.pc]
  BY DEF GoalResponse, Callback
<1>4. \A j \in Ids : InFlight(j)' => InFlight(j)
  BY <1>1, <1>3 DEF InFlight, FlightTyped
<1>5. cb'.pc = "refused" => ~InFlight(cb.id)'
  BY <1>3 DEF InFlight, FlightTyped
<1>6. Pins'
  BY <1>1, <1>2, <1>3, <1>4 DEF Pins, Pinned, Id
<1>7. Exclusive'
  BY <1>2 DEF Exclusive, Pinned, Id
<1>8. Claims'
  BY <1>1, <1>2, <1>3, <1>4, <1>5 DEF Claims, Id, At, Names, SenderSteps
<1>9. Counts'
  BY <1>2 DEF Counts
<1> QED BY <1>6, <1>7, <1>8, <1>9

LEMMA RefusalIsSafe ==
  ASSUME Safe, Types', Names', RefusedCallback
  PROVE  Discipline'
<1> USE DEF Safe, Types, Discipline
<1>1. cb.id \in Ids /\ ~InFlight(cb.id) /\ Pinned(cb.id) /\ cb.pc = "refused"
  BY DEF RefusedCallback, Names, Claims, Pins
<1>2. UNCHANGED <<memory, call, ledger, flight, sent, reclaimed>>
  BY DEF RefusedCallback, history
<1>3. cb'.pc = "idle" \/ (cb'.pc = "refuse" /\ cb'.id = cb.id)
  BY DEF RefusedCallback, CallbackTyped, Idle
<1>4. ~goals'[cb.id].there /\ \A j \in Ids \ {cb.id} : goals'[j] = goals[j]
  BY <1>1, NoGoalFacts DEF RefusedCallback
<1>5. Pins'
  BY <1>1, <1>2, <1>3, <1>4 DEF Pins, Pinned, InFlight, Id
<1>6. Exclusive'
  BY <1>2 DEF Exclusive, Pinned, Id
<1>7. Claims'
  BY <1>1, <1>2, <1>3, <1>4 DEF Claims, InFlight, Id, At, Names, SenderSteps
<1>8. Counts'
  BY <1>2 DEF Counts
<1> QED BY <1>5, <1>6, <1>7, <1>8

LEMMA ResultIsSafe ==
  ASSUME Safe, Types', Names', NEW i \in Ids, NEW o \in Outcomes \cup {"lost"}, ResultCallback(i, o)
  PROVE  Discipline'
<1> USE DEF Safe, Types, Discipline
<1>1. cb.pc = "idle" /\ InFlight(i) /\ Pinned(i) /\ goals[i].there
  BY DEF ResultCallback, CanCallBack, InFlight, Pins
<1>2. UNCHANGED <<call, ledger, sent, reclaimed>>
  BY DEF ResultCallback
<1>3. cb'.id = i /\ cb'.pc = "complete"
  BY <1>1 DEF ResultCallback, Callback
<1>4. flight'[i] = "ended" /\ \A j \in Ids \ {i} : flight'[j] = flight[j]
  BY DEF ResultCallback, FlightTyped
<1>5. /\ ~goals'[i].there
      /\ \A j \in Ids \ {i} : goals'[j] = goals[j] /\ memory'[j] = memory[j]
  BY NoGoalFacts, UpdateFacts, OutcomeFacts, StateFacts DEF ResultCallback
<1>6. Pins'
  BY <1>1, <1>2, <1>3, <1>4, <1>5 DEF Pins, Pinned, InFlight, Id
<1>7. ASSUME NEW d \in Calls, call'[d].pc \in OwnerSteps, ~Pinned(Id(d))'
      PROVE  Id(d) # i /\ Id(d) \in Ids
  BY <1>1, <1>2, <1>7 DEF OwnerSteps, Names, At, Id, Pinned
<1>8. Exclusive'
  BY <1>2, <1>5, <1>7 DEF Exclusive, Pinned, Id
<1>9. ASSUME NEW d \in Calls, call'[d].pc \in SenderSteps
      PROVE  Id(d) # i /\ Id(d) \in Ids
  BY <1>1, <1>2, <1>9 DEF Claims, SenderSteps, Names, At, Id
<1>10. Claims'
  BY <1>1, <1>2, <1>3, <1>4, <1>5, <1>9 DEF Claims, InFlight, Id, At, SenderSteps
<1>11. Counts'
  BY <1>2 DEF Counts
<1> QED BY <1>6, <1>8, <1>10, <1>11

LEMMA ExitIsSafe ==
  ASSUME Safe, Exit
  PROVE  Discipline'
<1> USE DEF Safe, Types, Discipline
<1>1. UNCHANGED <<goals, call, cb, flight, ledger, sent, reclaimed>> /\ \A c \in Calls : call[c].pc = "idle"
  BY DEF Exit, history, At
<1>2. Pins' /\ Counts'
  BY <1>1 DEF Pins, Counts, Pinned, InFlight, Id
<1>3. Exclusive' /\ Claims'
  BY <1>1 DEF Exclusive, Claims, InFlight, OwnerSteps, SenderSteps, At
<1> QED BY <1>2, <1>3

LEMMA RestartIsSafe ==
  ASSUME Safe, Restart
  PROVE  Safe'
<1> USE DEF Safe, Types, Discipline
<1>1. /\ MemoryTyped' /\ GoalsTyped' /\ CallTyped' /\ CallbackTyped' /\ FlightTyped'
      /\ LedgerTyped' /\ CountsTyped'
  BY StateFacts DEF Restart, MemoryTyped, GoalsTyped, CallTyped, CallbackTyped, FlightTyped,
       LedgerTyped, CountsTyped, NoRecord, NoGoal, Idle, CallSteps, CallbackSteps, history
<1>2. Names'
  BY DEF Restart, Names, At, Id, Task, Idle, MainSteps, OwnerSteps, SenderSteps
<1>3. Pins'
  BY DEF Restart, Pins, InFlight, NoGoal, Idle, PinSteps, SenderSteps
<1>4. Exclusive' /\ Claims'
  BY DEF Restart, Exclusive, Claims, Idle, OwnerSteps, SenderSteps, At
<1>5. Counts'
  BY DEF Restart, Counts, history
<1> QED BY <1>1, <1>2, <1>3, <1>4, <1>5

LEMMA ExpiryIsSafe ==
  ASSUME Safe, NEW i \in Ids, Expire(i)
  PROVE  Safe'
<1> USE DEF Safe, Types, Discipline
<1>1. UNCHANGED <<memory, goals, call, cb, main, flight, sent, reclaimed>>
  BY DEF Expire, processVars, history
<1>2. /\ ledger'[i].state = ledger[i].state
      /\ \A j \in Ids \ {i} : ledger'[j] = ledger[j]
      /\ LedgerTyped'
  BY DEF Expire, LedgerTyped
<1>3. /\ \A c \in Calls : call[c].pc = "idle" \/ Id(c) # i
      /\ cb.pc = "idle" \/ cb.id # i
      /\ ~goals[i].there
  BY DEF Expire, Quiet, At
<1>4. Types'
  BY <1>1, <1>2 DEF MemoryTyped, GoalsTyped, CallTyped, CallbackTyped, FlightTyped, CountsTyped
<1>5. Names'
  BY <1>1 DEF Names, At, Id, Task
<1>6. Pins'
  BY <1>1, <1>2, <1>3 DEF Pins, Pinned, InFlight, Id, PinSteps, SenderSteps, Names, At
<1>7. Exclusive'
  BY <1>1, <1>2, <1>3 DEF Exclusive, Pinned, Id, OwnerSteps, Names, At
<1>8. Claims'
  BY <1>1, <1>2, <1>3 DEF Claims, InFlight, Id, At, Names
<1>9. Counts'
  BY <1>1, <1>2 DEF Counts
<1> QED BY <1>4, <1>5, <1>6, <1>7, <1>8, <1>9

(***************************************************************************)
(* The whole next-state relation.                                          *)
(***************************************************************************)
LEMMA GentleIsSafe ==
  ASSUME Safe, Types', Names', Gentle
  PROVE  Discipline'
BY GentlePins, GentleExclusive, GentleClaims, GentleCounts DEF Safe, Discipline

LEMMA CallIsSafe ==
  ASSUME Safe, NEW c \in Calls, CallNext(c)
  PROVE  Safe'
<1> USE DEF Safe
<1>1. Types'
  BY CallTypedStep, MemoryTypedStep, GoalsTypedStep, LedgerTypedStep, RestTypedStep DEF Types
<1>2. Names'
  BY NamesStep
<1>3. CASE At(c, "send")
  <2>1. SendGoal(c)
    BY <1>3 DEF CallNext, SubmitWorkflow, CancelWorkflow, ResolveUncertain, Start, At,
         InsertKnown, InsertNew, LookupWhenFull, CheckHistory, AdmitKnown, AdmitNew, Claim,
         Apply, ReadRecord, Decide, RejectOnDisk, EmplaceGoal, AwaitResponse, Settle, TimeOut,
         DispatchCancel, CancelDispatched, RequestCancel, AnswerCancel, ResolveOnDisk,
         ResolveInMemory
  <2> QED BY <1>1, <1>2, <2>1, SendIsSafe
<1>4. CASE EmplaceGoal(c) /\ Goto(c, "send")
  BY <1>1, <1>2, <1>4, EmplaceIsSafe
<1>5. CASE Claim(c) /\ Goto(c, "decide")
  BY <1>1, <1>2, <1>5, ClaimIsSafe
<1>6. CASE /\ ~At(c, "send") /\ ~(EmplaceGoal(c) /\ Goto(c, "send"))
           /\ ~(Claim(c) /\ Goto(c, "decide"))
  <2>1. Pins
    BY DEF Discipline
  <2>2. HandlersKept
    BY <1>6, <2>1, FollowsStep, OthersStep, OneHandler
  <2>3. \A i \in Ids : goals'[i].there <=> goals[i].there
    BY <1>6, <2>1, GoalsKeptStep
  <2>4. UNCHANGED <<flight, sent, cb>>
    BY <1>6, <2>1, QuietStep
  <2>5. RowsKept /\ RecordsKept
    BY <1>6, <2>1, RowsKeptStep, RecordsKeptStep
  <2>6. CallbackKept
    BY <2>4 DEF CallbackKept
  <2> QED BY <1>1, <1>2, <2>2, <2>3, <2>4, <2>5, <2>6, GentleIsSafe DEF Gentle
<1> QED BY <1>3, <1>4, <1>5, <1>6

LEMMA ClientIsSafe ==
  ASSUME Safe, ClientNext
  PROVE  Safe'
<1> USE DEF Safe
<1>1. Types'
  BY ClientMemory, ClientGoals, ClientCallback, ClientLedger, ClientRest DEF Types
<1>2. Names'
  BY ClientNames
<1>3. CASE GentleClient
  <2>1. Pins
    BY DEF Discipline
  <2>2. Gentle
    BY <1>3, <2>1, ClientGoalsKept, ClientRowsKept, ClientRecordsKept, ClientGentle
       DEF Gentle, HandlersKept
  <2> QED BY <1>1, <1>2, <2>2, GentleIsSafe
<1>4. CASE ~GentleClient
  BY <1>1, <1>2, <1>4, ResponseIsSafe, RefusalIsSafe, ResultIsSafe DEF ClientNext, GentleClient
<1> QED BY <1>3, <1>4

LEMMA MainIsSafe ==
  ASSUME Safe, MainNext
  PROVE  Safe'
<1> USE DEF Safe
<1>1. Types'
  BY MainMemory, MainGoals, MainRest DEF Types
<1>2. Names'
  BY MainNames
<1>3. CASE GentleMain
  <2>1. Gentle
    BY <1>3, MainGoalsKept, MainRecordsKept, MainGentle DEF Gentle, HandlersKept
  <2> QED BY <1>1, <1>2, <2>1, GentleIsSafe
<1>4. CASE Exit
  BY <1>1, <1>2, <1>4, ExitIsSafe
<1> QED BY <1>3, <1>4 DEF MainNext, GentleMain

LEMMA IdleIsSafe ==
  ASSUME Safe, UNCHANGED vars
  PROVE  Safe'
<1> USE DEF vars, processVars, history
<1>1. Types'
  BY DEF Safe, Types, MemoryTyped, GoalsTyped, CallTyped, CallbackTyped, FlightTyped,
       LedgerTyped, CountsTyped
<1>2. Names' /\ Pins' /\ Exclusive' /\ Claims' /\ Counts'
  BY DEF Safe, Discipline, Names, Pins, Exclusive, Claims, Counts, Pinned, InFlight, At, Id, Task
<1> QED BY <1>1, <1>2 DEF Safe, Discipline

LEMMA InitIsSafe == Init => Safe
<1> SUFFICES ASSUME Init PROVE Safe
  OBVIOUS
<1> USE DEF Init, ProcessInit
<1>1. Types
  BY StateFacts DEF Types, MemoryTyped, GoalsTyped, CallTyped, CallbackTyped, FlightTyped,
       LedgerTyped, CountsTyped, NoRecord, NoGoal, NoRow, Idle, CallSteps, CallbackSteps
<1>2. Names
  BY DEF Names, At, Id, Task, Idle, MainSteps, OwnerSteps, SenderSteps
<1>3. Pins /\ Exclusive /\ Claims
  BY DEF Pins, Exclusive, Claims, InFlight, NoGoal, Idle, PinSteps, OwnerSteps, SenderSteps, At
<1>4. Counts
  BY DEF Counts, NoRow
<1> QED BY <1>1, <1>2, <1>3, <1>4 DEF Safe, Discipline

(* The inductive invariant: rows that something may still be done with     *)
(* stay, one handler at most works towards a claim, and the counts of      *)
(* dispatches and of rows forgotten agree.                                 *)
THEOREM GatewaySafe == Spec => []Safe
<1>1. Safe /\ [Next]_vars => Safe'
  <2> SUFFICES ASSUME Safe, [Next]_vars PROVE Safe'
    OBVIOUS
  <2>1. CASE \E c \in Calls : CallNext(c)
    BY <2>1, CallIsSafe
  <2>2. CASE ClientNext
    BY <2>2, ClientIsSafe
  <2>3. CASE MainNext
    BY <2>3, MainIsSafe
  <2>4. CASE Restart
    BY <2>4, RestartIsSafe
  <2>5. CASE \E i \in Ids : Expire(i)
    BY <2>5, ExpiryIsSafe
  <2>6. CASE UNCHANGED vars
    BY <2>6, IdleIsSafe
  <2> QED BY <2>1, <2>2, <2>3, <2>4, <2>5, <2>6 DEF Next
<1> QED BY <1>1, InitIsSafe, PTL DEF Spec

(* Whatever the duplicates, evictions, timeouts, shutdowns and restarts, a *)
(* request reaches the orchestrator once, and once more only for each time *)
(* its finished row left the ledger by age (SubmitWorkflow's order of      *)
(* insert, admit, claim and async_send_goal).                              *)
THEOREM DispatchedOnce == Spec => []AtMostOneDispatch
<1>1. Safe => AtMostOneDispatch
  BY DEF Safe, Types, CountsTyped, Discipline, Counts, AtMostOneDispatch
<1> QED BY <1>1, GatewaySafe, PTL
=============================================================================
