----------------------------- MODULE BridgeProofs -----------------------------
(***************************************************************************)
(* Theorems of BridgeSystem, for any number of goals, any id ranges, any   *)
(* cache capacity and any number of restarts.                              *)
(***************************************************************************)
EXTENDS BridgeSystem, TLAPS

(* The worker, when it has a goal, has one that handle_goal let through. *)
WorkerOK == pc # "idle" => cur \in Goals /\ ValidId(cur)

TypeInv == TypeOK /\ WorkerOK

LEMMA IdRanges ==
  /\ StopIdMin \in Nat /\ WireIdMax \in Nat /\ 1 < StopIdMin /\ StopIdMin <= WireIdMax
  /\ StopIds \subseteq WireIds /\ WireIds \subseteq 0..WireIdMax
BY WireAssumption DEF StopIds, WireIds

LEMMA InitTypeInv == Init => TypeInv
<1> SUFFICES ASSUME Init PROVE TypeInv
  OBVIOUS
<1> USE DEF Init, BusInit, BridgeInit, ProcessInit, DeviceInit
<1>1. BusTypeOK
  BY DEF BusTypeOK
<1>2. BridgeTypeOK
  <2>1. goal \in [Goals -> GoalStates] /\ pc \in Steps
    BY DEF GoalStates, Steps
  <2>2. request \in [Goals -> Requests]
    BY DEF Requests
  <2>3. NoResult \in Results /\ NoStop \in Stops
    BY DEF NoResult, NoStop, Stops, Results, Outcomes, Codes
  <2>4. stopId \in StopIds /\ nextStop \in StopIds
    BY IdRanges DEF StopIds
  <2>5. diag \in Diagnostics
    BY IdRanges DEF Diagnostics, DiagInit, Phases, Codes
  <2>6. attempt \in 0..kMaxRetries /\ restarts \in 0..MaxRestarts
    BY BridgeAssumption DEF kMaxRetries
  <2> QED BY <2>1, <2>2, <2>3, <2>4, <2>5, <2>6 DEF BridgeTypeOK
<1>3. DeviceTypeOK
  BY DEF DeviceTypeOK, CacheEntries
<1>4. WorkerOK
  BY DEF WorkerOK
<1> QED BY <1>1, <1>2, <1>3, <1>4 DEF TypeInv, TypeOK

(***************************************************************************)
(* Steps of the device and of the bus.                                     *)
(***************************************************************************)
LEMMA EntryIsRemembered ==
  ASSUME cache \in Seq(CacheEntries), NEW cmd, Known(cmd)
  PROVE  EntryOf(cmd) \in CacheEntries
<1>1. PICK i \in 1..Len(cache) : cache[i].cmd.id = cmd.id
  BY DEF Known
<1>2. (CHOOSE j \in 1..Len(cache) : cache[j].cmd.id = cmd.id) \in 1..Len(cache)
  BY <1>1
<1> QED BY <1>2 DEF EntryOf

LEMMA ResponseTypes ==
  ASSUME NEW cmd \in Commands, NEW code \in Accepted..Conflict, NEW m \in DeviceStates
  PROVE  Response(cmd, code, m) \in Responses
BY DEF Response, Responses, Commands

LEMMA FreshReplyTypes ==
  ASSUME NEW cmd \in Commands
  PROVE  FreshReply(cmd) \in Responses \cup {NoReply}
<1>1. {Accepted, Rejected, Faulted, Conflict} \subseteq Accepted..Conflict
      /\ {"NORMAL", "FAULT", "STOPPED"} \subseteq DeviceStates
  BY DEF Accepted, Rejected, Faulted, Conflict, DeviceStates
<1>2. Response(cmd, Accepted, "STOPPED") \in Responses
  BY <1>1, ResponseTypes
<1>3. Response(cmd, Rejected, "NORMAL") \in Responses
  BY <1>1, ResponseTypes
<1>4. Response(cmd, Faulted, "FAULT") \in Responses
  BY <1>1, ResponseTypes
<1>5. Response(cmd, Accepted, "NORMAL") \in Responses
  BY <1>1, ResponseTypes
<1> QED BY <1>2, <1>3, <1>4, <1>5 DEF FreshReply

LEMMA BridgeUnchanged ==
  BridgeTypeOK /\ WorkerOK /\ UNCHANGED bridgeVars => BridgeTypeOK' /\ WorkerOK'
BY DEF bridgeVars, BridgeTypeOK, WorkerOK, ValidId

LEMMA DeviceStepTypes ==
  ASSUME BusTypeOK, DeviceTypeOK, DeviceNext
  PROVE  BusTypeOK' /\ DeviceTypeOK'
<1> USE DEF BusTypeOK, DeviceTypeOK
<1>1. CASE ReplayCommand
  <2> DEFINE cmd == Head(toDevice).cmd
  <2>1. Head(toDevice) \in CommandFrames /\ Tail(toDevice) \in Seq(CommandFrames)
    BY <1>1 DEF ReplayCommand
  <2>2. cmd \in Commands
    BY <2>1 DEF CommandFrames
  <2>3. EntryOf(cmd) \in CacheEntries
    BY <1>1, EntryIsRemembered DEF ReplayCommand
  <2>4. Response(cmd, Conflict, "FAULT") \in Responses
    <3>1. Conflict \in Accepted..Conflict /\ "FAULT" \in DeviceStates
      BY DEF Conflict, Accepted, DeviceStates
    <3> QED BY <2>2, <3>1, ResponseTypes
  <2>5. reply' \in Responses \cup {NoReply}
    BY <1>1, <2>3, <2>4 DEF ReplayCommand, CacheEntries
  <2> QED BY <1>1, <2>1, <2>5 DEF ReplayCommand
<1>2. CASE ProcessCommand
  <2> DEFINE cmd == Head(toDevice).cmd
  <2> DEFINE g == Head(toDevice).by
  <2>1. Head(toDevice) \in CommandFrames /\ Tail(toDevice) \in Seq(CommandFrames)
    BY <1>2 DEF ProcessCommand
  <2>2. cmd \in Commands /\ g \in Goals
    BY <2>1 DEF CommandFrames
  <2>3. FreshReply(cmd) \in Responses \cup {NoReply}
    BY <2>2, FreshReplyTypes
  <2>4. [cmd |-> cmd, resp |-> FreshReply(cmd)] \in CacheEntries
    BY <2>2, <2>3 DEF CacheEntries
  <2>5. cache' \in Seq(CacheEntries)
    <3>1. (IF Len(cache) >= CacheCapacity THEN Tail(cache) ELSE cache) \in Seq(CacheEntries)
      <4>1. CASE Len(cache) >= CacheCapacity
        <5>1. cache # <<>>
          BY <4>1, DeviceAssumption
        <5> QED BY <4>1, <5>1
      <4>2. CASE ~(Len(cache) >= CacheCapacity)
        BY <4>2
      <4> QED BY <4>1, <4>2
    <3> QED BY <1>2, <2>4, <3>1 DEF ProcessCommand, Remember
  <2>6. carried' \in [Goals -> Nat] /\ running' \subseteq Goals
    BY <1>2, <2>2 DEF ProcessCommand
  <2> QED BY <1>2, <2>1, <2>3, <2>5, <2>6 DEF ProcessCommand
<1>3. CASE SendResponse
  <2>1. reply \in Responses
    BY <1>3 DEF SendResponse
  <2> QED BY <1>3, <2>1 DEF SendResponse
<1> QED BY <1>1, <1>2, <1>3 DEF DeviceNext

LEMMA TailTypes ==
  ASSUME NEW S, NEW s \in Seq(S), s # <<>>
  PROVE  Tail(s) \in Seq(S)
OBVIOUS

LEMMA BusStepTypes ==
  ASSUME BusTypeOK, LoseCommand \/ LoseResponse
  PROVE  BusTypeOK'
<1> USE DEF BusTypeOK
<1>1. CASE LoseCommand
  <2>1. toDevice # <<>> /\ toDevice' = Tail(toDevice) /\ toBridge' = toBridge
    BY <1>1 DEF LoseCommand
  <2>2. Tail(toDevice) \in Seq(CommandFrames)
    BY <2>1, TailTypes
  <2> QED BY <2>1, <2>2
<1>2. CASE LoseResponse
  <2>1. toBridge # <<>> /\ toBridge' = Tail(toBridge) /\ toDevice' = toDevice
    BY <1>2 DEF LoseResponse
  <2>2. Tail(toBridge) \in Seq(Responses)
    BY <2>1, TailTypes
  <2> QED BY <2>1, <2>2
<1> QED BY <1>1, <1>2

(***************************************************************************)
(* Steps of the bridge.                                                    *)
(***************************************************************************)
LEMMA CodeTypes ==
  /\ {0, ErrTransport, ErrAckTimeout, ErrShutdown, ErrStopTimeout, ErrStopRejected} \subseteq Codes
  /\ \A c \in Accepted..Conflict : c # Accepted => DeviceErrorCode(c) \in Codes
BY DEF Codes, Accepted, Rejected, Conflict

LEMMA DiagTypes ==
  ASSUME diag \in Diagnostics
  PROVE  /\ \A phase \in Phases : Mark(phase) => diag' \in Diagnostics
         /\ RecordClear => diag' \in Diagnostics
         /\ \A code \in Codes : RecordFailure(code) => diag' \in Diagnostics
<1> USE DEF Diagnostics
<1>1. "IDLE" \in Phases /\ 0 \in 0..WireIdMax /\ 0 \in Codes
  BY IdRanges, CodeTypes DEF Phases
<1>2. ASSUME NEW phase \in Phases, Mark(phase) PROVE diag' \in Diagnostics
  BY <1>2 DEF Mark
<1>3. ASSUME RecordClear PROVE diag' \in Diagnostics
  BY <1>1, <1>3 DEF RecordClear, DiagInit
<1>4. ASSUME NEW code \in Codes, RecordFailure(code) PROVE diag' \in Diagnostics
  BY <1>1, <1>4 DEF RecordFailure
<1> QED BY <1>2, <1>3, <1>4

LEMMA ReportTypes ==
  ASSUME NEW outcome \in Outcomes, NEW code \in Codes, Report(outcome, code)
  PROVE  pending' \in Results /\ pc' = "finish"
BY DEF Report, Results

LEMMA StopTypes ==
  ASSUME NEW canceled \in BOOLEAN, NEW code \in Codes, StopAndFinish(canceled, code)
  PROVE  stopping' \in Stops /\ pc' = "stop"
BY DEF StopAndFinish, Stops

LEMMA ReceiveTypes ==
  ASSUME BusTypeOK, Receive
  PROVE  BusTypeOK' /\ Answer \in Responses
BY DEF BusTypeOK, Receive, Answer

LEMMA TransmitTypes ==
  ASSUME BusTypeOK, NEW frame \in CommandFrames, Transmit(frame)
  PROVE  BusTypeOK'
BY DEF BusTypeOK, Transmit

LEMMA WorkerStepTypes ==
  ASSUME BusTypeOK, BridgeTypeOK, WorkerOK, Worker
  PROVE  BusTypeOK' /\ BridgeTypeOK' /\ WorkerOK'
<1>0. /\ \A o \in {"COMPLETED", "CANCELED", "SAFE_STOP", "DEVICE_FAULT"} : o \in Outcomes
      /\ \A s \in {"idle", "check", "send", "wait", "poll", "stop", "stopwait", "stoppoll",
                   "finish", "release"} : s \in Steps
      /\ \A p \in {"SENDING", "WAITING_ACK", "RETRYING", "STOPPING"} : p \in Phases
  BY DEF Outcomes, Steps, Phases
<1>g. /\ pc # "idle" => cur \in Goals /\ request[cur].id \in WireIds
      /\ cur \in Goals /\ request[cur].id \in WireIds => request[cur] \in Commands
  BY DEF WorkerOK, ValidId, BridgeTypeOK, Requests, Commands, Opcodes
<1>d. diag \in Diagnostics
  BY DEF BridgeTypeOK
<1>b. ASSUME UNCHANGED busVars PROVE BusTypeOK'
  BY <1>b DEF busVars, BusTypeOK
<1> USE DEF BridgeTypeOK, WorkerOK, ValidId, serverVars
<1>1. CASE CheckCancel
  <2> USE <1>1, <1>0, <1>g, <1>d, <1>b, CodeTypes DEF CheckCancel
  <2>1. CASE Report("CANCELED", 0) /\ RecordClear /\ UNCHANGED stopping
    BY <2>1, ReportTypes, DiagTypes
  <2>2. CASE StopAndFinish(TRUE, 0) /\ UNCHANGED <<pending, diag>>
    BY <2>2, StopTypes
  <2>3. CASE pc' = "send" /\ Mark("SENDING") /\ UNCHANGED <<pending, stopping>>
    BY <2>3, DiagTypes
  <2> QED BY <2>1, <2>2, <2>3
<1>2. CASE SendCommand
  <2>1. [cmd |-> request[cur], by |-> cur] \in CommandFrames
    BY <1>2, <1>g DEF SendCommand, CommandFrames
  <2> QED BY <1>2, <1>0, <1>g, <1>d, <2>1, TransmitTypes, DiagTypes DEF SendCommand
<1>3. CASE SendCommandFails
  BY <1>3, <1>0, <1>g, <1>d, <1>b, CodeTypes, DiagTypes, ReportTypes DEF SendCommandFails
<1>4. CASE Poll \/ PollEmpty
  BY <1>4, <1>0, <1>g, <1>b DEF Poll, PollEmpty, Resume
<1>5. CASE IgnoreFrame
  BY <1>5, <1>0, <1>g, ReceiveTypes DEF IgnoreFrame, Resume
<1>6. CASE WaitResponse
  <2>1. BusTypeOK' /\ Answer.code \in Accepted..Conflict
    BY <1>6, ReceiveTypes DEF WaitResponse, Responses
  <2> USE <1>6, <1>0, <1>g, <1>d, <2>1, CodeTypes DEF WaitResponse
  <2>2. CASE StopAndFinish(TRUE, 0) /\ UNCHANGED <<pending, diag>>
    BY <2>2, StopTypes
  <2>3. CASE Report("COMPLETED", 0) /\ RecordClear /\ UNCHANGED stopping
    BY <2>3, ReportTypes, DiagTypes
  <2>4. CASE /\ Answer.code # Accepted /\ UNCHANGED stopping
             /\ Report("DEVICE_FAULT", DeviceErrorCode(Answer.code))
             /\ RecordFailure(DeviceErrorCode(Answer.code))
    BY <2>4, ReportTypes, DiagTypes
  <2> QED BY <2>2, <2>3, <2>4
<1>7. CASE WaitCanceled \/ WaitShutdown
  BY <1>7, <1>0, <1>g, <1>b, CodeTypes, StopTypes DEF WaitCanceled, WaitShutdown
<1>8. CASE WaitTimeout
  <2> USE <1>8, <1>0, <1>g, <1>d, <1>b DEF WaitTimeout
  <2>1. CASE /\ attempt < kMaxRetries
             /\ attempt' = attempt + 1 /\ pc' = "check"
             /\ Mark("RETRYING")
             /\ UNCHANGED stopping
    <3>1. attempt' \in 0..kMaxRetries
      BY <2>1 DEF kMaxRetries
    <3> QED BY <2>1, <3>1, DiagTypes
  <2>2. CASE /\ attempt = kMaxRetries
             /\ StopAndFinish(FALSE, ErrAckTimeout) /\ RecordFailure(ErrAckTimeout)
             /\ UNCHANGED attempt
    BY <2>2, CodeTypes, DiagTypes, StopTypes
  <2> QED BY <2>1, <2>2
<1>9. CASE WaitTransportError
  BY <1>9, <1>0, <1>g, <1>d, <1>b, CodeTypes, DiagTypes, StopTypes DEF WaitTransportError
<1>10. AllocateStopId => stopId' \in StopIds /\ nextStop' \in StopIds
  BY IdRanges DEF AllocateStopId, StopIds
<1>11. CASE SendStop
  <2>1. [cmd |-> StopCommand, by |-> cur] \in CommandFrames
    BY <1>11, <1>g, IdRanges DEF SendStop, StopCommand, CommandFrames, Commands, Opcodes
  <2> QED BY <1>11, <1>0, <1>g, <1>d, <1>10, <2>1, TransmitTypes, DiagTypes DEF SendStop
<1>12. CASE SendStopFails
  BY <1>12, <1>0, <1>g, <1>d, <1>b, <1>10, CodeTypes, DiagTypes, ReportTypes DEF SendStopFails
<1>13. CASE StopResponse
  <2>1. BusTypeOK'
    BY <1>13, ReceiveTypes DEF StopResponse
  <2>2. stopping.code \in Codes
    BY DEF Stops
  <2> USE <1>13, <1>0, <1>g, <1>d, <2>1, <2>2, CodeTypes DEF StopResponse
  <2>3. CASE Report("CANCELED", 0) /\ RecordClear
    BY <2>3, ReportTypes, DiagTypes
  <2>4. CASE Report("SAFE_STOP", stopping.code) /\ UNCHANGED diag
    BY <2>4, ReportTypes
  <2>5. CASE Report("SAFE_STOP", ErrStopRejected) /\ RecordFailure(ErrStopRejected)
    BY <2>5, ReportTypes, DiagTypes
  <2> QED BY <2>3, <2>4, <2>5
<1>14. CASE StopTimeout \/ StopTransportError
  BY <1>14, <1>0, <1>g, <1>d, <1>b, CodeTypes, DiagTypes, ReportTypes
     DEF StopTimeout, StopTransportError
<1>15. CASE Finish
  <2>1. TerminalState(pending.outcome) \in GoalStates
    BY DEF TerminalState, GoalStates, Settled
  <2> QED BY <1>15, <1>0, <1>g, <1>b, <2>1 DEF Finish
<1>16. CASE Release
  <2>1. NoStop \in Stops /\ NoResult \in Results /\ StopIdMin \in StopIds /\ 0 \in 0..kMaxRetries
    BY CodeTypes, IdRanges DEF NoStop, Stops, NoResult, Results, Outcomes, StopIds, kMaxRetries
  <2> QED BY <1>16, <1>0, <1>b, <2>1 DEF Release
<1> QED BY <1>1, <1>2, <1>3, <1>4, <1>5, <1>6, <1>7, <1>8, <1>9, <1>11, <1>12, <1>13,
           <1>14, <1>15, <1>16 DEF Worker

LEMMA ServerStepTypes ==
  ASSUME BusTypeOK, BridgeTypeOK, WorkerOK, NEW g \in Goals,
         HandleGoalAccept(g) \/ HandleGoalReject(g) \/ HandleCancel(g)
  PROVE  BusTypeOK' /\ BridgeTypeOK' /\ WorkerOK'
<1>b. UNCHANGED busVars => BusTypeOK'
  BY DEF busVars, BusTypeOK
<1>1. \A s \in {"executing", "canceling", "refused"} : s \in GoalStates
  BY DEF GoalStates, Live
<1> USE <1>b, <1>1 DEF BridgeTypeOK, WorkerOK, ValidId
<1>2. CASE HandleGoalAccept(g)
  <2>1. diag' \in Diagnostics
    <3>1. request[g].id \in 0..WireIdMax /\ "SENDING" \in Phases
      BY <1>2, IdRanges DEF HandleGoalAccept, Phases
    <3> QED BY <1>2, <3>1 DEF HandleGoalAccept, Diagnostics
  <2>2. pc' \in Steps /\ attempt' \in 0..kMaxRetries
    BY <1>2 DEF HandleGoalAccept, Steps, kMaxRetries
  <2> QED BY <1>2, <2>1, <2>2 DEF HandleGoalAccept
<1>3. CASE HandleGoalReject(g)
  BY <1>3 DEF HandleGoalReject, workerVars
<1>4. CASE HandleCancel(g)
  BY <1>4 DEF HandleCancel, workerVars
<1> QED BY <1>2, <1>3, <1>4

LEMMA ProcessStepTypes ==
  ASSUME BusTypeOK, BridgeTypeOK, WorkerOK, Shutdown \/ Restart
  PROVE  BusTypeOK' /\ BridgeTypeOK' /\ WorkerOK'
<1>1. CASE Shutdown
  BY <1>1 DEF Shutdown, busVars, workerVars, BusTypeOK, BridgeTypeOK, WorkerOK, ValidId
<1>2. CASE Restart
  <2>1. BusTypeOK'
    BY <1>2 DEF Restart, BusTypeOK
  <2>2. goal' \in [Goals -> GoalStates] /\ restarts' \in 0..MaxRestarts
    BY <1>2, BridgeAssumption DEF Restart, BridgeTypeOK, GoalStates
  <2>3. pc' \in Steps /\ attempt' \in 0..kMaxRetries
    BY <1>2 DEF Restart, FreshProcess, Steps, kMaxRetries
  <2>4. NoStop \in Stops /\ NoResult \in Results /\ StopIdMin \in StopIds
    BY CodeTypes, IdRanges DEF NoStop, Stops, NoResult, Results, Outcomes, StopIds
  <2>5. DiagInit \in Diagnostics
    BY CodeTypes, IdRanges DEF Diagnostics, DiagInit, Phases
  <2> QED BY <1>2, <2>1, <2>2, <2>3, <2>4, <2>5
          DEF Restart, FreshProcess, BridgeTypeOK, WorkerOK
<1> QED BY <1>1, <1>2

LEMMA NextTypeInv == TypeInv /\ [Next]_vars => TypeInv'
<1> SUFFICES ASSUME TypeInv, [Next]_vars PROVE TypeInv'
  OBVIOUS
<1> USE DEF TypeInv, TypeOK
<1>1. CASE BridgeNext /\ UNCHANGED deviceVars
  <2>1. BusTypeOK' /\ BridgeTypeOK' /\ WorkerOK'
    BY <1>1, ServerStepTypes, WorkerStepTypes, ProcessStepTypes DEF BridgeNext
  <2>2. DeviceTypeOK'
    BY <1>1 DEF deviceVars, DeviceTypeOK
  <2> QED BY <2>1, <2>2
<1>2. CASE DeviceNext /\ UNCHANGED bridgeVars
  BY <1>2, DeviceStepTypes, BridgeUnchanged
<1>3. CASE (LoseCommand \/ LoseResponse) /\ UNCHANGED <<bridgeVars, deviceVars>>
  <2>1. DeviceTypeOK'
    BY <1>3 DEF deviceVars, DeviceTypeOK
  <2> QED BY <1>3, <2>1, BusStepTypes, BridgeUnchanged
<1>4. CASE UNCHANGED vars
  <2>1. BusTypeOK' /\ DeviceTypeOK'
    BY <1>4 DEF vars, busVars, deviceVars, BusTypeOK, DeviceTypeOK
  <2> QED BY <1>4, <2>1, BridgeUnchanged DEF vars
<1> QED BY <1>1, <1>2, <1>3, <1>4 DEF Next

(* Every variable of the bridge, the device and the bus keeps the type its *)
(* code gives it; in particular the STOP id counter never leaves the STOP  *)
(* range, and the worker only ever has a goal that handle_goal let in.     *)
THEOREM TypeCorrect == Spec => []TypeOK
<1>1. Spec => []TypeInv
  BY InitTypeInv, NextTypeInv, PTL DEF Spec
<1>2. TypeInv => TypeOK
  BY DEF TypeInv
<1> QED BY <1>1, <1>2, PTL

LEMMA TypeInvAlways == Spec => []TypeInv
BY InitTypeInv, NextTypeInv, PTL DEF Spec

(***************************************************************************)
(* One goal at a time.  The worker gives a goal its terminal state before  *)
(* it clears active_goal_, so between the two (pc = "release") the bridge  *)
(* is still claimed but no goal is alive.                                  *)
(***************************************************************************)
FlightInv ==
  /\ active <=> pc # "idle"
  /\ \A g \in Goals : goal[g] \in Live => g = cur /\ pc \notin {"idle", "release"}

LEMMA InitFlight == Init => FlightInv
BY DEF Init, BridgeInit, ProcessInit, FlightInv, Live

LEMMA TerminalIsSettled == \A o : TerminalState(o) \notin Live
BY DEF TerminalState, Live

LEMMA WorkerFlight ==
  ASSUME TypeInv, FlightInv, Worker
  PROVE  FlightInv'
<1> USE DEF FlightInv, serverVars
<1>1. CASE Finish
  <2>1. cur \in Goals /\ goal \in [Goals -> GoalStates]
    BY <1>1 DEF Finish, TypeInv, TypeOK, WorkerOK, BridgeTypeOK
  <2>2. goal'[cur] \notin Live
    BY <1>1, <2>1, TerminalIsSettled DEF Finish
  <2>3. \A g \in Goals : g # cur => goal'[g] = goal[g]
    BY <1>1, <2>1 DEF Finish
  <2> QED BY <1>1, <2>2, <2>3 DEF Finish
<1>2. CASE Release
  BY <1>2 DEF Release
<1>3. CASE CheckCancel \/ SendCommand \/ SendCommandFails
  BY <1>3 DEF CheckCancel, SendCommand, SendCommandFails, StopAndFinish, Report
<1>4. CASE Poll \/ PollEmpty \/ IgnoreFrame
  BY <1>4 DEF Poll, PollEmpty, IgnoreFrame, Resume
<1>5. CASE WaitResponse \/ WaitCanceled \/ WaitTimeout \/ WaitTransportError \/ WaitShutdown
  BY <1>5 DEF WaitResponse, WaitCanceled, WaitTimeout, WaitTransportError, WaitShutdown,
     StopAndFinish, Report
<1>6. CASE SendStop \/ SendStopFails
  BY <1>6 DEF SendStop, SendStopFails, Report
<1>7. CASE StopResponse \/ StopTimeout \/ StopTransportError
  BY <1>7 DEF StopResponse, StopTimeout, StopTransportError, Report
<1> QED BY <1>1, <1>2, <1>3, <1>4, <1>5, <1>6, <1>7 DEF Worker

LEMMA ServerFlight ==
  ASSUME TypeInv, FlightInv, NEW g \in Goals,
         HandleGoalAccept(g) \/ HandleGoalReject(g) \/ HandleCancel(g)
  PROVE  FlightInv'
<1>0. goal \in [Goals -> GoalStates]
  BY DEF TypeInv, TypeOK, BridgeTypeOK
<1> USE <1>0 DEF FlightInv, workerVars, Live
<1>1. CASE HandleGoalAccept(g)
  BY <1>1 DEF HandleGoalAccept
<1>2. CASE HandleGoalReject(g)
  BY <1>2 DEF HandleGoalReject
<1>3. CASE HandleCancel(g)
  BY <1>3 DEF HandleCancel
<1> QED BY <1>1, <1>2, <1>3

LEMMA NextFlight == TypeInv /\ FlightInv /\ [Next]_vars => FlightInv'
<1> SUFFICES ASSUME TypeInv, FlightInv, [Next]_vars PROVE FlightInv'
  OBVIOUS
<1>1. CASE Shutdown
  BY <1>1 DEF Shutdown, workerVars, FlightInv
<1>2. CASE Restart
  BY <1>2 DEF Restart, FreshProcess, FlightInv, Live
<1>3. CASE UNCHANGED bridgeVars
  BY <1>3 DEF bridgeVars, FlightInv
<1> QED BY <1>1, <1>2, <1>3, WorkerFlight, ServerFlight DEF Next, BridgeNext, vars

(* One wire transaction at a time, for any number of goals and restarts:   *)
(* active_goal_ is set exactly while the worker has a goal, and no other   *)
(* goal is alive.                                                          *)
THEOREM OneTransaction == Spec => []SingleFlight
<1>1. Spec => []FlightInv
  BY InitFlight, NextFlight, TypeInvAlways, PTL DEF Spec
<1>2. FlightInv => SingleFlight
  BY DEF FlightInv, SingleFlight
<1> QED BY <1>1, <1>2, PTL

(***************************************************************************)
(* CANCELED only on an accepted cancel.  The cancel flag that the worker   *)
(* hands to stop_and_finish must still be true when the STOP is answered:  *)
(* a goal that is canceling stays so until the worker itself ends it.      *)
(***************************************************************************)
StopSteps == {"stop", "stopwait", "stoppoll"}

CancelInv ==
  /\ pc \in StopSteps /\ stopping.canceled => Canceling
  /\ CancelIsLegal

LEMMA InitCancel == Init => CancelInv
BY DEF Init, BridgeInit, ProcessInit, CancelInv, CancelIsLegal, StopSteps

LEMMA WorkerCancel ==
  ASSUME TypeInv, CancelInv, Worker
  PROVE  CancelInv'
<1> USE DEF CancelInv, CancelIsLegal, Canceling, StopSteps, serverVars
<1>1. CASE CheckCancel
  BY <1>1 DEF CheckCancel, StopAndFinish, Report
<1>2. CASE SendCommand \/ SendCommandFails
  BY <1>2 DEF SendCommand, SendCommandFails, Report
<1>3. CASE Poll \/ PollEmpty \/ IgnoreFrame
  BY <1>3 DEF Poll, PollEmpty, IgnoreFrame, Resume
<1>4. CASE WaitResponse
  BY <1>4 DEF WaitResponse, StopAndFinish, Report
<1>5. CASE WaitCanceled \/ WaitTimeout \/ WaitTransportError \/ WaitShutdown
  BY <1>5 DEF WaitCanceled, WaitTimeout, WaitTransportError, WaitShutdown, StopAndFinish
<1>6. CASE SendStop \/ SendStopFails
  BY <1>6 DEF SendStop, SendStopFails, Report
<1>7. CASE StopResponse \/ StopTimeout \/ StopTransportError
  BY <1>7 DEF StopResponse, StopTimeout, StopTransportError, Report
<1>8. CASE Finish \/ Release
  BY <1>8 DEF Finish, Release
<1> QED BY <1>1, <1>2, <1>3, <1>4, <1>5, <1>6, <1>7, <1>8 DEF Worker

LEMMA ServerCancel ==
  ASSUME TypeInv, FlightInv, CancelInv, NEW g \in Goals,
         HandleGoalAccept(g) \/ HandleGoalReject(g) \/ HandleCancel(g)
  PROVE  CancelInv'
<1>0. goal \in [Goals -> GoalStates]
  BY DEF TypeInv, TypeOK, BridgeTypeOK
<1> USE <1>0 DEF CancelInv, CancelIsLegal, Canceling, StopSteps, workerVars
<1>1. CASE HandleGoalAccept(g)
  BY <1>1 DEF HandleGoalAccept
<1>2. CASE HandleGoalReject(g)
  BY <1>2 DEF HandleGoalReject
<1>3. CASE HandleCancel(g)
  BY <1>3 DEF HandleCancel
<1> QED BY <1>1, <1>2, <1>3

LEMMA NextCancel == TypeInv /\ FlightInv /\ CancelInv /\ [Next]_vars => CancelInv'
<1> SUFFICES ASSUME TypeInv, FlightInv, CancelInv, [Next]_vars PROVE CancelInv'
  OBVIOUS
<1> USE DEF CancelInv, CancelIsLegal, Canceling, StopSteps
<1>1. CASE Shutdown
  BY <1>1 DEF Shutdown, workerVars
<1>2. CASE Restart
  BY <1>2 DEF Restart, FreshProcess
<1>3. CASE UNCHANGED bridgeVars
  BY <1>3 DEF bridgeVars
<1> QED BY <1>1, <1>2, <1>3, WorkerCancel, ServerCancel DEF Next, BridgeNext, vars

LEMMA FlightAlways == Spec => []FlightInv
BY InitFlight, NextFlight, TypeInvAlways, PTL DEF Spec

(* The worker never calls canceled() on a goal nobody asked to cancel,     *)
(* whatever the interleaving of cancel requests, waits and shutdown.       *)
THEOREM CanceledOnlyOnCancel == Spec => []CancelIsLegal
<1>1. Spec => []CancelInv
  BY InitCancel, NextCancel, TypeInvAlways, FlightAlways, PTL DEF Spec
<1>2. CancelInv => CancelIsLegal
  BY DEF CancelInv
<1> QED BY <1>1, <1>2, PTL

(***************************************************************************)
(* The failure latch.  DiagShows(o, c) is what the diagnostics show once a *)
(* goal ended with outcome o and code c.  While a STOP is being settled    *)
(* that was not asked for by a cancel, the failure is already on display,  *)
(* except after a shutdown: that STOP's answer is never waited for, so the *)
(* code it was given (kErrorShutdown) is never reported.                   *)
(***************************************************************************)
DiagShows(outcome, code) ==
  /\ diag.latched <=> outcome \notin {"COMPLETED", "CANCELED"}
  /\ diag.err = code

StopShows == DiagShows("SAFE_STOP", stopping.code)

LatchInv ==
  /\ pc \in {"stop", "stopwait"} /\ ~stopping.canceled => StopShows \/ ~up
  /\ pc = "stoppoll" /\ ~stopping.canceled => StopShows
  /\ pc = "finish" => DiagShows(pending.outcome, pending.code)
  /\ pc = "release" => DiagShows(result[cur].outcome, result[cur].code)
  /\ LatchMatchesResult

LEMMA InitLatch == Init => LatchInv
BY DEF Init, BridgeInit, ProcessInit, LatchInv, LatchMatchesResult

LEMMA FailureShows ==
  ASSUME NEW code, RecordFailure(code)
  PROVE  diag'.latched = TRUE /\ diag'.err = code
BY DEF RecordFailure

LEMMA ClearShows ==
  ASSUME RecordClear PROVE diag'.latched = FALSE /\ diag'.err = 0
BY DEF RecordClear, DiagInit

LEMMA MarkShows ==
  ASSUME diag \in Diagnostics, NEW phase, Mark(phase)
  PROVE  diag'.latched = diag.latched /\ diag'.err = diag.err
BY DEF Mark, Diagnostics

LEMMA WorkerLatch ==
  ASSUME TypeInv, LatchInv, Worker
  PROVE  LatchInv'
<1>0. diag \in Diagnostics
  BY DEF TypeInv, TypeOK, BridgeTypeOK
<1>p. \A o, c : Report(o, c) => pending'.outcome = o /\ pending'.code = c /\ pc' = "finish"
  BY DEF Report
<1>s. \A b, c : StopAndFinish(b, c) => stopping'.canceled = b /\ stopping'.code = c /\ pc' = "stop"
  BY DEF StopAndFinish
<1>f. \A c : RecordFailure(c) => diag'.latched = TRUE /\ diag'.err = c
  BY FailureShows
<1> USE <1>0 DEF LatchInv, LatchMatchesResult, StopShows, DiagShows, serverVars
<1>1. CASE CheckCancel
  BY <1>1, <1>p, <1>s, ClearShows DEF CheckCancel
<1>2. CASE SendCommand
  BY <1>2, <1>p, <1>s DEF SendCommand
<1>3. CASE SendCommandFails
  BY <1>3, <1>p, <1>s, <1>f DEF SendCommandFails
<1>4. CASE Poll \/ PollEmpty \/ IgnoreFrame
  BY <1>4, <1>p, <1>s DEF Poll, PollEmpty, IgnoreFrame, Resume
<1>5. CASE WaitResponse
  BY <1>5, <1>p, <1>s, ClearShows, <1>f DEF WaitResponse
<1>6. CASE WaitCanceled
  BY <1>6, <1>s DEF WaitCanceled
<1>14. CASE WaitShutdown
  <2>1. pc' = "stop" /\ ~up'
    BY <1>14, <1>s DEF WaitShutdown
  <2> QED BY <2>1
<1>7. CASE WaitTimeout \/ WaitTransportError
  BY <1>7, <1>p, <1>s, <1>f DEF WaitTimeout, WaitTransportError
<1>8. CASE SendStop
  BY <1>8, <1>p, <1>s, MarkShows DEF SendStop
<1>9. CASE SendStopFails
  BY <1>9, <1>p, <1>s, <1>f DEF SendStopFails
<1>10. CASE StopResponse
  BY <1>10, <1>p, <1>s, ClearShows, <1>f DEF StopResponse
<1>11. CASE StopTimeout \/ StopTransportError
  BY <1>11, <1>p, <1>s, <1>f DEF StopTimeout, StopTransportError
<1>12. CASE Finish
  <2>1. result'[cur] = pending
    BY <1>12, <1>p, <1>s DEF Finish, TypeInv, TypeOK, WorkerOK, BridgeTypeOK
  <2> QED BY <1>12, <2>1 DEF Finish
<1>13. CASE Release
  BY <1>13, <1>p, <1>s DEF Release
<1> QED BY <1>1, <1>2, <1>3, <1>4, <1>5, <1>6, <1>14, <1>7, <1>8, <1>9, <1>10, <1>11, <1>12,
           <1>13 DEF Worker

LEMMA NextLatch == TypeInv /\ LatchInv /\ [Next]_vars => LatchInv'
<1> SUFFICES ASSUME TypeInv, LatchInv, [Next]_vars PROVE LatchInv'
  OBVIOUS
<1> USE DEF LatchInv, LatchMatchesResult, StopShows, DiagShows, workerVars
<1>1. ASSUME NEW g \in Goals, HandleGoalAccept(g) PROVE LatchInv'
  BY <1>1 DEF HandleGoalAccept
<1>2. ASSUME NEW g \in Goals, HandleGoalReject(g) \/ HandleCancel(g) PROVE LatchInv'
  BY <1>2 DEF HandleGoalReject, HandleCancel
<1>3. CASE Shutdown
  BY <1>3 DEF Shutdown
<1>4. CASE Restart
  BY <1>4 DEF Restart, FreshProcess
<1>5. CASE UNCHANGED bridgeVars
  BY <1>5 DEF bridgeVars
<1> QED BY <1>1, <1>2, <1>3, <1>4, <1>5, WorkerLatch DEF Next, BridgeNext, vars

(* The diagnostics between two goals are those of the last result.         *)
THEOREM LatchFollowsResult == Spec => []LatchMatchesResult
<1>1. Spec => []LatchInv
  BY InitLatch, NextLatch, TypeInvAlways, PTL DEF Spec
<1>2. LatchInv => LatchMatchesResult
  BY DEF LatchInv
<1> QED BY <1>1, <1>2, PTL
=============================================================================
