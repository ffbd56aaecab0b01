-------------------------- MODULE BridgePromiseProofs --------------------------
(***************************************************************************)
(* Theorems about what the bridge's answers say of the device: that a      *)
(* command is carried out at most once, that COMPLETED and a confirmed     *)
(* STOP are true, and that bridge, bus and device together keep the        *)
(* promise of DeviceCommand.                                               *)
(***************************************************************************)
EXTENDS BridgeProofs, FiniteSetTheorems

(* The goals keep to the application ids, as the allocation of the Task    *)
(* Executor does (allocate_command_id: 1..0x7FFF).                         *)
GoalsAreApp == GoalIds \cap StopIds = {}

(* One bridge process, that is never asked for more goals than there are   *)
(* STOP ids: no STOP id is used twice.                                     *)
StopIdsSuffice ==
  MaxRestarts = 0 /\ IsFiniteSet(Goals) /\ Cardinality(Goals) <= WireIdMax - StopIdMin + 1

-----------------------------------------------------------------------------
(* The frame at i of the queue to the device starts the command of g. *)
Starts(i, g) == toDevice[i].by = g /\ toDevice[i].cmd.op = APP

(* Nothing of g has been sent yet. *)
Untouched(g) ==
  goal[g] \in {"unsent", "refused"} \/ (g = cur /\ pc \in {"check", "send"} /\ ~sent)

(* The command of the worker's goal was sent once, and may be again. *)
Retryable == (pc \in {"check", "send"} /\ sent) \/ (pc \in {"wait", "poll"} /\ attempt = 0)

(* The last command the device remembered is that of g. *)
JustDone(g) == cache # <<>> /\ cache[Len(cache)].cmd.id = request[g].id

(* Where the worker is tells what it has done for its goal. *)
WorkerAt ==
  /\ pc \in {"check", "send"} => (sent <=> attempt = 1)
  /\ pc \in {"wait", "poll"} => sent
  /\ pc \notin {"idle", "release"} => goal[cur] \in Live
  /\ pc = "finish" => pending.outcome # "NONE"
  /\ \A g \in Goals : goal[g] \in Settled <=> result[g].outcome # "NONE"

(* What is on the way to the device: the frames of one goal follow one     *)
(* another, and a second copy finds the first one remembered.              *)
OnTheWay ==
  /\ \A i \in 1..Len(toDevice) :
       /\ toDevice[i].cmd.op = APP => toDevice[i].cmd = request[toDevice[i].by]
       /\ toDevice[i].cmd.op = STOP => toDevice[i].cmd.id \in StopIds
       /\ goal[toDevice[i].by] \notin {"unsent", "refused"}
  /\ \A g \in Goals : \A i, j \in 1..Len(toDevice) :
       Starts(i, g) /\ Starts(j, g) /\ i < j => j = i + 1
Begun ==
  \A g \in Goals :
    /\ Untouched(g) => carried[g] = 0 /\ \A i \in 1..Len(toDevice) : ~Starts(i, g)
    /\ carried[g] = 0 => g \notin running
Repeats ==
  /\ \A g \in Goals : \A i \in 1..Len(toDevice) :
       Starts(i, g) /\ carried[g] > 0 => i = 1 /\ JustDone(g)
  /\ Retryable =>
       /\ \A i \in 1..Len(toDevice) : Starts(i, cur) => i = Len(toDevice)
       /\ carried[cur] > 0 => toDevice = <<>> /\ JustDone(cur)

Wire == WorkerAt /\ OnTheWay /\ Begun /\ Repeats /\ CarriedAtMostOnce

-----------------------------------------------------------------------------
(* A device that was launched to refuse or to fail carries nothing out. *)
Refusing == mode \in {"reject", "fault"}

(* The answers under way, and what the device remembers. *)
Seen   == {reply} \cup {toBridge[i] : i \in 1..Len(toBridge)}
Cached == {cache[i] : i \in 1..Len(cache)}

(* What an answer says of the command it answers. *)
TrueAnswer(r) ==
  /\ r.op = STOP => r.id \in StopIds
  /\ r.op = APP => \E g \in Goals :
       /\ r.id = request[g].id
       /\ r.code = Accepted => carried[g] > 0
       /\ r.code # Accepted => Refusing
TrueEntry(e) ==
  /\ e.cmd.op = APP => \E g \in Goals : e.cmd = request[g]
  /\ e.cmd.op = STOP => e.cmd.id \in StopIds
  /\ e.resp # NoReply => TrueAnswer(e.resp) /\ e.resp.id = e.cmd.id /\ e.resp.op = e.cmd.op

AnswersAreTrue ==
  /\ \A r \in Seen \ {NoReply} : TrueAnswer(r)
  /\ \A e \in Cached : TrueEntry(e)

(* What an outcome says of the command. *)
Holds(g, outcome) ==
  /\ outcome = "COMPLETED" => carried[g] > 0
  /\ outcome = "DEVICE_FAULT" => Refusing
OutcomesHold ==
  /\ Refusing => \A g \in Goals : carried[g] = 0
  /\ pc = "finish" => Holds(cur, pending.outcome)
  /\ \A g \in Goals : Holds(g, result[g].outcome)

Answers == FreshIds /\ AnswersAreTrue /\ OutcomesHold

-----------------------------------------------------------------------------
(* The command of g is not running and will not start. *)
Halted(g) == g \notin running /\ NothingOnTheWay(g)

(* The frame at i stops the command of g. *)
StopFrame(i, g) == toDevice[i].by = g /\ toDevice[i].cmd.op = STOP

(* The goals for which a STOP may have been sent. *)
Past == {g \in Goals : \/ goal[g] \in Settled
                       \/ g = cur /\ pc \in {"stopwait", "stoppoll", "finish"}}

(* The STOP ids in use are below the next one, as long as there can be one.*)
StopIdUsed(n) ==
  \/ \E i \in 1..Len(toDevice) : toDevice[i].cmd.op = STOP /\ toDevice[i].cmd.id = n
  \/ \E r \in Seen : r.op = STOP /\ r.id = n
  \/ \E e \in Cached : e.cmd.op = STOP /\ e.cmd.id = n

StopIdsCount ==
  /\ nextStop - StopIdMin <= Cardinality(Past)
  /\ Past = Goals \/ \A n \in StopIds : StopIdUsed(n) => n < nextStop

(* A STOP comes after the frames of its goal, and the one that the worker  *)
(* waits for is its own.                                                   *)
StopsInOrder ==
  \A g \in Goals : \A i \in 1..Len(toDevice) : StopFrame(i, g) =>
    /\ g \in Past
    /\ \A j \in i..Len(toDevice) : ~Starts(j, g)
    /\ pc \in {"stopwait", "stoppoll"} /\ toDevice[i].cmd.id = stopId => g = cur

(* An answer that confirms the STOP that the worker waits for. *)
Confirms(r) == r.op = STOP /\ r.id = stopId /\ r.code = Accepted
StopsAreTrue ==
  \A g \in Goals : g = cur /\ pc \in {"stopwait", "stoppoll"} =>
    /\ \A r \in Seen : Confirms(r) => Halted(g)
    /\ \A e \in Cached : Confirms(e.resp) => Halted(g)

(* The results that say so. *)
SaysHalted(r) == r.outcome = "CANCELED" \/ r = [outcome |-> "SAFE_STOP", code |-> ErrAckTimeout]
HaltsAreTrue ==
  \A g \in Goals :
    /\ g = cur /\ pc = "finish" /\ SaysHalted(pending) => Halted(g)
    /\ SaysHalted(result[g]) => Halted(g)

HaltsHold == StopIdsCount /\ StopsInOrder /\ StopsAreTrue /\ HaltsAreTrue

(***************************************************************************)
(* The queue to the device, as facts about its frames.                     *)
(***************************************************************************)
LEMMA QueueTail ==
  ASSUME BusTypeOK, toDevice # <<>>, toDevice' = Tail(toDevice)
  PROVE  /\ Len(toDevice) \in Nat /\ Len(toDevice') = Len(toDevice) - 1
         /\ 1 \in 1..Len(toDevice) /\ Head(toDevice) = toDevice[1]
         /\ \A i \in 1..Len(toDevice') :
              i + 1 \in 1..Len(toDevice) /\ toDevice'[i] = toDevice[i + 1]
BY DEF BusTypeOK

LEMMA QueueAppend ==
  ASSUME BusTypeOK, NEW frame \in CommandFrames, Transmit(frame)
  PROVE  /\ Len(toDevice) \in Nat /\ Len(toDevice') = Len(toDevice) + 1
         /\ toDevice'[Len(toDevice')] = frame
         /\ \A i \in 1..Len(toDevice') : i = Len(toDevice') \/ i \in 1..Len(toDevice)
         /\ \A i \in 1..Len(toDevice) : i \in 1..Len(toDevice') /\ toDevice'[i] = toDevice[i]
BY DEF BusTypeOK, Transmit

LEMMA FrameTypes ==
  ASSUME BusTypeOK, NEW i \in 1..Len(toDevice)
  PROVE  /\ toDevice[i] \in CommandFrames /\ toDevice[i].by \in Goals
         /\ toDevice[i].cmd \in Commands /\ toDevice[i].cmd.op \in {APP, STOP}
         /\ APP # STOP
<1>1. toDevice[i] \in CommandFrames
  BY DEF BusTypeOK
<1> QED BY <1>1 DEF CommandFrames, Commands, Opcodes, APP, STOP

(***************************************************************************)
(* The commands on the wire.                                               *)
(***************************************************************************)
LEMMA InitWire == Init => Wire
<1> SUFFICES ASSUME Init PROVE Wire
  OBVIOUS
<1> USE DEF Init, BusInit, BridgeInit, ProcessInit, DeviceInit
<1>1. WorkerAt
  BY DEF WorkerAt, Settled, NoResult
<1>2. OnTheWay
  BY DEF OnTheWay
<1>3. Begun
  BY DEF Begun
<1>4. Repeats
  BY DEF Repeats, Retryable
<1>5. CarriedAtMostOnce
  BY DEF CarriedAtMostOnce
<1> QED BY <1>1, <1>2, <1>3, <1>4, <1>5 DEF Wire

LEMMA TerminalStates == \A o : TerminalState(o) \in Settled
BY DEF TerminalState, Settled

LEMMA StateKinds ==
  /\ Live \cap Settled = {} /\ "executing" \in Live /\ "canceling" \in Live
  /\ {"unsent", "refused", "lost"} \cap (Live \cup Settled) = {}
BY DEF Live, Settled

LEMMA WorkerPlaces ==
  ASSUME TypeInv, WorkerAt, Worker
  PROVE  WorkerAt'
<1>0. /\ goal \in [Goals -> GoalStates] /\ result \in [Goals -> Results] /\ attempt \in {0, 1}
      /\ pc # "idle" => cur \in Goals
      /\ \A o, c : Report(o, c) => pending'.outcome = o /\ pc' = "finish"
  BY DEF TypeInv, TypeOK, WorkerOK, BridgeTypeOK, Report, kMaxRetries
<1> USE <1>0 DEF WorkerAt, serverVars
<1>1. CASE Finish
  <2>1. goal'[cur] \in Settled /\ result'[cur] = pending
    BY <1>1, TerminalStates DEF Finish
  <2>2. \A g \in Goals : g # cur => goal'[g] = goal[g] /\ result'[g] = result[g]
    BY <1>1 DEF Finish
  <2> QED BY <1>1, <2>1, <2>2 DEF Finish
<1>2. CASE Release
  BY <1>2 DEF Release
<1>3. CASE CheckCancel \/ SendCommand \/ SendCommandFails
  BY <1>3 DEF CheckCancel, SendCommand, SendCommandFails, StopAndFinish
<1>4. CASE Poll \/ PollEmpty \/ IgnoreFrame
  BY <1>4 DEF Poll, PollEmpty, IgnoreFrame, Resume
<1>5. CASE WaitTimeout
  BY <1>5 DEF WaitTimeout, StopAndFinish, kMaxRetries
<1>8. CASE WaitResponse \/ WaitCanceled \/ WaitTransportError \/ WaitShutdown
  BY <1>8 DEF WaitResponse, WaitCanceled, WaitTransportError, WaitShutdown, StopAndFinish
<1>6. CASE SendStop \/ SendStopFails
  BY <1>6 DEF SendStop, SendStopFails
<1>7. CASE StopResponse \/ StopTimeout \/ StopTransportError
  BY <1>7 DEF StopResponse, StopTimeout, StopTransportError
<1> QED BY <1>1, <1>2, <1>3, <1>4, <1>5, <1>6, <1>7, <1>8 DEF Worker

LEMMA NextPlaces == TypeInv /\ FlightInv /\ WorkerAt /\ [Next]_vars => WorkerAt'
<1> SUFFICES ASSUME TypeInv, FlightInv, WorkerAt, [Next]_vars PROVE WorkerAt'
  OBVIOUS
<1>0. goal \in [Goals -> GoalStates]
  BY DEF TypeInv, TypeOK, BridgeTypeOK
<1> USE <1>0, StateKinds DEF WorkerAt, workerVars
<1>1. ASSUME NEW g \in Goals, HandleGoalAccept(g) PROVE WorkerAt'
  BY <1>1 DEF HandleGoalAccept
<1>2. ASSUME NEW g \in Goals, HandleGoalReject(g) PROVE WorkerAt'
  BY <1>2 DEF HandleGoalReject
<1>3. ASSUME NEW g \in Goals, HandleCancel(g) PROVE WorkerAt'
  BY <1>3 DEF HandleCancel
<1>4. CASE Shutdown
  BY <1>4 DEF Shutdown
<1>5. CASE Restart
  BY <1>5 DEF Restart, FreshProcess
<1>6. CASE UNCHANGED bridgeVars
  BY <1>6 DEF bridgeVars
<1> QED BY <1>1, <1>2, <1>3, <1>4, <1>5, <1>6, WorkerPlaces DEF Next, BridgeNext, vars

(* The rest of Wire, which the device has a part in. *)
OnWire == OnTheWay /\ Begun /\ Repeats /\ CarriedAtMostOnce

(* A step of the bridge that sends nothing. *)
LEMMA SilentStep ==
  ASSUME OnWire, UNCHANGED <<toDevice, request, cache, carried, running>>,
         \A g \in Goals : goal'[g] \in {"unsent", "refused"} => goal[g] \in {"unsent", "refused"},
         \A g \in Goals : Untouched(g)' => Untouched(g),
         Retryable' => Retryable /\ cur' = cur, BusTypeOK
  PROVE  OnWire'
<1> USE DEF Starts
<1>1. OnTheWay'
  BY FrameTypes DEF OnWire, OnTheWay
<1>2. Begun'
  BY DEF OnWire, Begun
<1>3. Repeats'
  BY DEF OnWire, Repeats, JustDone
<1>4. CarriedAtMostOnce'
  BY DEF OnWire, CarriedAtMostOnce
<1> QED BY <1>1, <1>2, <1>3, <1>4 DEF OnWire

LEMMA SendCommandWire ==
  ASSUME TypeInv, WorkerAt, OnWire, SendCommand, UNCHANGED deviceVars
  PROVE  OnWire'
<1> DEFINE frame == [cmd |-> request[cur], by |-> cur]
<1>1. /\ cur \in Goals /\ request[cur].op = APP /\ goal[cur] \in Live /\ BusTypeOK
      /\ carried[cur] \in Nat
  BY DEF SendCommand, TypeInv, TypeOK, WorkerOK, BridgeTypeOK, Requests, WorkerAt, DeviceTypeOK
<1>2. frame \in CommandFrames
  BY DEF SendCommand, TypeInv, TypeOK, WorkerOK, ValidId, BridgeTypeOK, Requests, CommandFrames,
         Commands, Opcodes
<1>3. Transmit(frame)
  BY DEF SendCommand
<1>4. /\ Len(toDevice) \in Nat /\ Len(toDevice') = Len(toDevice) + 1
      /\ toDevice'[Len(toDevice')] = frame
      /\ \A i \in 1..Len(toDevice') : i = Len(toDevice') \/ i \in 1..Len(toDevice)
      /\ \A i \in 1..Len(toDevice) : i \in 1..Len(toDevice') /\ toDevice'[i] = toDevice[i]
  BY <1>1, <1>2, <1>3, QueueAppend
<1>5. /\ UNCHANGED <<goal, request, cur, attempt, cache, carried, running>>
      /\ pc = "send" /\ pc' = "wait" /\ sent'
  BY DEF SendCommand, serverVars, deviceVars
<1>6. ~sent => Untouched(cur) /\ carried[cur] = 0 /\ \A i \in 1..Len(toDevice) : ~Starts(i, cur)
  BY <1>1, <1>5 DEF OnWire, Begun, Untouched
<1>7. sent => Retryable /\ attempt = 1
  BY <1>5 DEF Retryable, WorkerAt
<1>8. \A g : \A i \in 1..Len(toDevice) : Starts(i, g)' <=> Starts(i, g)
  BY <1>4 DEF Starts
<1>9. \A g : \A i \in 1..Len(toDevice') : Starts(i, g)' => i \in 1..Len(toDevice) \/ g = cur
  BY <1>4 DEF Starts
<1>10. OnTheWay'
  <2>1. ASSUME NEW g \in Goals, NEW i \in 1..Len(toDevice'), NEW j \in 1..Len(toDevice'),
               Starts(i, g)', Starts(j, g)', i < j
        PROVE  j = i + 1
    <3>1. i \in 1..Len(toDevice) /\ Starts(i, g)
      BY <2>1, <1>4, <1>8
    <3>2. CASE j \in 1..Len(toDevice)
      BY <2>1, <3>1, <3>2, <1>8 DEF OnWire, OnTheWay
    <3>3. CASE j \notin 1..Len(toDevice)
      <4>1. g = cur /\ j = Len(toDevice) + 1
        BY <2>1, <3>3, <1>4, <1>9
      <4>2. i = Len(toDevice)
        BY <3>1, <4>1, <1>6, <1>7 DEF OnWire, Repeats
      <4> QED BY <4>1, <4>2
    <3> QED BY <3>2, <3>3
  <2>2. ASSUME NEW i \in 1..Len(toDevice')
        PROVE  /\ toDevice'[i].cmd.op = APP => toDevice'[i].cmd = request'[toDevice'[i].by]
               /\ toDevice'[i].cmd.op = STOP => toDevice'[i].cmd.id \in StopIds
               /\ goal'[toDevice'[i].by] \notin {"unsent", "refused"}
    <3>1. CASE i \in 1..Len(toDevice)
      BY <3>1, <1>4, <1>5 DEF OnWire, OnTheWay
    <3>2. CASE i = Len(toDevice')
      BY <3>2, <1>1, <1>4, <1>5, StateKinds DEF APP, STOP
    <3> QED BY <3>1, <3>2, <1>4
  <2> QED BY <2>1, <2>2 DEF OnTheWay
<1>11. Begun'
  <2>1. ASSUME NEW g \in Goals, Untouched(g)'
        PROVE  carried'[g] = 0 /\ \A i \in 1..Len(toDevice') : ~Starts(i, g)'
    <3>1. goal[g] \in {"unsent", "refused"} /\ g # cur
      BY <2>1, <1>1, <1>5, StateKinds DEF Untouched
    <3>2. Untouched(g)
      BY <3>1 DEF Untouched
    <3> QED BY <3>1, <3>2, <1>5, <1>8, <1>9 DEF OnWire, Begun
  <2> QED BY <2>1, <1>5 DEF OnWire, Begun
<1>12. Repeats'
  <2>1. ASSUME NEW g \in Goals, NEW i \in 1..Len(toDevice'), Starts(i, g)', carried'[g] > 0
        PROVE  i = 1 /\ JustDone(g)'
    <3>1. JustDone(g)' <=> JustDone(g)
      BY <1>5 DEF JustDone
    <3>2. CASE i \in 1..Len(toDevice)
      BY <2>1, <3>1, <3>2, <1>5, <1>8 DEF OnWire, Repeats
    <3>3. CASE i \notin 1..Len(toDevice)
      <4>1. g = cur /\ i = Len(toDevice) + 1 /\ carried[cur] > 0
        BY <2>1, <3>3, <1>4, <1>5, <1>9
      <4>2. toDevice = <<>> /\ JustDone(cur)
        BY <4>1, <1>6, <1>7 DEF OnWire, Repeats
      <4> QED BY <3>1, <4>1, <4>2
    <3> QED BY <3>2, <3>3
  <2>2. ASSUME Retryable'
        PROVE  /\ \A i \in 1..Len(toDevice') : Starts(i, cur)' => i = Len(toDevice')
               /\ ~(carried'[cur] > 0)
    <3>1. attempt = 0
      BY <2>2, <1>5 DEF Retryable
    <3>2. ~sent
      BY <3>1, <1>7
    <3> QED BY <3>2, <1>4, <1>5, <1>6, <1>8
  <2> QED BY <2>1, <2>2, <1>5 DEF Repeats
<1>13. CarriedAtMostOnce'
  BY <1>5 DEF OnWire, CarriedAtMostOnce
<1> QED BY <1>10, <1>11, <1>12, <1>13 DEF OnWire

LEMMA SendStopWire ==
  ASSUME TypeInv, WorkerAt, OnWire, SendStop, UNCHANGED deviceVars
  PROVE  OnWire'
<1> DEFINE frame == [cmd |-> StopCommand, by |-> cur]
<1>1. /\ cur \in Goals /\ goal[cur] \in Live /\ BusTypeOK /\ nextStop \in StopIds
  BY DEF SendStop, TypeInv, TypeOK, WorkerOK, BridgeTypeOK, WorkerAt
<1>2. frame \in CommandFrames
  BY IdRanges DEF SendStop, StopCommand, TypeInv, TypeOK, WorkerOK, ValidId, BridgeTypeOK,
         CommandFrames, Commands, Opcodes
<1>3. Transmit(frame)
  BY DEF SendStop
<1>4. /\ Len(toDevice) \in Nat /\ Len(toDevice') = Len(toDevice) + 1
      /\ toDevice'[Len(toDevice')] = frame
      /\ \A i \in 1..Len(toDevice') : i = Len(toDevice') \/ i \in 1..Len(toDevice)
      /\ \A i \in 1..Len(toDevice) : i \in 1..Len(toDevice') /\ toDevice'[i] = toDevice[i]
  BY <1>1, <1>2, <1>3, QueueAppend
<1>5. /\ UNCHANGED <<goal, request, cur, attempt, cache, carried, running>>
      /\ pc = "stop" /\ pc' = "stopwait" /\ sent' = sent
  BY DEF SendStop, serverVars, deviceVars
<1>6. frame.cmd.op = STOP /\ frame.cmd.id \in StopIds /\ frame.by = cur /\ APP # STOP
  BY <1>1 DEF StopCommand, APP, STOP
<1>7. \A g : \A i \in 1..Len(toDevice') : Starts(i, g)' => i \in 1..Len(toDevice) /\ Starts(i, g)
  BY <1>4, <1>6 DEF Starts
<1>8. OnTheWay'
  <2>1. ASSUME NEW i \in 1..Len(toDevice')
        PROVE  /\ toDevice'[i].cmd.op = APP => toDevice'[i].cmd = request'[toDevice'[i].by]
               /\ toDevice'[i].cmd.op = STOP => toDevice'[i].cmd.id \in StopIds
               /\ goal'[toDevice'[i].by] \notin {"unsent", "refused"}
    <3>1. CASE i \in 1..Len(toDevice)
      BY <3>1, <1>4, <1>5 DEF OnWire, OnTheWay
    <3>2. CASE i = Len(toDevice')
      BY <3>2, <1>1, <1>4, <1>5, <1>6, StateKinds
    <3> QED BY <3>1, <3>2, <1>4
  <2> QED BY <2>1, <1>7 DEF OnWire, OnTheWay
<1>9. Begun'
  BY <1>5, <1>7 DEF OnWire, Begun, Untouched
<1>10. Repeats'
  BY <1>5, <1>7 DEF OnWire, Repeats, Retryable, JustDone
<1>11. CarriedAtMostOnce'
  BY <1>5 DEF OnWire, CarriedAtMostOnce
<1> QED BY <1>8, <1>9, <1>10, <1>11 DEF OnWire

(* A frame leaves the queue and nothing else happens. *)
LEMMA FrameGone ==
  ASSUME OnWire, BusTypeOK, toDevice # <<>>, toDevice' = Tail(toDevice),
         UNCHANGED <<goal, request, cur, pc, sent, attempt, cache, carried, running>>
  PROVE  OnWire'
<1>1. /\ Len(toDevice) \in Nat /\ Len(toDevice') = Len(toDevice) - 1
      /\ \A i \in 1..Len(toDevice') :
           i + 1 \in 1..Len(toDevice) /\ toDevice'[i] = toDevice[i + 1]
  BY QueueTail
<1>2. \A g : \A i \in 1..Len(toDevice') : Starts(i, g)' => Starts(i + 1, g)
  BY <1>1 DEF Starts
<1>3. OnTheWay'
  <2>1. ASSUME NEW g \in Goals, NEW i \in 1..Len(toDevice'), NEW j \in 1..Len(toDevice'),
               Starts(i, g)', Starts(j, g)', i < j
        PROVE  j = i + 1
    <3>1. j + 1 = (i + 1) + 1
      BY <2>1, <1>1, <1>2 DEF OnWire, OnTheWay
    <3> QED BY <3>1
  <2> QED BY <1>1, <2>1 DEF OnWire, OnTheWay
<1>4. Begun'
  BY <1>1, <1>2 DEF OnWire, Begun, Untouched
<1>5. Repeats'
  <2>1. ASSUME NEW g \in Goals, NEW i \in 1..Len(toDevice'), Starts(i, g)', carried[g] > 0
        PROVE  FALSE
    <3>1. i + 1 = 1
      BY <2>1, <1>1, <1>2 DEF OnWire, Repeats
    <3> QED BY <3>1
  <2>2. ASSUME Retryable', NEW i \in 1..Len(toDevice'), Starts(i, cur)'
        PROVE  i = Len(toDevice')
    <3>1. i + 1 = Len(toDevice)
      BY <2>2, <1>1, <1>2 DEF OnWire, Repeats, Retryable
    <3> QED BY <3>1, <1>1
  <2>3. Retryable' => ~(carried[cur] > 0)
    BY DEF OnWire, Repeats, Retryable
  <2> QED BY <2>1, <2>2, <2>3 DEF Repeats
<1>6. CarriedAtMostOnce'
  BY DEF OnWire, CarriedAtMostOnce
<1> QED BY <1>3, <1>4, <1>5, <1>6 DEF OnWire

(* What the device does with a command that is not in its cache. *)
LEMMA ProcessFacts ==
  ASSUME TypeInv, OnWire, ProcessCommand
  PROVE  LET f == toDevice[1]
         IN  /\ toDevice # <<>> /\ toDevice' = Tail(toDevice) /\ 1 \in 1..Len(toDevice)
             /\ f.by \in Goals /\ f.cmd \in Commands /\ ~Known(f.cmd)
             /\ cache' # <<>> /\ cache'[Len(cache')] = [cmd |-> f.cmd, resp |-> FreshReply(f.cmd)]
             /\ \A i \in 1..Len(cache') :
                  i = Len(cache') \/ \E j \in 1..Len(cache) : cache'[i] = cache[j]
             /\ reply' = FreshReply(f.cmd)
             /\ carried' = [carried EXCEPT ![f.by] = IF Takes(f.cmd) THEN @ + 1 ELSE @]
             /\ running' \subseteq running \cup (IF Takes(f.cmd) THEN {f.by} ELSE {})
             /\ Halts(f.cmd) => running' = {}
<1> DEFINE f == toDevice[1]
<1>1. /\ toDevice # <<>> /\ toDevice' = Tail(toDevice) /\ Head(toDevice) = f
      /\ 1 \in 1..Len(toDevice) /\ BusTypeOK
  BY QueueTail DEF ProcessCommand, TypeInv, TypeOK
<1>2. f.by \in Goals /\ f.cmd \in Commands
  BY <1>1, FrameTypes
<1> DEFINE kept == IF Len(cache) >= CacheCapacity THEN Tail(cache) ELSE cache
           e    == [cmd |-> f.cmd, resp |-> FreshReply(f.cmd)]
<1>3. cache' = Append(kept, e)
  BY <1>1 DEF ProcessCommand, Remember
<1>4. FreshReply(f.cmd) \in Responses \cup {NoReply}
  BY <1>2, FreshReplyTypes
<1>5. e \in CacheEntries
  BY <1>2, <1>4 DEF CacheEntries
<1>6. cache \in Seq(CacheEntries) /\ Len(cache) \in Nat
  BY DEF TypeInv, TypeOK, DeviceTypeOK
<1>7. /\ kept \in Seq(CacheEntries)
      /\ \A i \in 1..Len(kept) : \E j \in 1..Len(cache) : kept[i] = cache[j]
  <2>1. CASE Len(cache) >= CacheCapacity
    <3>1. cache # <<>>
      BY <2>1, DeviceAssumption
    <3>2. /\ Tail(cache) \in Seq(CacheEntries)
          /\ \A i \in 1..Len(Tail(cache)) : i + 1 \in 1..Len(cache) /\ Tail(cache)[i] = cache[i + 1]
      BY <1>6, <3>1
    <3> QED BY <2>1, <3>2
  <2>2. CASE ~(Len(cache) >= CacheCapacity)
    BY <2>2, <1>6
  <2> QED BY <2>1, <2>2
<1> HIDE DEF kept, e
<1>8. /\ cache' # <<>> /\ cache'[Len(cache')] = e /\ Len(cache') = Len(kept) + 1
      /\ \A i \in 1..Len(kept) : cache'[i] = kept[i]
      /\ Len(kept) \in Nat
  BY <1>3, <1>5, <1>7
<1>9. \A i \in 1..Len(cache') : i = Len(cache') \/ \E j \in 1..Len(cache) : cache'[i] = cache[j]
  BY <1>7, <1>8
<1>10. /\ running' \subseteq running \cup (IF Takes(f.cmd) THEN {f.by} ELSE {})
       /\ Halts(f.cmd) => running' = {}
  BY <1>1 DEF ProcessCommand
<1> QED BY <1>1, <1>2, <1>8, <1>9, <1>10 DEF ProcessCommand, e

LEMMA ProcessWire ==
  ASSUME TypeInv, OnWire, ProcessCommand, UNCHANGED bridgeVars
  PROVE  OnWire'
<1> DEFINE f == toDevice[1]
<1>0. /\ UNCHANGED <<goal, request, cur, pc, sent, attempt>> /\ BusTypeOK
      /\ carried \in [Goals -> Nat]
  BY DEF bridgeVars, TypeInv, TypeOK, DeviceTypeOK
<1>1. /\ toDevice # <<>> /\ toDevice' = Tail(toDevice) /\ 1 \in 1..Len(toDevice)
      /\ f.by \in Goals /\ f.cmd \in Commands /\ ~Known(f.cmd)
      /\ cache' # <<>> /\ cache'[Len(cache')].cmd = f.cmd
      /\ carried' = [carried EXCEPT ![f.by] = IF Takes(f.cmd) THEN @ + 1 ELSE @]
      /\ running' \subseteq running \cup (IF Takes(f.cmd) THEN {f.by} ELSE {})
  BY ProcessFacts
<1>2. /\ Len(toDevice) \in Nat /\ Len(toDevice') = Len(toDevice) - 1
      /\ \A i \in 1..Len(toDevice') :
           i + 1 \in 1..Len(toDevice) /\ toDevice'[i] = toDevice[i + 1]
  BY <1>0, <1>1, QueueTail
<1>3. \A g : \A i \in 1..Len(toDevice') : Starts(i, g)' => Starts(i + 1, g)
  BY <1>2 DEF Starts
<1>4. \A g \in Goals : \/ carried'[g] = carried[g]
                       \/ g = f.by /\ Takes(f.cmd) /\ carried'[g] = carried[g] + 1
  BY <1>0, <1>1
<1>5. Takes(f.cmd) => Starts(1, f.by) /\ f.cmd = request[f.by]
  BY <1>1 DEF Takes, Starts, OnWire, OnTheWay
<1>6. Takes(f.cmd) => carried[f.by] = 0
  <2>1. ASSUME Takes(f.cmd), carried[f.by] > 0 PROVE FALSE
    <3>1. JustDone(f.by)
      BY <2>1, <1>1, <1>5 DEF OnWire, Repeats
    <3>2. Len(cache) \in 1..Len(cache)
      BY <3>1 DEF JustDone, TypeInv, TypeOK, DeviceTypeOK
    <3> QED BY <3>1, <3>2, <2>1, <1>1, <1>5 DEF JustDone, Known
  <2> QED BY <2>1, <1>0, <1>1
<1>7. OnTheWay'
  <2>1. ASSUME NEW g \in Goals, NEW i \in 1..Len(toDevice'), NEW j \in 1..Len(toDevice'),
               Starts(i, g)', Starts(j, g)', i < j
        PROVE  j = i + 1
    <3>0. Starts(i + 1, g) /\ Starts(j + 1, g) /\ {i + 1, j + 1} \subseteq 1..Len(toDevice)
      BY <2>1, <1>2, <1>3
    <3>1. i \in Int /\ j \in Int /\ i + 1 < j + 1
      BY <2>1, <1>2
    <3>2. j + 1 = (i + 1) + 1
      BY <3>0, <3>1 DEF OnWire, OnTheWay
    <3> QED BY ONLY <3>1, <3>2
  <2>2. ASSUME NEW i \in 1..Len(toDevice')
        PROVE  /\ toDevice'[i].cmd.op = APP =>
                    toDevice'[i].cmd = request'[toDevice'[i].by]
               /\ toDevice'[i].cmd.op = STOP => toDevice'[i].cmd.id \in StopIds
               /\ goal'[toDevice'[i].by] \notin {"unsent", "refused"}
    <3>1. i + 1 \in 1..Len(toDevice) /\ toDevice'[i] = toDevice[i + 1]
      BY <2>2, <1>2
    <3> HIDE DEF f
    <3> QED BY <3>1, <1>0 DEF OnWire, OnTheWay
  <2> QED BY <2>1, <2>2 DEF OnTheWay
<1>8. Begun'
  <2>1. ASSUME NEW g \in Goals, Untouched(g)'
        PROVE  carried'[g] = 0 /\ \A i \in 1..Len(toDevice') : ~Starts(i, g)'
    <3>1. Untouched(g)
      BY <2>1, <1>0 DEF Untouched
    <3>2. carried[g] = 0 /\ \A i \in 1..Len(toDevice) : ~Starts(i, g)
      BY <3>1 DEF OnWire, Begun
    <3> QED BY <3>2, <1>1, <1>2, <1>3, <1>4, <1>5
  <2>2. ASSUME NEW g \in Goals, carried'[g] = 0
        PROVE  g \notin running'
    BY <2>2, <1>0, <1>1, <1>4 DEF OnWire, Begun
  <2> QED BY <2>1, <2>2 DEF Begun
<1>9. Repeats'
  <2>1. ASSUME NEW g \in Goals, NEW i \in 1..Len(toDevice'), Starts(i, g)', carried'[g] > 0
        PROVE  i = 1 /\ JustDone(g)'
    <3>1. Starts(i + 1, g) /\ i + 1 \in 1..Len(toDevice)
      BY <2>1, <1>2, <1>3
    <3>2. CASE carried[g] > 0
      <4>1. i + 1 = 1
        BY <3>1, <3>2 DEF OnWire, Repeats
      <4>2. i \in Int /\ i + 1 > 1
        BY <2>1, <1>2
      <4> QED BY ONLY <4>1, <4>2
    <3>3. CASE ~(carried[g] > 0)
      <4>1. g = f.by /\ Takes(f.cmd)
        BY <2>1, <3>3, <1>0, <1>4
      <4>0. 1 < i + 1 /\ Starts(1, g)
        BY <4>1, <2>1, <1>2, <1>5
      <4>2. i + 1 = 1 + 1
        BY <4>0, <3>1, <1>1 DEF OnWire, OnTheWay
      <4>3. JustDone(g)'
        BY <4>1, <1>0, <1>1, <1>5 DEF JustDone
      <4> QED BY <4>2, <4>3
    <3> QED BY <3>2, <3>3
  <2>2. ASSUME Retryable'
        PROVE  /\ \A i \in 1..Len(toDevice') : Starts(i, cur)' => i = Len(toDevice')
               /\ carried'[cur] > 0 => toDevice' = <<>> /\ JustDone(cur)'
    <3>1. Retryable /\ cur \in Goals
      BY <2>2, <1>0 DEF Retryable, TypeInv, WorkerOK
    <3>2. ASSUME NEW i \in 1..Len(toDevice'), Starts(i, cur)' PROVE i = Len(toDevice')
      <4>0. Starts(i + 1, cur) /\ i + 1 \in 1..Len(toDevice)
        BY <3>2, <1>0, <1>2, <1>3 DEF Starts
      <4>1. i + 1 = Len(toDevice)
        BY <3>1, <4>0 DEF OnWire, Repeats
      <4> QED BY <4>1, <1>2
    <3>3. ASSUME carried'[cur] > 0 PROVE toDevice' = <<>> /\ JustDone(cur)'
      <4>1. ~(carried[cur] > 0)
        BY <3>1, <1>1 DEF OnWire, Repeats
      <4>2. cur = f.by /\ Takes(f.cmd)
        BY <3>1, <3>3, <4>1, <1>4
      <4>3. 1 = Len(toDevice)
        BY <4>2, <3>1, <1>1, <1>5 DEF OnWire, Repeats
      <4>4. toDevice' = <<>>
        BY <4>3, <1>1, <1>0 DEF BusTypeOK
      <4>5. JustDone(cur)'
        BY <4>2, <1>0, <1>1, <1>5 DEF JustDone
      <4> QED BY <4>4, <4>5
    <3> QED BY <3>2, <3>3
  <2> QED BY <2>1, <2>2, <1>0 DEF Repeats
<1>10. CarriedAtMostOnce'
  BY <1>0, <1>1, <1>4, <1>6 DEF OnWire, CarriedAtMostOnce
<1> QED BY <1>7, <1>8, <1>9, <1>10 DEF OnWire

LEMMA WorkerWire ==
  ASSUME TypeInv, WorkerAt, OnWire, Worker, UNCHANGED deviceVars
  PROVE  OnWire'
<1>0. /\ goal \in [Goals -> GoalStates] /\ attempt \in {0, 1} /\ BusTypeOK
      /\ pc # "idle" => cur \in Goals
      /\ \A o, c : Report(o, c) => pc' = "finish"
      /\ \A b, c : StopAndFinish(b, c) => pc' = "stop"
  BY DEF TypeInv, TypeOK, WorkerOK, BridgeTypeOK, Report, StopAndFinish, kMaxRetries
<1>1. CASE SendCommand
  BY <1>1, SendCommandWire
<1>2. CASE SendStop
  BY <1>2, SendStopWire
<1>3. ASSUME ~SendCommand, ~SendStop PROVE OnWire'
  <2>1. UNCHANGED <<toDevice, request, cache, carried, running, cur>>
    BY <1>3 DEF Worker, CheckCancel, SendCommandFails, Poll, PollEmpty, IgnoreFrame, WaitResponse,
       WaitCanceled, WaitTimeout, WaitTransportError, WaitShutdown, SendStopFails, StopResponse,
       StopTimeout, StopTransportError, Finish, Release, busVars, serverVars, deviceVars, Receive
  <2>2. \A g \in Goals : goal'[g] \in {"unsent", "refused"} => goal[g] \in {"unsent", "refused"}
    <3>1. CASE Finish
      BY <3>1, <1>0, TerminalStates, StateKinds DEF Finish
    <3>2. CASE ~Finish
      BY <3>2, <1>3 DEF Worker, CheckCancel, SendCommandFails, Poll, PollEmpty, IgnoreFrame,
         WaitResponse, WaitCanceled, WaitTimeout, WaitTransportError, WaitShutdown, SendStopFails,
         StopResponse, StopTimeout, StopTransportError, Release, serverVars
    <3> QED BY <3>1, <3>2
  <2>3. /\ Retryable' => Retryable
        /\ pc' \in {"check", "send"} /\ ~sent' => pc \in {"check", "send"} /\ ~sent
    <3> USE DEF Retryable
    <3>1. CASE CheckCancel
      BY <3>1 DEF CheckCancel, Report, StopAndFinish
    <3>7. CASE SendCommandFails
      BY <3>7 DEF SendCommandFails, Report
    <3>2. CASE Poll \/ PollEmpty \/ IgnoreFrame
      BY <3>2, <1>0 DEF Poll, PollEmpty, IgnoreFrame, Resume
    <3>3. CASE WaitResponse \/ WaitCanceled \/ WaitTransportError \/ WaitShutdown
      BY <3>3, <1>0 DEF WaitResponse, WaitCanceled, WaitTransportError, WaitShutdown
    <3>4. CASE WaitTimeout
      BY <3>4, <1>0 DEF WaitTimeout, WorkerAt, kMaxRetries, StopAndFinish
    <3>5. CASE SendStopFails \/ StopResponse \/ StopTimeout \/ StopTransportError
      BY <3>5, <1>0 DEF SendStopFails, StopResponse, StopTimeout, StopTransportError
    <3>6. CASE Finish \/ Release
      BY <3>6 DEF Finish, Release
    <3> QED BY <1>3, <3>1, <3>2, <3>3, <3>4, <3>5, <3>6, <3>7 DEF Worker
  <2>4. \A g \in Goals : Untouched(g)' => Untouched(g)
    BY <2>1, <2>2, <2>3 DEF Untouched
  <2> QED BY <1>0, <2>1, <2>2, <2>3, <2>4, SilentStep
<1> QED BY <1>1, <1>2, <1>3

LEMMA ServerWire ==
  ASSUME TypeInv, FlightInv, OnWire, UNCHANGED deviceVars,
         Shutdown \/ Restart \/
         \E g \in Goals : HandleGoalAccept(g) \/ HandleGoalReject(g) \/ HandleCancel(g)
  PROVE  OnWire'
<1>0. goal \in [Goals -> GoalStates] /\ BusTypeOK
  BY DEF TypeInv, TypeOK, BridgeTypeOK
<1> USE <1>0, SilentStep DEF Untouched, Retryable, busVars, deviceVars, workerVars
<1>1. ASSUME NEW g \in Goals, HandleGoalAccept(g) PROVE OnWire'
  BY <1>1 DEF HandleGoalAccept
<1>2. ASSUME NEW g \in Goals, HandleGoalReject(g) PROVE OnWire'
  BY <1>2 DEF HandleGoalReject
<1>3. ASSUME NEW g \in Goals, HandleCancel(g) PROVE OnWire'
  BY <1>3 DEF HandleCancel
<1>4. CASE Shutdown
  BY <1>4 DEF Shutdown
<1>5. CASE Restart
  BY <1>5, StateKinds DEF Restart, FreshProcess
<1> QED BY <1>1, <1>2, <1>3, <1>4, <1>5

LEMMA NextWire == TypeInv /\ FlightInv /\ Wire /\ [Next]_vars => Wire'
<1> SUFFICES ASSUME TypeInv, FlightInv, Wire, [Next]_vars PROVE Wire'
  OBVIOUS
<1>0. OnWire /\ WorkerAt /\ BusTypeOK
  BY DEF Wire, OnWire, TypeInv, TypeOK
<1>1. WorkerAt'
  BY NextPlaces DEF Wire
<1>2. OnWire'
  <2>2. CASE BridgeNext /\ UNCHANGED deviceVars
    BY <1>0, <2>2, WorkerWire, ServerWire DEF BridgeNext
  <2>3. CASE UNCHANGED bridgeVars /\ DeviceNext
    <3>1. CASE ReplayCommand
      BY <1>0, <2>3, <3>1, FrameGone DEF ReplayCommand, bridgeVars
    <3>2. CASE ProcessCommand
      BY <1>0, <2>3, <3>2, ProcessWire
    <3>3. CASE SendResponse
      BY <1>0, <2>3, <3>3, SilentStep DEF SendResponse, bridgeVars, Untouched, Retryable
    <3> QED BY <2>3, <3>1, <3>2, <3>3 DEF DeviceNext
  <2>4. CASE LoseCommand /\ UNCHANGED <<bridgeVars, deviceVars>>
    BY <1>0, <2>4, FrameGone DEF LoseCommand, bridgeVars, deviceVars
  <2>5. CASE LoseResponse /\ UNCHANGED <<bridgeVars, deviceVars>>
    BY <1>0, <2>5, SilentStep DEF LoseResponse, bridgeVars, deviceVars, Untouched, Retryable
  <2>6. CASE UNCHANGED vars
    BY <1>0, <2>6, SilentStep DEF vars, busVars, bridgeVars, deviceVars, Untouched, Retryable
  <2> QED BY <2>2, <2>3, <2>4, <2>5, <2>6 DEF Next
<1> QED BY <1>1, <1>2 DEF Wire, OnWire

LEMMA WireAlways == Spec => []Wire
BY InitWire, NextWire, TypeInvAlways, FlightAlways, PTL DEF Spec

(* A command is carried out at most once, whatever is lost, retried or     *)
(* restarted, and however small the replay cache is: the two frames of a   *)
(* goal are neighbours on the bus, so nothing is remembered in between     *)
(* that could evict the first.                                             *)
THEOREM CarriedOnce == Spec => []CarriedAtMostOnce
<1>1. Wire => CarriedAtMostOnce
  BY DEF Wire
<1> QED BY <1>1, WireAlways, PTL

(***************************************************************************)
(* The answers on the bus and in the cache, for goals that keep to the     *)
(* application ids.                                                        *)
(***************************************************************************)
LEMMA InitAnswers == Init => Answers
<1> SUFFICES ASSUME Init PROVE Answers
  OBVIOUS
<1> USE DEF Init, BusInit, BridgeInit, ProcessInit, DeviceInit
<1>1. AnswersAreTrue
  BY DEF AnswersAreTrue, Seen, Cached
<1>2. OutcomesHold
  BY DEF OutcomesHold, Holds, NoResult
<1> QED BY <1>1, <1>2 DEF Answers

(* What is true of a command stays true of it. *)
LEMMA TruthStays ==
  ASSUME UNCHANGED <<request, mode>>, \A g \in Goals : carried[g] > 0 => carried'[g] > 0
  PROVE  /\ \A r : TrueAnswer(r) => TrueAnswer(r)'
         /\ \A e : TrueEntry(e) => TrueEntry(e)'
         /\ \A g \in Goals : \A o : Holds(g, o) => Holds(g, o)'
<1>1. \A r : TrueAnswer(r) => TrueAnswer(r)'
  BY DEF TrueAnswer, Refusing
<1>2. \A e : TrueEntry(e) => TrueEntry(e)'
  BY <1>1 DEF TrueEntry
<1>3. \A g \in Goals : \A o : Holds(g, o) => Holds(g, o)'
  BY DEF Holds, Refusing
<1> QED BY <1>1, <1>2, <1>3

(* The bridge invents no answer. *)
LEMMA BridgeSees ==
  ASSUME BusTypeOK, UNCHANGED <<reply, cache>>,
         toBridge' = toBridge \/ toBridge' = <<>> \/ (toBridge # <<>> /\ toBridge' = Tail(toBridge))
  PROVE  Seen' \subseteq Seen /\ Cached' = Cached
<1>1. Cached' = Cached
  BY DEF Cached
<1>2. CASE toBridge' = toBridge
  BY <1>1, <1>2 DEF Seen
<1>3. CASE toBridge' = <<>>
  BY <1>1, <1>3 DEF Seen
<1>4. CASE toBridge # <<>> /\ toBridge' = Tail(toBridge)
  <2>1. /\ Len(toBridge) \in Nat /\ Len(toBridge') = Len(toBridge) - 1
        /\ \A i \in 1..Len(toBridge') : toBridge'[i] = toBridge[i + 1] /\ i + 1 \in 1..Len(toBridge)
    BY <1>4 DEF BusTypeOK
  <2> QED BY <1>1, <2>1 DEF Seen
<1> QED BY <1>2, <1>3, <1>4

LEMMA BridgeQueue ==
  ASSUME BusTypeOK, BridgeNext
  PROVE  toBridge' = toBridge \/ toBridge' = <<>> \/ (toBridge # <<>> /\ toBridge' = Tail(toBridge))
<1>1. CASE Worker
  BY <1>1 DEF Worker, CheckCancel, SendCommand, SendCommandFails, Poll, PollEmpty, IgnoreFrame,
     WaitResponse, WaitCanceled, WaitTimeout, WaitTransportError, WaitShutdown, SendStop,
     SendStopFails, StopResponse, StopTimeout, StopTransportError, Finish, Release, busVars,
     Transmit, Receive
<1>2. CASE Shutdown \/ Restart
  BY <1>2 DEF Shutdown, Restart, busVars
<1>3. ASSUME NEW g \in Goals, HandleGoalAccept(g) \/ HandleGoalReject(g) \/ HandleCancel(g)
      PROVE  toBridge' = toBridge
  BY <1>3 DEF HandleGoalAccept, HandleGoalReject, HandleCancel, busVars
<1> QED BY <1>1, <1>2, <1>3 DEF BridgeNext

(* An answer that is taken for one to the command is one. *)
LEMMA AnswerToCommand ==
  ASSUME GoalsAreApp, TypeInv, Answers, cur \in Goals, Receive, AnswersCommand
  PROVE  /\ Answer.code = Accepted => carried[cur] > 0
         /\ Answer.code # Accepted => Refusing
<1>1. toBridge[1] = Answer /\ 1 \in 1..Len(toBridge) /\ Answer \in Responses
  BY DEF Receive, Answer, TypeInv, TypeOK, BusTypeOK
<1>2. Answer \in Seen
  BY <1>1 DEF Seen
<1>3. Answer # NoReply
  BY <1>1 DEF Responses, NoReply, WireIds
<1>4. /\ Answer.op = STOP => Answer.id \in StopIds
      /\ Answer.op = APP => \E g \in Goals :
           /\ Answer.id = request[g].id
           /\ Answer.code = Accepted => carried[g] > 0
           /\ Answer.code # Accepted => Refusing
  BY <1>2, <1>3 DEF Answers, AnswersAreTrue, TrueAnswer
<1>5. Answer.id = request[cur].id /\ request[cur].id \in GoalIds
  BY DEF AnswersCommand, TypeInv, TypeOK, BridgeTypeOK, Requests
<1>6. Answer.op = APP
  BY <1>1, <1>4, <1>5 DEF GoalsAreApp, Responses, Opcodes
<1>7. PICK g \in Goals : /\ Answer.id = request[g].id
                         /\ Answer.code = Accepted => carried[g] > 0
                         /\ Answer.code # Accepted => Refusing
  BY <1>4, <1>6
<1>8. g = cur
  BY <1>5, <1>7 DEF Answers, FreshIds
<1> QED BY <1>7, <1>8

LEMMA BridgeOutcomes ==
  ASSUME GoalsAreApp, TypeInv, Answers, BridgeNext, UNCHANGED deviceVars
  PROVE  OutcomesHold'
<1>0. /\ UNCHANGED <<mode, carried>> /\ result \in [Goals -> Results]
      /\ pc # "idle" => cur \in Goals
      /\ \A o, c : Report(o, c) => pending'.outcome = o /\ pc' = "finish"
      /\ \A b, c : StopAndFinish(b, c) => pc' = "stop"
  BY DEF deviceVars, TypeInv, TypeOK, BridgeTypeOK, WorkerOK, Report, StopAndFinish
<1> USE <1>0 DEF Answers, OutcomesHold, Holds, Refusing
<1>1. CASE WaitResponse
  <2>1. /\ Answer.code = Accepted => carried[cur] > 0
        /\ Answer.code # Accepted => Refusing
    BY <1>1, AnswerToCommand DEF WaitResponse
  <2>2. UNCHANGED <<cur, result>> /\ pc' \in {"stop", "finish"}
    BY <1>1 DEF WaitResponse, serverVars, Report, StopAndFinish
  <2>3. pc' = "finish" => \/ pending'.outcome = "COMPLETED" /\ Answer.code = Accepted
                          \/ pending'.outcome = "DEVICE_FAULT" /\ Answer.code # Accepted
    BY <1>1 DEF WaitResponse, Report, StopAndFinish
  <2> QED BY <2>1, <2>2, <2>3
<1>2. CASE Finish
  <2>1. /\ result'[cur] = pending /\ pc' = "release"
        /\ \A g \in Goals : g # cur => result'[g] = result[g]
    BY <1>2 DEF Finish
  <2> QED BY <1>2, <2>1 DEF Finish
<1>3. CASE CheckCancel
  <2>1. /\ UNCHANGED <<cur, result>>
        /\ pc' = "finish" => pending'.outcome = "CANCELED"
    BY <1>3 DEF CheckCancel, serverVars, Report, StopAndFinish
  <2> QED BY <2>1
<1>4. CASE SendCommand \/ SendCommandFails
  BY <1>4 DEF SendCommand, SendCommandFails, serverVars
<1>5. CASE Poll \/ PollEmpty \/ IgnoreFrame
  BY <1>5 DEF Poll, PollEmpty, IgnoreFrame, Resume, serverVars
<1>6. CASE WaitCanceled \/ WaitTimeout \/ WaitTransportError \/ WaitShutdown
  BY <1>6 DEF WaitCanceled, WaitTimeout, WaitTransportError, WaitShutdown, serverVars
<1>7. CASE SendStop \/ SendStopFails
  BY <1>7 DEF SendStop, SendStopFails, serverVars
<1>8. CASE StopResponse \/ StopTimeout \/ StopTransportError
  BY <1>8 DEF StopResponse, StopTimeout, StopTransportError, serverVars
<1>9. CASE Release
  BY <1>9 DEF Release
<1>10. CASE Shutdown \/ Restart
  BY <1>10 DEF Shutdown, Restart, FreshProcess, workerVars
<1>11. ASSUME NEW g \in Goals, HandleGoalAccept(g) \/ HandleGoalReject(g) \/ HandleCancel(g)
       PROVE  OutcomesHold'
  BY <1>11 DEF HandleGoalAccept, HandleGoalReject, HandleCancel, workerVars
<1> QED BY <1>1, <1>2, <1>3, <1>4, <1>5, <1>6, <1>7, <1>8, <1>9, <1>10, <1>11
        DEF BridgeNext, Worker

LEMMA BridgeAnswers ==
  ASSUME GoalsAreApp, TypeInv, Answers, BridgeNext, UNCHANGED deviceVars
  PROVE  Answers'
<1>1. UNCHANGED <<request, mode, carried, reply, cache>>
  BY DEF deviceVars, BridgeNext, Worker, CheckCancel, SendCommand, SendCommandFails, Poll,
     PollEmpty, IgnoreFrame, WaitResponse, WaitCanceled, WaitTimeout, WaitTransportError,
     WaitShutdown, SendStop, SendStopFails, StopResponse, StopTimeout, StopTransportError,
     Finish, Release, Shutdown, Restart, HandleGoalAccept, HandleGoalReject, HandleCancel,
     serverVars
<1>2. Seen' \subseteq Seen /\ Cached' = Cached
  BY <1>1, BridgeQueue, BridgeSees DEF TypeInv, TypeOK
<1>3. AnswersAreTrue'
  BY <1>1, <1>2, TruthStays DEF Answers, AnswersAreTrue
<1> QED BY <1>1, <1>3, BridgeOutcomes DEF Answers, FreshIds

(* What the device answers to a command it has not remembered. *)
LEMMA FreshReplyFacts ==
  ASSUME NEW cmd \in Commands
  PROVE  /\ FreshReply(cmd) # NoReply =>
              FreshReply(cmd).id = cmd.id /\ FreshReply(cmd).op = cmd.op
         /\ FreshReply(cmd) # NoReply /\ cmd.op = APP =>
              IF FreshReply(cmd).code = Accepted THEN Takes(cmd) ELSE Refusing
         /\ FreshReply(cmd) # NoReply /\ cmd.op = STOP => Halts(cmd)
         /\ Refusing => ~Takes(cmd)
BY DEF FreshReply, Response, Takes, Halts, Refusing, Accepted, Rejected, Faulted, APP, STOP

LEMMA ProcessAnswers ==
  ASSUME TypeInv, OnWire, Answers, ProcessCommand, UNCHANGED bridgeVars
  PROVE  Answers'
<1> DEFINE f == toDevice[1]
           e == [cmd |-> f.cmd, resp |-> FreshReply(f.cmd)]
<1>0. /\ UNCHANGED <<request, mode, toBridge, pc, cur, pending, result>>
      /\ carried \in [Goals -> Nat] /\ BusTypeOK
  BY DEF ProcessCommand, bridgeVars, TypeInv, TypeOK, DeviceTypeOK
<1>1. /\ 1 \in 1..Len(toDevice) /\ f.by \in Goals /\ f.cmd \in Commands
      /\ cache'[Len(cache')] = e
      /\ \A i \in 1..Len(cache') : i = Len(cache') \/ \E j \in 1..Len(cache) : cache'[i] = cache[j]
      /\ reply' = FreshReply(f.cmd)
      /\ carried' = [carried EXCEPT ![f.by] = IF Takes(f.cmd) THEN @ + 1 ELSE @]
  BY ProcessFacts
<1>2. /\ \A g \in Goals : carried[g] > 0 => carried'[g] > 0
      /\ Takes(f.cmd) => carried'[f.by] > 0
      /\ ~Takes(f.cmd) => carried' = carried
  BY <1>0, <1>1
<1>3. /\ f.cmd.op = APP => f.cmd = request[f.by]
      /\ f.cmd.op = STOP => f.cmd.id \in StopIds
      /\ f.cmd.op \in {APP, STOP} /\ APP # STOP
  BY <1>0, <1>1, FrameTypes DEF OnWire, OnTheWay
<1>4. /\ \A r : TrueAnswer(r) => TrueAnswer(r)'
      /\ \A x : TrueEntry(x) => TrueEntry(x)'
      /\ \A g \in Goals : \A o : Holds(g, o) => Holds(g, o)'
  BY <1>0, <1>2, TruthStays
<1>5. ASSUME NEW r, r = FreshReply(f.cmd), r # NoReply
      PROVE  TrueAnswer(r)' /\ r.id = f.cmd.id /\ r.op = f.cmd.op
  <2>1. /\ r.id = f.cmd.id /\ r.op = f.cmd.op
        /\ f.cmd.op = APP => IF r.code = Accepted THEN Takes(f.cmd) ELSE Refusing
    BY <1>1, <1>5, FreshReplyFacts
  <2> QED BY <1>0, <1>1, <1>2, <1>3, <2>1 DEF TrueAnswer, Refusing
<1>6. ASSUME NEW x, x = e PROVE TrueEntry(x)'
  <2>1. x.cmd = f.cmd /\ x.resp = FreshReply(f.cmd)
    BY <1>6
  <2> QED BY <1>0, <1>1, <1>3, <1>5, <2>1 DEF TrueEntry
<1>7. Seen' \subseteq Seen \cup {FreshReply(f.cmd)} /\ Cached' \subseteq Cached \cup {e}
  BY <1>0, <1>1 DEF Seen, Cached
<1>8. AnswersAreTrue'
  BY <1>4, <1>5, <1>6, <1>7 DEF Answers, AnswersAreTrue
<1>9. OutcomesHold'
  <2>1. Refusing' => \A g \in Goals : carried'[g] = 0
    BY <1>0, <1>1, <1>2, FreshReplyFacts DEF Answers, OutcomesHold, Refusing
  <2>2. pc' = "finish" => Holds(cur, pending.outcome)'
    BY <1>0, <1>2 DEF Answers, OutcomesHold, Holds, Refusing, TypeInv, WorkerOK
  <2>3. \A g \in Goals : Holds(g, result[g].outcome)'
    BY <1>0, <1>2 DEF Answers, OutcomesHold, Holds, Refusing
  <2> QED BY <2>1, <2>2, <2>3 DEF OutcomesHold
<1> QED BY <1>0, <1>8, <1>9 DEF Answers, FreshIds

(* A remembered command is answered as before, unless a STOP id was used   *)
(* for another STOP.                                                       *)
LEMMA ReplayFacts ==
  ASSUME GoalsAreApp, TypeInv, OnWire, Answers, ReplayCommand
  PROVE  LET f == toDevice[1]
         IN  /\ toDevice # <<>> /\ 1 \in 1..Len(toDevice) /\ f.by \in Goals /\ f.cmd \in Commands
             /\ \/ /\ EntryOf(f.cmd) \in Cached /\ EntryOf(f.cmd).cmd = f.cmd
                   /\ reply' = EntryOf(f.cmd).resp
                \/ /\ f.cmd.op = STOP /\ f.cmd.id \in StopIds
                   /\ reply' = Response(f.cmd, Conflict, "FAULT")
<1> DEFINE f == toDevice[1]
           e == EntryOf(f.cmd)
<1>1. /\ toDevice # <<>> /\ Head(toDevice) = f /\ BusTypeOK
      /\ 1 \in 1..Len(toDevice)
  BY QueueTail DEF ReplayCommand, TypeInv, TypeOK
<1>2. f.by \in Goals /\ f.cmd \in Commands /\ f.cmd.op \in {APP, STOP}
  BY <1>1, FrameTypes
<1>3. /\ Known(f.cmd)
      /\ reply' = IF e.cmd # f.cmd THEN Response(f.cmd, Conflict, "FAULT") ELSE e.resp
  BY <1>1 DEF ReplayCommand
<1>4. e \in Cached /\ e.cmd.id = f.cmd.id
  <2>1. PICK i \in 1..Len(cache) : cache[i].cmd.id = f.cmd.id
    BY <1>3 DEF Known
  <2>2. LET k == CHOOSE j \in 1..Len(cache) : cache[j].cmd.id = f.cmd.id
        IN  k \in 1..Len(cache) /\ cache[k].cmd.id = f.cmd.id
    BY <2>1
  <2> QED BY <2>2 DEF EntryOf, Cached
<1>5. e \in CacheEntries
  BY <1>3, EntryIsRemembered DEF TypeInv, TypeOK, DeviceTypeOK
<1>6. f.cmd.op = APP => e.cmd = f.cmd
  <2> SUFFICES ASSUME f.cmd.op = APP PROVE e.cmd = f.cmd
    OBVIOUS
  <2>1. f.cmd = request[f.by] /\ request[f.by].id \in GoalIds
    BY <1>1, <1>2 DEF OnWire, OnTheWay, TypeInv, TypeOK, BridgeTypeOK, Requests
  <2>2. e.cmd.op = APP
    BY <1>4, <1>5, <2>1 DEF Answers, AnswersAreTrue, TrueEntry, GoalsAreApp, CacheEntries,
       Commands, Opcodes
  <2>3. PICK g \in Goals : e.cmd = request[g]
    BY <1>4, <2>2 DEF Answers, AnswersAreTrue, TrueEntry
  <2>4. g = f.by
    BY <1>2, <1>4, <2>1, <2>3 DEF Answers, FreshIds
  <2> QED BY <2>1, <2>3, <2>4
<1>7. f.cmd.op = STOP => f.cmd.id \in StopIds
  BY <1>1 DEF OnWire, OnTheWay
<1> QED BY <1>1, <1>2, <1>3, <1>4, <1>6, <1>7

LEMMA ReplayAnswers ==
  ASSUME GoalsAreApp, TypeInv, OnWire, Answers, ReplayCommand, UNCHANGED bridgeVars
  PROVE  Answers'
<1> DEFINE f == toDevice[1]
<1>0. UNCHANGED <<request, mode, carried, cache, toBridge, pc, cur, pending, result>>
  BY DEF ReplayCommand, bridgeVars
<1>1. \/ /\ EntryOf(f.cmd) \in Cached /\ EntryOf(f.cmd).cmd = f.cmd
         /\ reply' = EntryOf(f.cmd).resp
      \/ /\ f.cmd.op = STOP /\ f.cmd.id \in StopIds
         /\ reply' = Response(f.cmd, Conflict, "FAULT")
  BY ReplayFacts
<1>2. ASSUME NEW r, r = reply', r # NoReply PROVE TrueAnswer(r)
  <2>1. CASE /\ EntryOf(f.cmd) \in Cached /\ EntryOf(f.cmd).cmd = f.cmd
             /\ reply' = EntryOf(f.cmd).resp
    BY <1>2, <2>1 DEF Answers, AnswersAreTrue, TrueEntry
  <2>2. CASE /\ f.cmd.op = STOP /\ f.cmd.id \in StopIds
             /\ reply' = Response(f.cmd, Conflict, "FAULT")
    BY <1>2, <2>2 DEF TrueAnswer, Response, APP, STOP
  <2> QED BY <1>1, <2>1, <2>2
<1>3. Seen' \subseteq Seen \cup {reply'} /\ Cached' = Cached
  BY <1>0 DEF Seen, Cached
<1>4. AnswersAreTrue'
  BY <1>0, <1>2, <1>3, TruthStays DEF Answers, AnswersAreTrue
<1>5. OutcomesHold'
  BY <1>0 DEF Answers, OutcomesHold, Holds, Refusing
<1> QED BY <1>0, <1>4, <1>5 DEF Answers, FreshIds

(* Neither the loss of an answer nor its sending makes a new one. *)
LEMMA SendSees ==
  ASSUME BusTypeOK, SendResponse
  PROVE  Seen' \subseteq Seen \cup {NoReply} /\ Cached' = Cached
<1>1. CASE toBridge' = toBridge
  BY <1>1 DEF SendResponse, Seen, Cached
<1>2. CASE toBridge' = Append(toBridge, reply)
  <2>1. /\ Len(toBridge) \in Nat /\ Len(toBridge') = Len(toBridge) + 1
        /\ toBridge'[Len(toBridge')] = reply
        /\ \A i \in 1..Len(toBridge) : toBridge'[i] = toBridge[i]
    BY <1>2 DEF BusTypeOK
  <2>2. \A i \in 1..Len(toBridge') : i = Len(toBridge') \/ i \in 1..Len(toBridge)
    BY <2>1
  <2> QED BY <2>1, <2>2 DEF SendResponse, Seen, Cached
<1> QED BY <1>1, <1>2 DEF SendResponse

LEMMA NextAnswers ==
  ASSUME GoalsAreApp
  PROVE  TypeInv /\ Wire /\ Answers /\ [Next]_vars => Answers'
<1> SUFFICES ASSUME TypeInv, Wire, Answers, [Next]_vars PROVE Answers'
  OBVIOUS
<1>0. OnWire /\ BusTypeOK
  BY DEF Wire, OnWire, TypeInv, TypeOK
<1>1. CASE BridgeNext /\ UNCHANGED deviceVars
  BY <1>1, BridgeAnswers
<1>2. CASE ReplayCommand /\ UNCHANGED bridgeVars
  BY <1>0, <1>2, ReplayAnswers
<1>3. CASE ProcessCommand /\ UNCHANGED bridgeVars
  BY <1>0, <1>3, ProcessAnswers
<1>4. ASSUME Seen' \subseteq Seen \cup {NoReply}, Cached' = Cached,
             UNCHANGED <<request, mode, carried, pc, cur, pending, result>>
      PROVE  Answers'
  <2>1. AnswersAreTrue'
    BY <1>4, TruthStays DEF Answers, AnswersAreTrue
  <2>2. OutcomesHold'
    BY <1>4 DEF Answers, OutcomesHold, Holds, Refusing
  <2> QED BY <1>4, <2>1, <2>2 DEF Answers, FreshIds
<1>5. CASE SendResponse /\ UNCHANGED bridgeVars
  BY <1>0, <1>4, <1>5, SendSees DEF SendResponse, bridgeVars
<1>6. CASE (LoseCommand \/ LoseResponse) /\ UNCHANGED <<bridgeVars, deviceVars>>
  BY <1>0, <1>4, <1>6, BridgeSees DEF LoseCommand, LoseResponse, bridgeVars, deviceVars
<1>7. CASE UNCHANGED vars
  BY <1>0, <1>4, <1>7, BridgeSees DEF vars, busVars, bridgeVars, deviceVars
<1> QED BY <1>1, <1>2, <1>3, <1>5, <1>6, <1>7 DEF Next, DeviceNext

LEMMA AnswersAlways ==
  ASSUME GoalsAreApp
  PROVE  Spec => []Answers
BY InitAnswers, NextAnswers, TypeInvAlways, WireAlways, PTL DEF Spec

(* COMPLETED is true of the device, over loss, retry, restart and replays  *)
(* from the cache, as long as the goals keep to the application ids.       *)
THEOREM CompletedIsTrue ==
  ASSUME GoalsAreApp
  PROVE  Spec => []CompletedIsCarried
<1>1. TypeInv /\ Wire /\ Answers => CompletedIsCarried
  BY DEF Wire, CarriedAtMostOnce, Answers, OutcomesHold, Holds, CompletedIsCarried, TypeInv,
     TypeOK, DeviceTypeOK
<1> QED BY <1>1, TypeInvAlways, WireAlways, AnswersAlways, PTL

(* What ends the wait for a STOP is an answer to a STOP.                   *)
THEOREM StopIsAnsweredByStop ==
  ASSUME GoalsAreApp
  PROVE  Spec => StopAckAnswersStop
<1>1. TypeInv /\ Answers /\ [Next]_vars => [StopResponse => Answer.op = STOP]_vars
  <2> SUFFICES ASSUME TypeInv, Answers, StopResponse PROVE Answer.op = STOP
    OBVIOUS
  <2>1. toBridge[1] = Answer /\ 1 \in 1..Len(toBridge) /\ Answer \in Responses
    BY DEF StopResponse, Receive, Answer, TypeInv, TypeOK, BusTypeOK
  <2>2. Answer \in Seen /\ Answer # NoReply
    BY <2>1 DEF Seen, Responses, NoReply, WireIds
  <2>3. Answer.op = APP => \E g \in Goals : Answer.id = request[g].id
    BY <2>2 DEF Answers, AnswersAreTrue, TrueAnswer
  <2>4. Answer.id \in StopIds
    BY DEF StopResponse, AnswersStop, TypeInv, TypeOK, BridgeTypeOK
  <2>5. \A g \in Goals : request[g].id \in GoalIds
    BY DEF TypeInv, TypeOK, BridgeTypeOK, Requests
  <2> QED BY <2>1, <2>3, <2>4, <2>5 DEF GoalsAreApp, Responses, Opcodes
<1> QED BY <1>1, TypeInvAlways, AnswersAlways, PTL DEF Spec, StopAckAnswersStop

(***************************************************************************)
(* STOP, for one process and ids that are not used twice.  First how each  *)
(* step moves the queue to the device, the worker and the ids in use.      *)
(***************************************************************************)
InStopWait == pc \in {"stopwait", "stoppoll"}

(* A step that sends nothing. *)
LEMMA QueueMoves ==
  ASSUME [Next]_vars, ~SendCommand, ~SendStop
  PROVE  \/ UNCHANGED toDevice
         \/ toDevice # <<>> /\ toDevice' = Tail(toDevice)
<1>1. CASE Worker
  BY <1>1 DEF Worker, CheckCancel, SendCommandFails, Poll, PollEmpty, IgnoreFrame, WaitResponse,
     WaitCanceled, WaitTimeout, WaitTransportError, WaitShutdown, SendStopFails, StopResponse,
     StopTimeout, StopTransportError, Finish, Release, busVars, Receive
<1>2. CASE Shutdown \/ Restart
  BY <1>2 DEF Shutdown, Restart, busVars
<1>3. ASSUME NEW g \in Goals, HandleGoalAccept(g) \/ HandleGoalReject(g) \/ HandleCancel(g)
      PROVE  UNCHANGED toDevice
  BY <1>3 DEF HandleGoalAccept, HandleGoalReject, HandleCancel, busVars
<1>4. CASE DeviceNext \/ LoseCommand \/ LoseResponse
  BY <1>4 DEF DeviceNext, ReplayCommand, ProcessCommand, SendResponse, LoseCommand, LoseResponse
<1>5. CASE UNCHANGED vars
  BY <1>5 DEF vars, busVars
<1> QED BY <1>1, <1>2, <1>3, <1>4, <1>5 DEF Next, BridgeNext

(* The wait for a STOP begins with the STOP. *)
LEMMA StopWait ==
  ASSUME [Next]_vars, ~SendStop, InStopWait'
  PROVE  InStopWait /\ UNCHANGED <<stopId, cur>>
<1> USE DEF InStopWait
<1>1. CASE Poll \/ PollEmpty \/ IgnoreFrame
  BY <1>1 DEF Poll, PollEmpty, IgnoreFrame, Resume
<1>2. CASE CheckCancel \/ SendCommand \/ SendCommandFails
  BY <1>2 DEF CheckCancel, SendCommand, SendCommandFails, Report, StopAndFinish
<1>3. CASE WaitResponse
  BY <1>3 DEF WaitResponse, Report, StopAndFinish
<1>4. CASE WaitCanceled \/ WaitTimeout \/ WaitTransportError \/ WaitShutdown
  BY <1>4 DEF WaitCanceled, WaitTimeout, WaitTransportError, WaitShutdown, StopAndFinish
<1>5. CASE SendStopFails \/ StopResponse \/ StopTimeout \/ StopTransportError
  BY <1>5 DEF SendStopFails, StopResponse, StopTimeout, StopTransportError, Report
<1>6. CASE Finish \/ Release
  BY <1>6 DEF Finish, Release
<1>7. CASE Shutdown \/ Restart
  BY <1>7 DEF Shutdown, Restart, FreshProcess, workerVars
<1>8. ASSUME NEW g \in Goals, HandleGoalAccept(g) \/ HandleGoalReject(g) \/ HandleCancel(g)
      PROVE  InStopWait /\ UNCHANGED <<stopId, cur>>
  BY <1>8 DEF HandleGoalAccept, HandleGoalReject, HandleCancel, workerVars
<1>9. CASE UNCHANGED bridgeVars
  BY <1>9 DEF bridgeVars
<1> QED BY <1>1, <1>2, <1>3, <1>4, <1>5, <1>6, <1>7, <1>8, <1>9
        DEF Next, BridgeNext, Worker, vars

(* With no restart, a goal whose STOP time is over stays so. *)
LEMMA PastGrows ==
  ASSUME TypeInv, MaxRestarts = 0, [Next]_vars
  PROVE  Past \subseteq Past'
<1>0. goal \in [Goals -> GoalStates] /\ restarts = 0
  BY DEF TypeInv, TypeOK, BridgeTypeOK
<1> USE <1>0, StateKinds DEF Past
<1>1. CASE Finish
  <2>1. cur \in Goals
    BY <1>1 DEF Finish, TypeInv, WorkerOK
  <2>2. goal'[cur] \in Settled /\ \A g \in Goals : g # cur => goal'[g] = goal[g]
    BY <1>1, <2>1, TerminalStates DEF Finish
  <2> QED BY <1>1, <2>2 DEF Finish
<1>2. CASE Poll \/ PollEmpty \/ IgnoreFrame
  BY <1>2 DEF Poll, PollEmpty, IgnoreFrame, Resume, serverVars
<1>3. CASE CheckCancel \/ SendCommand \/ SendCommandFails
  BY <1>3 DEF CheckCancel, SendCommand, SendCommandFails, serverVars
<1>4. CASE WaitResponse \/ WaitCanceled \/ WaitTimeout \/ WaitTransportError \/ WaitShutdown
  BY <1>4 DEF WaitResponse, WaitCanceled, WaitTimeout, WaitTransportError, WaitShutdown, serverVars
<1>5. CASE SendStop \/ SendStopFails
  BY <1>5 DEF SendStop, SendStopFails, serverVars
<1>6. CASE StopResponse \/ StopTimeout \/ StopTransportError
  BY <1>6 DEF StopResponse, StopTimeout, StopTransportError, Report, serverVars
<1>7. CASE Release
  BY <1>7 DEF Release
<1>8. CASE Shutdown \/ Restart
  BY <1>8 DEF Shutdown, Restart, workerVars
<1>9. ASSUME NEW g \in Goals, HandleGoalAccept(g) \/ HandleGoalReject(g) \/ HandleCancel(g)
      PROVE  Past \subseteq Past'
  BY <1>9 DEF HandleGoalAccept, HandleGoalReject, HandleCancel, workerVars
<1>10. CASE UNCHANGED bridgeVars
  BY <1>10 DEF bridgeVars
<1> QED BY <1>1, <1>2, <1>3, <1>4, <1>5, <1>6, <1>7, <1>8, <1>9, <1>10
        DEF Next, BridgeNext, Worker, vars

(* Only the sending of its own command can end that a goal is halted. *)
LEMMA HaltedStays ==
  ASSUME TypeInv, OnWire, [Next]_vars, NEW g \in Goals, Halted(g), ~(SendCommand /\ g = cur)
  PROVE  Halted(g)'
<1>0. BusTypeOK
  BY DEF TypeInv, TypeOK
<1>1. CASE SendCommand \/ SendStop
  <2>1. cur \in Goals /\ ValidId(cur) /\ request[cur] \in Requests /\ nextStop \in WireIds
    BY <1>1, IdRanges DEF SendCommand, SendStop, TypeInv, TypeOK, WorkerOK, BridgeTypeOK
  <2> DEFINE c == IF SendStop THEN StopCommand ELSE request[cur]
  <2>2. [cmd |-> c, by |-> cur] \in CommandFrames
    BY <2>1 DEF StopCommand, ValidId, Requests, CommandFrames, Commands, Opcodes
  <2>3. Transmit([cmd |-> c, by |-> cur]) /\ (c.op = STOP \/ g # cur)
    BY <1>1 DEF SendCommand, SendStop, StopCommand
  <2> HIDE DEF c
  <2>4. /\ toDevice'[Len(toDevice')] = [cmd |-> c, by |-> cur]
        /\ \A i \in 1..Len(toDevice') : i = Len(toDevice') \/ i \in 1..Len(toDevice)
        /\ \A i \in 1..Len(toDevice) : toDevice'[i] = toDevice[i]
    BY <1>0, <2>2, <2>3, QueueAppend
  <2>5. UNCHANGED running
    BY <1>1 DEF Next, SendCommand, SendStop, DeviceNext, deviceVars, vars, bridgeVars
  <2> QED BY <2>3, <2>4, <2>5 DEF Halted, NothingOnTheWay
<1>2. ASSUME ~SendCommand, ~SendStop PROVE Halted(g)'
  <2>1. /\ \A i \in 1..Len(toDevice') :
             \E j \in 1..Len(toDevice) : toDevice'[i] = toDevice[j]
    BY <1>0, <1>2, QueueMoves, QueueTail
  <2>2. NothingOnTheWay(g)'
    BY <2>1 DEF Halted, NothingOnTheWay
  <2>3. g \notin running'
    <3>1. CASE ProcessCommand
      <4>1. /\ 1 \in 1..Len(toDevice)
            /\ running' \subseteq running \cup
                 (IF Takes(toDevice[1].cmd) THEN {toDevice[1].by} ELSE {})
        BY <3>1, ProcessFacts
      <4> QED BY <4>1 DEF Halted, NothingOnTheWay, Takes, APP, STOP
    <3>2. CASE ~ProcessCommand
      <4>1. UNCHANGED running
        BY <3>2 DEF Next, DeviceNext, ReplayCommand, SendResponse, deviceVars, vars
      <4> QED BY <4>1 DEF Halted
    <3> QED BY <3>1, <3>2
  <2> QED BY <2>2, <2>3 DEF Halted
<1> QED BY <1>1, <1>2

(* What the bridge's own steps leave alone. *)
LEMMA BridgeLeaves ==
  ASSUME BusTypeOK, BridgeNext, UNCHANGED deviceVars
  PROVE  UNCHANGED <<running, carried, mode>> /\ Seen' \subseteq Seen /\ Cached' = Cached
BY BridgeQueue, BridgeSees DEF deviceVars

(* A step of the device or the bus. *)
DeviceStep ==
  \/ DeviceNext /\ UNCHANGED bridgeVars
  \/ (LoseCommand \/ LoseResponse) /\ UNCHANGED <<bridgeVars, deviceVars>>

(* The answers after a step of the device or the bus: what is new comes    *)
(* from the command in front.                                              *)
LEMMA DeviceSees ==
  ASSUME GoalsAreApp, TypeInv, OnWire, Answers, DeviceStep
  PROVE  LET c == toDevice[1].cmd
             h == [cmd |-> c, resp |-> FreshReply(c)]
         IN  \/ Seen' \subseteq Seen \cup {NoReply} /\ Cached' = Cached
             \/ /\ 1 \in 1..Len(toDevice) /\ c \in Commands
                /\ Seen' \subseteq Seen \cup {reply'} /\ Cached' = Cached
                /\ \/ \E e \in Cached : e.cmd = c /\ reply' = e.resp
                   \/ c.op = STOP /\ reply' = Response(c, Conflict, "FAULT")
             \/ /\ 1 \in 1..Len(toDevice) /\ c \in Commands /\ ProcessCommand
                /\ Seen' \subseteq Seen \cup {FreshReply(c)} /\ Cached' \subseteq Cached \cup {h}
                /\ Halts(c) => running' = {}
<1>0. BusTypeOK
  BY DEF TypeInv, TypeOK
<1>1. CASE SendResponse
  BY <1>0, <1>1, SendSees
<1>2. CASE ReplayCommand
  <2>1. Seen' \subseteq Seen \cup {reply'} /\ Cached' = Cached
    BY <1>2 DEF ReplayCommand, Seen, Cached
  <2> QED BY <1>2, <2>1, ReplayFacts
<1>3. CASE ProcessCommand
  <2>1. /\ 1 \in 1..Len(toDevice) /\ toDevice[1].cmd \in Commands
        /\ reply' = FreshReply(toDevice[1].cmd)
        /\ cache'[Len(cache')] = [cmd |-> toDevice[1].cmd, resp |-> FreshReply(toDevice[1].cmd)]
        /\ \A i \in 1..Len(cache') :
             i = Len(cache') \/ \E j \in 1..Len(cache) : cache'[i] = cache[j]
        /\ Halts(toDevice[1].cmd) => running' = {}
    BY <1>3, ProcessFacts
  <2>2. Seen' \subseteq Seen \cup {FreshReply(toDevice[1].cmd)}
    BY <1>3, <2>1 DEF ProcessCommand, Seen
  <2>3. Cached' \subseteq
          Cached \cup {[cmd |-> toDevice[1].cmd, resp |-> FreshReply(toDevice[1].cmd)]}
    BY <2>1 DEF Cached
  <2> QED BY <1>3, <2>1, <2>2, <2>3
<1>4. CASE (LoseCommand \/ LoseResponse) /\ UNCHANGED <<bridgeVars, deviceVars>>
  BY <1>0, <1>4, BridgeSees DEF LoseCommand, LoseResponse, deviceVars
<1> QED BY <1>1, <1>2, <1>3, <1>4 DEF DeviceStep, DeviceNext

(* Only SendStop takes an id into use. *)
LEMMA UsedStays ==
  ASSUME GoalsAreApp, TypeInv, OnWire, Answers, [Next]_vars, ~SendStop, NEW n, StopIdUsed(n)'
  PROVE  StopIdUsed(n)
<1> DEFINE c == toDevice[1].cmd
<1>0. BusTypeOK /\ APP # STOP /\ NoReply.op = APP
  BY DEF TypeInv, TypeOK, APP, STOP, NoReply
<1>1. \A i \in 1..Len(toDevice') : toDevice'[i].cmd.op = STOP =>
        \E j \in 1..Len(toDevice) : toDevice'[i] = toDevice[j]
  <2>1. CASE SendCommand
    <3>1. /\ request[cur].op = APP /\ [cmd |-> request[cur], by |-> cur] \in CommandFrames
      BY <2>1 DEF SendCommand, TypeInv, TypeOK, WorkerOK, ValidId, BridgeTypeOK, Requests,
         CommandFrames, Commands, Opcodes
    <3>2. /\ toDevice'[Len(toDevice')] = [cmd |-> request[cur], by |-> cur]
          /\ \A i \in 1..Len(toDevice') : i = Len(toDevice') \/ i \in 1..Len(toDevice)
          /\ \A i \in 1..Len(toDevice) : toDevice'[i] = toDevice[i]
      BY <1>0, <2>1, <3>1, QueueAppend DEF SendCommand
    <3> QED BY <1>0, <3>1, <3>2
  <2>2. CASE ~SendCommand
    BY <1>0, <2>2, QueueMoves, QueueTail
  <2> QED BY <2>1, <2>2
<1>2. \A r \in Seen' : r.op = STOP =>
        \/ r \in Seen
        \/ 1 \in 1..Len(toDevice) /\ c.op = STOP /\ r.id = c.id
        \/ \E e \in Cached : e.cmd.op = STOP /\ e.cmd.id = r.id
  <2>1. CASE UNCHANGED vars
    BY <2>1 DEF vars, busVars, deviceVars, Seen
  <2>2. CASE BridgeNext /\ UNCHANGED deviceVars
    BY <1>0, <2>2, BridgeLeaves
  <2>3. CASE DeviceStep
    <3>1. \A e \in Cached : e.resp.op = STOP => e.cmd.op = STOP /\ e.cmd.id = e.resp.id
      BY <1>0 DEF Answers, AnswersAreTrue, TrueEntry
    <3>2. c \in Commands /\ FreshReply(c).op = STOP => c.op = STOP /\ FreshReply(c).id = c.id
      BY <1>0, FreshReplyFacts
    <3>3. Response(c, Conflict, "FAULT").id = c.id
      BY DEF Response
    <3> QED BY <1>0, <2>3, <3>1, <3>2, <3>3, DeviceSees
  <2> QED BY <2>1, <2>2, <2>3 DEF Next, DeviceStep
<1>3. \A e \in Cached' : e.cmd.op = STOP =>
        e \in Cached \/ (1 \in 1..Len(toDevice) /\ c.op = STOP /\ e.cmd.id = c.id)
  <2>1. CASE UNCHANGED vars
    BY <2>1 DEF vars, deviceVars, Cached
  <2>2. CASE BridgeNext /\ UNCHANGED deviceVars
    BY <1>0, <2>2, BridgeLeaves
  <2>3. CASE DeviceStep
    BY <2>3, DeviceSees
  <2> QED BY <2>1, <2>2, <2>3 DEF Next, DeviceStep
<1> QED BY <1>1, <1>2, <1>3 DEF StopIdUsed

(* The goals for which a STOP may have been sent. *)
LEMMA PastIsFinite ==
  ASSUME IsFiniteSet(Goals)
  PROVE  /\ IsFiniteSet(Past) /\ Cardinality(Past) \in Nat
         /\ IsFiniteSet(Past') /\ Cardinality(Past') \in Nat
         /\ Past \subseteq Goals /\ Past' \subseteq Goals
<1>1. Past \subseteq Goals /\ Past' \subseteq Goals
  BY DEF Past
<1> QED BY <1>1, FS_Subset, FS_CardinalityType

(* A new STOP gets an id that is not in use. *)
LEMMA AllocateCounts ==
  ASSUME StopIdsSuffice, TypeInv, WorkerAt, StopIdsCount, [Next]_vars, SendStop \/ SendStopFails
  PROVE  /\ ~StopIdUsed(nextStop)
         /\ nextStop' - StopIdMin <= Cardinality(Past')
         /\ Past' = Goals \/ (nextStop' = nextStop + 1)
<1>1. /\ cur \in Goals /\ goal[cur] \in Live /\ pc = "stop" /\ pc' \in {"stopwait", "finish"}
      /\ cur' = cur /\ nextStop \in StopIds
      /\ nextStop' = IF nextStop = WireIdMax THEN StopIdMin ELSE nextStop + 1
  BY DEF SendStop, SendStopFails, Report, AllocateStopId, TypeInv, TypeOK, WorkerOK, BridgeTypeOK,
     WorkerAt
<1>2. cur \notin Past /\ cur \in Past'
  BY <1>1, StateKinds DEF Past
<1>3. Past \subseteq Past'
  BY PastGrows DEF StopIdsSuffice
<1>4. /\ IsFiniteSet(Goals) /\ Cardinality(Goals) \in Nat
      /\ IsFiniteSet(Past) /\ Cardinality(Past) \in Nat
      /\ IsFiniteSet(Past') /\ Cardinality(Past') \in Nat
      /\ Past \subseteq Goals /\ Past' \subseteq Goals
  BY PastIsFinite, FS_CardinalityType DEF StopIdsSuffice
<1>5. Cardinality(Past \cup {cur}) = Cardinality(Past) + 1
  BY <1>2, <1>4, FS_AddElement
<1>6. Cardinality(Past) + 1 <= Cardinality(Past')
  BY <1>2, <1>3, <1>4, <1>5, FS_Subset
<1>7. Past # Goals /\ nextStop - StopIdMin <= Cardinality(Past)
  BY <1>1, <1>2 DEF StopIdsCount
<1>8. /\ StopIdMin \in Nat /\ WireIdMax \in Nat /\ nextStop \in StopIdMin..WireIdMax
      /\ Cardinality(Goals) <= WireIdMax - StopIdMin + 1
  BY <1>1, IdRanges DEF StopIds, StopIdsSuffice
<1>9. CASE nextStop = WireIdMax
  <2>1. Cardinality(Past') >= Cardinality(Goals)
    BY <1>4, <1>6, <1>7, <1>8, <1>9
  <2>2. Past' = Goals
    BY <1>4, <2>1, FS_Subset
  <2> QED BY <1>1, <1>4, <1>7, <1>8, <1>9, <2>2 DEF StopIdsCount
<1>10. CASE nextStop # WireIdMax
  BY <1>1, <1>4, <1>6, <1>7, <1>8, <1>10 DEF StopIdsCount
<1> QED BY <1>9, <1>10

LEMMA SendStopUses ==
  ASSUME TypeInv, SendStop, UNCHANGED deviceVars, NEW n, StopIdUsed(n)'
  PROVE  StopIdUsed(n) \/ n = nextStop
<1>0. BusTypeOK /\ cur \in Goals /\ nextStop \in WireIds
  BY IdRanges DEF SendStop, TypeInv, TypeOK, WorkerOK, BridgeTypeOK
<1> DEFINE frame == [cmd |-> StopCommand, by |-> cur]
<1>1. frame \in CommandFrames
  BY <1>0 DEF SendStop, StopCommand, TypeInv, TypeOK, WorkerOK, ValidId, BridgeTypeOK,
     CommandFrames, Commands, Opcodes
<1>2. /\ toDevice'[Len(toDevice')] = frame
      /\ \A i \in 1..Len(toDevice') : i = Len(toDevice') \/ i \in 1..Len(toDevice)
      /\ \A i \in 1..Len(toDevice) : toDevice'[i] = toDevice[i]
  BY <1>0, <1>1, QueueAppend DEF SendStop
<1>3. frame.cmd.id = nextStop
  BY DEF StopCommand
<1>4. Seen' = Seen /\ Cached' = Cached
  BY DEF SendStop, Transmit, deviceVars, Seen, Cached
<1> QED BY <1>2, <1>3, <1>4 DEF StopIdUsed

LEMMA NoAllocation ==
  ASSUME TypeInv, MaxRestarts = 0, [Next]_vars, ~(SendStop \/ SendStopFails)
  PROVE  UNCHANGED nextStop
<1>0. restarts = 0
  BY DEF TypeInv, TypeOK, BridgeTypeOK
<1>1. CASE Worker
  BY <1>1 DEF Worker, CheckCancel, SendCommand, SendCommandFails, Poll, PollEmpty, IgnoreFrame,
     WaitResponse, WaitCanceled, WaitTimeout, WaitTransportError, WaitShutdown, StopResponse,
     StopTimeout, StopTransportError, Finish, Release
<1>2. CASE Shutdown \/ Restart
  BY <1>0, <1>2 DEF Shutdown, Restart
<1>3. ASSUME NEW g \in Goals, HandleGoalAccept(g) \/ HandleGoalReject(g) \/ HandleCancel(g)
      PROVE  UNCHANGED nextStop
  BY <1>3 DEF HandleGoalAccept, HandleGoalReject, HandleCancel
<1>4. CASE UNCHANGED bridgeVars
  BY <1>4 DEF bridgeVars
<1> QED BY <1>1, <1>2, <1>3, <1>4 DEF Next, BridgeNext, vars

(* What SendStop does comes from the bridge. *)
LEMMA SendStopIsBridge ==
  ASSUME [Next]_vars, SendStop
  PROVE  UNCHANGED deviceVars
BY DEF Next, SendStop, bridgeVars, vars

LEMMA InitHalts == Init => HaltsHold
<1> SUFFICES ASSUME Init PROVE HaltsHold
  OBVIOUS
<1> USE DEF Init, BusInit, BridgeInit, ProcessInit, DeviceInit
<1>1. StopIdsCount
  <2>1. Past = {}
    BY DEF Past, Settled
  <2>2. nextStop - StopIdMin <= Cardinality(Past)
    BY <2>1, IdRanges, FS_EmptySet
  <2>3. \A n : ~StopIdUsed(n)
    BY DEF StopIdUsed, Seen, Cached, NoReply, APP, STOP
  <2> QED BY <2>2, <2>3 DEF StopIdsCount
<1>2. StopsInOrder
  BY DEF StopsInOrder
<1>3. StopsAreTrue
  BY DEF StopsAreTrue
<1>4. HaltsAreTrue
  BY DEF HaltsAreTrue, SaysHalted, NoResult
<1> QED BY <1>1, <1>2, <1>3, <1>4 DEF HaltsHold

LEMMA NextCount ==
  ASSUME GoalsAreApp, StopIdsSuffice, TypeInv, Wire, Answers, StopIdsCount, [Next]_vars
  PROVE  StopIdsCount'
<1>0. OnWire /\ WorkerAt /\ BusTypeOK /\ nextStop \in StopIds /\ StopIds \subseteq Int
  BY IdRanges DEF Wire, OnWire, TypeInv, TypeOK, BridgeTypeOK, StopIds
<1>1. Past \subseteq Past' /\ Past' \subseteq Goals
  BY PastGrows DEF StopIdsSuffice, Past
<1>2. CASE SendStop \/ SendStopFails
  <2>1. /\ ~StopIdUsed(nextStop)
        /\ nextStop' - StopIdMin <= Cardinality(Past')
        /\ Past' = Goals \/ (nextStop' = nextStop + 1)
    BY <1>0, <1>2, AllocateCounts
  <2>2. ASSUME NEW n \in StopIds, StopIdUsed(n)', Past' # Goals PROVE n < nextStop'
    <3>1. Past # Goals /\ nextStop' = nextStop + 1
      BY <1>1, <2>1, <2>2
    <3>2. StopIdUsed(n) => n < nextStop
      BY <3>1 DEF StopIdsCount
    <3>3. CASE SendStopFails /\ ~SendStop
      BY <1>0, <2>2, <3>1, <3>2, <3>3, UsedStays
    <3>4. CASE SendStop
      <4>1. StopIdUsed(n) \/ n = nextStop
        BY <2>2, <3>4, SendStopUses, SendStopIsBridge
      <4> QED BY <1>0, <3>1, <3>2, <4>1
    <3> QED BY <1>2, <3>3, <3>4
  <2> QED BY <2>1, <2>2 DEF StopIdsCount
<1>3. CASE ~(SendStop \/ SendStopFails)
  <2>1. UNCHANGED nextStop
    BY <1>3, NoAllocation DEF StopIdsSuffice
  <2>2. Cardinality(Past) <= Cardinality(Past')
    BY <1>1, PastIsFinite, FS_Subset DEF StopIdsSuffice
  <2>3. Cardinality(Past) \in Nat /\ Cardinality(Past') \in Nat /\ StopIdMin \in Nat
    BY PastIsFinite, IdRanges DEF StopIdsSuffice
  <2>4. nextStop' - StopIdMin <= Cardinality(Past')
    BY <1>0, <2>1, <2>2, <2>3 DEF StopIdsCount
  <2>5. Past' = Goals \/ \A n \in StopIds : StopIdUsed(n)' => n < nextStop'
    BY <1>0, <1>1, <1>3, <2>1, UsedStays DEF StopIdsCount
  <2> QED BY <2>4, <2>5 DEF StopIdsCount
<1> QED BY <1>2, <1>3

(* A STOP stays behind the frames of its goal. *)
LEMMA NextOrder ==
  ASSUME GoalsAreApp, StopIdsSuffice, TypeInv, Wire, StopIdsCount, StopsInOrder, [Next]_vars
  PROVE  StopsInOrder'
<1>0. OnWire /\ WorkerAt /\ BusTypeOK /\ APP # STOP
  BY DEF Wire, OnWire, TypeInv, TypeOK, APP, STOP
<1>1. Past \subseteq Past'
  BY PastGrows DEF StopIdsSuffice
<1>2. CASE SendStop
  <2>1. /\ cur \in Goals /\ goal[cur] \in Live /\ cur' = cur /\ cur \in Past' /\ cur \notin Past
        /\ stopId' = nextStop /\ nextStop \in StopIds
    BY <1>0, <1>2, StateKinds DEF SendStop, AllocateStopId, TypeInv, TypeOK, WorkerOK,
       BridgeTypeOK, WorkerAt, Past
  <2>2. ~StopIdUsed(nextStop)
    BY <1>0, <1>2, AllocateCounts
  <2> DEFINE frame == [cmd |-> StopCommand, by |-> cur]
  <2>3. frame \in CommandFrames
    BY <1>2, <2>1, IdRanges DEF SendStop, StopCommand, TypeInv, TypeOK, WorkerOK, ValidId,
       BridgeTypeOK, CommandFrames, Commands, Opcodes
  <2>4. /\ Len(toDevice) \in Nat /\ Len(toDevice') = Len(toDevice) + 1
        /\ toDevice'[Len(toDevice')] = frame
        /\ \A i \in 1..Len(toDevice') : i = Len(toDevice') \/ i \in 1..Len(toDevice)
        /\ \A i \in 1..Len(toDevice) : i \in 1..Len(toDevice') /\ toDevice'[i] = toDevice[i]
    BY <1>0, <1>2, <2>3, QueueAppend DEF SendStop
  <2>5. frame.by = cur /\ frame.cmd.op = STOP
    BY DEF StopCommand
  <2> HIDE DEF frame
  <2>6. ASSUME NEW g \in Goals, NEW i \in 1..Len(toDevice'), StopFrame(i, g)'
        PROVE  /\ g \in Past'
               /\ \A j \in i..Len(toDevice') : ~Starts(j, g)'
               /\ toDevice'[i].cmd.id = stopId' => g = cur'
    <3>1. CASE i = Len(toDevice')
      BY <1>0, <2>1, <2>4, <2>5, <2>6, <3>1 DEF StopFrame, Starts
    <3>2. CASE i \in 1..Len(toDevice)
      <4>1. StopFrame(i, g)
        BY <2>4, <2>6, <3>2 DEF StopFrame
      <4>2. g \in Past /\ \A j \in i..Len(toDevice) : ~Starts(j, g)
        BY <3>2, <4>1 DEF StopsInOrder
      <4>3. toDevice'[i].cmd.id # stopId'
        BY <2>1, <2>2, <2>4, <3>2, <4>1 DEF StopFrame, StopIdUsed
      <4>4. \A j \in i..Len(toDevice') :
              j = Len(toDevice') \/ (j \in i..Len(toDevice) /\ j \in 1..Len(toDevice))
        BY <2>4, <3>2
      <4>5. \A j \in i..Len(toDevice') : ~Starts(j, g)'
        BY <1>0, <2>4, <2>5, <4>2, <4>4 DEF Starts
      <4> QED BY <1>1, <4>2, <4>3, <4>5
    <3> QED BY <2>4, <3>1, <3>2
  <2> QED BY <2>6 DEF StopsInOrder
<1>3. CASE SendCommand
  <2>1. /\ cur \in Goals /\ goal[cur] \in Live /\ pc = "send" /\ pc' = "wait" /\ cur \notin Past
        /\ request[cur].op = APP
    BY <1>0, <1>3, StateKinds DEF SendCommand, TypeInv, TypeOK, WorkerOK, WorkerAt, Past,
       BridgeTypeOK, Requests
  <2> DEFINE frame == [cmd |-> request[cur], by |-> cur]
  <2>2. frame \in CommandFrames
    BY <1>3, <2>1 DEF TypeInv, TypeOK, WorkerOK, ValidId, BridgeTypeOK, Requests, CommandFrames,
       Commands, Opcodes
  <2>3. /\ Len(toDevice) \in Nat /\ Len(toDevice') = Len(toDevice) + 1
        /\ toDevice'[Len(toDevice')] = frame
        /\ \A i \in 1..Len(toDevice') : i = Len(toDevice') \/ i \in 1..Len(toDevice)
        /\ \A i \in 1..Len(toDevice) : i \in 1..Len(toDevice') /\ toDevice'[i] = toDevice[i]
    BY <1>0, <1>3, <2>2, QueueAppend DEF SendCommand
  <2>4. ASSUME NEW g \in Goals, NEW i \in 1..Len(toDevice'), StopFrame(i, g)'
        PROVE  g \in Past' /\ \A j \in i..Len(toDevice') : ~Starts(j, g)'
    <3>1. i \in 1..Len(toDevice) /\ StopFrame(i, g)
      BY <1>0, <2>1, <2>3, <2>4 DEF StopFrame
    <3>2. g \in Past /\ \A j \in i..Len(toDevice) : ~Starts(j, g)
      BY <3>1 DEF StopsInOrder
    <3>3. \A j \in i..Len(toDevice') :
              j = Len(toDevice') \/ (j \in i..Len(toDevice) /\ j \in 1..Len(toDevice))
      BY <2>3, <3>1
    <3>4. \A j \in i..Len(toDevice') : ~Starts(j, g)'
      BY <2>1, <2>3, <3>2, <3>3 DEF Starts
    <3> QED BY <1>1, <3>2, <3>4
  <2> QED BY <2>1, <2>4 DEF StopsInOrder
<1>4. ASSUME ~SendCommand, ~SendStop PROVE StopsInOrder'
  <2>2. CASE UNCHANGED toDevice
    <3>1. ASSUME NEW g \in Goals, NEW i \in 1..Len(toDevice'), StopFrame(i, g)'
          PROVE  /\ g \in Past'
                 /\ \A j \in i..Len(toDevice') : ~Starts(j, g)'
                 /\ InStopWait' /\ toDevice'[i].cmd.id = stopId' => g = cur'
      <4>1. i \in 1..Len(toDevice) /\ StopFrame(i, g)
        BY <2>2, <3>1 DEF StopFrame
      <4>2. /\ g \in Past /\ \A j \in i..Len(toDevice) : ~Starts(j, g)
            /\ InStopWait /\ toDevice[i].cmd.id = stopId => g = cur
        BY <4>1 DEF StopsInOrder, InStopWait
      <4> QED BY <1>1, <1>4, <2>2, <4>2, StopWait DEF Starts
    <3> QED BY <3>1 DEF StopsInOrder, InStopWait
  <2>3. CASE toDevice # <<>> /\ toDevice' = Tail(toDevice)
    <3>1. ASSUME NEW g \in Goals, NEW i \in 1..Len(toDevice'), StopFrame(i, g)'
          PROVE  /\ g \in Past'
                 /\ \A j \in i..Len(toDevice') : ~Starts(j, g)'
                 /\ InStopWait' /\ toDevice'[i].cmd.id = stopId' => g = cur'
      <4>0. /\ Len(toDevice) \in Nat /\ Len(toDevice') = Len(toDevice) - 1
            /\ \A k \in 1..Len(toDevice') :
                 k + 1 \in 1..Len(toDevice) /\ toDevice'[k] = toDevice[k + 1]
        BY <1>0, <2>3, QueueTail
      <4>1. i + 1 \in 1..Len(toDevice) /\ StopFrame(i + 1, g)
        BY <3>1, <4>0 DEF StopFrame
      <4>2. /\ g \in Past /\ \A j \in (i + 1)..Len(toDevice) : ~Starts(j, g)
            /\ InStopWait /\ toDevice[i + 1].cmd.id = stopId => g = cur
        BY <4>1 DEF StopsInOrder, InStopWait
      <4>3. ASSUME NEW j \in i..Len(toDevice') PROVE ~Starts(j, g)'
        <5>1. j \in 1..Len(toDevice') /\ j + 1 \in (i + 1)..Len(toDevice)
          BY <4>0
        <5> QED BY <4>0, <4>2, <5>1 DEF Starts
      <4> QED BY <1>1, <1>4, <4>0, <4>2, <4>3, StopWait
    <3> QED BY <3>1 DEF StopsInOrder, InStopWait
  <2> QED BY <1>4, <2>2, <2>3, QueueMoves
<1> QED BY <1>2, <1>3, <1>4

(* What confirms the STOP that the worker waits for is true.               *)
LEMMA NextStopsTrue ==
  ASSUME GoalsAreApp, StopIdsSuffice, TypeInv, Wire, Answers, StopIdsCount, StopsInOrder,
         StopsAreTrue, [Next]_vars
  PROVE  StopsAreTrue'
<1> DEFINE c == toDevice[1].cmd
<1>0. OnWire /\ WorkerAt /\ BusTypeOK /\ APP # STOP
  BY DEF Wire, OnWire, TypeInv, TypeOK, APP, STOP
<1>c. \A r : Confirms(r) => r # NoReply
  BY <1>0 DEF Confirms, NoReply
<1>1. CASE SendStop
  <2>1. stopId' = nextStop /\ ~StopIdUsed(nextStop)
    BY <1>0, <1>1, AllocateCounts DEF SendStop, AllocateStopId
  <2>2. Seen' = Seen /\ Cached' = Cached
    BY <1>1, SendStopIsBridge DEF SendStop, Transmit, deviceVars, Seen, Cached
  <2>3. \A r \in Seen : ~Confirms(r)'
    BY <2>1 DEF StopIdUsed, Confirms
  <2>4. \A e \in Cached : ~Confirms(e.resp)'
    <3> SUFFICES ASSUME NEW e \in Cached, Confirms(e.resp)' PROVE FALSE
      OBVIOUS
    <3>1. e.resp.op = STOP /\ e.resp.id = nextStop /\ e.resp # NoReply
      BY <1>0, <2>1 DEF Confirms, NoReply
    <3>2. e.cmd.op = STOP /\ e.cmd.id = nextStop
      BY <3>1 DEF Answers, AnswersAreTrue, TrueEntry
    <3> QED BY <2>1, <3>2 DEF StopIdUsed
  <2> QED BY <2>2, <2>3, <2>4 DEF StopsAreTrue
<1>2. ASSUME ~SendStop, NEW g \in Goals, g = cur', InStopWait'
      PROVE  /\ \A r \in Seen' : Confirms(r)' => Halted(g)'
             /\ \A e \in Cached' : Confirms(e.resp)' => Halted(g)'
  <2>1. InStopWait /\ g = cur /\ UNCHANGED stopId
    BY <1>2, StopWait
  <2>2. \A r : Confirms(r)' <=> Confirms(r)
    BY <2>1 DEF Confirms
  <2>3. Halted(g) => Halted(g)'
    BY <1>0, <2>1, HaltedStays DEF SendCommand, InStopWait
  <2>4. /\ \A r \in Seen : Confirms(r) => Halted(g)'
        /\ \A e \in Cached : Confirms(e.resp) => Halted(g)'
    BY <2>1, <2>3 DEF StopsAreTrue, InStopWait
  <2>5. CASE UNCHANGED vars
    BY <2>2, <2>4, <2>5 DEF vars, busVars, deviceVars, Seen, Cached
  <2>6. CASE BridgeNext /\ UNCHANGED deviceVars
    BY <1>0, <2>2, <2>4, <2>6, BridgeLeaves
  <2>7. CASE DeviceStep
    <3> DEFINE h == [cmd |-> c, resp |-> FreshReply(c)]
    <3>1. CASE Seen' \subseteq Seen \cup {NoReply} /\ Cached' = Cached
      BY <1>c, <2>2, <2>4, <3>1
    <3>2. CASE /\ Seen' \subseteq Seen \cup {reply'} /\ Cached' = Cached
               /\ \E e \in Cached : e.cmd = c /\ reply' = e.resp
      BY <2>2, <2>4, <3>2
    <3>3. CASE /\ Seen' \subseteq Seen \cup {reply'} /\ Cached' = Cached
               /\ reply' = Response(c, Conflict, "FAULT")
      <4>1. ~Confirms(reply')
        BY <3>3 DEF Response, Confirms, Conflict, Accepted
      <4> QED BY <2>2, <2>4, <3>3, <4>1
    <3>4. CASE /\ 1 \in 1..Len(toDevice) /\ c \in Commands /\ ProcessCommand
               /\ Seen' \subseteq Seen \cup {FreshReply(c)} /\ Cached' \subseteq Cached \cup {h}
               /\ Halts(c) => running' = {}
      <4>1. ASSUME Confirms(FreshReply(c)) PROVE Halted(g)'
        <5>1. FreshReply(c) # NoReply /\ FreshReply(c).op = STOP /\ FreshReply(c).id = stopId
          BY <1>c, <4>1 DEF Confirms
        <5>2. c.op = STOP /\ c.id = stopId /\ Halts(c)
          BY <3>4, <5>1, FreshReplyFacts
        <5>3. toDevice[1].by \in Goals /\ StopFrame(1, toDevice[1].by)
          BY <1>0, <3>4, <5>2, FrameTypes DEF StopFrame
        <5>4. toDevice[1].by = g
          BY <2>1, <3>4, <5>2, <5>3 DEF StopsInOrder, InStopWait
        <5>5. \A j \in 1..Len(toDevice) : ~Starts(j, g)
          BY <3>4, <5>3, <5>4 DEF StopsInOrder
        <5>6. \A j \in 1..Len(toDevice) : toDevice[j].by = g => toDevice[j].cmd.op = STOP
          BY <1>0, <5>5, FrameTypes DEF Starts
        <5>7. \A i \in 1..Len(toDevice') : \E j \in 1..Len(toDevice) : toDevice'[i] = toDevice[j]
          BY <1>0, <3>4, QueueTail DEF ProcessCommand
        <5> QED BY <3>4, <5>2, <5>6, <5>7 DEF Halted, NothingOnTheWay
      <4> HIDE DEF c
      <4> QED BY <2>2, <2>4, <3>4, <4>1
    <3> QED BY <1>0, <2>7, <3>1, <3>2, <3>3, <3>4, DeviceSees
  <2> QED BY <2>5, <2>6, <2>7 DEF Next, DeviceStep
<1>3. CASE ~SendStop
  BY <1>2, <1>3 DEF StopsAreTrue, InStopWait
<1> QED BY <1>1, <1>3

(* The worker's own STOP was confirmed, and so its command is halted.      *)
LEMMA ConfirmedIsHalted ==
  ASSUME GoalsAreApp, TypeInv, Answers, StopsAreTrue, StopResponse, StopConfirmed(Answer)
  PROVE  Halted(cur)
<1>1. toBridge[1] = Answer /\ 1 \in 1..Len(toBridge) /\ Answer \in Responses
  BY DEF StopResponse, Receive, Answer, TypeInv, TypeOK, BusTypeOK
<1>2. Answer \in Seen /\ Answer # NoReply
  BY <1>1 DEF Seen, Responses, NoReply, WireIds
<1>3. Answer.op = APP => \E g \in Goals : Answer.id = request[g].id
  BY <1>2 DEF Answers, AnswersAreTrue, TrueAnswer
<1>4. Answer.id = stopId /\ stopId \in StopIds /\ cur \in Goals /\ pc = "stoppoll"
  BY DEF StopResponse, AnswersStop, TypeInv, TypeOK, BridgeTypeOK, WorkerOK
<1>5. \A g \in Goals : request[g].id \in GoalIds
  BY DEF TypeInv, TypeOK, BridgeTypeOK, Requests
<1>6. Answer.op = STOP
  BY <1>1, <1>3, <1>4, <1>5 DEF GoalsAreApp, Responses, Opcodes
<1>7. Confirms(Answer)
  BY <1>4, <1>6 DEF Confirms, StopConfirmed
<1> QED BY <1>2, <1>4, <1>7 DEF StopsAreTrue

(* A command that was never sent is halted. *)
LEMMA UntouchedIsHalted ==
  ASSUME TypeInv, OnWire, NEW g \in Goals, Untouched(g)
  PROVE  Halted(g)
<1>1. g \notin running /\ \A i \in 1..Len(toDevice) : ~Starts(i, g)
  BY DEF OnWire, Begun
<1>2. \A i \in 1..Len(toDevice) : toDevice[i].cmd.op \in {APP, STOP}
  BY FrameTypes DEF TypeInv, TypeOK
<1> QED BY <1>1, <1>2 DEF Halted, NothingOnTheWay, Starts

LEMMA NextHaltsTrue ==
  ASSUME GoalsAreApp, TypeInv, Wire, Answers, StopsAreTrue, HaltsAreTrue, [Next]_vars
  PROVE  HaltsAreTrue'
<1>0. /\ OnWire /\ WorkerAt /\ result \in [Goals -> Results]
      /\ pc # "idle" => cur \in Goals
  BY DEF Wire, OnWire, TypeInv, TypeOK, BridgeTypeOK, WorkerOK
<1>1. \A g \in Goals : Halted(g) /\ ~(SendCommand /\ g = cur) => Halted(g)'
  BY <1>0, HaltedStays
<1>2. ASSUME NEW g \in Goals, SaysHalted(result[g]) PROVE Halted(g)'
  <2>1. goal[g] \in Settled
    BY <1>0, <1>2 DEF SaysHalted, WorkerAt
  <2>2. ~(SendCommand /\ g = cur)
    BY <1>0, <2>1, StateKinds DEF SendCommand, WorkerAt
  <2> QED BY <1>1, <1>2, <2>2 DEF HaltsAreTrue
<1>3. ASSUME NEW g \in Goals, g = cur', pc' = "finish", SaysHalted(pending') PROVE Halted(g)'
  <2>1. CASE CheckCancel
    <3>1. g = cur /\ Untouched(g) /\ ~SendCommand
      BY <1>0, <1>3, <2>1 DEF CheckCancel, StopAndFinish, CommandOnWire, Untouched, SendCommand
    <3> QED BY <1>0, <1>1, <3>1, UntouchedIsHalted
  <2>2. CASE StopResponse
    <3>1. g = cur /\ Halted(g) /\ ~SendCommand
      BY <1>0, <1>3, <2>2, ConfirmedIsHalted DEF StopResponse, Report, SaysHalted,
         ErrAckTimeout, ErrStopRejected, SendCommand
    <3> QED BY <1>1, <3>1
  <2>3. CASE SendCommandFails \/ SendStopFails \/ StopTimeout \/ StopTransportError
    BY <1>3, <2>3 DEF SendCommandFails, SendStopFails, StopTimeout, StopTransportError, Report,
       SaysHalted, ErrAckTimeout, ErrTransport, ErrStopTimeout
  <2>4. CASE WaitResponse
    BY <1>3, <2>4 DEF WaitResponse, Report, StopAndFinish, SaysHalted
  <2>5. CASE SendCommand \/ WaitCanceled \/ WaitTimeout \/ WaitTransportError \/ WaitShutdown
    BY <1>3, <2>5 DEF SendCommand, WaitCanceled, WaitTimeout, WaitTransportError, WaitShutdown,
       StopAndFinish
  <2>6. CASE Poll \/ PollEmpty \/ IgnoreFrame \/ SendStop \/ Finish \/ Release
    BY <1>3, <2>6 DEF Poll, PollEmpty, IgnoreFrame, Resume, SendStop, Finish, Release
  <2>7. CASE Restart \/ \E h \in Goals : HandleGoalAccept(h)
    BY <1>3, <2>7 DEF Restart, FreshProcess, HandleGoalAccept
  <2>8. CASE \/ Shutdown \/ UNCHANGED bridgeVars
             \/ \E h \in Goals : HandleGoalReject(h) \/ HandleCancel(h)
    <3>1. UNCHANGED <<pc, cur, pending>> /\ (pc = "finish" => ~SendCommand)
      BY <2>8 DEF Shutdown, HandleGoalReject, HandleCancel, bridgeVars, workerVars, SendCommand
    <3> QED BY <1>0, <1>1, <1>3, <3>1 DEF HaltsAreTrue
  <2> QED BY <2>1, <2>2, <2>3, <2>4, <2>5, <2>6, <2>7, <2>8 DEF Next, BridgeNext, Worker, vars
<1>4. ASSUME NEW g \in Goals, SaysHalted(result'[g]) PROVE Halted(g)'
  <2>1. CASE Finish
    <3>1. /\ cur \in Goals /\ pc = "finish" /\ ~SendCommand
          /\ result' = [result EXCEPT ![cur] = pending]
      BY <1>0, <2>1 DEF Finish, SendCommand
    <3>2. CASE g = cur
      BY <1>0, <1>1, <1>4, <3>1, <3>2 DEF HaltsAreTrue
    <3>3. CASE g # cur
      BY <1>0, <1>2, <1>4, <3>1, <3>3
    <3> QED BY <3>2, <3>3
  <2>2. CASE ~Finish
    <3>1. UNCHANGED result
      BY <2>2 DEF Next, BridgeNext, Worker, CheckCancel, SendCommand, SendCommandFails, Poll,
         PollEmpty, IgnoreFrame, WaitResponse, WaitCanceled, WaitTimeout, WaitTransportError,
         WaitShutdown, SendStop, SendStopFails, StopResponse, StopTimeout, StopTransportError,
         Release, Shutdown, Restart, HandleGoalAccept, HandleGoalReject, HandleCancel,
         serverVars, bridgeVars, vars
    <3> QED BY <1>2, <1>4, <3>1
  <2> QED BY <2>1, <2>2
<1> QED BY <1>3, <1>4 DEF HaltsAreTrue

LEMMA HaltsAlways ==
  ASSUME GoalsAreApp, StopIdsSuffice
  PROVE  Spec => []HaltsHold
<1>1. TypeInv /\ Wire /\ Answers /\ HaltsHold /\ [Next]_vars => HaltsHold'
  BY NextCount, NextOrder, NextStopsTrue, NextHaltsTrue DEF HaltsHold
<1> QED BY <1>1, InitHalts, TypeInvAlways, WireAlways, AnswersAlways, PTL DEF Spec

(* CANCELED, and SAFE_STOP/201, mean that the command neither runs nor     *)
(* will: the STOP that was confirmed is the worker's own, it was carried   *)
(* out behind every frame of the goal, and no older STOP had its id.       *)
THEOREM StopIsConfirmed ==
  ASSUME GoalsAreApp, StopIdsSuffice
  PROVE  Spec => []ConfirmedStop
<1>1. HaltsHold => ConfirmedStop
  BY DEF HaltsHold, HaltsAreTrue, SaysHalted, Halted, ConfirmedStop
<1> QED BY <1>1, HaltsAlways, PTL

(***************************************************************************)
(* The promise of ExecuteDeviceCommand.  Every step of bridge, bus and     *)
(* device is a step of DeviceCommand, or one that it does not see.         *)
(***************************************************************************)
phaseOf == [g \in Goals |-> PromisePhase(g)]
doneOf  == {g \in Goals : carried[g] > 0}

(* What a client that knows the states and results may read off them.      *)
LEMMA PhaseFacts ==
  ASSUME TypeInv, WorkerAt, NEW g \in Goals
  PROVE  /\ goal[g] = "unsent" => PromisePhase(g) = "new"
         /\ goal[g] = "executing" => PromisePhase(g) = "open"
         /\ goal[g] = "canceling" => PromisePhase(g) = "canceling"
         /\ goal[g] = "lost" => PromisePhase(g) = "SAFE_STOP"
         /\ goal[g] \in Settled =>
              /\ PromisePhase(g) = result[g].outcome
              /\ result[g].outcome \in {"COMPLETED", "CANCELED", "SAFE_STOP", "DEVICE_FAULT"}
         /\ PromisePhase(g) \in {"open", "canceling"} => goal[g] \in Live
         /\ goal[g] \in {"unsent", "refused", "lost"} \/ goal[g] \in Live \/ goal[g] \in Settled
<1>1. /\ goal[g] \in GoalStates /\ result[g].outcome \in Outcomes
      /\ goal[g] \in Settled => result[g].outcome # "NONE"
  BY DEF TypeInv, TypeOK, BridgeTypeOK, Results, WorkerAt
<1> QED BY <1>1 DEF PromisePhase, GoalStates, Live, Settled, Outcomes

LEMMA UnseenStep ==
  ASSUME UNCHANGED <<goal, result, carried, running>>
  PROVE  UNCHANGED Promise!promiseVars
<1>1. phaseOf' = phaseOf
  BY DEF phaseOf, PromisePhase
<1>2. doneOf' = doneOf
  BY DEF doneOf
<1> QED BY <1>1, <1>2 DEF Promise!promiseVars, phaseOf, doneOf

(* A step of the bridge that changes the state of one goal. *)
LEMMA PhaseChange ==
  ASSUME goal \in [Goals -> GoalStates], result \in [Goals -> Results], NEW g \in Goals, NEW p,
         \A h \in Goals : h # g => goal'[h] = goal[h] /\ result'[h] = result[h],
         PromisePhase(g)' = p, UNCHANGED <<carried, running>>
  PROVE  phaseOf' = [phaseOf EXCEPT ![g] = p] /\ doneOf' = doneOf
<1>1. \A h \in Goals : h # g => PromisePhase(h)' = PromisePhase(h)
  BY DEF PromisePhase
<1> QED BY <1>1 DEF phaseOf, doneOf

LEMMA InitPromise == Init => Promise!Init
<1> SUFFICES ASSUME Init PROVE Promise!Init
  OBVIOUS
<1>1. \A g \in Goals : PromisePhase(g) = "new" /\ ~(carried[g] > 0)
  BY DEF Init, BridgeInit, DeviceInit, PromisePhase
<1>2. running = {}
  BY DEF Init, DeviceInit
<1> QED BY <1>1, <1>2 DEF Promise!Init

LEMMA AcceptPromise ==
  ASSUME TypeInv, FlightInv, WorkerAt, UNCHANGED deviceVars, NEW g \in Goals, HandleGoalAccept(g)
  PROVE  Promise!Accept(g)
<1>0. goal \in [Goals -> GoalStates] /\ result \in [Goals -> Results]
  BY DEF TypeInv, TypeOK, BridgeTypeOK
<1>1. /\ goal[g] = "unsent" /\ goal' = [goal EXCEPT ![g] = "executing"] /\ pc = "idle"
      /\ UNCHANGED <<result, carried, running>>
  BY DEF HandleGoalAccept, deviceVars
<1>2. PromisePhase(g)' = "open"
  BY <1>0, <1>1 DEF PromisePhase
<1>3. phaseOf' = [phaseOf EXCEPT ![g] = "open"] /\ doneOf' = doneOf
  BY <1>0, <1>1, <1>2, PhaseChange
<1>4. phaseOf[g] = "new" /\ \A h \in Goals : phaseOf[h] \notin {"open", "canceling"}
  BY <1>1, PhaseFacts DEF phaseOf, FlightInv
<1> QED BY <1>1, <1>3, <1>4 DEF Promise!Accept, Promise!Open, phaseOf, doneOf

LEMMA RefusePromise ==
  ASSUME TypeInv, WorkerAt, UNCHANGED deviceVars, NEW g \in Goals, HandleGoalReject(g)
  PROVE  Promise!Refuse(g)
<1>0. goal \in [Goals -> GoalStates] /\ result \in [Goals -> Results]
  BY DEF TypeInv, TypeOK, BridgeTypeOK
<1>1. /\ goal[g] = "unsent" /\ goal' = [goal EXCEPT ![g] = "refused"]
      /\ UNCHANGED <<result, carried, running>>
  BY DEF HandleGoalReject, deviceVars
<1>2. PromisePhase(g)' = "refused"
  BY <1>0, <1>1 DEF PromisePhase
<1>3. phaseOf' = [phaseOf EXCEPT ![g] = "refused"] /\ doneOf' = doneOf
  BY <1>0, <1>1, <1>2, PhaseChange
<1>4. phaseOf[g] = "new"
  BY <1>1, PhaseFacts DEF phaseOf
<1> QED BY <1>1, <1>3, <1>4 DEF Promise!Refuse, phaseOf, doneOf

LEMMA CancelPromise ==
  ASSUME TypeInv, WorkerAt, UNCHANGED deviceVars, NEW g \in Goals, HandleCancel(g)
  PROVE  Promise!Cancel(g)
<1>0. goal \in [Goals -> GoalStates] /\ result \in [Goals -> Results]
  BY DEF TypeInv, TypeOK, BridgeTypeOK
<1>1. /\ goal[g] = "executing" /\ goal' = [goal EXCEPT ![g] = "canceling"]
      /\ UNCHANGED <<result, carried, running>>
  BY DEF HandleCancel, deviceVars
<1>2. PromisePhase(g)' = "canceling"
  BY <1>0, <1>1 DEF PromisePhase
<1>3. phaseOf' = [phaseOf EXCEPT ![g] = "canceling"] /\ doneOf' = doneOf
  BY <1>0, <1>1, <1>2, PhaseChange
<1>4. phaseOf[g] = "open"
  BY <1>1, PhaseFacts DEF phaseOf
<1> QED BY <1>1, <1>3, <1>4 DEF Promise!Cancel, phaseOf, doneOf

(* The outcome that Finish reports is one that the device bears out. *)
LEMMA SettlePromise ==
  ASSUME TypeInv, WorkerAt, CancelInv, OutcomesHold, HaltsAreTrue, UNCHANGED deviceVars, Finish
  PROVE  cur \in Goals /\ pending.outcome \in Promise!Final /\ Promise!Settle(cur, pending.outcome)
<1>0. /\ goal \in [Goals -> GoalStates] /\ result \in [Goals -> Results] /\ cur \in Goals
      /\ pending.outcome \in Outcomes /\ pending.outcome # "NONE" /\ goal[cur] \in Live
  BY DEF Finish, TypeInv, TypeOK, BridgeTypeOK, WorkerOK, Results, WorkerAt
<1>1. pending.outcome \in {"COMPLETED", "CANCELED", "SAFE_STOP", "DEVICE_FAULT"}
  BY <1>0 DEF Outcomes
<1>2. /\ goal' = [goal EXCEPT ![cur] = TerminalState(pending.outcome)]
      /\ result' = [result EXCEPT ![cur] = pending] /\ pc = "finish"
      /\ UNCHANGED <<carried, running>>
  BY DEF Finish, deviceVars
<1>3. \A g \in Goals : g = cur => PromisePhase(g)' = pending.outcome
  BY <1>0, <1>2 DEF PromisePhase, TerminalState
<1>4. ASSUME NEW g \in Goals, g = cur
      PROVE  phaseOf' = [phaseOf EXCEPT ![g] = pending.outcome] /\ doneOf' = doneOf
  <2>1. \A h \in Goals : h # g => goal'[h] = goal[h] /\ result'[h] = result[h]
    BY <1>0, <1>2, <1>4
  <2> QED BY <1>0, <1>2, <1>3, <1>4, <2>1, PhaseChange
<1>5. phaseOf[cur] \in {"open", "canceling"}
  BY <1>0, PhaseFacts DEF phaseOf, Live
<1>6. pending.outcome = "COMPLETED" => cur \in doneOf
  BY <1>0, <1>2 DEF OutcomesHold, Holds, doneOf
<1>7. pending.outcome = "CANCELED" => phaseOf[cur] = "canceling" /\ cur \notin running
  BY <1>0, <1>2, PhaseFacts DEF CancelInv, CancelIsLegal, HaltsAreTrue, SaysHalted, Halted, phaseOf
<1>8. pending.outcome = "DEVICE_FAULT" => cur \notin doneOf
  BY <1>0, <1>2 DEF OutcomesHold, Holds, doneOf
<1>9. phaseOf' = [phaseOf EXCEPT ![cur] = pending.outcome] /\ doneOf' = doneOf
  BY <1>0, <1>4
<1> QED BY <1>0, <1>1, <1>2, <1>5, <1>6, <1>7, <1>8, <1>9
        DEF Promise!Settle, Promise!Open, Promise!Final, phaseOf, doneOf

(* A command that the device takes up is that of an open goal, or of one   *)
(* that ended with the device in doubt, and is taken up for the first time.*)
LEMMA TakenInTime ==
  ASSUME TypeInv, Wire, Wire', OutcomesHold, HaltsAreTrue, ProcessCommand, Takes(toDevice[1].cmd)
  PROVE  LET g == toDevice[1].by
         IN  g \in Goals /\ carried[g] = 0 /\ PromisePhase(g) \in {"open", "canceling", "SAFE_STOP"}
<1> DEFINE f == toDevice[1]
           g == f.by
<1>1. /\ 1 \in 1..Len(toDevice) /\ g \in Goals /\ f.cmd.op = APP /\ APP # STOP
      /\ carried' = [carried EXCEPT ![g] = @ + 1] /\ carried \in [Goals -> Nat]
      /\ OnWire /\ WorkerAt
  BY ProcessFacts DEF Wire, OnWire, Takes, TypeInv, TypeOK, DeviceTypeOK, APP, STOP
<1>2. carried[g] = 0
  BY <1>1 DEF Wire, CarriedAtMostOnce
<1>3. goal[g] \notin {"unsent", "refused"}
  BY <1>1 DEF OnWire, OnTheWay
<1>4. ~SaysHalted(result[g])
  BY <1>1 DEF HaltsAreTrue, Halted, NothingOnTheWay
<1>5. ~Refusing
  BY DEF Takes, Refusing
<1>6. result[g].outcome \notin {"COMPLETED", "CANCELED", "DEVICE_FAULT"}
  BY <1>1, <1>2, <1>4, <1>5 DEF OutcomesHold, Holds, SaysHalted
<1> HIDE DEF g
<1>7. PromisePhase(g) \in {"open", "canceling", "SAFE_STOP"}
  BY <1>1, <1>3, <1>6, PhaseFacts DEF Live
<1> QED BY <1>1, <1>2, <1>7 DEF g

LEMMA ProcessPromise ==
  ASSUME TypeInv, Wire, Wire', OutcomesHold, HaltsAreTrue, ProcessCommand, UNCHANGED bridgeVars
  PROVE  Promise!Next \/ UNCHANGED Promise!promiseVars
<1> DEFINE f == toDevice[1]
           g == f.by
<1>1. g \in Goals /\ Head(toDevice) = f /\ carried \in [Goals -> Nat]
  BY ProcessFacts, QueueTail DEF ProcessCommand, TypeInv, TypeOK, DeviceTypeOK, Wire, OnWire
<1>2. /\ UNCHANGED <<goal, result>>
      /\ carried' = [carried EXCEPT ![g] = IF Takes(f.cmd) THEN @ + 1 ELSE @]
      /\ running' = IF Halts(f.cmd) THEN {}
                    ELSE IF Takes(f.cmd) THEN running \cup {g} ELSE running
  BY <1>1 DEF ProcessCommand, bridgeVars
<1>3. phaseOf' = phaseOf
  BY <1>2 DEF phaseOf, PromisePhase
<1>4. ~(Takes(f.cmd) /\ Halts(f.cmd))
  BY DEF Takes, Halts, APP, STOP
<1>5. CASE Takes(f.cmd)
  <2>1. carried[g] = 0 /\ PromisePhase(g) \in {"open", "canceling", "SAFE_STOP"}
    BY <1>5, TakenInTime
  <2>2. running' = running \cup {g}
    BY <1>2, <1>4, <1>5
  <2>3. \A h \in Goals : carried'[h] > 0 <=> carried[h] > 0 \/ h = g
    BY <1>1, <1>2, <1>5
  <2>4. g \notin doneOf /\ doneOf' = doneOf \cup {g}
    BY <1>1, <2>1, <2>3 DEF doneOf
  <2>5. phaseOf[g] \in {"open", "canceling", "SAFE_STOP"}
    BY <1>1, <2>1 DEF phaseOf
  <2> HIDE DEF g
  <2>6. PICK h \in Goals : h = g
    BY <1>1
  <2>7. Promise!CarryOut(h)
    BY <1>3, <2>2, <2>4, <2>5, <2>6 DEF Promise!CarryOut, Promise!Open, phaseOf, doneOf
  <2> QED BY <2>7 DEF Promise!Next
<1>6. CASE ~Takes(f.cmd)
  <2>1. doneOf' = doneOf
    BY <1>1, <1>2, <1>6 DEF doneOf
  <2>2. CASE Halts(f.cmd)
    <3>1. Promise!Stop
      BY <1>2, <1>3, <2>1, <2>2 DEF Promise!Stop, phaseOf, doneOf
    <3> QED BY <3>1 DEF Promise!Next
  <2>3. CASE ~Halts(f.cmd)
    BY <1>2, <1>3, <1>6, <2>1, <2>3 DEF Promise!promiseVars, phaseOf, doneOf
  <2> QED BY <2>2, <2>3
<1> QED BY <1>5, <1>6

(* Every step keeps the promise. *)
LEMMA NextPromise ==
  ASSUME MaxRestarts = 0
  PROVE  /\ TypeInv /\ FlightInv /\ CancelInv /\ Wire /\ Wire' /\ Answers /\ HaltsHold
         /\ [Next]_vars
         => [Promise!Next]_(Promise!promiseVars)
<1> SUFFICES ASSUME TypeInv, FlightInv, CancelInv, Wire, Wire', Answers, HaltsHold, [Next]_vars
             PROVE  Promise!Next \/ UNCHANGED Promise!promiseVars
  OBVIOUS
<1>0. WorkerAt /\ OutcomesHold /\ HaltsAreTrue /\ restarts = 0
  BY DEF Wire, Answers, HaltsHold, TypeInv, TypeOK, BridgeTypeOK
<1>1. CASE BridgeNext /\ UNCHANGED deviceVars
  <2>1. ASSUME NEW g \in Goals, HandleGoalAccept(g) \/ HandleGoalReject(g) \/ HandleCancel(g)
        PROVE  Promise!Next
    <3>1. Promise!Accept(g) \/ Promise!Refuse(g) \/ Promise!Cancel(g)
      BY <1>0, <1>1, <2>1, AcceptPromise, RefusePromise, CancelPromise
    <3> QED BY <3>1 DEF Promise!Next
  <2>2. CASE Finish
    <3>1. cur \in Goals /\ pending.outcome \in Promise!Final /\ Promise!Settle(cur, pending.outcome)
      BY <1>0, <1>1, <2>2, SettlePromise
    <3> QED BY <3>1 DEF Promise!Next
  <2>3. ASSUME Shutdown \/ Restart \/ (Worker /\ ~Finish)
        PROVE  UNCHANGED <<goal, result>>
    <3>1. CASE Worker /\ ~Finish
      BY <3>1 DEF Worker, CheckCancel, SendCommand, SendCommandFails, Poll, PollEmpty, IgnoreFrame,
         WaitResponse, WaitCanceled, WaitTimeout, WaitTransportError, WaitShutdown, SendStop,
         SendStopFails, StopResponse, StopTimeout, StopTransportError, Release, serverVars
    <3>2. CASE Shutdown \/ Restart
      BY <1>0, <3>2 DEF Shutdown, Restart
    <3> QED BY <2>3, <3>1, <3>2
  <2> QED BY <1>1, <2>1, <2>2, <2>3, UnseenStep DEF BridgeNext, deviceVars
<1>2. CASE ProcessCommand /\ UNCHANGED bridgeVars
  BY <1>0, <1>2, ProcessPromise
<1>3. ASSUME UNCHANGED bridgeVars, UNCHANGED <<carried, running>>
      PROVE  UNCHANGED Promise!promiseVars
  BY <1>3, UnseenStep DEF bridgeVars
<1>4. CASE (ReplayCommand \/ SendResponse) /\ UNCHANGED bridgeVars
  BY <1>3, <1>4 DEF ReplayCommand, SendResponse
<1>5. CASE (LoseCommand \/ LoseResponse) /\ UNCHANGED <<bridgeVars, deviceVars>>
  BY <1>3, <1>5 DEF deviceVars
<1>6. CASE UNCHANGED vars
  BY <1>3, <1>6 DEF vars, deviceVars
<1> QED BY <1>1, <1>2, <1>4, <1>5, <1>6 DEF Next, DeviceNext

(* Bridge, bus and device implement the promise of ExecuteDeviceCommand:   *)
(* one goal at a time, a command carried out once and only while its goal  *)
(* is open or in doubt, and an outcome that the device bears out.          *)
THEOREM PromiseKept ==
  ASSUME GoalsAreApp, StopIdsSuffice
  PROVE  Spec => KeepsPromise
<1>1. MaxRestarts = 0
  BY DEF StopIdsSuffice
<1>2. Spec => []CancelInv
  BY InitCancel, NextCancel, TypeInvAlways, FlightAlways, PTL DEF Spec
<1> QED BY <1>1, <1>2, InitPromise, NextPromise, TypeInvAlways, FlightAlways, WireAlways,
           AnswersAlways, HaltsAlways, PTL DEF Spec, KeepsPromise, Promise!Spec
=============================================================================
