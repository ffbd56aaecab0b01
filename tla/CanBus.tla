------------------------------- MODULE CanBus -------------------------------
(***************************************************************************)
(* The wire between the Device Bridge and the CAN device: the frames of    *)
(* runtime_can (protocol.hpp) as records, and one receive queue per        *)
(* socket.  The kernel keeps the order of the frames of one sender, may    *)
(* drop a frame (full receive buffer, bus fault), and never duplicates.    *)
(*                                                                         *)
(* The field "by" of a command frame and the field "op" of a response are  *)
(* history: no code reads them.  They name the goal on whose behalf the    *)
(* frame was sent and the opcode it answers.                               *)
(***************************************************************************)
EXTENDS Integers, Sequences, FiniteSets

CONSTANTS
  Goals,       \* goals sent to the bridge, one identity per goal
  Payloads,    \* application arguments, as far as the device tells them apart
  StopIdMin,   \* first command id of the STOP range (0x8000)
  WireIdMax    \* last command id that fits the frame (0xFFFF)

ASSUME WireAssumption ==
  /\ StopIdMin \in Nat /\ WireIdMax \in Nat
  /\ 1 < StopIdMin /\ StopIdMin <= WireIdMax

VARIABLES
  toDevice,    \* command frames in the device's receive queue
  toBridge     \* response frames in the bridge's receive queue

busVars == <<toDevice, toBridge>>

WireIds == 1..WireIdMax
AppIds  == 1..(StopIdMin - 1)
StopIds == StopIdMin..WireIdMax

(* kStopOpcode and every other opcode. *)
STOP == "STOP"
APP  == "APP"
Opcodes == {APP, STOP}

Commands == [id: WireIds, op: Opcodes, arg: Payloads \cup WireIds]
CommandFrames == [cmd: Commands, by: Goals]

(* Result codes of the device: 0 accepted, 1 rejected, 2 fault, 3 conflict *)
(* with a remembered command.                                              *)
Accepted == 0
Rejected == 1
Faulted  == 2
Conflict == 3

DeviceStates == {"NORMAL", "FAULT", "STOPPED"}
Responses == [id: WireIds, code: Accepted..Conflict, mode: DeviceStates, op: Opcodes]

BusInit == toDevice = <<>> /\ toBridge = <<>>

Transmit(frame) == toDevice' = Append(toDevice, frame) /\ UNCHANGED toBridge

(* A frame is lost on the bus or in a full receive buffer.  Nobody looks   *)
(* at a frame before it is first in its queue, so it may as well be lost   *)
(* there.                                                                  *)
LoseCommand ==
  /\ toDevice # <<>> /\ toDevice' = Tail(toDevice)
  /\ UNCHANGED toBridge

LoseResponse ==
  /\ toBridge # <<>> /\ toBridge' = Tail(toBridge)
  /\ UNCHANGED toDevice

BusTypeOK ==
  /\ toDevice \in Seq(CommandFrames)
  /\ toBridge \in Seq(Responses)
=============================================================================
