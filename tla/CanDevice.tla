------------------------------ MODULE CanDevice ------------------------------
(***************************************************************************)
(* The device behind the bus: virtual_can_device_node.cpp.  One I/O thread *)
(* takes a command, looks its id up in the replay cache, and answers.  The *)
(* cache makes a retry harmless: a remembered command is answered from     *)
(* memory and never carried out again.  It lives as long as the device,    *)
(* across any number of bridge processes.                                  *)
(***************************************************************************)
EXTENDS CanBus

CONSTANTS
  DeviceModes,      \* the launch modes considered: subset of the six below
  CacheCapacity     \* replay_cache_capacity

ASSUME DeviceAssumption ==
  /\ CacheCapacity \in Nat \ {0}
  /\ DeviceModes \subseteq
       {"normal", "delay_ack", "drop_ack", "drop_stop_ack", "reject", "fault"}

VARIABLES
  mode,     \* launch parameter, fixed
  cache,    \* remembered commands, oldest first (cache_ and cache_order_)
  reply,    \* response computed and not yet sent
  carried,  \* history: how often the device carried out the goal's command
  running   \* history: goals carried out since the last STOP was carried out

deviceVars == <<mode, cache, reply, carried, running>>

NoReply == [id |-> 0, code |-> Accepted, mode |-> "NORMAL", op |-> APP]
CacheEntries == [cmd: Commands, resp: Responses \cup {NoReply}]

DeviceInit ==
  /\ mode \in DeviceModes
  /\ cache = <<>>
  /\ reply = NoReply
  /\ carried = [g \in Goals |-> 0]
  /\ running = {}

Response(cmd, code, devMode) ==
  [id |-> cmd.id, code |-> code, mode |-> devMode, op |-> cmd.op]

(* FIFO eviction before the new entry is stored. *)
Remember(cmd, resp) ==
  cache' = Append(IF Len(cache) >= CacheCapacity THEN Tail(cache) ELSE cache,
                  [cmd |-> cmd, resp |-> resp])

(* Mutant: an entry whose acknowledgement was dropped does not count. *)
KnownAnswered(cmd) ==
  \E i \in 1..Len(cache) : cache[i].cmd.id = cmd.id /\ cache[i].resp # NoReply

Known(cmd)  == \E i \in 1..Len(cache) : cache[i].cmd.id = cmd.id
EntryOf(cmd) == cache[CHOOSE i \in 1..Len(cache) : cache[i].cmd.id = cmd.id]

(* What a command that is not in the cache is answered; NoReply when the   *)
(* launch mode swallows the acknowledgement.                               *)
FreshReply(cmd) ==
  CASE cmd.op = STOP /\ mode # "drop_stop_ack" -> Response(cmd, Accepted, "STOPPED")
    [] cmd.op = APP /\ mode = "reject"         -> Response(cmd, Rejected, "NORMAL")
    [] cmd.op = APP /\ mode = "fault"          -> Response(cmd, Faulted, "FAULT")
    [] cmd.op = APP /\ mode \in {"normal", "delay_ack"} -> Response(cmd, Accepted, "NORMAL")
    [] OTHER -> NoReply

(* The device takes up the command: it works on it (NORMAL or BUSY), or    *)
(* goes to STOPPED.                                                        *)
Takes(cmd) == cmd.op = APP /\ mode \notin {"reject", "fault"}
Halts(cmd) == cmd.op = STOP /\ mode # "drop_stop_ack"

(* A command whose id is remembered: a different command under that id is  *)
(* a conflict, the same one is answered as it was the first time.          *)
ReplayCommand ==
  /\ reply = NoReply /\ toDevice # <<>>
  /\ LET cmd == Head(toDevice).cmd
     IN  /\ Known(cmd)
         /\ reply' = IF EntryOf(cmd).cmd # cmd THEN Response(cmd, Conflict, "FAULT")
                                               ELSE EntryOf(cmd).resp
  /\ toDevice' = Tail(toDevice)
  /\ UNCHANGED <<toBridge, mode, cache, carried, running>>

ProcessCommand ==
  /\ reply = NoReply /\ toDevice # <<>>
  /\ LET cmd == Head(toDevice).cmd
         g   == Head(toDevice).by
     IN  /\ ~Known(cmd)
         /\ Remember(cmd, FreshReply(cmd))
         /\ reply' = FreshReply(cmd)
         /\ carried' = [carried EXCEPT ![g] = IF Takes(cmd) THEN @ + 1 ELSE @]
         /\ running' = IF Halts(cmd) THEN {}
                       ELSE IF Takes(cmd) THEN running \cup {g} ELSE running
  /\ toDevice' = Tail(toDevice)
  /\ UNCHANGED <<toBridge, mode>>

(* send_response, at once or after delay_ms: it may fail, and then the     *)
(* response is gone.                                                       *)
SendResponse ==
  /\ reply # NoReply
  /\ reply' = NoReply
  /\ \/ toBridge' = Append(toBridge, reply)
     \/ UNCHANGED toBridge
  /\ UNCHANGED <<toDevice, mode, cache, carried, running>>

DeviceNext == ReplayCommand \/ ProcessCommand \/ SendResponse

DeviceTypeOK ==
  /\ mode \in DeviceModes
  /\ cache \in Seq(CacheEntries)
  /\ reply \in Responses \cup {NoReply}
  /\ carried \in [Goals -> Nat]
  /\ running \subseteq Goals
=============================================================================
