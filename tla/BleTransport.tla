---------------------------- MODULE BleTransport ----------------------------
(***************************************************************************)
(* TransportBle::exchange (src/ble.rs) on a transport that is connected:   *)
(* the command goes out in packets, one write after the other              *)
(* (send_framed), and the answer comes back in notifications that          *)
(* recv_framed takes one by one from a stream shared by all callers.       *)
(*                                                                         *)
(* exchange takes &self and holds no lock from its first write to its last *)
(* notification: the only lock, around the stream, is taken and given back *)
(* for each notification.  Tasks may thus overlap on one transport, and an *)
(* exchange that ends early (timeout, dropped future, invalid packet)      *)
(* leaves the rest of its answer to the next one.                          *)
(*                                                                         *)
(* The device and the Bluetooth stack are external.  A write with response *)
(* is over when the device has the packet; notifications arrive in order.  *)
(***************************************************************************)
EXTENDS BleFraming

CONSTANTS
  Callers,     \* tasks that share the transport
  Commands,    \* serialized APDU commands, sequences of bytes
  Answer(_),   \* the answer of the device to a command
  MtuReplies,  \* what the device may have replied to infer_mtu
  Strays,      \* notifications that belong to no APDU answer
  U16Max,      \* u16::MAX; less in the runs, so that a short command can exceed it
  MaxCalls,    \* bounds: exchanges, stray notifications and
  MaxStrays,   \*   lost notifications in one behaviour
  MaxLost

ASSUME CommandsAssumption == Commands \subseteq Seq(Byte)
ASSUME AnswerAssumption   ==
  \A cmd \in Commands : Answer(cmd) \in Seq(Byte) /\ Len(Answer(cmd)) \in Word \ {0, 1}
ASSUME MtuRepliesAssumption == MtuReplies \subseteq Seq(Byte)
ASSUME StraysAssumption ==
  /\ Strays \subseteq Seq(Byte)
  /\ \A s \in Strays : s = <<>> \/ CommandTag(s) # APDU_COMMAND_TAG
ASSUME U16MaxAssumption == U16Max \in Word \ {0}
ASSUME BoundsAssumption == MaxCalls \in Nat /\ MaxStrays \in Nat /\ MaxLost \in Nat

VARIABLES
  mtuSize,        \* mtu_size, set once by infer_mtu
  pc,             \* where each exchange is
  command,        \* apdu_data of the current or last exchange
  offset,         \* send_framed: bytes written so far
  seqIndex,       \*   and sequence index of the next packet
  readers,        \* who waits for the stream, in turn; the first one holds it
  buffer,         \* recv_framed: bytes received so far
  total,          \*   and total_length
  outcome,        \* what the last exchange returned
  notifications,  \* the stream: notifications not yet taken
  connected,      \* the link is up
  rx,             \* device: the command that is coming in
  pending,        \* device: commands to handle
  outgoing,       \* device: packets of the answer still to be notified
  calls, strays, lost,  \* counted against the bounds
  alone           \* history: callers whose exchange found the transport quiet
                  \*   and had it, undisturbed, to itself

hostVars   == <<pc, command, offset, seqIndex, readers, buffer, total, outcome>>
deviceVars == <<rx, pending, outgoing>>
counters   == <<calls, strays, lost>>
vars == <<mtuSize, hostVars, notifications, connected, deviceVars, counters, alone>>

Idle(c)   == pc[c] = "idle"
Active    == {c \in Callers : ~Idle(c)}
Receiving(c) == pc[c] \in {"first", "rest"}

\* Bytes that are no command get a status word of their own.
UNKNOWN_COMMAND == <<110, 0>>
AnswerTo(bytes) == IF bytes \in Commands THEN Answer(bytes) ELSE UNKNOWN_COMMAND

\* The device expects nothing in particular.
NoRx == [length |-> 0, data |-> <<>>, next |-> 0]

Errors == {"none", "ble", "too_large", "too_short", "invalid_packet",
           "stream_ended", "timeout", "cancelled"}
Outcome == [kind : Errors \cup {"ok"}, data : Seq(Byte)]
Failed(kind) == [kind |-> kind, data |-> <<>>]

\* Who waits for the lock is in an exchange, and waits once.
WaitInTurn(queue) ==
  /\ \A i \in DOMAIN queue : Receiving(queue[i])
  /\ \A i, j \in DOMAIN queue : queue[i] = queue[j] => i = j

TypeOK ==
  /\ mtuSize \in Byte
  /\ pc \in [Callers -> {"idle", "initial", "subsequent", "first", "rest"}]
  /\ command \in [Callers -> Commands \cup {<<>>}]
  /\ offset \in [Callers -> Nat]
  /\ seqIndex \in [Callers -> 0 .. U16Max]
  /\ readers \in Seq(Callers) /\ WaitInTurn(readers)
  /\ buffer \in [Callers -> Seq(Byte)]
  /\ total \in [Callers -> Word]
  /\ outcome \in [Callers -> Outcome]
  /\ notifications \in Seq(Seq(Byte))
  /\ connected \in BOOLEAN
  /\ rx \in [length : Word, data : Seq(Byte), next : Nat]
  /\ pending \in Seq(Seq(Byte))
  /\ outgoing \in Seq(Seq(Byte))
  /\ calls \in 0 .. MaxCalls /\ strays \in 0 .. MaxStrays /\ lost \in 0 .. MaxLost
  /\ alone \in SUBSET Callers

Init ==
  /\ mtuSize \in {InferMtu(raw) : raw \in MtuReplies}
  /\ pc = [c \in Callers |-> "idle"]
  /\ command = [c \in Callers |-> <<>>]
  /\ offset = [c \in Callers |-> 0]
  /\ seqIndex = [c \in Callers |-> 0]
  /\ readers = <<>>
  /\ buffer = [c \in Callers |-> <<>>]
  /\ total = [c \in Callers |-> 0]
  /\ outcome = [c \in Callers |-> Failed("none")]
  /\ notifications = <<>>
  /\ connected = TRUE
  /\ rx = NoRx
  /\ pending = <<>>
  /\ outgoing = <<>>
  /\ calls = 0 /\ strays = 0 /\ lost = 0
  /\ alone = {}

-----------------------------------------------------------------------------
(* exchange: it begins, and it returns.                                    *)

\* A bug (for the mutation runs): who is gone keeps its turn.
LeaveStays(queue, c) == queue

\* Out of the queue of the lock, wherever it stands.
Leave(queue, c) ==
  IF \E k \in DOMAIN queue : queue[k] = c
  THEN LET k == CHOOSE k \in DOMAIN queue : queue[k] = c
       IN  SubSeq(queue, 1, k - 1) \o SubSeq(queue, k + 1, Len(queue))
  ELSE queue

\* The locals of the exchange go, and its place in the queue of the lock.
Return(c, result) ==
  /\ pc' = [pc EXCEPT ![c] = "idle"]
  /\ offset' = [offset EXCEPT ![c] = 0]
  /\ seqIndex' = [seqIndex EXCEPT ![c] = 0]
  /\ readers' = Leave(readers, c)
  /\ buffer' = [buffer EXCEPT ![c] = <<>>]
  /\ total' = [total EXCEPT ![c] = 0]
  /\ outcome' = [outcome EXCEPT ![c] = result]
  /\ UNCHANGED command

IsApdu(raw) == raw # <<>> /\ CommandTag(raw) = APDU_COMMAND_TAG

\* Nothing of an earlier exchange is still to come.
Quiet ==
  /\ Active = {} /\ pending = <<>> /\ outgoing = <<>>
  /\ \A k \in DOMAIN notifications : ~IsApdu(notifications[k])

\* A bug (of a fix that makes exchange atomic): the stream is locked first.
BeginLocks(c, cmd) ==
  /\ Idle(c)
  /\ calls < MaxCalls
  /\ calls' = calls + 1
  /\ command' = [command EXCEPT ![c] = cmd]
  /\ outcome' = [outcome EXCEPT ![c] = Failed("none")]
  /\ pc' = [pc EXCEPT ![c] = "initial"]
  /\ readers' = Append(readers, c)
  /\ UNCHANGED <<mtuSize, offset, seqIndex, buffer, total, alone>>
  /\ UNCHANGED <<notifications, connected, deviceVars, strays, lost>>

\* A bug: no command is too large.
BeginAnyLength(c, cmd) ==
  /\ Idle(c)
  /\ calls < MaxCalls
  /\ calls' = calls + 1
  /\ command' = [command EXCEPT ![c] = cmd]
  /\ outcome' = [outcome EXCEPT ![c] = Failed("none")]
  /\ pc' = [pc EXCEPT ![c] = "initial"]
  /\ alone' = (alone \ (Active \cup {c})) \cup (IF Quiet THEN {c} ELSE {})
  /\ UNCHANGED <<mtuSize, offset, seqIndex, readers, buffer, total>>
  /\ UNCHANGED <<notifications, connected, deviceVars, strays, lost>>

Begin(c, cmd) ==
  /\ Idle(c)
  /\ calls < MaxCalls
  /\ calls' = calls + 1
  /\ command' = [command EXCEPT ![c] = cmd]
  /\ IF Len(cmd) > U16Max
     THEN /\ outcome' = [outcome EXCEPT ![c] = Failed("too_large")]
          /\ UNCHANGED pc
     ELSE /\ outcome' = [outcome EXCEPT ![c] = Failed("none")]
          /\ pc' = [pc EXCEPT ![c] = "initial"]
  /\ alone' = (alone \ (Active \cup {c})) \cup (IF Quiet THEN {c} ELSE {})
  /\ UNCHANGED <<mtuSize, offset, seqIndex, readers, buffer, total>>
  /\ UNCHANGED <<notifications, connected, deviceVars, strays, lost>>

-----------------------------------------------------------------------------
(* send_framed.                                                            *)

DataEnd(c) ==
  IF pc[c] = "initial"
  THEN FirstDataEnd(Len(command[c]), mtuSize)
  ELSE NextDataEnd(Len(command[c]), offset[c], mtuSize)

\* The packet that is being written; the length is cut to a u16.
Packet(c) ==
  LET payload     == SubSeq(command[c], offset[c] + 1, DataEnd(c))
      data_length == Len(command[c]) % (U16Max + 1)
  IN  IF pc[c] = "initial"
      THEN InitialPacket(APDU_COMMAND_TAG, data_length, payload)
      ELSE SubsequentPacket(APDU_COMMAND_TAG, seqIndex[c], payload)

\* The device takes a packet: an initial packet starts a command over, a
\* subsequent one continues it if its index is the next one, and any other
\* ends it; a complete command is to be handled.
DeviceTakes(raw) ==
  LET rest == [rx EXCEPT !.data = @ \o SubsequentPayload(raw), !.next = @ + 1]
      new  == IF SequenceIndex(raw) = 0
              THEN [length |-> DataLength(raw), data |-> InitialPayload(raw), next |-> 1]
              ELSE IF SequenceIndex(raw) = rx.next THEN rest ELSE NoRx
  IN  IF new # NoRx /\ Len(new.data) >= new.length
      THEN /\ pending' = Append(pending, SubSeq(new.data, 1, new.length))
           /\ rx' = NoRx
      ELSE /\ rx' = new
           /\ UNCHANGED pending

\* A bug: the sequence index stays where it is.
WriteSameIndex(c) ==
  /\ connected
  /\ DeviceTakes(Packet(c))
  /\ offset' = [offset EXCEPT ![c] = DataEnd(c)]
  /\ seqIndex' = [seqIndex EXCEPT ![c] = 1]
  /\ pc' = [pc EXCEPT ![c] = IF DataEnd(c) < Len(command[c])
                             THEN "subsequent" ELSE "first"]
  /\ UNCHANGED <<mtuSize, command, readers, buffer, total, outcome>>
  /\ UNCHANGED <<notifications, connected, outgoing, counters, alone>>

\* write(...).await? succeeds; the next packet, or recv_framed.
Write(c) ==
  /\ connected
  /\ DeviceTakes(Packet(c))
  /\ offset' = [offset EXCEPT ![c] = DataEnd(c)]
  /\ seqIndex' = [seqIndex EXCEPT ![c] = (@ + 1) % (U16Max + 1)]
  /\ pc' = [pc EXCEPT ![c] = IF DataEnd(c) < Len(command[c])
                             THEN "subsequent" ELSE "first"]
  /\ UNCHANGED <<mtuSize, command, readers, buffer, total, outcome>>
  /\ UNCHANGED <<notifications, connected, outgoing, counters, alone>>

WriteInitial(c)    == pc[c] = "initial"    /\ Write(c)
WriteSubsequent(c) == pc[c] = "subsequent" /\ Write(c)

\* write fails, or the exchange is dropped at its await; the device may have
\* the packet all the same.
WriteEnds(c, kind) ==
  /\ pc[c] \in {"initial", "subsequent"}
  /\ \/ connected /\ DeviceTakes(Packet(c))
     \/ UNCHANGED <<rx, pending>>
  /\ Return(c, Failed(kind))
  /\ UNCHANGED <<mtuSize, notifications, connected, outgoing, counters, alone>>

WriteFails(c) == WriteEnds(c, "ble")

-----------------------------------------------------------------------------
(* next_notification and recv_framed.                                      *)

Waits(c) == \E k \in DOMAIN readers : readers[k] = c
Holds(c) == Receiving(c) /\ readers # <<>> /\ Head(readers) = c

\* self.notifications.lock().await: the lock is handed on in turn.
Lock(c) ==
  /\ Receiving(c)
  /\ ~Waits(c)
  /\ readers' = Append(readers, c)
  /\ UNCHANGED <<mtuSize, pc, command, offset, seqIndex, buffer, total, outcome>>
  /\ UNCHANGED <<notifications, connected, deviceVars, counters, alone>>

\* The notification is of no use: the loop goes round, and locks anew.
Skip == /\ readers' = Tail(readers)
        /\ UNCHANGED <<pc, command, offset, seqIndex, buffer, total, outcome>>

\* What is in the buffer is the answer, or it is on to the next packet.
Reassemble(c, bytes, length) ==
  IF Len(bytes) < length
  THEN /\ readers' = Tail(readers)
       /\ pc' = [pc EXCEPT ![c] = "rest"]
       /\ buffer' = [buffer EXCEPT ![c] = bytes]
       /\ total' = [total EXCEPT ![c] = length]
       /\ UNCHANGED <<command, offset, seqIndex, outcome>>
  ELSE IF length < 2    \* APDUAnswer::from_answer
       THEN Return(c, Failed("too_short"))
       ELSE Return(c, [kind |-> "ok", data |-> SubSeq(bytes, 1, length)])

\* next_notification returns one.
NextNotification(c) ==
  /\ Holds(c)
  /\ notifications # <<>>
  /\ notifications' = Tail(notifications)
  /\ UNCHANGED <<mtuSize, connected, deviceVars, counters, alone>>

\* The loop that looks for the initial packet.
ReceiveFirst(c) ==
  /\ pc[c] = "first"
  /\ NextNotification(c)
  /\ LET raw == Head(notifications)
     IN  IF raw = <<>> THEN Return(c, Failed("invalid_packet"))
         ELSE IF CommandTag(raw) # APDU_COMMAND_TAG THEN Skip
         ELSE IF ~IsInitialPacket(raw) THEN Return(c, Failed("invalid_packet"))
         ELSE Reassemble(c, InitialPayload(raw), DataLength(raw))

\* A bug: the tag is not looked at.
ReceiveRestAnyTag(c) ==
  /\ pc[c] = "rest"
  /\ NextNotification(c)
  /\ LET raw == Head(notifications)
     IN  IF ~IsSubsequentPacket(raw) THEN Return(c, Failed("invalid_packet"))
         ELSE Reassemble(c, buffer[c] \o SubsequentPayload(raw), total[c])

\* The loop over the subsequent packets.
ReceiveRest(c) ==
  /\ pc[c] = "rest"
  /\ NextNotification(c)
  /\ LET raw == Head(notifications)
     IN  IF ~IsSubsequentPacket(raw) THEN Return(c, Failed("invalid_packet"))
         ELSE IF CommandTag(raw) # APDU_COMMAND_TAG THEN Skip
         ELSE Reassemble(c, buffer[c] \o SubsequentPayload(raw), total[c])

Unanswered(c, kind) ==
  /\ Return(c, Failed(kind))
  /\ UNCHANGED <<mtuSize, notifications, connected, deviceVars, counters, alone>>

\* A bug: only the wait for the initial packet times out.
TimeoutFirstOnly(c) ==
  /\ Holds(c)
  /\ notifications = <<>>
  /\ pc[c] = "first"
  /\ Unanswered(c, "timeout")

\* BLE_RESPONSE_TIMEOUT_SECS without a notification, of whatever kind, since
\* this caller got the lock.
Timeout(c) ==
  /\ Holds(c)
  /\ notifications = <<>>
  /\ Unanswered(c, "timeout")

\* stream.next() is None.
StreamEnded(c) ==
  /\ Holds(c)
  /\ notifications = <<>> /\ ~connected
  /\ Unanswered(c, "stream_ended")

\* The future is dropped: at the await of a write, of the lock or of a
\* notification.
Cancel(c) ==
  \/ WriteEnds(c, "cancelled")
  \/ Receiving(c) /\ Unanswered(c, "cancelled")

-----------------------------------------------------------------------------
(* The device and the link.                                                *)

\* A command is handled, which takes the user's consent and so any time.
DeviceAnswers ==
  /\ connected
  /\ pending # <<>> /\ outgoing = <<>>
  /\ outgoing' = Packets(APDU_COMMAND_TAG, AnswerTo(Head(pending)), mtuSize)
  /\ pending' = Tail(pending)
  /\ UNCHANGED <<mtuSize, hostVars, notifications, connected, rx, counters, alone>>

DeviceNotifies ==
  /\ connected
  /\ outgoing # <<>>
  /\ notifications' = Append(notifications, Head(outgoing))
  /\ outgoing' = Tail(outgoing)
  /\ UNCHANGED <<mtuSize, hostVars, connected, rx, pending, counters, alone>>

\* A notification is lost below the stream: the exchange is disturbed.
NotificationLost ==
  /\ connected
  /\ outgoing # <<>>
  /\ lost < MaxLost
  /\ lost' = lost + 1
  /\ outgoing' = Tail(outgoing)
  /\ alone' = alone \ Active
  /\ UNCHANGED <<mtuSize, hostVars, notifications, connected, rx, pending>>
  /\ UNCHANGED <<calls, strays>>

\* A notification that is no part of an answer.
Stray(raw) ==
  /\ connected
  /\ strays < MaxStrays
  /\ strays' = strays + 1
  /\ notifications' = Append(notifications, raw)
  /\ UNCHANGED <<mtuSize, hostVars, connected, deviceVars, calls, lost, alone>>

\* The link goes down, for good: TransportBle has no way to connect again.
Disconnect ==
  /\ connected
  /\ connected' = FALSE
  /\ rx' = NoRx /\ pending' = <<>> /\ outgoing' = <<>>
  /\ UNCHANGED <<mtuSize, hostVars, notifications, counters, alone>>

\* Callers may stop calling.
AllReturned ==
  /\ calls = MaxCalls /\ Active = {}
  /\ UNCHANGED vars

-----------------------------------------------------------------------------
ReceiveStep(c) ==
  Lock(c) \/ ReceiveFirst(c) \/ ReceiveRest(c) \/ Timeout(c) \/ StreamEnded(c)
SendStep(c) == WriteInitial(c) \/ WriteSubsequent(c) \/ WriteFails(c)
HostStep(c) == SendStep(c) \/ ReceiveStep(c)

Device == DeviceAnswers \/ DeviceNotifies

Next ==
  \/ \E c \in Callers, cmd \in Commands : Begin(c, cmd)
  \/ \E c \in Callers : HostStep(c) \/ Cancel(c)
  \/ Device \/ NotificationLost \/ Disconnect
  \/ \E raw \in Strays : Stray(raw)
  \/ AllReturned

Spec == Init /\ [][Next]_vars

\* A task that can go on does so: a lock that is free is handed on, and a wait
\* for a notification ends with one, or with the timeout.  Nothing is asked of
\* the device, and not even that a write comes back, with or without success:
\* there is no timeout around it.
FairSpec == Spec /\ \A c \in Callers : WF_vars(ReceiveStep(c))

WritesComeBack == \A c \in Callers : WF_vars(SendStep(c))

-----------------------------------------------------------------------------
(* Properties.                                                             *)

\* recv_framed gives an exchange the answer to its own command: Ok is that
\* answer, byte for byte, whenever the exchange began on a quiet transport and
\* was not overlapped, whatever was said, timed out or failed before, and
\* however many strays come in between.
OwnAnswer ==
  \A c \in alone :
    outcome[c].kind = "ok" => outcome[c].data = Answer(command[c])

\* Nothing of an answer is left behind: when such an exchange returns Ok, all of
\* its packets are taken, and the transport is quiet for the next one.  A task
\* that has had nothing but Ok, from a quiet start, thus gets its own answer
\* again, as a transport that is "reused across calls" must see to.
OkLeavesQuiet ==
  [][\A c \in alone :
       ~Idle(c) /\ Idle(c)' /\ outcome'[c].kind = "ok" => Quiet']_vars

\* send_framed and the device agree in the middle of a command: the device has
\* the bytes up to offset and expects the packet that comes next; and what it
\* handles in the end is the command, whole.
DeviceInSync ==
  \A c \in alone :
    /\ pc[c] = "subsequent" =>
         /\ connected => rx = [length |-> Len(command[c]), next |-> seqIndex[c],
                               data |-> SubSeq(command[c], 1, offset[c])]
         /\ pending = <<>> /\ outgoing = <<>>
    /\ Receiving(c) => pending \in {<<>>, <<command[c]>>}

\* The u16 sequence index of send_framed never wraps: each packet carries at
\* least three bytes of at most u16::MAX, as infer_mtu sees to it.
SeqIndexNeverWraps ==
  \A c \in Callers :
    pc[c] = "subsequent" =>
      /\ seqIndex[c] >= 1
      /\ 3 * seqIndex[c] <= offset[c] + 2
      /\ offset[c] < Len(command[c])

\* send_framed never writes the same part of a command twice and never stands
\* still: a step of it ends the exchange, or moves its offset on, within the
\* command; and recv_framed begins when all of the command is written, not
\* before.
SendMovesOn ==
  [][\A c \in Callers :
       pc[c] \in {"initial", "subsequent"} =>
         \/ UNCHANGED <<pc[c], offset[c], seqIndex[c], command[c]>>
         \/ pc'[c] = "idle"
         \/ /\ pc'[c] = "subsequent"
            /\ offset[c] < offset'[c] /\ offset'[c] < Len(command'[c])
         \/ pc'[c] = "first" /\ offset'[c] = Len(command'[c])]_vars

\* No packet is larger than the mtu_size that the device asked for.
PacketsFitMtu ==
  \A c \in Callers :
    pc[c] \in {"initial", "subsequent"} => Len(Packet(c)) <= mtuSize

\* Every exchange returns, whatever the device does or does not, as long as the
\* Bluetooth stack lets no write hang: send_framed makes headway with every
\* packet, the lock goes round, and the timeout ends the wait for an answer that
\* does not come.
EveryExchangeReturns == WritesComeBack => \A c \in Callers : ~Idle(c) ~> Idle(c)

\* An exchange that has written its command returns, even if another one hangs
\* in a write for ever: send_framed holds nothing that recv_framed needs.
ReceiversReturn == \A c \in Callers : Receiving(c) ~> Idle(c)

\* A transport "should be reused across calls" (src/ble_api.rs): one call after
\* the other, each gets its own answer or an error.  The code does not see to
\* it: an answer that comes after its exchange timed out goes to the next one.
AnswersBelongToCalls ==
  \A c \in Callers :
    outcome[c].kind = "ok" => outcome[c].data = Answer(command[c])
============================================================================
