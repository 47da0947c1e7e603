----------------------------- MODULE ApduChannel -----------------------------
(***************************************************************************)
(* What exchange promises to one caller at a time, whichever transport is  *)
(* below: the command reaches the device whole or not at all, the device   *)
(* answers the commands in the order in which they reached it, and each    *)
(* exchange takes the first answer that no exchange has taken yet.  That   *)
(* is its own answer as long as every exchange waited for its own; after   *)
(* one that gave up, the exchanges are out of step.                        *)
(***************************************************************************)
EXTENDS Integers, Sequences

CONSTANTS
  Commands,    \* APDU commands
  Answers(_)   \* the answers that a device may give to each of them

AllAnswers == UNION {Answers(cmd) : cmd \in Commands}

VARIABLES
  phase,     \* of the exchange: "idle", "sending" or "waiting"
  command,   \* its command
  outcome,   \* what the last exchange returned
  queue,     \* device: commands to handle
  answers    \* answers not yet taken

channelVars == <<phase, command, outcome, queue, answers>>

Result(kind, data) == [kind |-> kind, data |-> data]
Failures == {"ble", "too_large", "too_short", "invalid_packet",
             "stream_ended", "timeout", "cancelled"}

ChannelInit ==
  /\ phase = "idle"
  /\ outcome = Result("none", <<>>)
  /\ queue = <<>> /\ answers = <<>>

-----------------------------------------------------------------------------
Exchange(cmd) ==
  /\ phase = "idle"
  /\ phase' = "sending"
  /\ command' = cmd
  /\ outcome' = Result("none", <<>>)
  /\ UNCHANGED <<queue, answers>>

\* A command of more than u16::MAX bytes goes nowhere.
Refuse(cmd) ==
  /\ phase = "idle"
  /\ command' = cmd
  /\ outcome' = Result("too_large", <<>>)
  /\ UNCHANGED <<phase, queue, answers>>

Arrive ==
  /\ phase = "sending"
  /\ phase' = "waiting"
  /\ queue' = Append(queue, command)
  /\ UNCHANGED <<command, outcome, answers>>

\* The exchange takes an answer ...
Receive ==
  /\ phase = "waiting"
  /\ answers # <<>>
  /\ phase' = "idle"
  /\ outcome' = Result("ok", Head(answers))
  /\ answers' = Tail(answers)
  /\ UNCHANGED <<command, queue>>

\* ... or gives up, and does not know whether the command has arrived.
GiveUp(kind) ==
  /\ phase # "idle"
  /\ phase' = "idle"
  /\ outcome' = Result(kind, <<>>)
  /\ \/ UNCHANGED queue
     \/ phase = "sending" /\ queue' = Append(queue, command)
  /\ UNCHANGED <<command, answers>>

\* The device, or its user, takes any time, and may never come to an answer.
AnswerComes ==
  /\ queue # <<>>
  /\ \E a \in Answers(Head(queue)) : answers' = Append(answers, a)
  /\ queue' = Tail(queue)
  /\ UNCHANGED <<phase, command, outcome>>

\* An answer gets lost on its way, and with the link all there was to come.
WithoutLast(s) == SubSeq(s, 1, Len(s) - 1)
LoseAnswer ==
  /\ answers # <<>>
  /\ answers' = WithoutLast(answers)
  /\ UNCHANGED <<phase, command, outcome, queue>>
LoseLink ==
  /\ queue' = <<>>
  /\ \/ UNCHANGED answers
     \/ answers # <<>> /\ answers' = WithoutLast(answers)
  /\ UNCHANGED <<phase, command, outcome>>

ChannelNext ==
  \/ \E cmd \in Commands : Exchange(cmd) \/ Refuse(cmd)
  \/ Arrive \/ Receive \/ AnswerComes \/ LoseAnswer \/ LoseLink
  \/ \E kind \in Failures : GiveUp(kind)

ChannelSpec == ChannelInit /\ [][ChannelNext]_channelVars
============================================================================
