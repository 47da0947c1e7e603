----------------------------- MODULE BleChannel -----------------------------
(***************************************************************************)
(* BleTransport, with one task and answers that fit into one packet, is an *)
(* ApduChannel: whatever is lost, late, dropped or cut off below, exchange *)
(* delivers whole commands, and answers in their order.                    *)
(*                                                                         *)
(* An answer of several packets is not: an exchange that gives up in the   *)
(* middle of one leaves its end to the next exchange, which may take that  *)
(* for the beginning of another.                                           *)
(***************************************************************************)
EXTENDS BleTransport, FiniteSets

ASSUME OneTask == \E c \in Callers : Callers = {c}
ASSUME AnswersFitOnePacket ==
  \A cmd \in Commands, raw \in MtuReplies :
    Len(Packets(APDU_COMMAND_TAG, Answer(cmd), InferMtu(raw))) = 1

Task == CHOOSE c \in Callers : TRUE

\* The packets of answers in a stream, in their order: SelectSeq(stream, IsApdu),
\* without its recursion.
Rank(stream, i) == Cardinality({j \in 1 .. i : IsApdu(stream[j])})
ApduAt(stream, k) ==
  CHOOSE i \in 1 .. Len(stream) : IsApdu(stream[i]) /\ Rank(stream, i) = k
Apdus(stream) == [k \in 1 .. Rank(stream, Len(stream)) |-> stream[ApduAt(stream, k)]]

\* The answers in a stream, each of them in one packet.
AnswersIn(stream) ==
  [k \in DOMAIN Apdus(stream) |-> InitialPayload(Apdus(stream)[k])]

Phase == IF Idle(Task) THEN "idle" ELSE IF Receiving(Task) THEN "waiting" ELSE "sending"
AnswersToCome == AnswersIn(notifications) \o AnswersIn(outgoing)
TheAnswer(cmd) == {Answer(cmd)}

Channel == INSTANCE ApduChannel WITH
  Answers <- TheAnswer,
  phase   <- Phase,
  command <- command[Task],
  outcome <- outcome[Task],
  queue   <- pending,
  answers <- AnswersToCome

\* exchange delivers a command whole or not at all, and hands out the answers
\* in the order of the commands, each of them once: the channel that the calls
\* of the library (module AppCalls) are built on.
ImplementsChannel == Channel!ChannelSpec
============================================================================
