--------------------------- MODULE AppCallsProofs ---------------------------
(***************************************************************************)
(* Proofs about AppCalls, for any HD paths, requests with any number of    *)
(* chunks, status words, and number of calls.                              *)
(***************************************************************************)
EXTENDS AppCalls, SequenceTheorems, TLAPS

AppAnswersAll == UNION {AppAnswers(cmd) : cmd \in AllCommands}

\* What TypeOK leaves out: the exchange under way, and its outcome.
ExchangeOK ==
  /\ command \in AllCommands
  /\ outcome.kind = "ok" => outcome.data \in AppAnswersAll
  /\ pc # "await" => phase = "idle"
  /\ pc # "idle" => result = Nothing("none")

\* In step, there is nothing between host and device but the command of the
\* exchange that waits for its answer, or that answer.
InStepInv ==
  instep =>
    /\ phase # "waiting" => queue = <<>> /\ answers = <<>>
    /\ phase = "waiting" =>
         \/ queue = <<command>> /\ answers = <<>>
         \/ queue = <<>> /\ Len(answers) = 1 /\ answers[1].of = command
    /\ phase # "idle" => command = CommandOf(call, index)
    /\ pc = "await" /\ phase = "idle" /\ outcome.kind = "ok" =>
         outcome.data.of = CommandOf(call, index)
    /\ \A a \in result.answer :
         /\ a.of = CommandOf(call, index)
         /\ result.kind = "ok" => index = ChunksCount(call) - 1

IInv == TypeOK /\ ExchangeOK /\ InStepInv /\ KeyCallsOnlyGetKeys

-----------------------------------------------------------------------------
\* A call has at least one chunk.
LEMMA ChunksCountPositive == \A c \in Calls : ChunksCount(c) \in Nat \ {0}
<1> SUFFICES ASSUME NEW c \in Calls PROVE ChunksCount(c) \in Nat \ {0}
  OBVIOUS
<1>1. ASSUME Signs(c) PROVE \E r \in Requests : c.arg = {r}
  BY <1>1 DEF Signs, Calls, Call, GetVersion, GetPublicKey, GetPublicKeyWithDisplayFlag,
     GetWalletId, Sign, INS_SIGN_TRANSACTION, INS_GET_PUBLIC_KEY, INS_GET_WALLET_ID,
     INS_GET_VERSION
<1>2. ASSUME Signs(c) PROVE (CHOOSE r \in c.arg : TRUE) \in Requests
  BY <1>1, <1>2
<1> QED
  BY <1>2, ChunksAssumption DEF ChunksCount

LEMMA CommandOfIsCommand ==
  \A c \in Calls : \A i \in 0 .. ChunksCount(c) - 1 : CommandOf(c, i) \in AllCommands
  BY DEF AllCommands

\* What the device answers to a command that it has is an answer of the app, and
\* knows that command.
LEMMA AnswersAreAnswers ==
  \A cmd \in AllCommands : \A a \in Answers(cmd) : a \in AppAnswersAll /\ a.of = cmd
  BY ChannelAssumption DEF AppAnswersAll, AppAnswers

LEMMA AnswerKinds ==
  \A a \in AppAnswersAll : a.kind \in Kinds
  BY DEF AppAnswersAll, AppAnswers, KindsFor, Kinds

\* Every status word but that of success has a text.
LEMMA RetcodeErrorIsText ==
  \A retcode : retcode # RETURN_CODE_OK => RetcodeError(retcode) \in ErrorTexts
<1> SUFFICES ASSUME NEW retcode, retcode # RETURN_CODE_OK
             PROVE  RetcodeError(retcode) \in ErrorTexts
  OBVIOUS
<1> HIDE DEF RETURN_CODE_OK
<1> QED
  BY DEF RetcodeError, ErrorTexts

\* Nothing else is of the length of a key.
LEMMA KeyByLength ==
  \A kind \in Kinds :
    DataLen(kind) = PUBLIC_KEY_LENGTH /\ kind # "no_point" => kind \in {"key", "wallet"}
  BY DEF Kinds, DataLen, PUBLIC_KEY_LENGTH

LEMMA LengthIsKept ==
  ASSUME NEW S, NEW s \in Seq(S), s # <<>>
  PROVE  /\ WithoutLast(s) \in Seq(S) /\ Tail(s) \in Seq(S) /\ Head(s) \in S
         /\ Len(s) = 1 => Tail(s) = <<>> /\ Head(s) = s[1]
<1>1. Len(s) \in Nat \ {0}
  BY EmptySeq, LenProperties
<1>2. WithoutLast(s) \in Seq(S)
  <2>1. \A i \in 1 .. Len(s) - 1 : s[i] \in S
    BY <1>1, ElementOfSeq
  <2> QED
    BY <1>1, <2>1, SubSeqProperties DEF WithoutLast
<1>3. Tail(s) \in Seq(S) /\ Head(s) \in S /\ Head(s) = s[1]
  BY HeadTailProperties
<1>4. ASSUME Len(s) = 1 PROVE Tail(s) = <<>>
  <2>1. Len(Tail(s)) = 0
    BY <1>4, HeadTailProperties
  <2> QED
    BY <2>1, <1>3, EmptySeq
<1> QED
  BY <1>2, <1>3, <1>4

-----------------------------------------------------------------------------
\* TypeOK is about the calls, and about the channel.
CallsTypeOK ==
  /\ usb \in BOOLEAN
  /\ pc \in {"idle", "send", "await"}
  /\ call \in Calls
  /\ index \in 0 .. ChunksCount(call) - 1
  /\ \/ result.kind \in {"none", "transport", "cancelled"} /\ result.answer = {}
     \/ result.kind \in {"ok", "length", "no_point"} /\ result.error = "none"
     \/ result.kind = "status" /\ result.error \in ErrorTexts
  /\ calls \in 0 .. MaxCalls

ChannelTypeOK ==
  /\ phase \in {"idle", "sending", "waiting"}
  /\ queue \in Seq(AllCommands)
  /\ answers \in Seq(AppAnswersAll)

LEMMA TypeOKInParts == TypeOK <=> CallsTypeOK /\ ChannelTypeOK /\ instep \in BOOLEAN
  BY DEF TypeOK, CallsTypeOK, ChannelTypeOK, AppAnswersAll

LEMMA InitIInv == Init => IInv
<1> SUFFICES ASSUME Init PROVE IInv
  OBVIOUS
<1> USE DEF Init, ChannelInit, Result, Nothing, Returned
<1>1. TypeOK
  <2>1. GetVersion \in Calls
    BY DEF Calls
  <2>2. index \in 0 .. ChunksCount(call) - 1
    BY <2>1, ChunksCountPositive
  <2>3. calls \in 0 .. MaxCalls
    BY MaxCallsAssumption
  <2>4. queue \in Seq(AllCommands)
        /\ answers \in Seq(UNION {AppAnswers(cmd) : cmd \in AllCommands})
    OBVIOUS
  <2> QED
    BY <2>1, <2>2, <2>3, <2>4 DEF TypeOK
<1>2. ExchangeOK
  BY DEF ExchangeOK
<1>3. InStepInv /\ KeyCallsOnlyGetKeys
  BY DEF InStepInv, KeyCallsOnlyGetKeys
<1> QED
  BY <1>1, <1>2, <1>3 DEF IInv

LEMMA BeginStep ==
  ASSUME IInv, NEW c \in Calls, CallBle(c) \/ CallHid(c)
  PROVE  IInv'
<1> USE DEF Begin, Nothing, Returned
<1>1. CallsTypeOK'
  <2>1. index' \in 0 .. ChunksCount(call') - 1 /\ call' \in Calls
    BY ChunksCountPositive DEF CallBle, CallHid
  <2>2. calls' \in 0 .. MaxCalls
    BY MaxCallsAssumption DEF CallBle, CallHid, IInv, TypeOK
  <2>3. result'.kind \in {"none", "transport"} /\ result'.answer = {}
    BY DEF CallBle, CallHid
  <2>4. usb' \in BOOLEAN /\ pc' \in {"idle", "send", "await"}
    BY DEF CallBle, CallHid, IInv, TypeOK
  <2> QED
    BY <2>1, <2>2, <2>3, <2>4 DEF CallsTypeOK
<1>2. ChannelTypeOK /\ instep \in BOOLEAN /\ phase = "idle"
  BY TypeOKInParts DEF IInv, ExchangeOK, CallBle, CallHid
<1>3. ASSUME CallBle(c)
      PROVE  /\ ChannelTypeOK' /\ instep' \in BOOLEAN
             /\ ExchangeOK' /\ InStepInv' /\ KeyCallsOnlyGetKeys'
  <2> USE <1>3 DEF CallBle, channelVars
  <2>1. ChannelTypeOK' /\ instep' \in BOOLEAN
    BY <1>2 DEF ChannelTypeOK
  <2>2. ExchangeOK'
    BY DEF IInv, ExchangeOK
  <2>3. InStepInv'
    BY <1>2 DEF IInv, InStepInv
  <2>4. KeyCallsOnlyGetKeys'
    BY DEF KeyCallsOnlyGetKeys
  <2> QED
    BY <2>1, <2>2, <2>3, <2>4
<1>4. ASSUME CallHid(c)
      PROVE  /\ ChannelTypeOK' /\ instep' \in BOOLEAN
             /\ ExchangeOK' /\ InStepInv' /\ KeyCallsOnlyGetKeys'
  <2> USE <1>4 DEF CallHid, channelVars
  <2>1. ChannelTypeOK'
    <3>1. answers' = <<>> \/ answers' = answers
      OBVIOUS
    <3>2. <<>> \in Seq(AppAnswersAll)
      OBVIOUS
    <3>3. answers' \in Seq(AppAnswersAll)
      BY <1>2, <3>1, <3>2 DEF ChannelTypeOK
    <3> QED
      BY <1>2, <3>3 DEF ChannelTypeOK
  <2>5. instep' \in BOOLEAN /\ (instep' => queue' = <<>> /\ answers' = <<>>)
    <3>1. ASSUME instep' = instep, UNCHANGED <<queue, answers>>
          PROVE  instep' \in BOOLEAN /\ (instep' => queue' = <<>> /\ answers' = <<>>)
      BY <1>2, <3>1 DEF IInv, InStepInv
    <3>2. ASSUME instep' = (queue = <<>>), answers' = <<>>, UNCHANGED queue
          PROVE  instep' \in BOOLEAN /\ (instep' => queue' = <<>> /\ answers' = <<>>)
      BY <3>2
    <3> QED
      BY <3>1, <3>2
  <2>2. ExchangeOK'
    BY DEF IInv, ExchangeOK
  <2>6. phase' = "idle" /\ pc' \in {"idle", "send"} /\ result'.answer = {}
    BY <1>2
  <2>3. InStepInv'
    BY <2>5, <2>6 DEF InStepInv
  <2>4. KeyCallsOnlyGetKeys'
    BY DEF KeyCallsOnlyGetKeys
  <2> QED
    BY <2>1, <2>2, <2>3, <2>4, <2>5
<1> QED
  BY <1>1, <1>3, <1>4 DEF IInv, TypeOK, CallsTypeOK, ChannelTypeOK, AppAnswersAll

LEMMA SendCommandStep == IInv /\ SendCommand => IInv'
<1> SUFFICES ASSUME IInv, SendCommand PROVE IInv'
  OBVIOUS
<1> USE DEF SendCommand, Exchange, Result
<1>1. TypeOK'
  BY DEF IInv, TypeOK
<1>2. ExchangeOK'
  BY CommandOfIsCommand DEF IInv, TypeOK, ExchangeOK
<1>3. InStepInv' /\ KeyCallsOnlyGetKeys'
  BY DEF IInv, ExchangeOK, InStepInv, KeyCallsOnlyGetKeys
<1> QED
  BY <1>1, <1>2, <1>3 DEF IInv

\* The exchange, the device and the link leave the call alone.
LEMMA CallLeftAlone ==
  ASSUME IInv, UNCHANGED <<usb, callVars>>
  PROVE  CallsTypeOK' /\ KeyCallsOnlyGetKeys'
  BY DEF IInv, TypeOK, CallsTypeOK, KeyCallsOnlyGetKeys, callVars

LEMMA ExchangeGoesOnStep == IInv /\ ExchangeGoesOn => IInv'
<1> SUFFICES ASSUME IInv, ExchangeGoesOn PROVE IInv'
  OBVIOUS
<1> USE DEF ExchangeGoesOn, callVars
<1>1. CallsTypeOK' /\ KeyCallsOnlyGetKeys' /\ instep' \in BOOLEAN
  BY CallLeftAlone DEF IInv, TypeOK
<1>2. ChannelTypeOK /\ command \in AllCommands
  BY TypeOKInParts DEF IInv, ExchangeOK
<1>3. ASSUME Arrive PROVE ChannelTypeOK' /\ ExchangeOK' /\ InStepInv'
  <2> USE <1>3 DEF Arrive
  <2>1. ChannelTypeOK'
    BY <1>2, AppendProperties DEF ChannelTypeOK
  <2>2. ExchangeOK'
    BY DEF IInv, ExchangeOK
  <2>3. InStepInv'
    BY DEF IInv, InStepInv
  <2> QED
    BY <2>1, <2>2, <2>3
<1>4. ASSUME Receive PROVE ChannelTypeOK' /\ ExchangeOK' /\ InStepInv'
  <2> USE <1>4 DEF Receive, Result
  <2>1. Tail(answers) \in Seq(AppAnswersAll) /\ Head(answers) \in AppAnswersAll
    BY <1>2, LengthIsKept DEF ChannelTypeOK
  <2>2. ChannelTypeOK'
    BY <1>2, <2>1 DEF ChannelTypeOK
  <2>3. ExchangeOK'
    BY <2>1 DEF IInv, ExchangeOK
  <2>4. ASSUME instep PROVE queue = <<>> /\ Tail(answers) = <<>> /\ Head(answers).of = command
    BY <2>4, <1>2, LengthIsKept DEF IInv, InStepInv, ChannelTypeOK
  <2>5. InStepInv'
    BY <2>4 DEF IInv, InStepInv
  <2> QED
    BY <2>2, <2>3, <2>5
<1>5. ASSUME AnswerComes PROVE ChannelTypeOK' /\ ExchangeOK' /\ InStepInv'
  <2> USE <1>5 DEF AnswerComes
  <2>1. PICK a \in Answers(Head(queue)) : answers' = Append(answers, a)
    OBVIOUS
  <2>2. Tail(queue) \in Seq(AllCommands) /\ Head(queue) \in AllCommands
    BY <1>2, LengthIsKept DEF ChannelTypeOK
  <2>3. a \in AppAnswersAll /\ a.of = Head(queue)
    BY <2>2, AnswersAreAnswers
  <2>4. ChannelTypeOK'
    BY <1>2, <2>1, <2>2, <2>3, AppendProperties DEF ChannelTypeOK
  <2>5. ExchangeOK'
    BY DEF IInv, ExchangeOK
  <2>6. ASSUME instep
        PROVE  /\ phase = "waiting" /\ queue' = <<>>
               /\ Len(answers') = 1 /\ answers'[1].of = command
    <3>1. phase = "waiting" /\ queue = <<command>> /\ answers = <<>>
      BY <2>6 DEF IInv, InStepInv
    <3>2. answers' = <<a>> /\ queue' = <<>> /\ a.of = command
      BY <2>1, <2>3, <3>1
    <3> QED
      BY <3>1, <3>2
  <2>7. InStepInv'
    BY <2>6 DEF IInv, InStepInv
  <2> QED
    BY <2>4, <2>5, <2>7
<1>6. ChannelTypeOK' /\ ExchangeOK' /\ InStepInv'
  BY <1>3, <1>4, <1>5
<1> QED
  BY <1>1, <1>6 DEF IInv, TypeOK, CallsTypeOK, ChannelTypeOK, AppAnswersAll

LEMMA ExchangeDisturbedStep == IInv /\ ExchangeDisturbed => IInv'
<1> SUFFICES ASSUME IInv, ExchangeDisturbed PROVE IInv'
  OBVIOUS
<1> USE DEF ExchangeDisturbed, callVars
<1>1. CallsTypeOK' /\ KeyCallsOnlyGetKeys' /\ instep' \in BOOLEAN /\ InStepInv'
  BY CallLeftAlone DEF IInv, TypeOK, InStepInv
<1>2. ChannelTypeOK /\ command \in AllCommands
  BY TypeOKInParts DEF IInv, ExchangeOK
<1>3. ExchangeOK'
  BY DEF IInv, ExchangeOK, GiveUp, LoseAnswer, LoseLink, Result
<1>4. ASSUME GiveUp("timeout") PROVE ChannelTypeOK'
  BY <1>2, <1>4, AppendProperties DEF GiveUp, ChannelTypeOK
<1>5. ASSUME LoseAnswer PROVE ChannelTypeOK'
  BY <1>2, <1>5, LengthIsKept DEF LoseAnswer, ChannelTypeOK
<1>6. ASSUME LoseLink PROVE ChannelTypeOK'
  BY <1>2, <1>6, LengthIsKept DEF LoseLink, ChannelTypeOK
<1>7. ChannelTypeOK'
  BY <1>4, <1>5, <1>6
<1> QED
  BY <1>1, <1>3, <1>7 DEF IInv, TypeOK, CallsTypeOK, ChannelTypeOK, AppAnswersAll

LEMMA CancelStep == IInv /\ Cancel => IInv'
<1> SUFFICES ASSUME IInv, Cancel PROVE IInv'
  OBVIOUS
<1> USE DEF Cancel, GiveUp, Return, Nothing, Returned, Result
<1>1. CallsTypeOK'
  BY DEF IInv, TypeOK, CallsTypeOK
<1>2. ChannelTypeOK /\ command \in AllCommands
  BY TypeOKInParts DEF IInv, ExchangeOK
<1>3. ChannelTypeOK' /\ instep' \in BOOLEAN
  <2>1. queue' = queue \/ queue' = Append(queue, command)
    OBVIOUS
  <2>2. queue' \in Seq(AllCommands)
    BY <1>2, <2>1, AppendProperties DEF ChannelTypeOK
  <2> QED
    BY <1>2, <2>2 DEF ChannelTypeOK
<1>4. ExchangeOK'
  BY DEF IInv, ExchangeOK
<1>5. InStepInv' /\ KeyCallsOnlyGetKeys'
  BY DEF InStepInv, KeyCallsOnlyGetKeys
<1> QED
  BY <1>1, <1>3, <1>4, <1>5 DEF IInv, TypeOK, CallsTypeOK, ChannelTypeOK, AppAnswersAll

-----------------------------------------------------------------------------
LEMMA ExchangeFailedStep == IInv /\ ExchangeFailed => IInv'
<1> SUFFICES ASSUME IInv, ExchangeFailed PROVE IInv'
  OBVIOUS
<1> USE DEF ExchangeFailed, Return, Nothing, Returned, channelVars
<1>1. TypeOK'
  BY DEF IInv, TypeOK
<1>2. ExchangeOK'
  BY DEF IInv, ExchangeOK
<1>3. InStepInv' /\ KeyCallsOnlyGetKeys'
  BY DEF IInv, InStepInv, KeyCallsOnlyGetKeys
<1> QED
  BY <1>1, <1>2, <1>3 DEF IInv

\* What an answer makes of the call: it ends with a result that is made of it.
LEMMA ReturnStep ==
  ASSUME IInv, Answered, UNCHANGED <<channelVars, usb, instep>>,
         NEW r, Return(r), r.answer = {outcome.data},
         \/ r.kind \in {"ok", "length", "no_point"} /\ r.error = "none"
         \/ r.kind = "status" /\ r.error \in ErrorTexts,
         r.kind = "ok" => index = ChunksCount(call) - 1,
         AsksKey(call) /\ r.kind = "ok" => outcome.data.kind \in {"key", "wallet"}
  PROVE  IInv'
<1> USE DEF Answered, Return, channelVars
<1>1. TypeOK'
  BY DEF IInv, TypeOK
<1>2. ExchangeOK'
  BY DEF IInv, ExchangeOK
<1>3. InStepInv'
  BY DEF IInv, InStepInv
<1>4. KeyCallsOnlyGetKeys'
  BY DEF KeyCallsOnlyGetKeys, AsksKey
<1> QED
  BY <1>1, <1>2, <1>3, <1>4 DEF IInv

LEMMA StatusErrorStep == IInv /\ StatusError => IInv'
<1> SUFFICES ASSUME IInv, StatusError PROVE IInv'
  OBVIOUS
<1> DEFINE r == Returned("status", RetcodeError(outcome.data.retcode), {outcome.data})
<1>1. Return(r) /\ r.answer = {outcome.data} /\ r.kind = "status" /\ r.error \in ErrorTexts
  BY RetcodeErrorIsText DEF StatusError, Returned
<1> HIDE DEF r
<1> QED
  BY <1>1, ReturnStep DEF StatusError

LEMMA StatusOkStep == IInv /\ StatusOk => IInv'
<1> SUFFICES ASSUME IInv, StatusOk PROVE IInv'
  OBVIOUS
<1>1. /\ Answered /\ UNCHANGED <<channelVars, usb, instep>>
      /\ outcome.data \in AppAnswersAll
  BY DEF StatusOk, Answered, IInv, ExchangeOK
<1>2. ASSUME AsksKey(call), HandlePublicKey(outcome.data) PROVE IInv'
  <2> DEFINE kind == IF DataLen(outcome.data.kind) # PUBLIC_KEY_LENGTH THEN "length"
                     ELSE IF outcome.data.kind = "no_point" THEN "no_point" ELSE "ok"
             r == Returned(kind, "none", {outcome.data})
  <2>1. Return(r) /\ r.answer = {outcome.data} /\ r.error = "none" /\ r.kind = kind
    BY <1>2 DEF HandlePublicKey, Returned
  <2>2. kind \in {"ok", "length", "no_point"}
    OBVIOUS
  <2>3. kind = "ok" => outcome.data.kind \in {"key", "wallet"}
    BY <1>1, AnswerKinds, KeyByLength
  <2>4. ~Signs(call)
    BY <1>2 DEF AsksKey, Signs, INS_SIGN_TRANSACTION, INS_GET_PUBLIC_KEY, INS_GET_WALLET_ID
  <2>5. index = ChunksCount(call) - 1
    BY <2>4 DEF IInv, TypeOK, ChunksCount
  <2> HIDE DEF r, kind
  <2> QED
    BY <1>1, <2>1, <2>2, <2>3, <2>5, ReturnStep
<1>3. ASSUME ~AsksKey(call), IsLast(call, index), Return(Returned("ok", "none", {outcome.data}))
      PROVE  IInv'
  <2> DEFINE r == Returned("ok", "none", {outcome.data})
  <2>1. Return(r) /\ r.answer = {outcome.data} /\ r.error = "none" /\ r.kind = "ok"
    BY <1>3 DEF Returned
  <2>2. index = ChunksCount(call) - 1
    BY <1>3, ChunksCountPositive DEF IsLast, IInv, TypeOK
  <2> HIDE DEF r
  <2> QED
    BY <1>1, <1>3, <2>1, <2>2, ReturnStep
<1>4. ASSUME ~IsLast(call, index), index' = index + 1, pc' = "send",
             UNCHANGED <<call, result, calls>>
      PROVE  IInv'
  <2> USE <1>1, <1>4 DEF Answered, channelVars
  <2>1. index' \in 0 .. ChunksCount(call') - 1
    BY ChunksCountPositive DEF IsLast, IInv, TypeOK
  <2>2. TypeOK'
    BY <2>1 DEF IInv, TypeOK
  <2>3. ExchangeOK'
    BY DEF IInv, ExchangeOK
  <2>4. result.answer = {} /\ result.kind = "none"
    BY DEF IInv, ExchangeOK, Nothing, Returned
  <2>5. InStepInv' /\ KeyCallsOnlyGetKeys'
    BY <2>4 DEF IInv, InStepInv, KeyCallsOnlyGetKeys
  <2> QED
    BY <2>2, <2>3, <2>5 DEF IInv
<1> QED
  BY <1>2, <1>3, <1>4 DEF StatusOk

LEMMA StutterStep == IInv /\ UNCHANGED vars => IInv'
  BY DEF IInv, TypeOK, ExchangeOK, InStepInv, KeyCallsOnlyGetKeys, vars, channelVars, callVars

LEMMA NextIInv == IInv /\ [Next]_vars => IInv'
  BY BeginStep, SendCommandStep, ExchangeGoesOnStep, ExchangeDisturbedStep, CancelStep,
     ExchangeFailedStep, StatusErrorStep, StatusOkStep, StutterStep DEF Next, AllReturned

\* The invariant of the three theorems.
THEOREM IInvHolds == Spec => []IInv
  BY InitIInv, NextIInv, PTL DEF Spec

-----------------------------------------------------------------------------
\* Calls, commands, answers and results of AppCalls keep their types; no status
\* word but that of success is without a text.
THEOREM AppCallsTypeCorrect == Spec => []TypeOK
<1>1. IInv => TypeOK
  BY DEF IInv
<1> QED
  BY <1>1, IInvHolds, PTL

\* As long as no exchange has given up, each call returns the answer to its own
\* command.
THEOREM InStepCorrect == Spec => []InStepMeansOwn
<1>1. IInv => InStepMeansOwn
  <2> SUFFICES ASSUME IInv, instep
               PROVE  /\ Len(queue) + Len(answers) <= 1
                      /\ phase # "waiting" => queue = <<>> /\ answers = <<>>
                      /\ \A a \in result.answer :
                           /\ a.of = CommandOf(call, index)
                           /\ result.kind = "ok" => index = ChunksCount(call) - 1
    BY DEF InStepMeansOwn
  <2>1. \/ queue = <<>> /\ answers = <<>>
        \/ queue = <<command>> /\ answers = <<>>
        \/ queue = <<>> /\ Len(answers) = 1
    BY DEF IInv, InStepInv
  <2>2. Len(queue) + Len(answers) <= 1
    BY <2>1
  <2> QED
    BY <2>2 DEF IInv, InStepInv
<1> QED
  BY <1>1, IInvHolds, PTL

\* In step or not, a key that is handed out is a key that the device has made.
THEOREM KeysCorrect == Spec => []KeyCallsOnlyGetKeys
<1>1. IInv => KeyCallsOnlyGetKeys
  BY DEF IInv
<1> QED
  BY <1>1, IInvHolds, PTL
============================================================================
