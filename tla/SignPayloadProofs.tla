------------------------- MODULE SignPayloadProofs -------------------------
(***************************************************************************)
(* Proofs about SignPayload, for every set of callers and of requests,     *)
(* every chunk size up to 255 and any number of calls.                     *)
(***************************************************************************)
EXTENDS SignPayload, SequenceTheorems, TLAPS

-----------------------------------------------------------------------------
(* The bytes of a request and how they are cut.                            *)

LEMMA LevelBytesType ==
  ASSUME NEW level \in Level
  PROVE  LevelBytes(level) \in [1 .. 4 -> Byte]
<1>1. level.index \in Nat /\ HighByte(level.index) \in 0 .. 127
  BY DEF Level, HighByte
<1>2. /\ ((level.index \div 256) \div 256) % 256 \in Byte
      /\ (level.index \div 256) % 256 \in Byte
      /\ level.index % 256 \in Byte
  BY <1>1 DEF Byte
<1>3. HighByte(level.index) + (IF level.hardened THEN 128 ELSE 0) \in Byte
  BY <1>1 DEF Byte
<1> QED
  BY <1>2, <1>3 DEF LevelBytes

LEMMA DataType ==
  ASSUME NEW r \in Request
  PROVE  Data(r) \in Seq(Byte)
<1> DEFINE n == Len(r.path)
<1>1. /\ r.path \in Seq(Level)
      /\ r.payload \in Seq(Byte)
      /\ n \in Nat
  BY DEF Request
<1>2. ASSUME NEW k \in 1 .. 4 * n
      PROVE  LevelBytes(r.path[((k - 1) \div 4) + 1])[((k - 1) % 4) + 1] \in Byte
  <2>1. ((k - 1) \div 4) + 1 \in 1 .. n /\ ((k - 1) % 4) + 1 \in 1 .. 4
    BY <1>1
  <2>2. r.path[((k - 1) \div 4) + 1] \in Level
    BY <1>1, <2>1, ElementOfSeq
  <2> QED
    BY <2>1, <2>2, LevelBytesType
<1>3. HdPathToBytes(r.path) \in [1 .. 4 * n -> Byte]
  BY <1>2 DEF HdPathToBytes
<1>4. HdPathToBytes(r.path) \in Seq(Byte)
  BY <1>1, <1>3, IsASeq, 4 * n \in Nat
<1> QED
  BY <1>1, <1>4, ConcatProperties DEF Data

LEMMA RequestInstruction ==
  ASSUME NEW r \in Request
  PROVE  r.ins \in Instructions
BY DEF Request

\* Division, rounded up.
LEMMA CeilingDivision ==
  ASSUME NEW n \in Nat, NEW m \in 1 .. 255, NEW i \in Nat
  PROVE  LET q == (n + m - 1) \div m
         IN  /\ q \in Nat
             /\ q = i + 1 => i * m < n /\ n <= (i + 1) * m
             /\ i + 1 < q => (i + 1) * m < n
<1> DEFINE q == (n + m - 1) \div m
<1>1. q \in Nat /\ q * m <= n + m - 1 /\ n + m - 1 < q * m + m
  OBVIOUS
<1>2. (i + 1) * m = i * m + m /\ i * m \in Nat
  OBVIOUS
<1>3. ASSUME i + 1 < q PROVE (i + 2) * m <= q * m
  BY <1>1, <1>3
<1>4. (i + 2) * m = i * m + m + m
  OBVIOUS
<1> HIDE DEF q
<1>5. q = i + 1 => i * m < n /\ n <= (i + 1) * m
  BY <1>1, <1>2
<1>6. i + 1 < q => (i + 1) * m < n
  BY <1>1, <1>2, <1>3, <1>4
<1> QED
  BY <1>1, <1>5, <1>6 DEF q

\* Where the chunks end: a last chunk at the end of the data, any other after
\* a whole number of chunks; and no chunk is empty.
LEMMA ChunkBounds ==
  ASSUME NEW r \in Request, NEW i \in Nat, i < ChunksCount(r)
  PROVE  /\ ChunksCount(r) \in Nat
         /\ i * ChunkSize \in Nat
         /\ i * ChunkSize < ChunkEnd(r, i)
         /\ ChunkEnd(r, i) <= Len(Data(r))
         /\ ChunkEnd(r, i) \in Nat
         /\ IsLastChunk(r, i) => ChunkEnd(r, i) = Len(Data(r))
         /\ ~IsLastChunk(r, i) => /\ ChunkEnd(r, i) = (i + 1) * ChunkSize
                                  /\ i + 1 < ChunksCount(r)
<1> DEFINE n == Len(Data(r))
           q == (n + ChunkSize - 1) \div ChunkSize
<1>1. n \in Nat /\ ChunkSize \in 1 .. 255
  BY DataType, LenProperties, ChunkSizeAssumption
<1>2. q = ChunksCount(r) /\ q \in Nat
  BY <1>1, CeilingDivision DEF ChunksCount
<1>3. /\ q = i + 1 => i * ChunkSize < n /\ n <= (i + 1) * ChunkSize
      /\ i + 1 < q => (i + 1) * ChunkSize < n
  BY <1>1, CeilingDivision
<1>4. /\ i * ChunkSize \in Nat
      /\ (i + 1) * ChunkSize \in Nat
      /\ i * ChunkSize < (i + 1) * ChunkSize
  BY <1>1
<1>5. ChunkEnd(r, i) = IF (i + 1) * ChunkSize < n THEN (i + 1) * ChunkSize ELSE n
  BY DEF ChunkEnd
<1> HIDE DEF n, q
<1>6. q = i + 1 \/ i + 1 < q
  BY <1>2
<1>7. CASE q = i + 1
  BY <1>1, <1>2, <1>3, <1>4, <1>5, <1>7 DEF IsLastChunk, n
<1>8. CASE i + 1 < q
  BY <1>1, <1>2, <1>3, <1>4, <1>5, <1>8 DEF IsLastChunk, n
<1> QED
  BY <1>6, <1>7, <1>8

LEMMA ChunkType ==
  ASSUME NEW r \in Request, NEW i \in Nat, i < ChunksCount(r)
  PROVE  ChunkCommand(r, i) \in Command
<1>1. Data(r) \in Seq(Byte)
  BY DataType
<1>2. /\ i * ChunkSize + 1 \in 1 .. Len(Data(r)) + 1
      /\ ChunkEnd(r, i) \in i * ChunkSize .. Len(Data(r))
  BY <1>1, ChunkBounds, LenProperties
<1>3. Chunk(r, i) \in Seq(Byte)
  BY <1>1, <1>2, SubSeqProperties, ChunkBounds DEF Chunk
<1> QED
  BY <1>3, RequestInstruction
     DEF ChunkCommand, Command, P1_SIGN_NORMAL, P1_SIGN_NORMAL_LAST_CHUNK

\* Chunks that have piled up in order are a prefix of the data.
LEMMA ChunkExtendsPrefix ==
  ASSUME NEW r \in Request, NEW i \in Nat, i < ChunksCount(r)
  PROVE  SubSeq(Data(r), 1, i * ChunkSize) \o Chunk(r, i)
           = SubSeq(Data(r), 1, ChunkEnd(r, i))
<1>1. Data(r) \in Seq(Byte)
  BY DataType
<1>2. /\ 1 \in 1 .. Len(Data(r)) + 1
      /\ i * ChunkSize \in 1 - 1 .. Len(Data(r))
      /\ ChunkEnd(r, i) \in i * ChunkSize .. Len(Data(r))
  BY <1>1, ChunkBounds, LenProperties
<1> QED
  BY <1>1, <1>2, ConcatAdjacentSubSeq DEF Chunk

LEMMA FirstChunkIsPrefix ==
  ASSUME NEW r \in Request, 0 < ChunksCount(r)
  PROVE  Chunk(r, 0) = SubSeq(Data(r), 1, ChunkEnd(r, 0))
<1>1. 0 * ChunkSize + 1 = 1
  BY ChunkSizeAssumption
<1> QED
  BY <1>1 DEF Chunk

-----------------------------------------------------------------------------
(* Type correctness.                                                       *)

LEMMA RequestType ==
  ASSUME TypeOK, NEW c \in Callers
  PROVE  request[c] \in Request
BY RequestsAssumption DEF TypeOK

LEMMA FailedType ==
  ASSUME NEW kind \in {"none", "abandoned", "status", "transport", "unable"}
  PROVE  Failed(kind) \in Outcome
<1>1. <<>> \in Seq(Signature)
  OBVIOUS
<1> QED
  BY <1>1 DEF Failed, Outcome

LEMMA ReturnType ==
  ASSUME TypeOK, NEW c \in Callers, NEW result \in Outcome,
         Return(c, result), UNCHANGED <<appVars, history>>,
         answers' \in [Callers -> Seq(Answer)]
  PROVE  TypeOK'
BY DEF TypeOK, Return, appVars, history

\* The answers on a transport are answers, as long as they are appended, taken
\* from the front, or dropped at either end.
LEMMA LeftType ==
  ASSUME TypeOK, NEW c \in Callers, NEW left \in LeftFor(c)
  PROVE  left \in Seq(Answer)
<1>1. answers[c] \in Seq(Answer) /\ Len(answers[c]) \in Nat
  BY LenProperties DEF TypeOK
<1>2. PICK m \in 1 .. Len(answers[c]) + 1, n \in 0 .. Len(answers[c]) :
        left = SubSeq(answers[c], m, n)
  BY DEF LeftFor
<1> DEFINE q == answers[c]
<1>3. ASSUME m <= n PROVE left \in Seq(Answer)
  BY <1>1, <1>2, <1>3, SubSeqProperties
<1>4. ASSUME n < m PROVE left \in Seq(Answer)
  BY <1>1, <1>2, <1>4, SubSeqEmpty
<1> QED
  BY <1>1, <1>3, <1>4

LEMMA TakesType ==
  ASSUME TypeOK, NEW c \in Callers, NEW status \in {"ok", "error"}, Takes(c, status)
  PROVE  /\ answers' \in [Callers -> Seq(Answer)]
         /\ FirstAnswer(c) \in Answer
         /\ FirstAnswer(c) = answers[c][1]
<1>1. answers[c] \in Seq(Answer) /\ answers[c] # <<>>
  BY DEF TypeOK, Takes
<1>2. /\ Tail(answers[c]) \in Seq(Answer)
      /\ Head(answers[c]) \in Answer
      /\ Head(answers[c]) = answers[c][1]
  BY <1>1, HeadTailProperties
<1> QED
  BY <1>2 DEF TypeOK, Takes, FirstAnswer

LEMMA AnswersType ==
  ASSUME TypeOK, NEW c \in Callers, NEW status, NEW data, Answers(c, status, data),
         [status |-> status, data |-> data] \in Answer
  PROVE  /\ answers' \in [Callers -> Seq(Answer)]
         /\ answers[c] = <<>> => answers'[c] = <<[status |-> status, data |-> data]>>
         /\ \A d \in Callers \ {c} : answers'[d] = answers[d]
<1> DEFINE a == [status |-> status, data |-> data]
<1>1. a \in Answer /\ answers[c] \in Seq(Answer)
      /\ answers' = [answers EXCEPT ![c] = Append(@, a)]
  BY DEF TypeOK, Answers
<1> HIDE DEF a
<1>2. Append(answers[c], a) \in Seq(Answer)
  BY <1>1
<1>3. answers[c] = <<>> => Append(answers[c], a) = <<a>>
  OBVIOUS
<1> QED
  BY <1>1, <1>2, <1>3 DEF TypeOK, a

LEMMA AnswerType ==
  /\ \A status \in {"ok", "error"} : [status |-> status, data |-> <<>>] \in Answer
  /\ \A sig \in Signature : [status |-> "ok", data |-> <<sig>>] \in Answer
BY DEF Answer

LEMMA CallType ==
  ASSUME TypeOK, NEW c \in Callers, NEW r \in Requests,
         SendPayloadApdus(c, r) \/ SendPayloadApdusBle(c, r)
  PROVE  TypeOK'
<1>1. Call(c, r)
  BY DEF SendPayloadApdus, SendPayloadApdusBle
<1>2. /\ request' \in [Callers -> Requests]
      /\ index' \in [Callers -> Nat]
      /\ torn' \in SUBSET Callers
      /\ late' \in SUBSET Callers
      /\ appIns' \in Instructions /\ appBuffer' \in Seq(Byte)
  BY <1>1 DEF Call, TypeOK, appVars
<1>3. calls' \in 0 .. MaxCalls
  BY <1>1, MaxCallsAssumption DEF Call, TypeOK
<1>4. sent' \in [Callers -> Seq(Command)] /\ signed' \in [Callers -> Seq(Signature)]
  BY <1>1 DEF Call, TypeOK
<1>5. /\ pc' \in [Callers -> {"idle", "send", "await"}]
      /\ outcome' \in [Callers -> Outcome]
  BY FailedType DEF SendPayloadApdus, SendPayloadApdusBle, EnterLoop, TypeOK
<1>6. answers' \in [Callers -> Seq(Answer)]
  BY <1>1, LeftType DEF Call, TypeOK
<1> QED
  BY <1>2, <1>3, <1>4, <1>5, <1>6 DEF TypeOK

\* What the app can have piled up, and the signature it makes over it.
LEMMA PiledUpType ==
  ASSUME TypeOK, NEW cmd \in Command
  PROVE  /\ PiledUp(cmd) \in Seq(Byte)
         /\ [ins |-> cmd.ins, data |-> PiledUp(cmd)] \in Signature
<1>1. cmd.data \in Seq(Byte) /\ appBuffer \in Seq(Byte) /\ cmd.ins \in Instructions
  BY DEF Command, TypeOK
<1>2. PiledUp(cmd) \in Seq(Byte)
  BY <1>1, ConcatProperties DEF PiledUp
<1> QED
  BY <1>1, <1>2 DEF Signature

LEMMA SendChunkType ==
  ASSUME TypeOK, NEW c \in Callers, SendChunk(c)
  PROVE  TypeOK'
<1> DEFINE cmd == ChunkCommand(request[c], index[c])
<1>1. cmd \in Command
  BY RequestType, ChunkType DEF SendChunk, MoreChunks, TypeOK
<1>2. /\ AppAccepts(c, cmd) \/ AppRefuses(c)
      /\ sent' = [sent EXCEPT ![c] = Append(@, cmd)]
  BY DEF SendChunk
<1> HIDE DEF cmd
<1>3. sent' \in [Callers -> Seq(Command)]
  BY <1>1, <1>2 DEF TypeOK
<1>4. /\ pc' \in [Callers -> {"idle", "send", "await"}]
      /\ UNCHANGED <<request, index, outcome, calls, late>>
  BY DEF SendChunk, TypeOK
<1>5. torn' \in SUBSET Callers
  BY DEF SendChunk, Tear, TypeOK
<1>6. /\ appIns' \in Instructions
      /\ appBuffer' \in Seq(Byte)
      /\ signed' \in [Callers -> Seq(Signature)]
      /\ answers' \in [Callers -> Seq(Answer)]
  <2>1. CASE AppRefuses(c)
    <3>1. answers' \in [Callers -> Seq(Answer)]
      BY <2>1, AnswerType, AnswersType DEF AppRefuses
    <3> QED
      BY <2>1, <3>1 DEF AppRefuses, TypeOK
  <2>2. CASE AppAccepts(c, cmd)
    <3> DEFINE signature == [ins |-> cmd.ins, data |-> PiledUp(cmd)]
    <3>1. signature \in Signature /\ PiledUp(cmd) \in Seq(Byte)
      BY <1>1, PiledUpType
    <3>2. cmd.ins \in Instructions
      BY <1>1 DEF Command
    <3> HIDE DEF signature
    <3>3. [status |-> "ok", data |-> <<signature>>] \in Answer
          /\ [status |-> "ok", data |-> <<>>] \in Answer
      BY <3>1, AnswerType
    <3>4. \A seq \in Seq(Signature) : Append(seq, signature) \in Seq(Signature)
      BY <3>1
    <3>5. CASE cmd.p1 = P1_SIGN_NORMAL_LAST_CHUNK
      <4>1. /\ appIns' = cmd.ins
            /\ appBuffer' = <<>>
            /\ signed' = [signed EXCEPT ![c] = Append(@, signature)]
            /\ Answers(c, "ok", <<signature>>)
        BY <2>2, <3>5 DEF AppAccepts, signature
      <4>2. answers' \in [Callers -> Seq(Answer)]
        BY <3>3, <4>1, AnswersType
      <4>3. signed' \in [Callers -> Seq(Signature)]
        BY <3>4, <4>1 DEF TypeOK
      <4>4. appBuffer' \in Seq(Byte)
        BY <4>1
      <4> QED
        BY <3>2, <4>1, <4>2, <4>3, <4>4
    <3>6. CASE cmd.p1 # P1_SIGN_NORMAL_LAST_CHUNK
      <4>1. /\ appIns' = cmd.ins /\ appBuffer' = PiledUp(cmd)
            /\ Answers(c, "ok", <<>>) /\ UNCHANGED signed
        BY <2>2, <3>6 DEF AppAccepts
      <4>2. answers' \in [Callers -> Seq(Answer)]
        BY <3>3, <4>1, AnswersType
      <4> QED
        BY <3>1, <3>2, <4>1, <4>2 DEF TypeOK
    <3> QED
      BY <3>5, <3>6
  <2> QED
    BY <1>2, <2>1, <2>2
<1> QED
  BY <1>3, <1>4, <1>5, <1>6 DEF TypeOK

LEMMA ReceiveOkType ==
  ASSUME TypeOK, NEW c \in Callers, ReceiveOk(c)
  PROVE  TypeOK'
<1>1. Takes(c, "ok")
  BY DEF ReceiveOk
<1>2. answers' \in [Callers -> Seq(Answer)] /\ FirstAnswer(c) \in Answer
  BY <1>1, TakesType
<1>3. CASE IsLastChunk(request[c], index[c])
  <2>1. [kind |-> "ok", data |-> FirstAnswer(c).data] \in Outcome
    BY <1>2 DEF Answer, Outcome
  <2> QED
    BY <1>2, <1>3, <2>1, ReturnType DEF ReceiveOk
<1>4. CASE ~IsLastChunk(request[c], index[c])
  <2>1. /\ index' = [index EXCEPT ![c] = @ + 1]
        /\ pc' = [pc EXCEPT ![c] = "send"]
        /\ UNCHANGED <<request, outcome, calls, appVars, history>>
    BY <1>4 DEF ReceiveOk, GoOn
  <2>2. /\ index' \in [Callers -> Nat]
        /\ pc' \in [Callers -> {"idle", "send", "await"}]
    BY <2>1 DEF TypeOK
  <2> QED
    BY <1>2, <2>1, <2>2 DEF TypeOK, appVars, history
<1> QED
  BY <1>3, <1>4

LEMMA TypeInit == Init => TypeOK
<1>1. <<>> \in Seq(Answer)
  OBVIOUS
<1>2. Failed("none") \in Outcome
  BY FailedType
<1>3. INS_SIGN_TRANSACTION \in Instructions
  BY DEF Instructions
<1> QED
  BY <1>1, <1>2, <1>3, MaxCallsAssumption DEF Init, TypeOK

LEMMA TypeStep == TypeOK /\ [Next]_vars => TypeOK'
<1> SUFFICES ASSUME TypeOK, [Next]_vars PROVE TypeOK'
  OBVIOUS
<1>1. ASSUME NEW c \in Callers, NEW r \in Requests,
             SendPayloadApdus(c, r) \/ SendPayloadApdusBle(c, r)
      PROVE  TypeOK'
  BY <1>1, CallType
<1>2. ASSUME NEW c \in Callers, SendChunk(c) PROVE TypeOK'
  BY <1>2, SendChunkType
<1>3. ASSUME NEW c \in Callers, SendFails(c) PROVE TypeOK'
  BY <1>3, FailedType, ReturnType DEF SendFails, TypeOK
<1>4. ASSUME NEW c \in Callers, ExchangeFails(c) PROVE TypeOK'
  BY <1>4, FailedType, ReturnType DEF ExchangeFails, TypeOK
<1>5. ASSUME NEW c \in Callers, ReceiveError(c) PROVE TypeOK'
  BY <1>5, FailedType, TakesType, ReturnType DEF ReceiveError
<1>6. ASSUME NEW c \in Callers, ReceiveOk(c) PROVE TypeOK'
  BY <1>6, ReceiveOkType
<1>7. ASSUME NEW c \in Callers, UnableToProcess(c) PROVE TypeOK'
  BY <1>7, FailedType, ReturnType DEF UnableToProcess, TypeOK
<1>8. ASSUME NEW c \in Callers, Abandon(c) PROVE TypeOK'
  BY <1>8, FailedType, ReturnType DEF Abandon, TypeOK
<1>9. CASE AppRestarts
  BY <1>9 DEF AppRestarts, TypeOK, hostVars
<1>10. CASE UNCHANGED vars
  BY <1>10 DEF vars, hostVars, appVars, history, TypeOK
<1> QED
  BY <1>1, <1>2, <1>3, <1>4, <1>5, <1>6, <1>7, <1>8, <1>9, <1>10
     DEF Next, HostStep, AllReturned

\* The variables keep their types: for one, the chunks sent are always
\* well-formed commands.
THEOREM TypeCorrect == Spec => []TypeOK
BY TypeInit, TypeStep, PTL DEF Spec

-----------------------------------------------------------------------------
(* The signature.                                                          *)

\* The properties, for one caller.
AppHoldsSentOf(c) ==
  c \notin torn \cup late =>
    (MidCall(c) /\ OnlyPiledUp(c)
       => /\ appIns = request[c].ins
          /\ appBuffer = SubSeq(Data(request[c]), 1, Len(sent[c]) * ChunkSize))

SignedAsAskedBy(c) ==
  c \notin torn \cup late =>
    \A k \in DOMAIN signed[c] : signed[c][k] = SignatureOver(request[c])

OutcomeAccountsTo(c) ==
  /\ Len(signed[c]) <= 1
  /\ outcome[c].kind = "unable" => signed[c] = <<>>
  /\ c \notin late =>
       /\ outcome[c].kind = "ok" => outcome[c].data = signed[c] /\ signed[c] # <<>>
       /\ outcome[c].kind = "status" => signed[c] = <<>>

CallerInv(c) == /\ CountKept(c)
                /\ AppHoldsSentOf(c)
                /\ SignedAsAskedBy(c)
                /\ OutcomeAccountsTo(c)

\* The inductive invariant: a signature is right because the app holds what
\* the loop has sent, and the caller is told right because the loop keeps count.
IInv == TypeOK /\ \A c \in Callers : CallerInv(c)

LEMMA InitIInv == Init => IInv
<1> SUFFICES ASSUME Init, NEW c \in Callers PROVE CallerInv(c)
  BY TypeInit DEF IInv
<1>1. CountKept(c)
  BY DEF Init, CountKept
<1>2. AppHoldsSentOf(c) /\ SignedAsAskedBy(c)
  BY DEF Init, AppHoldsSentOf, SignedAsAskedBy, MidCall
<1>3. OutcomeAccountsTo(c)
  BY DEF Init, OutcomeAccountsTo, Failed
<1> QED
  BY <1>1, <1>2, <1>3 DEF CallerInv

\* A step of others leaves a caller as it is, if it keeps off the app or tears
\* the session of the caller.
LEMMA Bystander ==
  ASSUME NEW d \in Callers, CallerInv(d),
         UNCHANGED <<pc[d], request[d], index[d], answers[d], outcome[d]>>,
         UNCHANGED <<sent[d], signed[d]>>,
         d \in torn => d \in torn',
         d \in late <=> d \in late',
         MidCall(d) /\ d \notin torn' => UNCHANGED appVars
  PROVE  CallerInv(d)'
<1>1. CountKept(d)'
  BY DEF CallerInv, CountKept, AnswerIsOwn
<1>2. AppHoldsSentOf(d)'
  BY DEF CallerInv, AppHoldsSentOf, OnlyPiledUp, MidCall, appVars
<1>3. SignedAsAskedBy(d)'
  BY DEF CallerInv, SignedAsAskedBy
<1>4. OutcomeAccountsTo(d)'
  BY DEF CallerInv, OutcomeAccountsTo
<1> QED
  BY <1>1, <1>2, <1>3, <1>4 DEF CallerInv

\* A call begins: nothing sent, nothing signed.
LEMMA CallStep ==
  ASSUME IInv, NEW c \in Callers, NEW r \in Requests,
         SendPayloadApdus(c, r) \/ SendPayloadApdusBle(c, r)
  PROVE  IInv'
<1>1. TypeOK' /\ TypeOK
  BY CallType DEF IInv
<1>2. /\ pc[c] = "idle"
      /\ request' = [request EXCEPT ![c] = r]
      /\ index' = [index EXCEPT ![c] = 0]
      /\ sent' = [sent EXCEPT ![c] = <<>>]
      /\ signed' = [signed EXCEPT ![c] = <<>>]
      /\ torn' = torn \ {c}
      /\ \E left : /\ answers' = [answers EXCEPT ![c] = left]
                   /\ late' = IF left = <<>> THEN late \ {c} ELSE late \cup {c}
      /\ UNCHANGED appVars
  BY DEF SendPayloadApdus, SendPayloadApdusBle, Call
<1>3. \/ /\ pc' = [pc EXCEPT ![c] = "send"]
         /\ outcome' = [outcome EXCEPT ![c] = Failed("none")]
      \/ /\ outcome' = [outcome EXCEPT ![c] = Failed("transport")]
         /\ UNCHANGED pc
  BY DEF SendPayloadApdus, SendPayloadApdusBle, EnterLoop
<1>4. ASSUME NEW d \in Callers \ {c}
      PROVE  CallerInv(d)'
  <2>1. /\ UNCHANGED <<pc[d], request[d], index[d], answers[d], outcome[d]>>
        /\ UNCHANGED <<sent[d], signed[d]>>
        /\ d \in torn => d \in torn'
        /\ d \in late <=> d \in late'
    BY <1>1, <1>2, <1>3 DEF TypeOK
  <2> QED
    BY <1>2, <2>1, Bystander DEF IInv
<1>5. /\ index'[c] = 0 /\ sent'[c] = <<>> /\ signed'[c] = <<>>
      /\ c \in late' \/ answers'[c] = <<>>
      /\ \/ pc'[c] = "send" /\ outcome'[c] = Failed("none")
         \/ pc'[c] = "idle" /\ outcome'[c] = Failed("transport")
  BY <1>1, <1>2, <1>3 DEF TypeOK, IInv, CallerInv, CountKept
<1>6. CallerInv(c)'
  <2>1. CountKept(c)'
    BY <1>5 DEF CountKept, Failed
  <2>2. AppHoldsSentOf(c)' /\ SignedAsAskedBy(c)'
    BY <1>5 DEF AppHoldsSentOf, SignedAsAskedBy, MidCall
  <2>3. OutcomeAccountsTo(c)'
    BY <1>5 DEF OutcomeAccountsTo, Failed
  <2> QED
    BY <2>1, <2>2, <2>3 DEF CallerInv
<1> QED
  BY <1>1, <1>4, <1>6 DEF IInv

\* A call returns: what it tells must agree with what was signed.
LEMMA ReturnStep ==
  ASSUME IInv, NEW c \in Callers, NEW result \in Outcome,
         Return(c, result), UNCHANGED <<appVars, history>>,
         OutcomeAccountsTo(c),
         answers' \in [Callers -> Seq(Answer)],
         \A d \in Callers \ {c} : answers'[d] = answers[d],
         \/ c \in late \/ answers'[c] = <<>>
         \/ result.kind \in {"transport", "abandoned"},
         result.kind = "unable" => signed[c] = <<>>,
         c \notin late /\ result.kind = "ok" => result.data = signed[c] /\ signed[c] # <<>>,
         c \notin late /\ result.kind = "status" => signed[c] = <<>>
  PROVE  IInv'
<1>1. TypeOK /\ TypeOK'
  BY ReturnType DEF IInv
<1>2. /\ pc' = [pc EXCEPT ![c] = "idle"]
      /\ outcome' = [outcome EXCEPT ![c] = result]
      /\ UNCHANGED <<request, index, appVars, sent, signed, torn, late>>
  BY DEF Return, history
<1>3. ASSUME NEW d \in Callers \ {c}
      PROVE  CallerInv(d)'
  <2>1. /\ UNCHANGED <<pc[d], request[d], index[d], answers[d], outcome[d]>>
        /\ UNCHANGED <<sent[d], signed[d]>>
        /\ d \in torn => d \in torn'
        /\ d \in late <=> d \in late'
    BY <1>1, <1>2 DEF TypeOK
  <2> QED
    BY <1>2, <2>1, Bystander DEF IInv
<1>4. /\ pc'[c] = "idle" /\ outcome'[c] = result
  BY <1>1, <1>2 DEF TypeOK
<1>5. CountKept(c)'
  BY <1>2, <1>4 DEF CountKept
<1>6. AppHoldsSentOf(c)'
  BY <1>4 DEF AppHoldsSentOf, MidCall
<1>7. SignedAsAskedBy(c)'
  BY <1>2 DEF IInv, CallerInv, SignedAsAskedBy
<1>8. OutcomeAccountsTo(c)'
  BY <1>2, <1>4 DEF OutcomeAccountsTo
<1> QED
  BY <1>1, <1>3, <1>5, <1>6, <1>7, <1>8 DEF IInv, CallerInv

\* What the app has piled up once a chunk of an untorn call arrives.
LEMMA PiledUpInOrder ==
  ASSUME IInv, NEW c \in Callers, MoreChunks(c), c \notin torn \cup late,
         sent[c] = <<>> => appBuffer = <<>>
  PROVE  PiledUp(ChunkCommand(request[c], index[c]))
           = SubSeq(Data(request[c]), 1, ChunkEnd(request[c], index[c]))
<1> DEFINE r == request[c]
           i == index[c]
           cmd == ChunkCommand(r, i)
<1>1. /\ r \in Request /\ i \in Nat /\ i < ChunksCount(r)
      /\ pc[c] = "send" /\ Len(sent[c]) = i /\ answers[c] = <<>>
      /\ sent[c] \in Seq(Command)
  BY RequestType DEF IInv, TypeOK, CallerInv, CountKept, MoreChunks
<1>2. cmd.ins = r.ins /\ cmd.data = Chunk(r, i)
  BY DEF ChunkCommand
<1>3. Chunk(r, i) \in Seq(Byte)
  BY <1>1, <1>2, ChunkType DEF Command
<1> HIDE DEF r, i, cmd
<1>4. CASE sent[c] = <<>>
  <2>1. i = 0
    BY <1>1, <1>4
  <2>2. PiledUp(cmd) = Chunk(r, i)
    BY <1>2, <1>3, <1>4, ConcatEmptySeq DEF PiledUp
  <2> QED
    BY <1>1, <2>1, <2>2, FirstChunkIsPrefix DEF r, i, cmd
<1>5. CASE sent[c] # <<>>
  <2>1. appIns = r.ins /\ appBuffer = SubSeq(Data(r), 1, i * ChunkSize)
    BY <1>1, <1>5 DEF IInv, CallerInv, AppHoldsSentOf, OnlyPiledUp, MidCall, r
  <2>2. PiledUp(cmd) = SubSeq(Data(r), 1, i * ChunkSize) \o Chunk(r, i)
    BY <1>2, <2>1 DEF PiledUp
  <2> QED
    BY <1>1, <2>2, ChunkExtendsPrefix DEF r, i, cmd
<1> QED
  BY <1>4, <1>5

\* A chunk goes out.
LEMMA SendChunkStep ==
  ASSUME IInv, NEW c \in Callers, SendChunk(c)
  PROVE  IInv'
<1> DEFINE r == request[c]
           i == index[c]
           cmd == ChunkCommand(r, i)
           signature == [ins |-> cmd.ins, data |-> PiledUp(cmd)]
<1>1. TypeOK /\ TypeOK'
  BY SendChunkType DEF IInv
<1>2. /\ pc[c] = "send" /\ Len(sent[c]) = i /\ i < ChunksCount(r)
      /\ signed[c] = <<>> /\ outcome[c].kind = "none"
      /\ c \in late \/ answers[c] = <<>>
      /\ r \in Request /\ i \in Nat /\ sent[c] \in Seq(Command)
  BY <1>1, RequestType DEF SendChunk, MoreChunks, IInv, TypeOK, CallerInv, CountKept
<1>3. /\ AppAccepts(c, cmd) \/ AppRefuses(c)
      /\ sent' = [sent EXCEPT ![c] = Append(@, cmd)]
      /\ pc' = [pc EXCEPT ![c] = "await"]
      /\ UNCHANGED <<request, index, outcome, late>>
      /\ MoreChunks(c)
  BY DEF SendChunk
<1>4. torn' = torn \cup {d \in Callers \ {c} : MidCall(d)}
                   \cup (IF sent[c] = <<>> /\ appBuffer # <<>> THEN {c} ELSE {})
  BY DEF SendChunk, Tear
<1>5. cmd \in Command
  BY <1>2, ChunkType
<1>6. /\ cmd.ins = r.ins
      /\ cmd.p1 = P1_SIGN_NORMAL_LAST_CHUNK <=> IsLastChunk(r, i)
  BY DEF ChunkCommand, P1_SIGN_NORMAL_LAST_CHUNK, P1_SIGN_NORMAL
<1>7. sent'[c] = Append(sent[c], cmd) /\ sent'[c] # <<>> /\ Len(sent'[c]) = i + 1
  <2> HIDE DEF cmd
  <2>1. sent'[c] = Append(sent[c], cmd)
    BY <1>1, <1>3 DEF TypeOK
  <2> QED
    BY <1>2, <1>5, <2>1, AppendProperties
<1>8. pc'[c] = "await" /\ request'[c] = r /\ index'[c] = i
      /\ outcome'[c] = outcome[c]
  BY <1>1, <1>3 DEF TypeOK
<1>9. c \notin torn' \cup late =>
        PiledUp(cmd) = SubSeq(Data(r), 1, ChunkEnd(r, i))
  BY <1>3, <1>4, PiledUpInOrder
<1> HIDE DEF r, i, cmd
<1>10. ASSUME NEW d \in Callers \ {c}
       PROVE  CallerInv(d)'
  <2>1. /\ UNCHANGED <<pc[d], request[d], index[d], answers[d], outcome[d]>>
        /\ UNCHANGED <<sent[d], signed[d]>>
    <3>1. answers'[d] = answers[d]
      BY <1>1, <1>3 DEF TypeOK, AppAccepts, AppRefuses, Answers
    <3> QED
      BY <1>1, <1>3, <3>1 DEF TypeOK, AppAccepts, AppRefuses
  <2>2. (d \in torn => d \in torn') /\ (d \in late <=> d \in late')
    BY <1>3, <1>4
  <2>3. ~(MidCall(d) /\ d \notin torn')
    BY <1>4
  <2> QED
    BY <2>1, <2>2, <2>3, Bystander DEF IInv
<1>11. CASE AppRefuses(c)
  <2>1. /\ c \in late' \/ answers'[c] = <<[status |-> "error", data |-> <<>>]>>
        /\ signed'[c] = <<>>
    <3>1. c \in late \/ answers'[c] = <<[status |-> "error", data |-> <<>>]>>
      BY <1>1, <1>2, <1>11, AnswerType, AnswersType DEF AppRefuses
    <3> QED
      BY <1>2, <1>3, <1>11, <3>1 DEF AppRefuses
  <2>2. CountKept(c)'
    <3>1. c \in late' \/ AnswerIsOwn(c)'
      <4> SUFFICES ASSUME c \notin late' PROVE AnswerIsOwn(c)'
        OBVIOUS
      <4> DEFINE a == [status |-> "error", data |-> <<>>]
      <4>0. a.status = "error" /\ a.data = <<>> /\ answers'[c] = <<a>>
        BY <2>1
      <4> HIDE DEF a
      <4>1. /\ Len(answers'[c]) = 1
            /\ answers'[c][1].status = "error" /\ answers'[c][1].data = <<>>
        BY <4>0
      <4> QED
        BY <2>1, <4>1, Zenon DEF AnswerIsOwn
    <3>2. Len(<<>>) <= 1
      OBVIOUS
    <3> QED
      BY <1>2, <1>7, <1>8, <2>1, <3>1, <3>2 DEF CountKept
  <2>3. AppHoldsSentOf(c)'
    BY <1>8, <2>1 DEF AppHoldsSentOf, OnlyPiledUp
  <2>4. SignedAsAskedBy(c)' /\ OutcomeAccountsTo(c)'
    BY <1>2, <1>8, <2>1 DEF SignedAsAskedBy, OutcomeAccountsTo
  <2> QED
    BY <1>1, <1>10, <2>2, <2>3, <2>4 DEF IInv, CallerInv
<1>12. CASE AppAccepts(c, cmd) /\ ~IsLastChunk(r, i)
  <2>1. /\ appIns' = r.ins /\ appBuffer' = PiledUp(cmd)
        /\ c \in late' \/ answers'[c] = <<[status |-> "ok", data |-> <<>>]>>
        /\ signed'[c] = <<>>
    <3>1. /\ appIns' = cmd.ins /\ appBuffer' = PiledUp(cmd)
          /\ Answers(c, "ok", <<>>) /\ UNCHANGED signed
      BY <1>6, <1>12 DEF AppAccepts
    <3>2. c \in late \/ answers'[c] = <<[status |-> "ok", data |-> <<>>]>>
      BY <1>1, <1>2, <3>1, AnswerType, AnswersType
    <3> QED
      BY <1>2, <1>3, <1>6, <3>1, <3>2
  <2>2. CountKept(c)'
    <3>1. c \in late' \/ AnswerIsOwn(c)'
      <4> SUFFICES ASSUME c \notin late' PROVE AnswerIsOwn(c)'
        OBVIOUS
      <4> DEFINE a == [status |-> "ok", data |-> <<>>]
      <4>0. a.status = "ok" /\ a.data = <<>> /\ answers'[c] = <<a>>
        BY <2>1
      <4> HIDE DEF a
      <4>1. /\ Len(answers'[c]) = 1
            /\ answers'[c][1].status = "ok" /\ answers'[c][1].data = <<>>
        BY <4>0
      <4>2. ~IsLastChunk(request[c], index[c])'
        BY <1>8, <1>12
      <4> QED
        BY <2>1, <4>1, <4>2, Zenon DEF AnswerIsOwn
    <3>2. Len(<<>>) <= 1
      OBVIOUS
    <3> QED
      BY <1>2, <1>7, <1>8, <2>1, <3>1, <3>2 DEF CountKept
  <2>3. AppHoldsSentOf(c)'
    <3>1. ChunkEnd(r, i) = (i + 1) * ChunkSize
      BY <1>2, <1>12, ChunkBounds
    <3> QED
      BY <1>3, <1>7, <1>8, <1>9, <2>1, <3>1 DEF AppHoldsSentOf
  <2>4. SignedAsAskedBy(c)' /\ OutcomeAccountsTo(c)'
    BY <1>2, <1>8, <2>1 DEF SignedAsAskedBy, OutcomeAccountsTo
  <2> QED
    BY <1>1, <1>10, <2>2, <2>3, <2>4 DEF IInv, CallerInv
<1>13. CASE AppAccepts(c, cmd) /\ IsLastChunk(r, i)
  <2>1. /\ signed' = [signed EXCEPT ![c] = Append(@, signature)]
        /\ Answers(c, "ok", <<signature>>)
        /\ signature \in Signature
    BY <1>1, <1>5, <1>6, <1>13, PiledUpType DEF AppAccepts
  <2> HIDE DEF signature
  <2>2. /\ signed'[c] = <<signature>>
        /\ c \in late' \/ answers'[c] = <<[status |-> "ok", data |-> <<signature>>]>>
    <3>1. signed'[c] = <<signature>>
      BY <1>1, <1>2, <2>1 DEF TypeOK
    <3>2. c \in late \/ answers'[c] = <<[status |-> "ok", data |-> <<signature>>]>>
      BY <1>1, <1>2, <2>1, AnswerType, AnswersType
    <3> QED
      BY <1>3, <3>1, <3>2
  <2>3. CountKept(c)'
    BY <1>2, <1>7, <1>8, <1>13, <2>2 DEF CountKept, AnswerIsOwn
  <2>4. AppHoldsSentOf(c)'
    BY <2>2 DEF AppHoldsSentOf, OnlyPiledUp
  <2>5. SignedAsAskedBy(c)'
    <3>1. ChunkEnd(r, i) = Len(Data(r)) /\ Data(r) \in Seq(Byte)
      BY <1>2, <1>13, ChunkBounds, DataType
    <3>2. SubSeq(Data(r), 1, ChunkEnd(r, i)) = Data(r)
      BY <3>1, SubSeqFull
    <3>3. c \notin torn' \cup late => signature = SignatureOver(r)
      BY <1>6, <1>9, <3>2 DEF SignatureOver, signature
    <3> QED
      BY <1>3, <1>8, <2>2, <3>3 DEF SignedAsAskedBy
  <2>6. OutcomeAccountsTo(c)'
    BY <1>2, <1>8, <2>2 DEF OutcomeAccountsTo
  <2> QED
    BY <1>1, <1>10, <2>3, <2>4, <2>5, <2>6 DEF IInv, CallerInv
<1> QED
  BY <1>3, <1>11, <1>12, <1>13

\* A call that is not late empties its transport with the answer it takes.
LEMMA OwnAnswerTaken ==
  ASSUME TypeOK, NEW c \in Callers, NEW status, Takes(c, status), AnswerIsOwn(c)
  PROVE  answers'[c] = <<>>
<1>1. answers[c] \in Seq(Answer) /\ Len(answers[c]) = 1 /\ answers[c] # <<>>
  BY DEF TypeOK, AnswerIsOwn, Takes
<1>2. Tail(answers[c]) \in Seq(Answer) /\ Len(Tail(answers[c])) = 0
  BY <1>1, HeadTailProperties
<1>3. Tail(answers[c]) = <<>>
  BY <1>2, EmptySeq
<1> QED
  BY <1>3 DEF Takes, TypeOK

\* The loop goes on, or returns the signature.
LEMMA ReceiveOkStep ==
  ASSUME IInv, NEW c \in Callers, ReceiveOk(c)
  PROVE  IInv'
<1>1. TypeOK /\ TypeOK'
  BY ReceiveOkType DEF IInv
<1>2. /\ pc[c] = "await" /\ Takes(c, "ok")
      /\ CallerInv(c)
      /\ UNCHANGED <<appVars, history>>
  BY DEF ReceiveOk, Takes, IInv
<1>3. /\ answers' \in [Callers -> Seq(Answer)]
      /\ \A d \in Callers \ {c} : answers'[d] = answers[d]
      /\ FirstAnswer(c) = answers[c][1]
      /\ FirstAnswer(c) \in Answer
  BY <1>1, <1>2, TakesType DEF Takes, TypeOK
<1>4. c \in late \/ (AnswerIsOwn(c) /\ answers'[c] = <<>>)
  BY <1>1, <1>2, OwnAnswerTaken DEF CallerInv, CountKept
<1>5. CASE IsLastChunk(request[c], index[c])
  <2>1. [kind |-> "ok", data |-> FirstAnswer(c).data] \in Outcome
    BY <1>3 DEF Answer, Outcome
  <2>2. Return(c, [kind |-> "ok", data |-> FirstAnswer(c).data])
    BY <1>5 DEF ReceiveOk
  <2>3. c \notin late => FirstAnswer(c).data = signed[c] /\ signed[c] # <<>>
    BY <1>2, <1>3, <1>4, <1>5 DEF AnswerIsOwn, Takes
  <2>4. OutcomeAccountsTo(c)
    BY <1>2 DEF CallerInv
  <2> QED
    BY <1>2, <1>3, <1>4, <2>1, <2>2, <2>3, <2>4, ReturnStep
<1>6. CASE ~IsLastChunk(request[c], index[c])
  <2>1. /\ index' = [index EXCEPT ![c] = @ + 1]
        /\ pc' = [pc EXCEPT ![c] = "send"]
        /\ UNCHANGED <<request, outcome, appVars, sent, signed, torn, late>>
    BY <1>6 DEF ReceiveOk, GoOn, history
  <2>2. ASSUME NEW d \in Callers \ {c}
        PROVE  CallerInv(d)'
    <3>1. /\ UNCHANGED <<pc[d], request[d], index[d], answers[d], outcome[d]>>
          /\ UNCHANGED <<sent[d], signed[d]>>
          /\ d \in torn => d \in torn'
          /\ d \in late <=> d \in late'
      BY <1>1, <1>3, <2>1 DEF TypeOK
    <3> QED
      BY <2>1, <3>1, Bystander DEF IInv
  <2>3. /\ index'[c] = index[c] + 1 /\ pc'[c] = "send"
    BY <1>1, <2>1 DEF TypeOK
  <2>4. signed[c] = <<>>
    BY <1>2, <1>6 DEF CallerInv, CountKept
  <2>5. CountKept(c)'
    <3>1. index[c] + 1 < ChunksCount(request[c])
      BY <1>1, <1>2, <1>6, RequestType, ChunkBounds DEF CallerInv, CountKept, TypeOK
    <3> QED
      BY <1>2, <1>4, <2>1, <2>3, <2>4, <3>1 DEF CallerInv, CountKept
  <2>6. AppHoldsSentOf(c)'
    <3>1. c \notin late => OnlyPiledUp(c)
      BY <1>2, <1>3, <1>4, <2>4 DEF AnswerIsOwn, OnlyPiledUp, Takes
    <3> QED
      BY <1>2, <2>1, <2>3, <3>1 DEF CallerInv, AppHoldsSentOf, MidCall, appVars
  <2>7. SignedAsAskedBy(c)' /\ OutcomeAccountsTo(c)'
    BY <1>2, <2>1 DEF CallerInv, SignedAsAskedBy, OutcomeAccountsTo
  <2> QED
    BY <1>1, <2>2, <2>5, <2>6, <2>7 DEF IInv, CallerInv
<1> QED
  BY <1>5, <1>6

\* The app is left: every session in the middle is torn.
LEMMA AppRestartsStep ==
  ASSUME IInv, AppRestarts
  PROVE  IInv'
<1>1. TypeOK'
  BY TypeStep DEF IInv, Next
<1>2. ASSUME NEW d \in Callers PROVE CallerInv(d)'
  <2>1. /\ UNCHANGED <<pc[d], request[d], index[d], answers[d], outcome[d]>>
        /\ UNCHANGED <<sent[d], signed[d]>>
    BY DEF AppRestarts, hostVars
  <2>2. (d \in torn => d \in torn') /\ (d \in late <=> d \in late')
    BY DEF AppRestarts
  <2>3. ~(MidCall(d) /\ d \notin torn')
    BY DEF AppRestarts
  <2> QED
    BY <2>1, <2>2, <2>3, Bystander DEF IInv
<1> QED
  BY <1>1, <1>2 DEF IInv

LEMMA NextStep == IInv /\ [Next]_vars => IInv'
<1> SUFFICES ASSUME IInv, [Next]_vars PROVE IInv'
  OBVIOUS
<1>1. ASSUME NEW c \in Callers, NEW r \in Requests,
             SendPayloadApdus(c, r) \/ SendPayloadApdusBle(c, r)
      PROVE  IInv'
  BY <1>1, CallStep
<1>2. ASSUME NEW c \in Callers, SendChunk(c) PROVE IInv'
  BY <1>2, SendChunkStep
<1>3. ASSUME NEW c \in Callers,
             SendFails(c) \/ ExchangeFails(c) \/ ReceiveError(c) \/ UnableToProcess(c)
               \/ Abandon(c)
      PROVE  IInv'
  <2>1. /\ OutcomeAccountsTo(c) /\ CountKept(c)
        /\ TypeOK /\ answers \in [Callers -> Seq(Answer)]
    BY DEF IInv, CallerInv, TypeOK
  <2>2. CASE SendFails(c) \/ ExchangeFails(c)
    BY <2>1, <2>2, FailedType, ReturnStep DEF SendFails, ExchangeFails, Failed
  <2>3. CASE Abandon(c)
    BY <2>1, <2>3, FailedType, ReturnStep DEF Abandon, Failed
  <2>4. CASE ReceiveError(c)
    <3>1. /\ Takes(c, "error") /\ pc[c] = "await"
          /\ Return(c, Failed("status")) /\ UNCHANGED <<appVars, history>>
      BY <2>4 DEF ReceiveError, Takes
    <3>2. /\ answers' \in [Callers -> Seq(Answer)]
          /\ \A d \in Callers \ {c} : answers'[d] = answers[d]
          /\ answers[c][1].status = "error"
      BY <2>1, <3>1, TakesType DEF Takes, TypeOK
    <3>3. c \notin late => AnswerIsOwn(c)
      BY <2>1, <3>1 DEF CountKept
    <3>4. c \notin late => answers'[c] = <<>> /\ signed[c] = <<>>
      BY <2>1, <3>1, <3>2, <3>3, OwnAnswerTaken DEF AnswerIsOwn
    <3>5. Failed("status") \in Outcome /\ Failed("status").kind = "status"
      BY FailedType DEF Failed
    <3> QED
      BY <2>1, <3>1, <3>2, <3>4, <3>5, ReturnStep
  <2>5. CASE UnableToProcess(c)
    <3>1. signed[c] = <<>> /\ (c \in late \/ answers[c] = <<>>)
      BY <2>1, <2>5 DEF UnableToProcess, CountKept
    <3> QED
      BY <2>1, <2>5, <3>1, FailedType, ReturnStep DEF UnableToProcess, Failed
  <2> QED
    BY <1>3, <2>2, <2>3, <2>4, <2>5
<1>4. ASSUME NEW c \in Callers, ReceiveOk(c) PROVE IInv'
  BY <1>4, ReceiveOkStep
<1>5. CASE AppRestarts
  BY <1>5, AppRestartsStep
<1>6. CASE UNCHANGED vars
  <2>1. TypeOK'
    BY <1>6, TypeStep DEF IInv
  <2>2. ASSUME NEW d \in Callers PROVE CallerInv(d)'
    BY <1>6, Bystander DEF IInv, vars, hostVars, history
  <2> QED
    BY <2>1, <2>2 DEF IInv
<1> QED
  BY <1>1, <1>2, <1>3, <1>4, <1>5, <1>6 DEF Next, HostStep, AllReturned

LEMMA IInvHolds == Spec => []IInv
BY InitIInv, NextStep, PTL DEF Spec

\* A device that did not hear of others in the middle of a call signs the HD
\* path and payload of that call, whatever its length and the size of a chunk.
THEOREM SignatureCorrect == Spec => []SignedIsWhatWasAsked
<1>1. IInv => SignedIsWhatWasAsked
  BY DEF IInv, CallerInv, SignedAsAskedBy, SignedIsWhatWasAsked
<1> QED
  BY <1>1, IInvHolds, PTL

\* The app holds the chunks that the loop has sent.
THEOREM AppInSyncWithLoop == Spec => []AppHoldsWhatWasSent
<1>1. IInv => AppHoldsWhatWasSent
  BY DEF IInv, CallerInv, AppHoldsSentOf, AppHoldsWhatWasSent
<1> QED
  BY <1>1, IInvHolds, PTL

\* Ok carries the one signature made, and an error that comes from a status
\* word means that none was made, whatever the other callers did.
THEOREM OutcomeCorrect == Spec => []OutcomeAccountsForSignature
<1>1. IInv => OutcomeAccountsForSignature
  BY DEF IInv, CallerInv, OutcomeAccountsTo, OutcomeAccountsForSignature
<1> QED
  BY <1>1, IInvHolds, PTL

\* The loop keeps count, of its chunks and of its one signature.
THEOREM CountCorrect == Spec => []LoopKeepsCount
<1>1. IInv => LoopKeepsCount
  BY DEF IInv, CallerInv, LoopKeepsCount
<1> QED
  BY <1>1, IInvHolds, PTL

-----------------------------------------------------------------------------
(* What is sent is what is printed; and the end of the loop.               *)

LEMMA ChunksCountType ==
  ASSUME NEW r \in Request
  PROVE  ChunksCount(r) \in Nat /\ (ChunksCount(r) = 0 <=> Data(r) = <<>>)
<1> DEFINE n == Len(Data(r))
           q == (n + ChunkSize - 1) \div ChunkSize
<1>1. n \in Nat /\ ChunkSize \in 1 .. 255 /\ (n = 0 <=> Data(r) = <<>>)
  BY DataType, LenProperties, EmptySeq, ChunkSizeAssumption
<1>2. q \in Nat /\ q * ChunkSize <= n + ChunkSize - 1
                /\ n + ChunkSize - 1 < q * ChunkSize + ChunkSize
  BY <1>1
<1>3. q = ChunksCount(r)
  BY DEF ChunksCount
<1> HIDE DEF n, q
<1>4. q = 0 => n = 0
  BY <1>1, <1>2
<1>5. n = 0 => q = 0
  <2> SUFFICES ASSUME n = 0, q # 0 PROVE FALSE
    OBVIOUS
  <2>1. ChunkSize <= q * ChunkSize
    BY <1>1, <1>2
  <2> QED
    BY <1>1, <1>2, <2>1
<1> QED
  BY <1>1, <1>2, <1>3, <1>4, <1>5

\* The copy of the loop in print_apdus cuts the data the way the loop does.
LEMMA CopiesAgree ==
  ASSUME NEW r \in Request
  PROVE  PrintPayloadApdus(r) = [k \in 1 .. ChunksCount(r) |-> ChunkCommand(r, k - 1)]
<1> DEFINE data == HdPathToBytes(r.path) \o r.payload
           chunks == (Len(data) + ChunkSize - 1) \div ChunkSize
           Logged(k) ==
             [ins  |-> r.ins,
              p1   |-> IF k = chunks THEN P1_SIGN_NORMAL_LAST_CHUNK ELSE P1_SIGN_NORMAL,
              data |-> SubSeq(data, (k - 1) * ChunkSize + 1,
                              IF k * ChunkSize < Len(data) THEN k * ChunkSize
                                                           ELSE Len(data))]
<1>1. data = Data(r) /\ chunks = ChunksCount(r) /\ chunks \in Nat
  BY ChunksCountType DEF Data, ChunksCount
<1>2. PrintPayloadApdus(r) = [k \in 1 .. chunks |-> Logged(k)]
  BY DEF PrintPayloadApdus
<1>3. ASSUME NEW k \in 1 .. chunks PROVE Logged(k) = ChunkCommand(r, k - 1)
  <2>1. (k - 1) + 1 = k /\ (k = chunks <=> IsLastChunk(r, k - 1))
    BY <1>1 DEF IsLastChunk
  <2>2. SubSeq(data, (k - 1) * ChunkSize + 1,
               IF k * ChunkSize < Len(data) THEN k * ChunkSize ELSE Len(data))
          = Chunk(r, k - 1)
    BY <1>1, <2>1 DEF Chunk, ChunkEnd
  <2> QED
    BY <2>1, <2>2 DEF ChunkCommand
<1> HIDE DEF Logged
<1>4. [k \in 1 .. chunks |-> Logged(k)] = [k \in 1 .. chunks |-> ChunkCommand(r, k - 1)]
  BY <1>3
<1> QED
  BY <1>1, <1>2, <1>4

SentAsPrinted(c) ==
  /\ Len(sent[c]) <= ChunksCount(request[c])
  /\ \A k \in 1 .. Len(sent[c]) : sent[c][k] = ChunkCommand(request[c], k - 1)
  /\ outcome[c].kind = "ok" => Len(sent[c]) = ChunksCount(request[c])

UnableOf(c) ==
  /\ outcome[c].kind = "unable" => ChunksCount(request[c]) = 0
  /\ ChunksCount(request[c]) = 0 => outcome[c].kind \notin {"ok", "status"}

\* Both follow the count of the loop, step by step.
SyncInv == \A c \in Callers : SentAsPrinted(c) /\ UnableOf(c)

LEMMA InitSync == Init => SyncInv
<1> SUFFICES ASSUME Init, NEW c \in Callers PROVE SentAsPrinted(c) /\ UnableOf(c)
  BY DEF SyncInv
<1>1. request[c] \in Request /\ ChunksCount(request[c]) \in Nat
  BY TypeInit, RequestType, ChunksCountType
<1> QED
  BY <1>1 DEF Init, SentAsPrinted, UnableOf, Failed

LEMMA NextSync == IInv /\ SyncInv /\ [Next]_vars => SyncInv'
<1> SUFFICES ASSUME IInv, SyncInv, [Next]_vars, NEW d \in Callers
             PROVE  SentAsPrinted(d)' /\ UnableOf(d)'
  BY DEF SyncInv
<1>1. /\ TypeOK /\ CountKept(d) /\ SentAsPrinted(d) /\ UnableOf(d)
      /\ request[d] \in Request /\ ChunksCount(request[d]) \in Nat
  BY RequestType, ChunksCountType DEF IInv, CallerInv, SyncInv
<1>2. ASSUME UNCHANGED <<request[d], sent[d], outcome[d]>>
      PROVE  SentAsPrinted(d)' /\ UnableOf(d)'
  BY <1>1, <1>2 DEF SentAsPrinted, UnableOf
<1>3. ASSUME NEW c \in Callers, NEW r \in Requests,
             SendPayloadApdus(c, r) \/ SendPayloadApdusBle(c, r)
      PROVE  SentAsPrinted(d)' /\ UnableOf(d)'
  <2>1. CASE c = d
    <3>1. /\ request'[d] = r /\ sent'[d] = <<>>
          /\ outcome'[d].kind \in {"none", "transport"}
      BY <1>1, <1>3, <2>1
         DEF SendPayloadApdus, SendPayloadApdusBle, Call, EnterLoop, Failed, TypeOK
    <3>2. ChunksCount(r) \in Nat
      BY RequestsAssumption, ChunksCountType
    <3> QED
      BY <3>1, <3>2 DEF SentAsPrinted, UnableOf
  <2>2. CASE c # d
    <3>1. UNCHANGED <<request[d], sent[d], outcome[d]>>
      BY <1>1, <1>3, <2>2
         DEF SendPayloadApdus, SendPayloadApdusBle, Call, EnterLoop, TypeOK
    <3> QED
      BY <1>2, <3>1
  <2> QED
    BY <2>1, <2>2
<1>4. ASSUME NEW c \in Callers, SendChunk(c)
      PROVE  SentAsPrinted(d)' /\ UnableOf(d)'
  <2> DEFINE cmd == ChunkCommand(request[c], index[c])
  <2>1. /\ UNCHANGED <<request, outcome>>
        /\ sent' = [sent EXCEPT ![c] = Append(@, cmd)]
        /\ pc[c] = "send" /\ index[c] < ChunksCount(request[c])
    BY <1>4 DEF SendChunk, MoreChunks
  <2>2. CASE c = d
    <3> HIDE DEF cmd
    <3>1. sent[d] \in Seq(Command) /\ index[d] \in Nat
      BY <1>1 DEF TypeOK
    <3>2. Len(sent[d]) = index[d] /\ outcome[d].kind = "none"
      BY <1>1, <2>1, <2>2 DEF CountKept
    <3>3. sent'[d] = Append(sent[d], cmd)
      BY <1>1, <2>1, <2>2 DEF TypeOK
    <3>4. /\ Len(sent'[d]) = index[d] + 1
          /\ sent'[d][index[d] + 1] = cmd
          /\ \A k \in 1 .. index[d] : sent'[d][k] = sent[d][k]
      BY <3>1, <3>2, <3>3
    <3>5. \A k \in 1 .. Len(sent'[d]) : sent'[d][k] = ChunkCommand(request[d], k - 1)
      <4> SUFFICES ASSUME NEW k \in 1 .. index[d] + 1
                   PROVE  sent'[d][k] = ChunkCommand(request[d], k - 1)
        BY <3>4
      <4>1. CASE k = index[d] + 1
        BY <3>1, <3>4, <2>2, <4>1 DEF cmd
      <4>2. CASE k \in 1 .. index[d]
        BY <1>1, <3>1, <3>2, <3>4, <4>2 DEF SentAsPrinted
      <4> QED
        BY <3>1, <4>1, <4>2
    <3>6. index[d] + 1 <= ChunksCount(request[d])
      BY <1>1, <2>1, <2>2, <3>1
    <3>7. SentAsPrinted(d)'
      BY <2>1, <3>2, <3>4, <3>5, <3>6 DEF SentAsPrinted
    <3> QED
      BY <1>1, <2>1, <3>7 DEF UnableOf
  <2>3. CASE c # d
    <3>1. UNCHANGED <<request[d], sent[d], outcome[d]>>
      BY <1>1, <2>1, <2>3 DEF TypeOK
    <3> QED
      BY <1>2, <3>1
  <2> QED
    BY <2>2, <2>3
<1>5. ASSUME NEW c \in Callers,
             \/ SendFails(c) \/ ExchangeFails(c) \/ ReceiveError(c) \/ UnableToProcess(c)
             \/ ReceiveOk(c) \/ Abandon(c)
      PROVE  SentAsPrinted(d)' /\ UnableOf(d)'
  <2>1. UNCHANGED <<request, sent>>
    BY <1>5 DEF SendFails, ExchangeFails, ReceiveError, UnableToProcess, ReceiveOk, GoOn, Abandon,
                Return, history
  <2>2. CASE c = d
    <3>1. index[d] \in Nat
      BY <1>1 DEF TypeOK
    <3>2. \/ outcome'[d] = outcome[d]
          \/ outcome'[d].kind \in {"transport", "abandoned"}
          \/ outcome'[d].kind = "status" /\ index[d] < ChunksCount(request[d])
          \/ outcome'[d].kind = "unable" /\ ChunksCount(request[d]) = 0
          \/ /\ outcome'[d].kind = "ok" /\ Len(sent[d]) = ChunksCount(request[d])
             /\ ChunksCount(request[d]) # 0
      <4>1. ASSUME SendFails(c) \/ ExchangeFails(c) \/ Abandon(c)
            PROVE  outcome'[d].kind \in {"transport", "abandoned"}
        BY <1>1, <2>2, <4>1 DEF SendFails, ExchangeFails, Abandon, Return, Failed, TypeOK
      <4>2. ASSUME ReceiveError(c)
            PROVE  outcome'[d].kind = "status" /\ index[d] < ChunksCount(request[d])
        BY <1>1, <2>2, <4>2 DEF ReceiveError, Takes, Return, Failed, TypeOK, CountKept
      <4>3. ASSUME UnableToProcess(c)
            PROVE  outcome'[d].kind = "unable" /\ ChunksCount(request[d]) = 0
        BY <1>1, <2>2, <3>1, <4>3 DEF UnableToProcess, Return, Failed, TypeOK, CountKept
      <4>4. ASSUME ReceiveOk(c), IsLastChunk(request[c], index[c])
            PROVE  /\ outcome'[d].kind = "ok" /\ Len(sent[d]) = ChunksCount(request[d])
                   /\ ChunksCount(request[d]) # 0
        BY <1>1, <2>2, <3>1, <4>4 DEF ReceiveOk, Takes, Return, TypeOK, CountKept, IsLastChunk
      <4>5. ASSUME ReceiveOk(c), ~IsLastChunk(request[c], index[c])
            PROVE  outcome'[d] = outcome[d]
        BY <4>5 DEF ReceiveOk, GoOn
      <4> QED
        BY <1>5, <4>1, <4>2, <4>3, <4>4, <4>5
    <3> QED
      BY <1>1, <2>1, <3>1, <3>2 DEF SentAsPrinted, UnableOf
  <2>3. CASE c # d
    <3>1. outcome'[d] = outcome[d]
      BY <1>1, <1>5, <2>3 DEF SendFails, ExchangeFails, ReceiveError, UnableToProcess,
                              ReceiveOk, GoOn, Abandon, Return, TypeOK
    <3> QED
      BY <1>2, <2>1, <3>1
  <2> QED
    BY <2>2, <2>3
<1>6. CASE AppRestarts
  BY <1>2, <1>6 DEF AppRestarts, hostVars
<1>7. CASE UNCHANGED vars
  BY <1>2, <1>7 DEF vars, hostVars, history
<1> QED
  BY <1>3, <1>4, <1>5, <1>6, <1>7 DEF Next, HostStep, AllReturned

LEMMA SyncHolds == Spec => [](IInv /\ SyncInv)
  BY InitIInv, InitSync, NextStep, NextSync, PTL DEF Spec

\* The device gets what print_apdus would log: a prefix, and all of it before Ok.
THEOREM PrintedCorrect == Spec => []SentInSyncWithPrinted
<1>1. IInv /\ SyncInv => SentInSyncWithPrinted
  <2> SUFFICES ASSUME IInv, SyncInv, NEW c \in Callers
               PROVE  LET printed == PrintPayloadApdus(request[c])
                      IN  /\ Len(sent[c]) <= Len(printed)
                          /\ sent[c] = SubSeq(printed, 1, Len(sent[c]))
                          /\ outcome[c].kind = "ok" => sent[c] = printed
    BY DEF SentInSyncWithPrinted
  <2> DEFINE printed == PrintPayloadApdus(request[c])
             n == ChunksCount(request[c])
             m == Len(sent[c])
  <2>1. /\ request[c] \in Request /\ n \in Nat
        /\ sent[c] \in Seq(Command) /\ m \in Nat
        /\ SentAsPrinted(c)
    BY RequestType, ChunksCountType DEF IInv, TypeOK, SyncInv
  <2>2. \A k \in 1 .. n : printed[k] = ChunkCommand(request[c], k - 1)
                        /\ printed[k] \in Command
    BY <2>1, ChunkType, CopiesAgree
  <2>3. printed \in Seq(Command) /\ Len(printed) = n
    <3>1. printed \in [1 .. n -> Command]
      BY <2>1, <2>2, CopiesAgree
    <3> QED
      BY <2>1, <3>1, IsASeq, LenProperties
  <2>4. m <= n /\ (outcome[c].kind = "ok" => m = n)
        /\ \A k \in 1 .. m : sent[c][k] = printed[k]
    BY <2>1, <2>2 DEF SentAsPrinted
  <2> HIDE DEF printed, n, m
  <2>5. /\ SubSeq(printed, 1, m) \in Seq(Command) /\ Len(SubSeq(printed, 1, m)) = m
        /\ \A k \in 1 .. m : SubSeq(printed, 1, m)[k] = printed[k]
    BY <2>1, <2>3, <2>4, SubSeqProperties
  <2>6. sent[c] = SubSeq(printed, 1, m)
    BY <2>1, <2>4, <2>5, SeqEqual DEF m
  <2>7. m = n => sent[c] = printed
    BY <2>1, <2>3, <2>4, SeqEqual DEF m
  <2> QED
    BY <2>3, <2>4, <2>6, <2>7 DEF printed, m
<1> QED
  BY <1>1, SyncHolds, PTL

\* "Unable to process request" is for a request without bytes, and only for that.
THEOREM UnableCorrect == Spec => []UnableMeansEmpty
<1>1. IInv /\ SyncInv => UnableMeansEmpty
  BY RequestType, ChunksCountType DEF IInv, TypeOK, SyncInv, UnableOf, UnableMeansEmpty
<1> QED
  BY <1>1, SyncHolds, PTL

-----------------------------------------------------------------------------
(* The chunk loop implements SigningService.                               *)

LEMMA ServiceInit == Init => Service!Init
  BY DEF Init, Service!Init, Failed

\* Nothing is left of no answers.
LEMMA NothingLeft ==
  ASSUME NEW c \in Callers, answers[c] = <<>>, NEW left \in LeftFor(c)
  PROVE  left = <<>>
<1>1. PICK m \in 1 .. 1, n \in 0 .. 0 : left = SubSeq(<<>>, m, n)
  BY DEF LeftFor
<1>2. SubSeq(<<>>, 1, 0) = <<>>
  BY SubSeqEmpty
<1> QED
  BY <1>1, <1>2

\* Each step is one of the service: a call begins, the device signs, a call
\* returns; and a chunk that is not the last one, or an app that is left, does
\* no more than disturb others.
LEMMA ServiceStep == IInv /\ IInv' /\ [Next]_vars => [Service!Next]_Service!vars
<1> SUFFICES ASSUME IInv, IInv', [Next]_vars
             PROVE  Service!Next \/ UNCHANGED Service!vars
  OBVIOUS
<1> DEFINE active == [c \in Callers |-> pc[c] # "idle"]
<1>1. TypeOK /\ TypeOK'
  BY DEF IInv
<1>2. ASSUME NEW c \in Callers, NEW r \in Requests,
             SendPayloadApdus(c, r) \/ SendPayloadApdusBle(c, r)
      PROVE  Service!Ask(c, r)
  <2>1. /\ pc[c] = "idle" /\ CountKept(c)
        /\ request' = [request EXCEPT ![c] = r]
        /\ signed' = [signed EXCEPT ![c] = <<>>]
        /\ torn' = torn \ {c}
    BY <1>2 DEF SendPayloadApdus, SendPayloadApdusBle, Call, IInv, CallerInv
  <2>2. PICK left \in LeftFor(c) :
          late' = IF left = <<>> THEN late \ {c} ELSE late \cup {c}
    BY <1>2 DEF SendPayloadApdus, SendPayloadApdusBle, Call
  <2>3. late' \in {late \ {c}, late \cup {c}}
    BY <2>2
  <2>4. answers[c] = <<>> => left = <<>>
    BY <2>2, NothingLeft
  <2>5. c \in late' => c \in late \/ outcome[c].kind \in {"transport", "abandoned"}
    BY <2>1, <2>2, <2>4 DEF CountKept
  <2>6. \/ /\ active' = [active EXCEPT ![c] = TRUE]
           /\ outcome' = [outcome EXCEPT ![c] = Failed("none")]
        \/ /\ outcome' = [outcome EXCEPT ![c] = Failed("transport")]
           /\ active' = active
    BY <1>1, <1>2 DEF SendPayloadApdus, SendPayloadApdusBle, EnterLoop, TypeOK
  <2> QED
    BY <2>1, <2>3, <2>5, <2>6 DEF Service!Ask, Failed
<1>3. ASSUME NEW c \in Callers, SendChunk(c)
      PROVE  Service!Sign(c) \/ Service!Disturb
  <2> DEFINE cmd == ChunkCommand(request[c], index[c])
             sig == [ins |-> cmd.ins, data |-> PiledUp(cmd)]
  <2>1. /\ pc[c] = "send" /\ pc' = [pc EXCEPT ![c] = "await"]
        /\ UNCHANGED <<request, outcome, late>>
        /\ torn \subseteq torn' /\ torn' \subseteq Callers
    BY <1>1, <1>3 DEF SendChunk, MoreChunks, Tear, TypeOK
  <2>2. active' = active
    BY <1>1, <2>1 DEF TypeOK
  <2>3. signed[c] = <<>>
    BY <2>1 DEF IInv, CallerInv, CountKept
  <2>4. \/ UNCHANGED signed
        \/ \E x : signed' = [signed EXCEPT ![c] = Append(@, x)]
    BY <1>3 DEF SendChunk, AppAccepts, AppRefuses
  <2>5. CASE UNCHANGED signed
    BY <2>1, <2>2, <2>5 DEF Service!Disturb
  <2>6. CASE \E x : signed' = [signed EXCEPT ![c] = Append(@, x)]
    <3>1. PICK x : signed' = [signed EXCEPT ![c] = Append(@, x)]
      BY <2>6
    <3>2. signed'[c] = <<x>> /\ signed' = [signed EXCEPT ![c] = signed'[c]]
      BY <1>1, <2>3, <3>1 DEF TypeOK
    <3>3. c \notin torn' \cup late => signed'[c] = <<SignatureOver(request[c])>>
      <4>1. c \notin torn' \cup late' => \A k \in DOMAIN signed'[c] : signed'[c][k] = SignatureOver(request'[c])
        BY DEF IInv, CallerInv, SignedAsAskedBy
      <4>2. 1 \in DOMAIN signed'[c] /\ signed'[c][1] = x
        BY <3>2
      <4> QED
        BY <2>1, <3>2, <4>1, <4>2
    <3> QED
      BY <2>1, <2>2, <2>3, <3>2, <3>3 DEF Service!Sign
  <2> QED
    BY <2>4, <2>5, <2>6
<1>4. ASSUME NEW c \in Callers,
             \/ SendFails(c) \/ ExchangeFails(c) \/ ReceiveError(c) \/ UnableToProcess(c)
             \/ Abandon(c)
             \/ ReceiveOk(c) /\ IsLastChunk(request[c], index[c])
      PROVE  Service!Return(c)
  <2>1. PICK o \in Outcome :
          /\ pc[c] # "idle" /\ Return(c, o)
          /\ o.kind # "none"
          /\ o.kind = "ok" \/ o.data = <<>>
          /\ o.kind = "unable" => signed[c] = <<>>
          /\ c \notin late =>
               /\ o.kind = "ok" => o.data = signed[c] /\ signed[c] # <<>>
               /\ o.kind = "status" => signed[c] = <<>>
    <3>1. CountKept(c) /\ signed[c] \in Seq(Signature)
      BY <1>1 DEF IInv, CallerInv, TypeOK
    <3>2. ASSUME SendFails(c) \/ ExchangeFails(c)
          PROVE  pc[c] # "idle" /\ Return(c, Failed("transport"))
      BY <3>2 DEF SendFails, ExchangeFails, MoreChunks
    <3>3. ASSUME Abandon(c) PROVE pc[c] # "idle" /\ Return(c, Failed("abandoned"))
      BY <3>3 DEF Abandon
    <3>4. ASSUME ReceiveError(c)
          PROVE  /\ pc[c] # "idle" /\ Return(c, Failed("status"))
                 /\ c \notin late => signed[c] = <<>>
      <4>1. /\ pc[c] = "await" /\ Takes(c, "error") /\ Return(c, Failed("status"))
        BY <3>4 DEF ReceiveError, Takes
      <4>2. answers[c][1].status = "error"
        BY <1>1, <4>1, TakesType DEF Takes
      <4> QED
        BY <3>1, <4>1, <4>2 DEF CountKept, AnswerIsOwn
    <3>5. ASSUME UnableToProcess(c)
          PROVE  pc[c] # "idle" /\ Return(c, Failed("unable")) /\ signed[c] = <<>>
      BY <3>1, <3>5 DEF UnableToProcess, CountKept
    <3>6. ASSUME ReceiveOk(c), IsLastChunk(request[c], index[c])
          PROVE  \E o \in Outcome :
                   /\ pc[c] # "idle" /\ Return(c, o) /\ o.kind = "ok"
                   /\ c \notin late => o.data = signed[c] /\ signed[c] # <<>>
      <4>1. /\ pc[c] = "await" /\ Takes(c, "ok")
            /\ Return(c, [kind |-> "ok", data |-> FirstAnswer(c).data])
        BY <3>6 DEF ReceiveOk, Takes
      <4>2. /\ FirstAnswer(c) \in Answer /\ FirstAnswer(c) = answers[c][1]
            /\ answers[c][1].status = "ok"
        BY <1>1, <4>1, TakesType DEF Takes
      <4>3. c \notin late => FirstAnswer(c).data = signed[c] /\ signed[c] # <<>>
        BY <3>1, <3>6, <4>1, <4>2 DEF CountKept, AnswerIsOwn
      <4>4. [kind |-> "ok", data |-> FirstAnswer(c).data] \in Outcome
        BY <4>2 DEF Answer, Outcome
      <4> QED
        BY <4>1, <4>3, <4>4
    <3>7. \A kind \in {"transport", "abandoned", "status", "unable"} :
            Failed(kind) \in Outcome /\ Failed(kind).kind = kind /\ Failed(kind).data = <<>>
      BY <3>1 DEF Failed, Outcome
    <3> QED
      BY <1>4, <3>2, <3>3, <3>4, <3>5, <3>6, <3>7
  <2>2. UNCHANGED <<request, signed, torn, late>>
    BY <1>4, <2>1 DEF SendFails, ExchangeFails, ReceiveError, UnableToProcess, ReceiveOk,
                      Abandon, Return, history
  <2>3. active' = [active EXCEPT ![c] = FALSE]
    BY <1>1, <2>1 DEF Return, TypeOK
  <2>4. o.kind \in Service!Outcomes
    BY <2>1 DEF Outcome, Service!Outcomes
  <2>5. outcome' = [outcome EXCEPT ![c] = o] /\ outcome'[c] = o
    BY <1>1, <2>1 DEF Return, TypeOK
  <2> QED
    BY <2>1, <2>2, <2>3, <2>4, <2>5 DEF Service!Return
<1>5. ASSUME NEW c \in Callers, ReceiveOk(c), ~IsLastChunk(request[c], index[c])
      PROVE  UNCHANGED Service!vars
  <2>1. active' = active
    BY <1>1, <1>5 DEF ReceiveOk, Takes, GoOn, TypeOK
  <2> QED
    BY <1>5, <2>1 DEF ReceiveOk, GoOn, history, Service!vars
<1>6. ASSUME AppRestarts PROVE Service!Disturb
  BY <1>1, <1>6 DEF AppRestarts, Service!Disturb, hostVars, TypeOK
<1>7. ASSUME UNCHANGED vars PROVE UNCHANGED Service!vars
  BY <1>7 DEF vars, hostVars, history, Service!vars
<1> QED
  BY <1>2, <1>3, <1>4, <1>5, <1>6, <1>7 DEF Next, HostStep, AllReturned, Service!Next

\* For every set of callers and requests, the signing calls keep the promise of
\* SigningService.
THEOREM ServiceCorrect == Spec => ImplementsService
  BY InitIInv, NextStep, ServiceInit, ServiceStep, PTL
     DEF Spec, ImplementsService, Service!Spec

-----------------------------------------------------------------------------
(* What the promise is worth: whoever keeps it signs what was asked, and   *)
(* accounts for it.                                                        *)

\* A call that is on has no outcome yet, and what was signed and returned is in
\* order for each caller.
PromiseFor(c) ==
  /\ pc[c] # "idle" => outcome[c].kind = "none"
  /\ OutcomeAccountsTo(c)
  /\ c \notin torn \cup late => signed[c] \in {<<>>, <<SignatureOver(request[c])>>}

Promise ==
  /\ signed = [c \in Callers |-> signed[c]]
  /\ outcome = [c \in Callers |-> outcome[c]]
  /\ request = [c \in Callers |-> request[c]]
  /\ \A c \in Callers : PromiseFor(c)

\* What one call does, is no matter for the others.
LEMMA PromiseOfOthers ==
  ASSUME Promise, NEW c \in Callers,
         \A d \in Callers \ {c} : (pc'[d] # "idle") <=> (pc[d] # "idle"),
         \/ UNCHANGED outcome
         \/ \E x : outcome' = [outcome EXCEPT ![c] = x],
         \/ UNCHANGED signed
         \/ \E x : signed' = [signed EXCEPT ![c] = x],
         \/ UNCHANGED request
         \/ \E x : request' = [request EXCEPT ![c] = x],
         torn \ {c} \subseteq torn',
         \A d \in Callers \ {c} : d \in late <=> d \in late',
         PromiseFor(c)'
  PROVE  Promise'
<1>1. /\ outcome' = [d \in Callers |-> outcome'[d]]
      /\ \A d \in Callers \ {c} : outcome'[d] = outcome[d]
  BY DEF Promise
<1>2. /\ signed' = [d \in Callers |-> signed'[d]]
      /\ \A d \in Callers \ {c} : signed'[d] = signed[d]
  BY DEF Promise
<1>3. /\ request' = [d \in Callers |-> request'[d]]
      /\ \A d \in Callers \ {c} : request'[d] = request[d]
  BY DEF Promise
<1>4. ASSUME NEW d \in Callers \ {c} PROVE PromiseFor(d)'
  BY <1>1, <1>2, <1>3 DEF Promise, PromiseFor, OutcomeAccountsTo
<1> QED
  BY <1>1, <1>2, <1>3, <1>4 DEF Promise

LEMMA PromiseStep == Promise /\ [Service!Next]_Service!vars => Promise'
<1> DEFINE active == [c \in Callers |-> pc[c] # "idle"]
<1> SUFFICES ASSUME Promise, [Service!Next]_Service!vars PROVE Promise'
  OBVIOUS
<1>1. \A c \in Callers :
        /\ active[c] <=> pc[c] # "idle"
        /\ active'[c] <=> pc'[c] # "idle"
  OBVIOUS
<1>2. DOMAIN active = Callers
  OBVIOUS
<1> HIDE DEF active
<1>3. ASSUME active' = active
      PROVE  \A c \in Callers : (pc'[c] # "idle") <=> (pc[c] # "idle")
  BY <1>1, <1>3
<1>4. ASSUME NEW c \in Callers, NEW r \in Requests, Service!Ask(c, r)
      PROVE  Promise'
  <2>1. /\ ~active[c]
        /\ request' = [request EXCEPT ![c] = r]
        /\ signed' = [signed EXCEPT ![c] = <<>>]
        /\ torn' = torn \ {c}
        /\ late' \in {late \ {c}, late \cup {c}}
        /\ \/ /\ active' = [active EXCEPT ![c] = TRUE]
              /\ outcome' = [outcome EXCEPT ![c] = [kind |-> "none", data |-> <<>>]]
           \/ /\ outcome' = [outcome EXCEPT ![c] = [kind |-> "transport", data |-> <<>>]]
              /\ active' = active
    BY <1>4 DEF Service!Ask, active
  <2>2. \A d \in Callers \ {c} : (pc'[d] # "idle") <=> (pc[d] # "idle")
    BY <1>1, <1>2, <2>1
  <2>3. /\ signed'[c] = <<>>
        /\ \/ outcome'[c].kind = "none"
           \/ outcome'[c].kind = "transport" /\ pc'[c] = "idle"
    BY <1>1, <2>1 DEF Promise
  <2>4. PromiseFor(c)'
    BY <2>3 DEF PromiseFor, OutcomeAccountsTo
  <2> QED
    BY <2>1, <2>2, <2>4, PromiseOfOthers
<1>5. ASSUME NEW c \in Callers, Service!Sign(c) PROVE Promise'
  <2>1. /\ active[c] /\ torn \subseteq torn'
        /\ Len(signed'[c]) = 1
        /\ c \notin torn' \cup late => signed'[c] = <<SignatureOver(request[c])>>
        /\ signed' = [signed EXCEPT ![c] = signed'[c]]
        /\ active' = active /\ UNCHANGED <<request, outcome, late>>
    BY <1>5 DEF Service!Sign, active
  <2>2. outcome[c].kind = "none"
    BY <1>1, <2>1 DEF Promise, PromiseFor
  <2>3. PromiseFor(c)'
    BY <2>1, <2>2 DEF PromiseFor, OutcomeAccountsTo
  <2> QED
    BY <1>3, <2>1, <2>3, PromiseOfOthers
<1>6. ASSUME NEW c \in Callers, Service!Return(c) PROVE Promise'
  <2>1. /\ outcome' = [outcome EXCEPT ![c] = outcome'[c]]
        /\ outcome'[c].kind = "unable" => signed[c] = <<>>
        /\ c \notin late =>
             /\ outcome'[c].kind = "ok" => outcome'[c].data = signed[c] /\ signed[c] # <<>>
             /\ outcome'[c].kind = "status" => signed[c] = <<>>
    BY <1>6 DEF Service!Return
  <2>2. active' = [active EXCEPT ![c] = FALSE] /\ UNCHANGED <<request, signed, torn, late>>
    BY <1>6 DEF Service!Return, active
  <2>3. /\ pc'[c] = "idle"
        /\ \A d \in Callers \ {c} : (pc'[d] # "idle") <=> (pc[d] # "idle")
    BY <1>1, <1>2, <2>2
  <2>4. PromiseFor(c)'
    BY <2>1, <2>2, <2>3 DEF Promise, PromiseFor, OutcomeAccountsTo
  <2> QED
    BY <2>1, <2>2, <2>3, <2>4, PromiseOfOthers
<1>7. CASE Service!Disturb \/ UNCHANGED Service!vars
  <2>1. /\ torn \subseteq torn' /\ UNCHANGED <<request, outcome, signed, late>>
        /\ active' = active
    BY <1>7 DEF Service!Disturb, Service!vars, active
  <2> QED
    BY <1>3, <2>1 DEF Promise, PromiseFor, OutcomeAccountsTo
<1> QED
  BY <1>4, <1>5, <1>6, <1>7 DEF Service!Next

\* SigningService says enough: in every behaviour that it allows, whatever its
\* steps are made of, a signature is over what was asked, and the outcome of a
\* call accounts for it.
THEOREM ServiceIsEnough ==
  Service!Spec => [](SignedIsWhatWasAsked /\ OutcomeAccountsForSignature)
<1>1. Service!Init => Promise
  <2> SUFFICES ASSUME Service!Init PROVE Promise
    OBVIOUS
  <2>1. /\ signed = [c \in Callers |-> <<>>]
        /\ outcome \in [Callers -> {[kind |-> "none", data |-> <<>>]}]
        /\ request \in [Callers -> Requests]
    BY DEF Service!Init
  <2> QED
    BY <2>1 DEF Promise, PromiseFor, OutcomeAccountsTo
<1>2. Promise => SignedIsWhatWasAsked /\ OutcomeAccountsForSignature
  <2>1. ASSUME Promise, NEW c \in Callers
        PROVE  OutcomeAccountsTo(c) /\ SignedAsAskedBy(c)
    BY <2>1 DEF Promise, PromiseFor, SignedAsAskedBy
  <2> QED
    BY <2>1 DEF SignedIsWhatWasAsked, OutcomeAccountsForSignature, OutcomeAccountsTo,
                SignedAsAskedBy
<1> QED
  BY <1>1, <1>2, PromiseStep, PTL DEF Service!Spec
============================================================================
