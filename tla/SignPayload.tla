---------------------------- MODULE SignPayload ----------------------------
(***************************************************************************)
(* Signing on the Ledger: send_payload_apdus (src/lib.rs) and its BLE twin *)
(* send_payload_apdus_ble (src/ble_api.rs), the function behind            *)
(* sign_transaction, sign_message_nep413 and                               *)
(* sign_message_nep366_delegate_action.  The bytes of the HD path and the  *)
(* payload are cut into chunks, each chunk is one APDU exchange, and the   *)
(* answer to the last one is the signature.                                *)
(*                                                                         *)
(* An APDU exchange is two steps here, SendChunk and the Receive actions,  *)
(* with room between them for a transport error, for a call that is        *)
(* dropped and for the other callers.  The exchange takes the first answer *)
(* on the transport: one that an earlier call has left there, if any.      *)
(* What happens inside an exchange over BLE is the subject of module       *)
(* BleTransport.                                                           *)
(*                                                                         *)
(* The NEAR app on the device is external.  It is modelled from what the   *)
(* host relies on: chunks of one instruction pile up until one carries the *)
(* last-chunk flag, which is signed.  No chunk is marked as the first one. *)
(***************************************************************************)
EXTENDS Integers, Sequences

CONSTANTS
  HidCallers,  \* threads calling the blocking USB HID functions
  BleCallers,  \* tasks calling the async BLE functions
  Requests,    \* what they may ask to have signed
  ChunkSize,   \* CHUNK_SIZE, 250 in the code
  MaxCalls     \* bound: calls made in one behaviour

Callers == HidCallers \cup BleCallers

Byte  == 0 .. 255
HighByte(n) == ((n \div 256) \div 256) \div 256
\* One level of a BIP32 path: a 31-bit index and the hardened bit above it.
Level == [hardened : BOOLEAN, index : {n \in Nat : HighByte(n) < 128}]

INS_SIGN_TRANSACTION            == 2
INS_SIGN_NEP413_MESSAGE         == 7
INS_SIGN_NEP366_DELEGATE_ACTION == 8
Instructions == {INS_SIGN_TRANSACTION, INS_SIGN_NEP413_MESSAGE,
                 INS_SIGN_NEP366_DELEGATE_ACTION}

P1_SIGN_NORMAL            == 0
P1_SIGN_NORMAL_LAST_CHUNK == 128

Request == [ins : Instructions, path : Seq(Level), payload : Seq(Byte)]

\* The three entry points differ in the instruction only; the payload is the
\* Borsh encoding the caller passes (or, for NEP-413, that borsh::to_vec makes).
SignTransaction(unsigned_tx, path) ==
  [ins |-> INS_SIGN_TRANSACTION, path |-> path, payload |-> unsigned_tx]
SignMessageNep413(payload, path) ==
  [ins |-> INS_SIGN_NEP413_MESSAGE, path |-> path, payload |-> payload]
SignMessageNep366DelegateAction(payload, path) ==
  [ins |-> INS_SIGN_NEP366_DELEGATE_ACTION, path |-> path, payload |-> payload]

ASSUME RequestsAssumption  == Requests \subseteq Request
ASSUME ChunkSizeAssumption == ChunkSize \in 1 .. 255
ASSUME MaxCallsAssumption  == MaxCalls \in Nat

-----------------------------------------------------------------------------
(* The bytes of a request and the commands that carry them.                *)

\* A bug (for the mutation runs): the last byte is not cut down to 8 bits.
LevelBytesUncut(level) ==
  << HighByte(level.index) + (IF level.hardened THEN 128 ELSE 0),
     ((level.index \div 256) \div 256) % 256,
     (level.index \div 256) % 256,
     level.index >>

\* u32::to_be_bytes of one path level.
LevelBytes(level) ==
  << HighByte(level.index) + (IF level.hardened THEN 128 ELSE 0),
     ((level.index \div 256) \div 256) % 256,
     (level.index \div 256) % 256,
     level.index % 256 >>

HdPathToBytes(path) ==
  [k \in 1 .. 4 * Len(path) |->
     LevelBytes(path[((k - 1) \div 4) + 1])[((k - 1) % 4) + 1]]

Data(r) == HdPathToBytes(r.path) \o r.payload

\* data.chunks(CHUNK_SIZE).len()
ChunksCount(r) == (Len(Data(r)) + ChunkSize - 1) \div ChunkSize

\* A bug: a chunk in the middle ends one byte early.
ChunkEndEarly(r, i) ==
  IF (i + 1) * ChunkSize < Len(Data(r)) THEN (i + 1) * ChunkSize - 1
                                        ELSE Len(Data(r))

\* The i-th chunk, counted from 0 as enumerate() does.
ChunkEnd(r, i) ==
  IF (i + 1) * ChunkSize < Len(Data(r)) THEN (i + 1) * ChunkSize
                                        ELSE Len(Data(r))
Chunk(r, i) == SubSeq(Data(r), i * ChunkSize + 1, ChunkEnd(r, i))

\* Bugs: the last-chunk flag one chunk early as well; or one too late.
IsLastChunkEarly(r, i) == ChunksCount(r) \in {i + 1, i + 2}
IsLastChunkLate(r, i) == ChunksCount(r) = i

IsLastChunk(r, i) == ChunksCount(r) = i + 1

\* cla and p2 are the same in every command and are left out.
ChunkCommand(r, i) ==
  [ins  |-> r.ins,
   p1   |-> IF IsLastChunk(r, i) THEN P1_SIGN_NORMAL_LAST_CHUNK
                                 ELSE P1_SIGN_NORMAL,
   data |-> Chunk(r, i)]

Command == [ins : Instructions, p1 : {P1_SIGN_NORMAL, P1_SIGN_NORMAL_LAST_CHUNK},
            data : Seq(Byte)]

\* print_apdus, a copy of the loop without a device: the commands it logs.  Its
\* k-th chunk, counted from 1, is the last one if k is the count.
PrintPayloadApdus(r) ==
  LET data   == HdPathToBytes(r.path) \o r.payload
      chunks == (Len(data) + ChunkSize - 1) \div ChunkSize
  IN  [k \in 1 .. chunks |->
         [ins  |-> r.ins,
          p1   |-> IF k = chunks THEN P1_SIGN_NORMAL_LAST_CHUNK ELSE P1_SIGN_NORMAL,
          data |-> SubSeq(data, (k - 1) * ChunkSize + 1,
                          IF k * ChunkSize < Len(data) THEN k * ChunkSize
                                                       ELSE Len(data))]]

-----------------------------------------------------------------------------
(* A signature is known by what it was made over.                          *)

Signature == [ins : Instructions, data : Seq(Byte)]
SignatureOver(r) == [ins |-> r.ins, data |-> Data(r)]

\* The data of an answer is empty, or a signature.
Answer == [status : {"ok", "error"}, data : Seq(Signature)]

\* What a call hands back: Ok(data of the last reply), APDUExchangeError of a
\* status word, an error of the transport, "Unable to process request", or
\* nothing at all (no call yet; or the thread or the future is gone).
Outcome == [kind : {"none", "abandoned", "status", "transport", "unable", "ok"},
            data : Seq(Signature)]
Failed(kind) == [kind |-> kind, data |-> <<>>]

VARIABLES
  pc,         \* where each caller is: "idle", "send" or "await"
  request,    \* the request of its current or last call
  index,      \* i of the chunk loop
  answers,    \* the device's answers that its transport has not taken yet
  outcome,    \* what its last call returned
  appIns,     \* device: instruction of the chunks piled up
  appBuffer,  \* device: the chunks piled up
  calls,      \* number of calls made so far, bounded by MaxCalls
  sent,       \* history: commands of the call that reached the device
  signed,     \* history: signatures the device made on commands of the call
  torn,       \* history: callers whose call did not have the app to itself
  late        \* history: callers whose call met answers of an earlier one

hostVars == <<pc, request, index, answers, outcome, calls>>
appVars  == <<appIns, appBuffer>>
history  == <<sent, signed, torn, late>>
vars     == <<hostVars, appVars, history>>

TypeOK ==
  /\ pc \in [Callers -> {"idle", "send", "await"}]
  /\ request \in [Callers -> Requests]
  /\ index \in [Callers -> Nat]
  /\ answers \in [Callers -> Seq(Answer)]
  /\ outcome \in [Callers -> Outcome]
  /\ appIns \in Instructions
  /\ appBuffer \in Seq(Byte)
  /\ calls \in 0 .. MaxCalls
  /\ sent \in [Callers -> Seq(Command)]
  /\ signed \in [Callers -> Seq(Signature)]
  /\ torn \in SUBSET Callers
  /\ late \in SUBSET Callers

Init ==
  /\ pc = [c \in Callers |-> "idle"]
  /\ request \in [Callers -> Requests]
  /\ index = [c \in Callers |-> 0]
  /\ answers = [c \in Callers |-> <<>>]
  /\ outcome = [c \in Callers |-> Failed("none")]
  /\ appIns = INS_SIGN_TRANSACTION
  /\ appBuffer = <<>>
  /\ calls = 0
  /\ sent = [c \in Callers |-> <<>>]
  /\ signed = [c \in Callers |-> <<>>]
  /\ torn = {}
  /\ late = {}

-----------------------------------------------------------------------------
(* The host.                                                               *)

Return(c, result) ==
  /\ pc' = [pc EXCEPT ![c] = "idle"]
  /\ outcome' = [outcome EXCEPT ![c] = result]
  /\ UNCHANGED <<request, index, calls>>

\* What a new call finds on its transport, of the answers that c has not taken.
\* A BLE transport is "created once and reused"; what was on its way when an
\* exchange gave up is handed to the next one, the oldest first.  A link that
\* is made anew, or a device that is opened again, loses what was reported
\* before, and what was to come may never come.
LeftFor(c) ==
  {SubSeq(answers[c], m, n) : m \in 1 .. Len(answers[c]) + 1, n \in 0 .. Len(answers[c])}

\* A new call; the history variables start afresh for this caller.
Call(c, r) ==
  /\ pc[c] = "idle"
  /\ calls < MaxCalls
  /\ calls' = calls + 1
  /\ request' = [request EXCEPT ![c] = r]
  /\ index' = [index EXCEPT ![c] = 0]
  /\ sent' = [sent EXCEPT ![c] = <<>>]
  /\ signed' = [signed EXCEPT ![c] = <<>>]
  /\ torn' = torn \ {c}
  /\ \E left \in LeftFor(c) :
       /\ answers' = [answers EXCEPT ![c] = left]
       /\ late' = IF left = <<>> THEN late \ {c} ELSE late \cup {c}
  /\ UNCHANGED appVars

EnterLoop(c) ==
  /\ pc' = [pc EXCEPT ![c] = "send"]
  /\ outcome' = [outcome EXCEPT ![c] = Failed("none")]

\* USB HID: every call opens the device again, which can fail.
SendPayloadApdus(c, r) ==
  /\ c \in HidCallers
  /\ Call(c, r)
  /\ \/ EnterLoop(c)
     \/ /\ outcome' = [outcome EXCEPT ![c] = Failed("transport")]
        /\ UNCHANGED pc

\* BLE: the caller passes a transport that is already connected.
SendPayloadApdusBle(c, r) ==
  /\ c \in BleCallers
  /\ Call(c, r)
  /\ EnterLoop(c)

-----------------------------------------------------------------------------
(* The NEAR app on the device, as seen through one chunk.                  *)

\* Another call of d has chunks in the app.
MidCall(d) == pc[d] # "idle" /\ sent[d] # <<>>

\* The session of c is torn if the app holds chunks of others when its first
\* chunk arrives; a chunk of c tears the sessions it lands in.
Tear(c) ==
  torn' = torn \cup {d \in Callers \ {c} : MidCall(d)}
               \cup (IF sent[c] = <<>> /\ appBuffer # <<>> THEN {c} ELSE {})

\* Chunks of one instruction pile up.  A chunk of another instruction in the
\* middle starts over, when the app does not refuse it.
PiledUp(cmd) ==
  IF cmd.ins = appIns THEN appBuffer \o cmd.data ELSE cmd.data

\* The device answers on the transport of c; how long the answer is under way
\* shows in when, and whether, it is taken.
Answers(c, status, data) ==
  answers' = [answers EXCEPT ![c] = Append(@, [status |-> status, data |-> data])]

\* The app takes the chunk: the last one is signed, after the user confirmed.
AppAccepts(c, cmd) ==
  /\ appIns' = cmd.ins
  /\ IF cmd.p1 = P1_SIGN_NORMAL_LAST_CHUNK
     THEN LET signature == [ins |-> cmd.ins, data |-> PiledUp(cmd)]
          IN  /\ appBuffer' = <<>>
              /\ signed' = [signed EXCEPT ![c] = Append(@, signature)]
              /\ Answers(c, "ok", <<signature>>)
     ELSE /\ appBuffer' = PiledUp(cmd)
          /\ Answers(c, "ok", <<>>)
          /\ UNCHANGED signed

\* The app refuses it, or the user declines: any status word but 0x9000.
AppRefuses(c) ==
  /\ appBuffer' = <<>>
  /\ Answers(c, "error", <<>>)
  /\ UNCHANGED <<appIns, signed>>

\* The app is left and opened again, from the device or by
\* open_near_application: what has piled up is gone.
AppRestarts ==
  /\ appBuffer # <<>>
  /\ appBuffer' = <<>>
  /\ torn' = torn \cup {c \in Callers : MidCall(c)}
  /\ UNCHANGED <<hostVars, appIns, sent, signed, late>>

-----------------------------------------------------------------------------
(* The chunk loop: transport.exchange(&command) and what follows it.       *)

MoreChunks(c) == pc[c] = "send" /\ index[c] < ChunksCount(request[c])

SendChunk(c) ==
  /\ MoreChunks(c)
  /\ LET cmd == ChunkCommand(request[c], index[c])
     IN  /\ AppAccepts(c, cmd) \/ AppRefuses(c)
         /\ sent' = [sent EXCEPT ![c] = Append(@, cmd)]
  /\ Tear(c)
  /\ pc' = [pc EXCEPT ![c] = "await"]
  /\ UNCHANGED <<request, index, outcome, calls, late>>

\* exchange fails before the chunk reaches the app.
SendFails(c) ==
  /\ MoreChunks(c)
  /\ Return(c, Failed("transport"))
  /\ UNCHANGED <<answers, appVars, history>>

\* exchange fails although the app has handled the chunk.  The answer is lost,
\* or it comes when nobody waits for it: LeftFor tells which.
ExchangeFails(c) ==
  /\ pc[c] = "await"
  /\ Return(c, Failed("transport"))
  /\ UNCHANGED <<answers, appVars, history>>

\* The exchange hands the first answer on the transport to the loop.
FirstAnswer(c) == Head(answers[c])
Takes(c, status) ==
  /\ pc[c] = "await"
  /\ answers[c] # <<>> /\ FirstAnswer(c).status = status
  /\ answers' = [answers EXCEPT ![c] = Tail(@)]

GoOn(c) ==
  /\ index' = [index EXCEPT ![c] = @ + 1]
  /\ pc' = [pc EXCEPT ![c] = "send"]
  /\ UNCHANGED <<request, outcome, calls>>

\* A bug: a chunk that was refused is sent again.
ReceiveErrorRetries(c) ==
  /\ Takes(c, "error")
  /\ pc' = [pc EXCEPT ![c] = "send"]
  /\ UNCHANGED <<request, index, outcome, calls>>
  /\ UNCHANGED <<appVars, history>>

\* Ok(response) with a status other than RETURN_CODE_OK.
ReceiveError(c) ==
  /\ Takes(c, "error")
  /\ Return(c, Failed("status"))
  /\ UNCHANGED <<appVars, history>>

\* Bugs: the return code is not looked at; or the first answer that is OK is
\* returned.
ReceiveOkUnchecked(c) ==
  /\ \E status \in {"ok", "error"} : Takes(c, status)
  /\ IF IsLastChunk(request[c], index[c])
     THEN Return(c, [kind |-> "ok", data |-> FirstAnswer(c).data])
     ELSE GoOn(c)
  /\ UNCHANGED <<appVars, history>>
ReceiveOkReturnsFirst(c) ==
  /\ Takes(c, "ok")
  /\ Return(c, [kind |-> "ok", data |-> FirstAnswer(c).data])
  /\ UNCHANGED <<appVars, history>>

\* Ok(response) with RETURN_CODE_OK: on to the next chunk, or done.
ReceiveOk(c) ==
  /\ Takes(c, "ok")
  /\ IF IsLastChunk(request[c], index[c])
     THEN Return(c, [kind |-> "ok", data |-> FirstAnswer(c).data])
     ELSE GoOn(c)
  /\ UNCHANGED <<appVars, history>>

\* A bug: an off-by-one leaves a request without bytes in the loop.
UnableToProcessLate(c) ==
  /\ pc[c] = "send"
  /\ index[c] > ChunksCount(request[c])
  /\ Return(c, Failed("unable"))
  /\ UNCHANGED <<answers, appVars, history>>

\* The loop is over and has not returned.
UnableToProcess(c) ==
  /\ pc[c] = "send"
  /\ index[c] >= ChunksCount(request[c])
  /\ Return(c, Failed("unable"))
  /\ UNCHANGED <<answers, appVars, history>>

\* The thread dies, or the future is dropped at its await; an answer under way
\* may still come.
Abandon(c) ==
  /\ pc[c] # "idle"
  /\ Return(c, Failed("abandoned"))
  /\ UNCHANGED <<answers, appVars, history>>

\* Callers may stop calling; nothing is left to do then.
AllReturned ==
  /\ calls = MaxCalls
  /\ \A c \in Callers : pc[c] = "idle"
  /\ appBuffer = <<>>
  /\ UNCHANGED vars

-----------------------------------------------------------------------------
HostStep(c) == \/ SendChunk(c) \/ SendFails(c) \/ ExchangeFails(c)
               \/ ReceiveError(c) \/ ReceiveOk(c) \/ UnableToProcess(c)

Next ==
  \/ \E c \in Callers, r \in Requests :
        SendPayloadApdus(c, r) \/ SendPayloadApdusBle(c, r)
  \/ \E c \in Callers : HostStep(c) \/ Abandon(c)
  \/ AppRestarts
  \/ AllReturned

Spec == Init /\ [][Next]_vars

\* The loop goes on by itself, and every exchange ends: the device answers or
\* the transport gives up.
FairSpec == Spec /\ \A c \in Callers : WF_vars(HostStep(c))

-----------------------------------------------------------------------------
(* Properties.                                                             *)

\* A call whose session was not torn and whose exchanges took their own answers
\* makes the device sign the bytes of the HD path and the payload of that very
\* call, all of them and nothing more: send_payload_apdus neither loses, repeats
\* nor reorders a chunk, and marks the right one as the last.
SignedIsWhatWasAsked ==
  \A c \in Callers \ (torn \cup late) :
    \A k \in DOMAIN signed[c] : signed[c][k] = SignatureOver(request[c])

\* No answer still to be taken refuses the chunk, or brings a signature.
OnlyPiledUp(c) ==
  \A k \in DOMAIN answers[c] : answers[c][k].status = "ok" /\ answers[c][k].data = <<>>

\* The app holds exactly the chunks that the call in the middle of its session
\* has sent: the hidden agreement, between the loop of the host and the app,
\* on which the signature depends.
AppHoldsWhatWasSent ==
  \A c \in Callers \ (torn \cup late) :
    MidCall(c) /\ OnlyPiledUp(c)
      => /\ appIns = request[c].ins
         /\ appBuffer = SubSeq(Data(request[c]), 1, Len(sent[c]) * ChunkSize)

\* What the caller is told agrees with what the device did, torn or not.  No call
\* makes two signatures, and "Unable to process request" means that none was
\* made, whatever was on the transport.  Unless an answer to an earlier call was
\* there, Ok carries the one signature made and APDUExchangeError means that
\* none was made.
OutcomeAccountsForSignature ==
  \A c \in Callers :
    /\ Len(signed[c]) <= 1
    /\ outcome[c].kind = "unable" => signed[c] = <<>>
    /\ c \notin late =>
         /\ outcome[c].kind = "ok" => outcome[c].data = signed[c] /\ signed[c] # <<>>
         /\ outcome[c].kind = "status" => signed[c] = <<>>

\* send_payload_apdus is "kept in sync" with print_apdus: what reaches the
\* device is what would be printed, in that order, and all of it when the call
\* returns Ok.
SentInSyncWithPrinted ==
  \A c \in Callers :
    LET printed == PrintPayloadApdus(request[c])
    IN  /\ Len(sent[c]) <= Len(printed)
        /\ sent[c] = SubSeq(printed, 1, Len(sent[c]))
        /\ outcome[c].kind = "ok" => sent[c] = printed

\* The error after the loop is for a request without a single byte: nothing
\* was sent, and a request with bytes never falls through the loop.
UnableMeansEmpty ==
  \A c \in Callers :
    /\ outcome[c].kind = "unable" => Data(request[c]) = <<>>
    /\ Data(request[c]) = <<>> => outcome[c].kind \notin {"ok", "status"}

\* The transport of c holds the answer to its last chunk, and no other.
AnswerIsOwn(c) ==
  /\ Len(answers[c]) = 1
  /\ answers[c][1].data = signed[c]
  /\ signed[c] # <<>> <=> /\ answers[c][1].status = "ok"
                         /\ IsLastChunk(request[c], index[c])

\* The loop keeps count of what it has sent, awaits the answer to a chunk that
\* exists, and has no signature before the last one; unless it met answers of an
\* earlier call, the only answer on the transport is that to the chunk it awaits,
\* and none stays there when it returns with an answer of the device.  This makes
\* the properties about signatures inductive.
CountKept(c) ==
  /\ pc[c] = "idle"  => \/ c \in late
                        \/ outcome[c].kind \in {"transport", "abandoned"}
                        \/ answers[c] = <<>>
  /\ pc[c] = "send"  => /\ Len(sent[c]) = index[c]
                        /\ index[c] = 0 \/ index[c] < ChunksCount(request[c])
                        /\ outcome[c].kind = "none"
                        /\ signed[c] = <<>>
                        /\ c \in late \/ answers[c] = <<>>
  /\ pc[c] = "await" => /\ Len(sent[c]) = index[c] + 1
                        /\ index[c] < ChunksCount(request[c])
                        /\ outcome[c].kind = "none"
                        /\ Len(signed[c]) <= 1
                        /\ IsLastChunk(request[c], index[c]) \/ signed[c] = <<>>
                        /\ c \in late \/ AnswerIsOwn(c)

LoopKeepsCount == \A c \in Callers : CountKept(c)

\* Every call returns, in the face of declined chunks and transport errors.
EveryCallReturns == \A c \in Callers : (pc[c] # "idle") ~> (pc[c] = "idle")

\* The chunk loop implements the service that the signing functions promise.
Service == INSTANCE SigningService WITH active <- [c \in Callers |-> pc[c] # "idle"]
ImplementsService == Service!Spec
============================================================================
