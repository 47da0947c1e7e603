------------------------------ MODULE AppCalls ------------------------------
(***************************************************************************)
(* The calls of the library to the NEAR app, one after the other: the      *)
(* single exchanges get_version, get_public_key and get_wallet_id, and the *)
(* chunk loop behind the signing calls (src/lib.rs, src/ble_api.rs).       *)
(*                                                                         *)
(* They are put on ApduChannel, in which an exchange that gives up leaves  *)
(* its answer to a later one.  BLE callers go on with the same transport;  *)
(* a USB HID caller opens the device anew for each call, and so leaves     *)
(* behind what has been reported before, but not what is still to come.    *)
(***************************************************************************)
EXTENDS ApduChannel

CONSTANTS
  Paths,       \* HD paths
  Requests,    \* what may be signed,
  ChunksOf,    \*   and the number of chunks of each
  ErrorCodes,  \* status words other than RETURN_CODE_OK
  MaxCalls     \* bound: calls

INS_SIGN_TRANSACTION == 2
INS_GET_PUBLIC_KEY   == 4
INS_GET_WALLET_ID    == 5
INS_GET_VERSION      == 6

P1_GET_PUB_DISPLAY        == 0
P1_GET_PUB_SILENT         == 1
P1_SIGN_NORMAL            == 0
P1_SIGN_NORMAL_LAST_CHUNK == 128

RETURN_CODE_OK                == 36864
RETURN_CODE_APP_MISSING       == 26631
RETURN_CODE_ERROR_INPUT       == 26378
RETURN_CODE_UNKNOWN_ERROR     == 21781
RETURN_CODE_DECLINE           == 21761
RETURN_CODE_CLA_NOT_SUPPORTED == 28161
RETURN_CODE_INS_NOT_SUPPORTED == 27904

PUBLIC_KEY_LENGTH == 32

ASSUME ErrorCodesAssumption == ErrorCodes \subseteq (0 .. 65535) \ {RETURN_CODE_OK}
ASSUME ChunksAssumption     == ChunksOf \in [Requests -> Nat \ {0}]
ASSUME PathsAssumption      == Paths \cap Requests = {}
ASSUME MaxCallsAssumption   == MaxCalls \in Nat

-----------------------------------------------------------------------------
(* The calls, their commands, and the answers of the app.                  *)

Call(ins, p1, arg) == [ins |-> ins, p1 |-> p1, arg |-> arg]

GetVersion == Call(INS_GET_VERSION, 0, {})
GetPublicKeyWithDisplayFlag(path, display_and_confirm) ==
  Call(INS_GET_PUBLIC_KEY,
       IF display_and_confirm THEN P1_GET_PUB_DISPLAY ELSE P1_GET_PUB_SILENT, {path})
GetPublicKey(path) == GetPublicKeyWithDisplayFlag(path, TRUE)
GetWalletId(path)  == Call(INS_GET_WALLET_ID, 0, {path})
\* One instruction stands for the three that sign.
Sign(request)      == Call(INS_SIGN_TRANSACTION, P1_SIGN_NORMAL, {request})

Calls ==
  {GetVersion} \cup {GetPublicKey(p) : p \in Paths}
    \cup {GetPublicKeyWithDisplayFlag(p, FALSE) : p \in Paths}
    \cup {GetWalletId(p) : p \in Paths} \cup {Sign(r) : r \in Requests}

Signs(c) == c.ins = INS_SIGN_TRANSACTION
AsksKey(c) == c.ins \in {INS_GET_PUBLIC_KEY, INS_GET_WALLET_ID}

ChunksCount(c) == IF Signs(c) THEN ChunksOf[CHOOSE r \in c.arg : TRUE] ELSE 1

\* A bug (for the mutation runs): the loop is over one chunk early.
IsLastEarly(c, i) == ChunksCount(c) \in {i + 1, i + 2}

IsLast(c, i) == ChunksCount(c) = i + 1

CommandOf(c, i) ==
  [ins |-> c.ins, arg |-> c.arg, chunk |-> i,
   p1  |-> IF Signs(c) /\ IsLast(c, i) THEN P1_SIGN_NORMAL_LAST_CHUNK ELSE c.p1]
AllCommands == UNION {{CommandOf(c, i) : i \in 0 .. ChunksCount(c) - 1} : c \in Calls}

\* What the data of an answer is; "no_point" are 32 bytes that are no key.
Kinds == {"version", "key", "wallet", "no_point", "nothing", "signature"}
DataLen(kind) ==
  IF kind = "version" THEN 3 ELSE IF kind = "nothing" THEN 0
  ELSE IF kind = "signature" THEN 64 ELSE PUBLIC_KEY_LENGTH
KindsFor(cmd) ==
  IF cmd.ins = INS_GET_VERSION THEN {"version"}
  ELSE IF cmd.ins = INS_GET_PUBLIC_KEY THEN {"key", "no_point"}
  ELSE IF cmd.ins = INS_GET_WALLET_ID THEN {"wallet"}
  ELSE IF cmd.p1 = P1_SIGN_NORMAL_LAST_CHUNK THEN {"signature"} ELSE {"nothing"}

\* The app, or whatever runs in its place: an answer knows its command.
AppAnswers(cmd) ==
  [retcode : {RETURN_CODE_OK}, kind : KindsFor(cmd), of : {cmd}]
    \cup [retcode : ErrorCodes, kind : {"nothing"}, of : {cmd}]

ASSUME ChannelAssumption ==
  Commands = AllCommands /\ \A cmd \in Commands : Answers(cmd) = AppAnswers(cmd)

\* A bug: there is no text for a code that is not known.
RetcodeErrorKnown(retcode) ==
  IF retcode = RETURN_CODE_CLA_NOT_SUPPORTED THEN "app_not_open"
  ELSE IF retcode = RETURN_CODE_DECLINE      THEN "declined"
  ELSE "success"

\* retcode_to_error_string, text by text.
RetcodeError(retcode) ==
  IF retcode = RETURN_CODE_OK                     THEN "success"
  ELSE IF retcode = RETURN_CODE_CLA_NOT_SUPPORTED THEN "app_not_open"
  ELSE IF retcode = RETURN_CODE_INS_NOT_SUPPORTED THEN "not_supported"
  ELSE IF retcode = RETURN_CODE_APP_MISSING       THEN "app_missing"
  ELSE IF retcode = RETURN_CODE_ERROR_INPUT       THEN "error_input"
  ELSE IF retcode = RETURN_CODE_DECLINE           THEN "declined"
  ELSE IF retcode = RETURN_CODE_UNKNOWN_ERROR     THEN "unknown_error"
  ELSE "other"

-----------------------------------------------------------------------------
VARIABLES
  usb,      \* the calls are those over USB HID
  pc,       \* "idle", "send" or "await"
  call,     \* the current or last call
  index,    \* i of the chunk loop
  result,   \* what the last call returned
  calls,    \* counted against the bound
  instep    \* history: since the transport was made, every exchange took an answer

callVars == <<pc, call, index, result, calls>>
vars == <<channelVars, usb, callVars, instep>>

\* Ok, a status error or an answer of the wrong form, made of an answer; or none.
Returned(kind, error, answer) == [kind |-> kind, error |-> error, answer |-> answer]
Nothing(kind) == Returned(kind, "none", {})
ErrorTexts == {"app_not_open", "not_supported", "app_missing", "error_input",
               "declined", "unknown_error", "other"}

TypeOK ==
  /\ phase \in {"idle", "sending", "waiting"}
  /\ queue \in Seq(AllCommands)
  /\ answers \in Seq(UNION {AppAnswers(cmd) : cmd \in AllCommands})
  /\ usb \in BOOLEAN /\ instep \in BOOLEAN
  /\ pc \in {"idle", "send", "await"}
  /\ call \in Calls
  /\ index \in 0 .. ChunksCount(call) - 1
  /\ \/ result.kind \in {"none", "transport", "cancelled"} /\ result.answer = {}
     \/ result.kind \in {"ok", "length", "no_point"} /\ result.error = "none"
     \/ result.kind = "status" /\ result.error \in ErrorTexts
  /\ calls \in 0 .. MaxCalls

Init ==
  /\ ChannelInit
  /\ command \in AllCommands
  /\ usb \in BOOLEAN
  /\ pc = "idle"
  /\ call = GetVersion /\ index = 0
  /\ result = Nothing("none")
  /\ calls = 0
  /\ instep = TRUE

Return(r) ==
  /\ pc' = "idle"
  /\ result' = r
  /\ UNCHANGED <<call, index, calls>>

Begin(c) ==
  /\ pc = "idle"
  /\ calls < MaxCalls
  /\ calls' = calls + 1
  /\ call' = c
  /\ index' = 0

\* BLE: the transport of the calls before.
CallBle(c) ==
  /\ ~usb
  /\ Begin(c)
  /\ pc' = "send"
  /\ result' = Nothing("none")
  /\ UNCHANGED <<channelVars, usb, instep>>

\* USB HID: get_transport opens the device, or fails.
CallHid(c) ==
  /\ usb
  /\ Begin(c)
  /\ \/ /\ pc' = "send"
        /\ result' = Nothing("none")
        /\ answers' = <<>>
        /\ instep' = (queue = <<>>)
        /\ UNCHANGED <<phase, command, outcome, queue>>
     \/ /\ result' = Nothing("transport")
        /\ UNCHANGED <<pc, channelVars, instep>>
  /\ UNCHANGED usb

\* transport.exchange(&command): it begins, goes on, and ends.
SendCommand ==
  /\ pc = "send"
  /\ pc' = "await"
  /\ Exchange(CommandOf(call, index))
  /\ UNCHANGED <<usb, call, index, result, calls, instep>>

ExchangeGoesOn ==
  /\ Arrive \/ Receive \/ AnswerComes
  /\ UNCHANGED <<usb, callVars, instep>>
ExchangeDisturbed ==
  /\ GiveUp("timeout") \/ LoseAnswer \/ LoseLink
  /\ instep' = FALSE
  /\ UNCHANGED <<usb, callVars>>

\* The future is dropped, or the process is gone.
Cancel ==
  /\ GiveUp("cancelled")
  /\ instep' = FALSE
  /\ Return(Nothing("cancelled"))
  /\ UNCHANGED usb

-----------------------------------------------------------------------------
(* What a call makes of the end of an exchange.                            *)

\* A bug: any data will do for a key.
HandlePublicKeyAnyLength(answer) ==
  Return(Returned(IF answer.kind = "no_point" THEN "no_point" ELSE "ok", "none", {answer}))

\* handle_public_key_response, of an answer with RETURN_CODE_OK: Ok, an error of
\* its length, or one of VerifyingKey::from_bytes.
HandlePublicKey(answer) ==
  Return(Returned(IF DataLen(answer.kind) # PUBLIC_KEY_LENGTH THEN "length"
                  ELSE IF answer.kind = "no_point" THEN "no_point" ELSE "ok",
                  "none", {answer}))

ExchangeFailed ==
  /\ pc = "await" /\ phase = "idle" /\ outcome.kind # "ok"
  /\ Return(Nothing("transport"))
  /\ UNCHANGED <<channelVars, usb, instep>>

Answered == pc = "await" /\ phase = "idle" /\ outcome.kind = "ok"

StatusError ==
  /\ Answered /\ outcome.data.retcode # RETURN_CODE_OK
  /\ Return(Returned("status", RetcodeError(outcome.data.retcode), {outcome.data}))
  /\ UNCHANGED <<channelVars, usb, instep>>

StatusOk ==
  /\ Answered /\ outcome.data.retcode = RETURN_CODE_OK
  /\ \/ AsksKey(call) /\ HandlePublicKey(outcome.data)
     \/ /\ ~AsksKey(call) /\ IsLast(call, index)
        /\ Return(Returned("ok", "none", {outcome.data}))
     \/ /\ ~AsksKey(call) /\ ~IsLast(call, index)
        /\ index' = index + 1
        /\ pc' = "send"
        /\ UNCHANGED <<call, result, calls>>
  /\ UNCHANGED <<channelVars, usb, instep>>

\* Callers may stop calling.
AllReturned == calls = MaxCalls /\ pc = "idle" /\ UNCHANGED vars

Next ==
  \/ \E c \in Calls : CallBle(c) \/ CallHid(c)
  \/ SendCommand \/ ExchangeGoesOn \/ ExchangeDisturbed \/ Cancel
  \/ ExchangeFailed \/ StatusError \/ StatusOk
  \/ AllReturned

Spec == Init /\ [][Next]_vars

-----------------------------------------------------------------------------
(* Properties.                                                             *)

\* As long as no exchange has given up on its answer, what a call returns is
\* made of the answer to its own command - the last one, if it returns Ok - and
\* a call that has returned, with an error in the middle of its chunks too, has
\* left nothing behind that the next one could take for its own.
InStepMeansOwn ==
  instep =>
    /\ Len(queue) + Len(answers) <= 1
    /\ phase # "waiting" => queue = <<>> /\ answers = <<>>
    /\ \A a \in result.answer :
         /\ a.of = CommandOf(call, index)
         /\ result.kind = "ok" => index = ChunksCount(call) - 1

\* In step or not, get_public_key and get_wallet_id hand out a key that the
\* device has made, and never the bytes of a version, a signature or an empty
\* answer that has come late: handle_public_key_response tells them by length.
KeyCallsOnlyGetKeys ==
  AsksKey(call) /\ result.kind = "ok" =>
    \A a \in result.answer : a.kind \in {"key", "wallet"}
============================================================================
