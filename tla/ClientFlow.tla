----------------------------- MODULE ClientFlow -----------------------------
(***************************************************************************)
(* A client of the library, as examples/ has it: get the public key of an  *)
(* HD path, build what is to be signed from that key, have it signed with  *)
(* the same HD path, and verify the signature with the key.  Each of the   *)
(* two calls opens the USB device anew, so another Ledger may be plugged   *)
(* in between, and other programs may use the app as well: SigningService  *)
(* says what is left of its promise then.  A run that fails in the middle  *)
(* of a call, or is killed, may leave chunks in the app, or a command that *)
(* the device has yet to answer, for the next run to meet.                 *)
(*                                                                         *)
(* With --speculos-test-generate the key and the signature are constants   *)
(* of the example, and the commands are only logged.                       *)
(***************************************************************************)
EXTENDS Integers

CONSTANTS
  Ledgers,   \* devices that may be plugged in
  Paths,     \* HD paths
  MaxRuns    \* bound: runs of examples

INS_SIGN_TRANSACTION            == 2
INS_SIGN_NEP413_MESSAGE         == 7
INS_SIGN_NEP366_DELEGATE_ACTION == 8

HdPath == "44'/397'/0'/0'/1'"
OtherPath == "44'/397'/0'/0'/0'"

ASSUME LedgersAssumption == "speculos" \notin Ledgers
ASSUME PathsAssumption   == {HdPath, OtherPath} \subseteq Paths
ASSUME MaxRunsAssumption == MaxRuns \in Nat

\* A bug (for the mutation runs): the last level of the path is not hardened.
KeyOfUnhardened(ledger, path) == [ledger |-> ledger, path |-> "44'/397'/0'/0'/1"]

\* A device has a key for each path.
KeyOf(ledger, path) == [ledger |-> ledger, path |-> path]
Keys == [ledger : Ledgers \cup {"speculos"}, path : Paths]

\* The device of the tests of the app, whose key is in the source.
StaticSpeculosPublicKey == KeyOf("speculos", HdPath)

-----------------------------------------------------------------------------
(* The examples differ in what they have signed, and in the signature in   *)
(* their source: one that was taken from the tests of the app ("speculos") *)
(* or a placeholder of zeros.  For each kind, the model has one.           *)

Example(ins, expected) == [ins |-> ins, expected |-> expected]
Transfer                       == Example(INS_SIGN_TRANSACTION, "speculos")
BatchAllActions                == Example(INS_SIGN_TRANSACTION, "zeros")
SignNep413Message              == Example(INS_SIGN_NEP413_MESSAGE, "speculos")
SignNep366DelegateAction       == Example(INS_SIGN_NEP366_DELEGATE_ACTION, "zeros")
SignNep366DelegateActionSimple == Example(INS_SIGN_NEP366_DELEGATE_ACTION, "speculos")

Examples == { Transfer, BatchAllActions, SignNep413Message,
              SignNep366DelegateAction, SignNep366DelegateActionSimple }

\* What an example builds from a key: a transaction and a delegate action name it
\* in their public_key, a message names none.  The keys inside some actions are
\* made from the key as a seed, and are part of "what".
Payload(e, key) ==
  [what |-> e, key |-> IF e.ins = INS_SIGN_NEP413_MESSAGE THEN {} ELSE {key}]

\* Anything else that a device may have signed: what another program wanted, or
\* its chunks and those of the example joined.
ForeignPayload == [what |-> Example(INS_SIGN_TRANSACTION, "none"), key |-> {}]
Payloads == {Payload(e, k) : e \in Examples, k \in Keys} \cup {ForeignPayload}

\* A signature, by the key that made it and what it was made over.
Signature(key, payload) == [by |-> key, over |-> payload]

\* What the bytes of a signature are: those of a signature, or of something else.
NoSignature == {}
ExpectedSignature(e) ==
  IF e.expected = "speculos"
  THEN {Signature(StaticSpeculosPublicKey, Payload(e, StaticSpeculosPublicKey))}
  ELSE NoSignature

\* public_key.verify(hash, signature), or signed_delegate.verify().
Verifies(key, payload, signature) == signature = {Signature(key, payload)}

-----------------------------------------------------------------------------
VARIABLES
  pc,         \* "start", "key", "build", "sign", "verify", "error", "panic" or "ok"
  example,    \* the example that runs
  generate,   \* --speculos-test-generate
  key,        \* ledger_pub_key
  payload,    \* the transaction, message or delegate action
  signature,  \* signature_bytes
  ledger,     \* the device that is plugged in
  leftBehind, \* devices with chunks, or with a command to answer, of a call
              \*   that has ended
  runs,       \* counted against the bound
  asked,      \* history: the device that gave the key, and
  signer,     \*   the one that answered the signing call
  disturbed   \* history: during the run the device was changed, or its app
              \*   used by others, or a call met what was left behind

vars == <<pc, example, generate, key, payload, signature, ledger, leftBehind,
          runs, asked, signer, disturbed>>

Running == pc \in {"key", "build", "sign", "verify"}

TypeOK ==
  /\ pc \in {"start", "key", "build", "sign", "verify", "error", "panic", "ok"}
  /\ example \in Examples /\ generate \in BOOLEAN
  /\ key \in Keys /\ payload \in Payloads
  /\ signature = NoSignature \/ \E s \in [by : Keys, over : Payloads] : signature = {s}
  /\ ledger \in Ledgers /\ leftBehind \in SUBSET Ledgers
  /\ runs \in 0 .. MaxRuns
  /\ asked \in Ledgers /\ signer \in Ledgers /\ disturbed \in BOOLEAN

Init ==
  /\ pc = "start"
  /\ example = Transfer /\ generate = FALSE
  /\ key = StaticSpeculosPublicKey
  /\ payload = ForeignPayload
  /\ signature = NoSignature
  /\ ledger \in Ledgers /\ leftBehind = {}
  /\ runs = 0
  /\ asked = ledger /\ signer = ledger /\ disturbed = FALSE

Run(e, speculos_test_generate) ==
  /\ ~Running
  /\ runs < MaxRuns
  /\ runs' = runs + 1
  /\ pc' = "key"
  /\ example' = e
  /\ generate' = speculos_test_generate
  /\ disturbed' = FALSE
  /\ UNCHANGED <<key, payload, signature, ledger, leftBehind, asked, signer>>

-----------------------------------------------------------------------------
\* What a call meets, and what it may leave behind.
Met == disturbed \/ ledger \in leftBehind
MayLeave == leftBehind' \in {leftBehind \ {ledger}, leftBehind \cup {ledger}}

\* A call to the device ends with Err, and main with it; or the user stops the
\* program while it waits.
CallFails ==
  /\ pc' = "error"
  /\ MayLeave
  /\ disturbed' = Met
  /\ UNCHANGED <<key, signature, asked, signer>>

\* What a call returns that found no device disturbed: its own answer.  Otherwise
\* that, or a late answer: the key of whatever path was asked for before.
GetKeyOfDevice ==
  /\ \/ key' = KeyOf(ledger, HdPath) /\ ~Met /\ UNCHANGED leftBehind
     \/ key' \in {KeyOf(ledger, path) : path \in Paths} /\ Met /\ MayLeave
  /\ asked' = ledger
  /\ disturbed' = Met
  /\ UNCHANGED <<signature, signer>>

\* get_public_key_with_display_flag(hd_path, false)?, or the static key.
GetKey ==
  /\ pc = "key"
  /\ \/ /\ generate
        /\ key' = StaticSpeculosPublicKey
        /\ pc' = "build"
        /\ UNCHANGED <<signature, leftBehind, asked, signer, disturbed>>
     \/ ~generate /\ GetKeyOfDevice /\ pc' = "build"
     \/ ~generate /\ CallFails
  /\ UNCHANGED <<example, generate, payload, ledger, runs>>

Build ==
  /\ pc = "build"
  /\ payload' = Payload(example, key)
  /\ pc' = "sign"
  /\ UNCHANGED <<example, generate, key, signature, ledger, leftBehind, runs,
                 asked, signer, disturbed>>

\* A bug: the path of the signing call is not that of the key.
SignOtherPath ==
  /\ signature' = {Signature(KeyOf(ledger, OtherPath), payload)}
  /\ leftBehind' = leftBehind \ {ledger}
  /\ signer' = ledger
  /\ disturbed' = Met
  /\ UNCHANGED <<key, asked>>

\* The signing call makes its promise unless it is disturbed; then, what is signed
\* may be foreign, and for another path, and what is returned may be another
\* answer.  Nobody but the flow has its payload signed, and it does with HdPath.
Sign ==
  /\ \/ /\ signature' = {Signature(KeyOf(ledger, HdPath), payload)}
        /\ leftBehind' = leftBehind \ {ledger}
     \/ /\ Met
        /\ \/ signature' = NoSignature
           \/ \E path \in Paths : signature' = {Signature(KeyOf(ledger, path), ForeignPayload)}
           \/ signature' = {Signature(KeyOf(ledger, HdPath), payload)}
        /\ MayLeave
  /\ signer' = ledger
  /\ disturbed' = Met
  /\ UNCHANGED <<key, asked>>

\* print_apdus and the expected signature, or sign_...(&bytes, hd_path)?.
PrintOrSign ==
  /\ pc = "sign"
  /\ \/ /\ generate
        /\ signature' = ExpectedSignature(example)
        /\ pc' = "verify"
        /\ UNCHANGED <<key, leftBehind, asked, signer, disturbed>>
     \/ ~generate /\ Sign /\ pc' = "verify"
     \/ ~generate /\ CallFails
  /\ UNCHANGED <<example, generate, payload, ledger, runs>>

\* A bug: a signature that does not verify is logged like one that does.
VerifyNot ==
  /\ pc = "verify"
  /\ pc' = "ok"
  /\ UNCHANGED <<example, generate, key, payload, signature, ledger, leftBehind,
                 runs, asked, signer, disturbed>>

\* display_and_verify_signature: it panics if it cannot.
Verify ==
  /\ pc = "verify"
  /\ pc' = IF Verifies(key, payload, signature) THEN "ok" ELSE "panic"
  /\ UNCHANGED <<example, generate, key, payload, signature, ledger, leftBehind,
                 runs, asked, signer, disturbed>>

-----------------------------------------------------------------------------
\* Another Ledger is plugged in; another program talks to the app, and may leave
\* something behind in its turn; or the app is started again, and has forgotten
\* what was left.
Replug(l) ==
  /\ l # ledger
  /\ ledger' = l
  /\ disturbed' = (disturbed \/ Running)
  /\ UNCHANGED <<pc, example, generate, key, payload, signature, leftBehind, runs,
                 asked, signer>>
Disturb ==
  /\ leftBehind' \in {leftBehind, leftBehind \cup {ledger}, leftBehind \ {ledger}}
  /\ disturbed' = (disturbed \/ Running)
  /\ UNCHANGED <<pc, example, generate, key, payload, signature, ledger, runs,
                 asked, signer>>

AllRun == runs = MaxRuns /\ ~Running /\ UNCHANGED vars

Next ==
  \/ \E e \in Examples, g \in BOOLEAN : Run(e, g)
  \/ GetKey \/ Build \/ PrintOrSign \/ Verify
  \/ \E l \in Ledgers : Replug(l)
  \/ Disturb
  \/ AllRun

Spec == Init /\ [][Next]_vars

-----------------------------------------------------------------------------
(* Properties.                                                             *)

\* A run that signs and succeeds has had its key and its signature from the same
\* device, for the HD path of the example, and what it has built names that key
\* if any: when the Ledger was replaced between the two calls, the app signed
\* something else, or a call took an answer to an earlier command, the run does
\* not succeed.
OkMeansOneDevice ==
  pc = "ok" /\ ~generate =>
    /\ asked = signer
    /\ key = KeyOf(signer, HdPath)
    /\ payload.key \subseteq {KeyOf(signer, HdPath)}

\* Two calls with the same HD path go together: a run whose device stays, is left
\* alone, and has nothing of earlier calls in it does not panic, whatever fails
\* and whatever came before.  One that generates panics only over a placeholder.
UndisturbedNeverPanics ==
  pc = "panic" => IF generate THEN example.expected = "zeros" ELSE disturbed
=============================================================================
