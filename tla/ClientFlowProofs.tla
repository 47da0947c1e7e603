-------------------------- MODULE ClientFlowProofs --------------------------
(***************************************************************************)
(* Proofs about ClientFlow, for any set of Ledgers, HD paths and number of *)
(* runs.                                                                   *)
(***************************************************************************)
EXTENDS ClientFlow, TLAPS

\* What has been built is built from the key that was got, and what is logged as
\* verified verifies.
BuiltInv ==
  /\ pc \in {"sign", "verify", "ok"} => payload = Payload(example, key)
  /\ pc = "ok" => Verifies(key, payload, signature)

\* The key is one of the device that was asked, and a signature over what was
\* built one by the HD path and the device that signed.
DeviceInv ==
  ~generate =>
    /\ pc \in {"build", "sign", "verify", "ok"} => key.ledger = asked
    /\ pc \in {"verify", "ok"} =>
         \A s \in signature : s.over = payload => s.by = KeyOf(signer, HdPath)

\* Where nothing is amiss, the key and then the signature are of the device that
\* is plugged in; or they are those of the tests of the app.
RightInv ==
  /\ ~generate /\ ~disturbed =>
       /\ pc \in {"build", "sign", "verify"} => key = KeyOf(ledger, HdPath)
       /\ pc = "verify" => signature = {Signature(key, payload)}
       /\ pc # "panic"
  /\ generate =>
       /\ pc \in {"build", "sign", "verify"} => key = StaticSpeculosPublicKey
       /\ pc = "verify" => signature = ExpectedSignature(example)
       /\ pc = "panic" => example.expected = "zeros"

IInv == TypeOK /\ BuiltInv /\ DeviceInv /\ RightInv

-----------------------------------------------------------------------------
\* The key of each device for each path is a key; so is that of the examples.
LEMMA KeysAreKeys ==
  /\ \A l \in Ledgers, path \in Paths : KeyOf(l, path) \in Keys
  /\ \A l \in Ledgers, path \in Paths : KeyOf(l, path).ledger = l
  /\ StaticSpeculosPublicKey \in Keys
  /\ HdPath \in Paths
  BY PathsAssumption DEF KeyOf, Keys, StaticSpeculosPublicKey

\* What an example builds from a key may be signed, and is nothing foreign.
LEMMA PayloadsArePayloads ==
  /\ \A e \in Examples, k \in Keys : Payload(e, k) \in Payloads
  /\ \A e \in Examples, k \in Keys : Payload(e, k) # ForeignPayload
  /\ ForeignPayload \in Payloads
<1>1. \A e \in Examples : e.expected \in {"zeros", "speculos"}
  BY DEF Examples, Transfer, BatchAllActions, SignNep413Message,
         SignNep366DelegateAction, SignNep366DelegateActionSimple, Example
<1>2. ForeignPayload.what.expected = "none"
  BY DEF ForeignPayload, Example
<1>3. \A e \in Examples, k \in Keys : Payload(e, k).what = e
  BY DEF Payload
<1>4. \A e \in Examples, k \in Keys : Payload(e, k) # ForeignPayload
  BY <1>1, <1>2, <1>3
<1> QED
  BY <1>4 DEF Payloads

\* A signature, of an example too, keeps the type.
LEMMA SignaturesAreSignatures ==
  /\ \A k \in Keys, p \in Payloads : Signature(k, p) \in [by : Keys, over : Payloads]
  /\ \A k \in Keys, p \in Payloads : Signature(k, p).by = k /\ Signature(k, p).over = p
  /\ \A e \in Examples :
       \/ ExpectedSignature(e) = NoSignature
       \/ \E s \in [by : Keys, over : Payloads] : ExpectedSignature(e) = {s}
<1>1. \A k \in Keys, p \in Payloads : Signature(k, p) \in [by : Keys, over : Payloads]
  BY DEF Signature
<1>2. \A k \in Keys, p \in Payloads : Signature(k, p).by = k /\ Signature(k, p).over = p
  BY DEF Signature
<1> QED
  BY <1>1, <1>2, KeysAreKeys, PayloadsArePayloads DEF ExpectedSignature

LEMMA InitIInv == Init => IInv
<1> SUFFICES ASSUME Init PROVE IInv
  OBVIOUS
<1>1. TypeOK
  <2>1. Transfer \in Examples
    BY DEF Examples
  <2>2. runs \in 0 .. MaxRuns
    BY MaxRunsAssumption DEF Init
  <2> QED
    BY <2>1, <2>2, KeysAreKeys, PayloadsArePayloads DEF Init, TypeOK
<1>2. BuiltInv /\ DeviceInv /\ RightInv
  BY DEF Init, BuiltInv, DeviceInv, RightInv
<1> QED
  BY <1>1, <1>2 DEF IInv

LEMMA RunStep ==
  ASSUME IInv, NEW e \in Examples, NEW g \in BOOLEAN, Run(e, g)
  PROVE  IInv'
<1> USE DEF Run, IInv
<1>1. TypeOK'
  <2>1. runs' \in 0 .. MaxRuns
    BY MaxRunsAssumption DEF TypeOK
  <2> QED
    BY <2>1 DEF TypeOK
<1>2. BuiltInv' /\ DeviceInv' /\ RightInv'
  BY DEF BuiltInv, DeviceInv, RightInv
<1> QED
  BY <1>1, <1>2

LEMMA CallFailsStep ==
  ASSUME IInv, CallFails, ~generate,
         UNCHANGED <<example, generate, payload, ledger, runs>>
  PROVE  IInv'
<1> USE DEF CallFails, IInv
<1>1. TypeOK'
  BY DEF TypeOK, MayLeave, Met
<1>2. BuiltInv' /\ DeviceInv' /\ RightInv'
  BY DEF BuiltInv, DeviceInv, RightInv
<1> QED
  BY <1>1, <1>2

LEMMA GetKeyStep == IInv /\ GetKey => IInv'
<1> SUFFICES ASSUME IInv, GetKey PROVE IInv'
  OBVIOUS
<1>1. CASE ~generate /\ CallFails
  BY <1>1, CallFailsStep DEF GetKey
<1>2. CASE ~generate /\ GetKeyOfDevice /\ pc' = "build"
  <2>1. /\ key' \in Keys /\ key'.ledger = ledger
        /\ ~Met => key' = KeyOf(ledger, HdPath)
    BY <1>2, KeysAreKeys DEF GetKeyOfDevice, IInv, TypeOK
  <2>2. leftBehind' \in SUBSET Ledgers /\ disturbed' \in BOOLEAN
    BY <1>2 DEF GetKeyOfDevice, MayLeave, Met, IInv, TypeOK
  <2>3. TypeOK'
    BY <1>2, <2>1, <2>2 DEF GetKey, GetKeyOfDevice, IInv, TypeOK
  <2>4. BuiltInv' /\ DeviceInv' /\ RightInv'
    BY <1>2, <2>1 DEF GetKey, GetKeyOfDevice, BuiltInv, DeviceInv, RightInv
  <2> QED
    BY <2>3, <2>4 DEF IInv
<1>3. CASE generate
  <2>1. TypeOK'
    BY <1>3, KeysAreKeys DEF GetKey, IInv, TypeOK
  <2>2. BuiltInv' /\ DeviceInv' /\ RightInv'
    BY <1>3 DEF GetKey, BuiltInv, DeviceInv, RightInv
  <2> QED
    BY <2>1, <2>2 DEF IInv
<1> QED
  BY <1>1, <1>2, <1>3 DEF GetKey

LEMMA BuildStep == IInv /\ Build => IInv'
<1> SUFFICES ASSUME IInv, Build PROVE IInv'
  OBVIOUS
<1> USE DEF Build, IInv
<1>1. TypeOK'
  BY PayloadsArePayloads DEF TypeOK
<1>2. BuiltInv' /\ DeviceInv' /\ RightInv'
  BY DEF BuiltInv, DeviceInv, RightInv
<1> QED
  BY <1>1, <1>2

\* What a signing call returns: nothing, or one signature; over what was built only
\* with the HD path; and that one when nothing is amiss.
LEMMA SignReturns ==
  ASSUME TypeOK, Sign, payload # ForeignPayload
  PROVE  /\ \/ signature' = NoSignature
            \/ \E s \in [by : Keys, over : Payloads] : signature' = {s}
         /\ \A s \in signature' : s.over = payload => s.by = KeyOf(ledger, HdPath)
         /\ ~Met => signature' = {Signature(KeyOf(ledger, HdPath), payload)}
<1>1. payload \in Payloads /\ ledger \in Ledgers /\ KeyOf(ledger, HdPath) \in Keys
  BY KeysAreKeys DEF TypeOK
<1>2. CASE signature' = {Signature(KeyOf(ledger, HdPath), payload)}
  BY <1>1, <1>2, SignaturesAreSignatures
<1>3. CASE Met /\ signature' = NoSignature
  BY <1>3 DEF NoSignature
<1>4. ASSUME Met, NEW path \in Paths,
             signature' = {Signature(KeyOf(ledger, path), ForeignPayload)}
      PROVE  /\ \E s \in [by : Keys, over : Payloads] : signature' = {s}
             /\ \A s \in signature' : s.over # payload
  BY <1>1, <1>4, KeysAreKeys, PayloadsArePayloads, SignaturesAreSignatures
<1> QED
  BY <1>2, <1>3, <1>4 DEF Sign

LEMMA PrintOrSignStep == IInv /\ PrintOrSign => IInv'
<1> SUFFICES ASSUME IInv, PrintOrSign PROVE IInv'
  OBVIOUS
<1>1. CASE ~generate /\ CallFails
  BY <1>1, CallFailsStep DEF PrintOrSign
<1>2. CASE ~generate /\ Sign /\ pc' = "verify"
  <2>1. pc = "sign" /\ payload = Payload(example, key) /\ payload # ForeignPayload
    BY <1>2, PayloadsArePayloads DEF PrintOrSign, IInv, BuiltInv, TypeOK
  <2>2. /\ signature' = NoSignature \/ \E s \in [by : Keys, over : Payloads] : signature' = {s}
        /\ \A s \in signature' : s.over = payload => s.by = KeyOf(ledger, HdPath)
        /\ ~Met => signature' = {Signature(KeyOf(ledger, HdPath), payload)}
    BY <1>2, <2>1, SignReturns DEF IInv
  <2>3. leftBehind' \in SUBSET Ledgers /\ disturbed' \in BOOLEAN
    BY <1>2 DEF Sign, MayLeave, Met, IInv, TypeOK
  <2>4. /\ UNCHANGED <<example, generate, payload, ledger, runs, key, asked>>
        /\ signer' = ledger /\ disturbed' = Met
    BY <1>2 DEF PrintOrSign, Sign
  <2>5. TypeOK'
    BY <1>2, <2>2, <2>3, <2>4 DEF IInv, TypeOK
  <2>6. BuiltInv'
    BY <1>2, <2>1, <2>4 DEF BuiltInv
  <2>7. DeviceInv'
    BY <1>2, <2>1, <2>2, <2>4 DEF IInv, DeviceInv
  <2>8. RightInv'
    BY <1>2, <2>1, <2>2, <2>4 DEF IInv, RightInv, Met
  <2> QED
    BY <2>5, <2>6, <2>7, <2>8 DEF IInv
<1>3. CASE generate
  <2>1. TypeOK'
    BY <1>3, SignaturesAreSignatures DEF PrintOrSign, IInv, TypeOK
  <2>2. BuiltInv' /\ DeviceInv' /\ RightInv'
    BY <1>3 DEF PrintOrSign, IInv, BuiltInv, DeviceInv, RightInv
  <2> QED
    BY <2>1, <2>2 DEF IInv
<1> QED
  BY <1>1, <1>2, <1>3 DEF PrintOrSign

LEMMA VerifyStep == IInv /\ Verify => IInv'
<1> SUFFICES ASSUME IInv, Verify PROVE IInv'
  OBVIOUS
<1> USE DEF Verify, IInv
<1>1. TypeOK'
  BY DEF TypeOK
<1>2. BuiltInv' /\ DeviceInv'
  BY DEF BuiltInv, DeviceInv, Verifies
<1>3. generate /\ pc' = "panic" => example.expected = "zeros"
  <2>1. example.expected \in {"zeros", "speculos"}
    BY DEF TypeOK, Examples, Transfer, BatchAllActions, SignNep413Message,
           SignNep366DelegateAction, SignNep366DelegateActionSimple, Example
  <2> QED
    BY <2>1 DEF BuiltInv, RightInv, Verifies, ExpectedSignature
<1>4. RightInv'
  BY <1>3 DEF RightInv, BuiltInv, Verifies
<1> QED
  BY <1>1, <1>2, <1>4

LEMMA OthersStep ==
  ASSUME IInv, Disturb \/ \E l \in Ledgers : Replug(l)
  PROVE  IInv'
<1> USE DEF Disturb, Replug, Running, IInv
<1>1. TypeOK'
  BY DEF TypeOK
<1>2. BuiltInv' /\ DeviceInv'
  BY DEF BuiltInv, DeviceInv
<1>3. /\ disturbed' = (disturbed \/ Running)
      /\ UNCHANGED <<pc, example, generate, key, payload, signature>>
  OBVIOUS
<1>4. pc \in {"build", "sign", "verify"} => disturbed' = TRUE
  BY <1>3 DEF TypeOK
<1>5. ~disturbed' => ~disturbed
  BY <1>3 DEF TypeOK
<1>6. RightInv'
  BY <1>3, <1>4, <1>5 DEF RightInv
<1> QED
  BY <1>1, <1>2, <1>6

LEMMA StutterStep == IInv /\ UNCHANGED vars => IInv'
  BY DEF IInv, TypeOK, BuiltInv, DeviceInv, RightInv, vars

LEMMA NextIInv == IInv /\ [Next]_vars => IInv'
  BY RunStep, GetKeyStep, BuildStep, PrintOrSignStep, VerifyStep, OthersStep,
     StutterStep DEF Next, AllRun

\* The invariant of the three theorems.
LEMMA IInvHolds == Spec => []IInv
  BY InitIInv, NextIInv, PTL DEF Spec

-----------------------------------------------------------------------------
\* Keys, payloads and signatures of ClientFlow keep their types.
THEOREM ClientTypeCorrect == Spec => []TypeOK
<1>1. IInv => TypeOK
  BY DEF IInv
<1> QED
  BY <1>1, IInvHolds, PTL

\* An example that succeeds has had its key and its signature from one device, for
\* the HD path it asked for, whatever was plugged, left behind or late.
THEOREM OkCorrect == Spec => []OkMeansOneDevice
<1>1. IInv => OkMeansOneDevice
  <2> SUFFICES ASSUME IInv, pc = "ok", ~generate
               PROVE  /\ asked = signer
                      /\ key = KeyOf(signer, HdPath)
                      /\ payload.key \subseteq {KeyOf(signer, HdPath)}
    BY DEF OkMeansOneDevice
  <2>1. /\ signature = {Signature(key, payload)}
        /\ payload = Payload(example, key)
        /\ key.ledger = asked
        /\ \A s \in signature : s.over = payload => s.by = KeyOf(signer, HdPath)
    BY DEF IInv, BuiltInv, DeviceInv, Verifies
  <2>2. key = KeyOf(signer, HdPath)
    BY <2>1 DEF Signature
  <2>3. asked = signer
    BY <2>1, <2>2 DEF KeyOf
  <2>4. payload.key \subseteq {key}
    BY <2>1 DEF Payload
  <2> QED
    BY <2>2, <2>3, <2>4
<1> QED
  BY <1>1, IInvHolds, PTL

\* While the device stays, is left alone, and holds nothing of earlier calls, no
\* example panics that signs; and none that generates, but over a placeholder.
THEOREM NoPanicCorrect == Spec => []UndisturbedNeverPanics
<1>1. IInv => UndisturbedNeverPanics
  BY DEF IInv, RightInv, UndisturbedNeverPanics
<1> QED
  BY <1>1, IInvHolds, PTL
============================================================================
