# near-ledger: specifications, model checking and proofs

This directory holds TLA+ specifications of the crate `near-ledger` (paths
below are those of the repository: `src/lib.rs`, `src/ble.rs`, ...), the TLC
configurations that check them on small instances, and proofs that TLAPS checks
for every value of the constants.

`near-ledger` is the host side of a Ledger hardware wallet that runs the NEAR
app. It asks the device for public keys and signatures, over USB HID (blocking
functions) or over Bluetooth LE (async functions, feature `ble`). The host keeps
little state. What makes it hard is that a signature takes several exchanges
with a device that has state of its own, is used by others as well, may be
slow, declined, unplugged or restarted, and that the BLE transport is shared by
reference between tasks.

## Inventory

| Component | Source | State | Operations | What makes it correct |
|---|---|---|---|---|
| Signing | `src/lib.rs` 501-595, 120-128; `src/ble_api.rs` 279-375 | none between calls; the chunk loop (`i`, `data`); in the device, the chunks piled up | `sign_transaction`, `sign_message_nep413`, `sign_message_nep366_delegate_action` and BLE twins, over `send_payload_apdus[_ble]` | the device signs what was asked; the outcome agrees with what was signed; every call returns |
| print_apdus | `src/print_apdus.rs` | none | `transaction`, `message_nep413`, `nep366_delegate_action` | prints what signing would send |
| BLE framing | `src/ble.rs` 145-221 | none | `serialize`, `try_from` of the two packets | parsing undoes serializing; packets fit |
| BLE transport | `src/ble.rs` 376-554 | `mtu_size`, the notification stream, one lock each; the exchange's locals | `exchange`, over `send_framed`, `recv_framed`, `write`, `next_notification` | an exchange gets its own answer, or an error; it returns |
| BLE discovery, connection | `src/ble.rs` 20-105, 252-374, 484-534 | in the Bluetooth stack: scans, links, subscriptions | `list_ledgers`, `new`, `connect`, `infer_mtu` | a connect that nobody hinders succeeds, with the `mtu_size` of its device; no scan is left on |
| USB HID transport | `src/lib.rs` 456-461, crate `ledger-transport-hid` | the open device, for one call | `get_transport` | |
| Opening the app | `src/lib.rs` 185-313; `src/ble_api.rs` 67-180 | none; in the device, the app that runs | `open_near_application[_ble]` | Ok only if the NEAR app runs |
| Single-exchange calls | `src/lib.rs` 65-87, 149-183, 353-454; `src/ble_api.rs` 34-65, 182-277 | none; on a reused transport, the answers nobody has taken | `get_version`, `get_public_key`, `get_wallet_id` and BLE twins | a call returns what the device answered to it; a key is a key |
| Examples | `examples/` | none | twenty programs that sign, seven that ask or open | key, payload and signature belong together |
| Error texts, logging | `src/lib.rs` 65-87, 130-142; `src/ble.rs` 121-143 | none | | |

How they interact. The examples call the signing functions and
`get_public_key`; these, and the opening and single-exchange calls, all go
through `exchange` of a transport. Over HID each call opens the device for itself;
over BLE the caller passes a `&TransportBle`, made by `connect`, which several
tasks may share. `exchange` cuts the command into packets, and takes
notifications from one stream, behind a lock that is held for one notification
at a time.

The behaviours that a test hardly reaches are the `hazards` of `PROJECT.json`,
each at the line where it bites and with the properties that watch it:
interleaved calls, a call that ends in the middle of the loop and leaves its
chunks in the app, answers lost after the device has signed, answers that come
after the timeout, packets of others in the stream, dropped futures, connections
and scans that a failed call leaves behind, devices exchanged between two calls,
boundaries of chunk and packet sizes, and waits that might not end.

## Modules

| Module | What it is |
|---|---|
| `SignPayload` | the chunk loop, its callers, and the NEAR app |
| `SigningService` | abstract: what a caller of the signing functions relies on |
| `BleFraming` | the packets, as operators on sequences of bytes |
| `BleTransport` | `exchange` for several tasks, the device and the link |
| `ApduChannel` | abstract: what `exchange` promises to one caller at a time |
| `BleChannel` | `BleTransport` as an `ApduChannel` |
| `BleConnect` | `list_ledgers`, `new`, `connect` and `infer_mtu`, await by await |
| `OpenApp` | `open_near_application` over both transports, the device and its user |
| `AppCalls` | the calls to the NEAR app, one after the other, on an `ApduChannel` |
| `ClientFlow` | the signing examples, on the promise of `SigningService` |
| `MC...` | the small instance of the module it is named after |
| `...Proofs` | the theorems about the module it is named after |

    ClientFlow           key, payload, signature of an example
       |  promise of
    SigningService  <==implements==  SignPayload      several callers, one app
                                     AppCalls, OpenApp
                                        |  extends (AppCalls)
                                     ApduChannel  <==implements==  BleTransport (BleChannel)
                                                                      |  extends
                                     BleConnect ---- extends ----  BleFraming

In `SignPayload`, `OpenApp` and `AppCalls` a transport may hold answers that an
earlier exchange has given up on, and an exchange takes the oldest one. `SignPayload`
and `OpenApp` have several callers, each with a transport of its own, which holds
late answers of calls of the same kind (signing, or opening). `AppCalls` has one
caller and mixes the kinds. The chunk loop is in `SignPayload` byte by byte and in
`AppCalls` as a number of chunks.

### SignPayload

One action per step of the code between two points where something else may
happen. `SendPayloadApdus` (HID, where `get_transport` may fail at once) and
`SendPayloadApdusBle` begin a call; the three entry points differ in the
instruction only and appear as the requests that may be passed. `SendChunk` is
the part of `transport.exchange(&command)` up to the device, which answers;
`ReceiveOk`, `ReceiveError`, `ExchangeFails` (the device has handled the chunk) and
`SendFails` (it has not seen it) are the arms of the `match` after it, the first two
with the first answer on the transport; `UnableToProcess` is the error behind the loop; `Abandon` is a thread that
dies or a future that is dropped at its await. `index` is `i`; chunks, count
and last-chunk flag are operators of the request, as in the code (`Data`,
`ChunksCount`, `Chunk`, `IsLastChunk`, `ChunkCommand`). The bytes of an HD path
level are computed by `LevelBytes` (big endian, the hardened bit in the top
byte), not assumed. `PrintPayloadApdus` is the copy of the loop in `print_apdus.rs`
and is written from there: it shares no operator with the loop but the bytes of the
HD path, so that a copy that is changed alone shows.

`answers` holds what the device has answered on the transport of a caller and no
exchange has taken. A call that fails or is dropped leaves its answer there; what the
next call finds (`LeftFor`) is any run of these answers, since a link that is made anew
or a device that is opened again loses the ones that were reported, and a lost one
never comes. As the device answers in order, what is left comes first. The two steps
of an exchange also stand for an answer that is under way when the next call begins.

The NEAR app is external and is modelled from what the host relies on: chunks of
one instruction pile up, the one with `P1_SIGN_NORMAL_LAST_CHUNK` is signed, a
refusal clears the pile, and so does leaving the app (`AppRestarts`). A signature
is known by what it was made over. History variables: `sent` and `signed`, of the
current or last call of each caller; `torn`, the callers that did not have the
app to themselves, because another's chunk arrived in the middle of their session
or because they found another's chunks there; and `late`, the callers whose call met
an answer to an earlier one. The code can see to neither: it has no way to mark a
first chunk, nor to tell whose answer it takes. Hence the properties about what is
signed speak of callers outside `torn` and `late`, and what an outcome says of the
device holds for callers outside `late`, torn or not. What holds of all of them is
what the loop itself sees to.

| Property | Says |
|---|---|
| `SignedIsWhatWasAsked` | a call outside `torn` and `late` has its own HD path and payload signed, all of it and nothing more |
| `AppHoldsWhatWasSent` | in the middle of such a call, the app holds the prefix of the data that the loop has sent |
| `OutcomeAccountsForSignature` | no call makes two signatures, and "Unable to process request" means none was made; unless a late answer was on the transport, Ok carries the one signature made, and a status error means none was made, torn or not |
| `SentInSyncWithPrinted` | what is sent is what `print_apdus` prints, in that order |
| `UnableMeansEmpty` | "Unable to process request" only for a request without bytes |
| `LoopKeepsCount` | the strengthening that makes the first three inductive: what is sent, what is signed and what is on the transport at each place of the loop |
| `ImplementsService` | the loop implements `SigningService`, in which only a call that ended without its answer, or was late itself, makes the next one of its caller late |
| `EveryCallReturns` | liveness |

### BleFraming and BleTransport

Packets are sequences of bytes, because the code cannot tell an initial packet
from a subsequent one otherwise than by what it expects. `BleFraming` holds
`serialize` and `try_from`, how far the data of a packet goes, and the
`mtu_size` that `infer_mtu` accepts from the reply of the device.

In `BleTransport` each caller is at one of the awaits of `exchange`: a write of
the initial or of a subsequent packet (`WriteInitial`, `WriteSubsequent`,
`WriteFails`), or `next_notification`, for the initial packet (`ReceiveFirst`)
or the rest (`ReceiveRest`). `Lock` is the await of the stream's lock: `readers`
is the queue of the lock (tokio's Mutex is fair), whose head holds it; the lock is
given back with each notification. `Timeout` and `StreamEnded` are the other two
results of `next_notification`; `Cancel` drops the future at any await. The
length of a command is cut to 16 bits, as the code does, behind the check that refuses
longer ones. The bytes of `recv_framed` are kept as they are in the code: `data_length` from bytes
3 and 4 of whatever packet comes first, payloads appended in the order of
arrival, the sequence index not looked at, the buffer truncated.

The device is external: it collects the packets of a command, answers commands
in order (`DeviceAnswers`, at any time, as the user has to consent), and notifies
the packets of the answer (`DeviceNotifies`). The link may lose a notification,
deliver one of another tag or an empty one (`Stray`), and go down
(`Disconnect`). The history variable `alone` has the callers whose exchange began
on a quiet transport (nothing of earlier exchanges still to come) and was
neither overlapped nor hit by a loss.

| Property | Says |
|---|---|
| `OwnAnswer` | such an exchange, if Ok, has the answer to its own command, byte for byte, with strays in between or not, whatever failed before |
| `DeviceInSync` | while such an exchange sends, the device has the bytes up to `offset` and expects the next index; what it is to handle is the command, whole |
| `OkLeavesQuiet` | such an exchange, if it returns Ok, leaves nothing of its answer in the stream or still to come: the next one finds the transport quiet again |
| `SendMovesOn` | a write ends the exchange or moves its offset on, within the command, and `recv_framed` begins when all of the command is written |
| `SeqIndexNeverWraps` | the u16 sequence index is at most a third of the length, because `infer_mtu` refuses sizes without room |
| `PacketsFitMtu` | no packet is larger than `mtu_size` |
| `ReceiversReturn` | liveness: an exchange that has written its command returns, also while writes of other tasks hang for ever |
| `EveryExchangeReturns` | liveness: every exchange returns if writes come back |
| `AnswersBelongToCalls` | (violated) every Ok is the answer to the command of that exchange |

### ApduChannel and BleChannel

`ApduChannel` is what the calls of the library may count on, for one caller at a
time: a command arrives whole or not at all, the device answers commands in the
order of their arrival, and each exchange takes the first answer that none has
taken. An exchange that gives up leaves its answer to a later one. Nothing in the
code marks a transport as out of step, and nothing in the channel does.

`BleChannel` maps `BleTransport` onto it: `queue` is what the device is to handle,
`answers` are the packets with the APDU tag, in the stream or still to be
notified (`AnswersToCome`). They are picked out by their rank among such packets
(`Rank`, `ApduAt`), which can be reasoned about without recursion;
`MCBleChannel` assumes, and TLC checks, that this is `SelectSeq`. The mapping needs one task, and answers of one packet each: an exchange
that gives up in the middle of a longer answer leaves its rest, which is no answer
(see the findings). With an `mtu_size` of 71 or more, all answers of
the NEAR app fit; a device that falls back to 20 sends its signatures in four packets.

| Property | Says |
|---|---|
| `ImplementsChannel` | every step of `exchange`, of the device and of the link, with strays, losses, timeouts and dropped futures, is a step of the channel or none |

### BleConnect

Each task is at one of the awaits of `list_ledgers` (`GetAdapters`, `StartScan`,
`Sleep`, `StopScan`, `List`) or of `connect` (`Check`, `Link`, `Discover`,
`Subscribe`, `OpenStream`, `AskMtu`, `ReceiveMtu`); `new` is the one followed by the
other, for the first Ledger of the list. `IsLedger` is the test of name and
services, `FindPair` the choice of the two characteristics: by the uuid of a known
Ledger service, or else by the property flags. A BTreeSet is sorted, so "the first"
is by uuid (`Precedes`). `StackFails` and `Cancel` end a call at any await, and the
stack may have done its part all the same; nothing is undone, as in the code.

External are the Bluetooth stack (`scanning`, `known`, `up`, `subscribed`, which all
tasks share) and the devices: on or off, slow or silent, each with the pair of
characteristics at which it really speaks. A stream has the notifications since it
was made, of all subscriptions of its peripheral, so that a task sees replies to
others. The history variable `hindered` has the tasks whose call met a failure of
the stack, was dropped, or had a device that was off or too slow.

| Property | Says |
|---|---|
| `UnhinderedConnectSucceeds` | a connect to a device that speaks at its Ledger service (or at the only flagged pair) fails for no reason but one of those: never because of a link, a subscription or notifications that others left |
| `MtuIsTheDevices` | the `mtu_size` of a transport is the one its device replied, floor included, whatever else was notified |
| `ScanLeftOnlyByFault` | a scan is left on by failures and dropped futures only |
| `EveryCallReturns` | liveness |
| `NewTakesAvailable` | (violated) `new` does not fail on an absent device while a listed one is there |

### OpenApp

A call goes through three exchanges, each of them two steps (`AskName`,
`ReceiveName`, ...), with the second of sleep (`Wake`) before the last.
`TransportFails` is an error of `get_transport` or of an exchange at any of them,
before the device has the command or after. In the latter case, and after `Abandon`,
the answer stays in `answers`, and a later exchange on the transport finds it there, or
not (`LeftFor`, as in `SignPayload`); the callers to whom this has happened in their
current or last call are `late`. All status words but `0x9000` are one, since the code
returns them all as an `APDUExchangeError`.
`AfterName` is the `match` on the name. The name in the reply may be malformed,
that is, shorter than its length byte says: the HID function panics then, the BLE
function returns an error.

The device is external: an app or the dashboard (`"BOLOS"`) runs, an app that is
told to quit is `closing` for a while, and only the dashboard opens an app. The
user opens and leaves apps and locks the device at any time. Time is abstracted
to what matters: `covered` has the callers whose second began while the present
closing was under way; unless the device is `slow` it has closed the app when such a
second is over. The history variables
say of the current or last call of each caller: which commands reached the
device, whether the NEAR app ran at some time (`nearRan`) or all the time
(`nearStayed`), and whether the call met a refusal, a failure, a lock or another
actor (`hindered`).

| Property | Says |
|---|---|
| `OkMeansNearRan` | a call outside `late` returns Ok only if the NEAR app ran at some time during it |
| `NoOpIfNearRuns` | such a call neither quits nor opens again a NEAR app that runs all the time |
| `UnhinderedCallOpens` | on a device that is not `slow`, such a call that is not hindered does not fail: quit, second and open are in an order that works from every app |
| `EveryCallReturns` | liveness |
| `MirrorsHid` | (violated) the same replies have the same kind of outcome over both transports |

### AppCalls

A sequence of calls of any kind. `CallBle` goes on with the transport of the call
before; `CallHid` opens the device anew (or fails to), which throws away the answers
that have been reported, but not those still to come. `SendCommand` is the beginning
of `exchange`, `ExchangeGoesOn` and `ExchangeDisturbed` what happens inside it (the
actions of `ApduChannel`), `ExchangeFailed`, `StatusError` and `StatusOk` the arms of
the `match` on its result, with `HandlePublicKey` for the key calls and the next
chunk for the signing calls. `Cancel` drops the future. An answer has a return code,
the form of its data (its length, and whether 32 bytes are a key), and the command
that it answers, which the code cannot see. The history variable `instep` says that no
exchange has given up since the transport was made.

| Property | Says |
|---|---|
| `InStepMeansOwn` | in step, each call returns what was made of the answer to its own command, to the last of its chunks if Ok, and leaves nothing behind, also when it ends in the middle of its chunks |
| `KeyCallsOnlyGetKeys` | in step or not, a key call returns a key that the device has made, and no bytes of something else |

### ClientFlow

`Run` starts an example that signs, with or without
`--speculos-test-generate`; then `GetKey`, `Build`, `PrintOrSign` and `Verify`
follow as in `get_key_sign_and_verify_flow`. The twenty programs of the repository
differ in what they have signed and in whether the expected signature in their source
is one of the app's tests or zeros; the model has one of each kind (five). A transaction
or a delegate action names the key in its `public_key`, a message names none
(`Payload`). The keys that some actions carry are made from the key as a seed
(`derive_secp256k1_public_key`, `SecretKey::from_seed`), are nobody's to sign with, and
belong to what the example builds.

The two calls to the device open it each for itself: `Replug` exchanges it at any time,
and `Disturb` lets others use the app. `CallFails` is a call that returns an error, or a
user who stops the program; it may leave chunks in the app, or a command that the device
has yet to answer (`leftBehind`), as `SignPayload` shows, and so may others. A call that
finds its device disturbed or with something left behind (`Met`) does not get more than
`SigningService` promises to torn and late callers: it may get another key of the
device, a signature over something foreign, or what is no signature at all. History
variables: `asked` and `signer`, the devices that answered the two calls, and
`disturbed`, whether during the run the device was changed, the app was used by others,
or a call met what was left behind.

| Property | Says |
|---|---|
| `OkMeansOneDevice` | a run that signs and succeeds had key and signature from one and the same device, for the HD path of the example, and its payload names no other key: whatever was exchanged, joined or late in between is noticed |
| `UndisturbedNeverPanics` | a run that signs panics only if it was disturbed, or met what an earlier one had left behind; with `--speculos-test-generate`, only over a placeholder of zeros |

## Runs

| Run | Instance and what it shows |
|---|---|
| `sign_payload` | a HID and a BLE caller, 3 calls, chunks of 3 bytes, requests of 0, 3 and 7 bytes: no chunk, one full chunk, two and a remainder; answers that are lost or come too late. All properties of `SignPayload`, with the refinement and liveness |
| `ble_transport` | two tasks, 3 exchanges, one stray and one loss; mtu 6 (three packets for a command, two for an answer) or 3, refused in favour of 20 (one packet); one command over the limit: the safety properties but `OkLeavesQuiet` |
| `ble_transport_live` | two tasks, 2 exchanges, one stray, no loss, no symmetry, and answers of five bytes: three packets with mtu 6, so that what is taken for a part of the answer leaves a part behind. `EveryExchangeReturns`, `ReceiversReturn` and `OkLeavesQuiet` |
| `ble_transport_reuse` | one task, 2 exchanges, no faults of the link: `AnswersBelongToCalls` is violated, see below |
| `ble_channel` | one task, 3 exchanges, commands of one and three packets and one that is refused, a stray and a loss: `ImplementsChannel` |
| `ble_connect` | two tasks, 2 calls, two adapters and four peripherals (a Nano X with other services besides its own, a Ledger with an unknown service, a Stax without its write characteristic, a headset), one fault and one stray: all safety properties |
| `ble_connect_live` | one task, 2 calls, without symmetry: `EveryCallReturns` |
| `ble_connect_first` | one task, no faults: `NewTakesAvailable` is violated, see below |
| `open_app` | a HID and a BLE caller, 3 calls, one app besides NEAR, one step of the user, slow and quick devices, answers that come too late: all safety properties and `EveryCallReturns` |
| `open_app_mirror` | two calls, nothing that the user does: `MirrorsHid` is violated, see below |
| `app_calls` | 3 calls of any kind, signing calls of two and three chunks, a return code with a text and one without: both properties |
| `client_flow` | two runs of the five kinds of examples, two Ledgers that may be exchanged, two HD paths, leftovers of failed runs and of others: both properties |

The passing runs have between 12 thousand (`ble_channel`) and 2.8 million (`ble_transport`)
distinct states; each ends within a few minutes.

Bounds. `ChunkSize` is 250 in the code and 3 here: the properties depend on where
the boundaries fall, and the requests cover every case (no chunk, a full last chunk, a
remainder, a chunk in the middle); of the three instructions, each has a request. `U16Max` is 65535 in the code and 8 or 11 in the runs, so that a command can
be too long without a sequence of 65536 bytes; the proofs take it as any number
up to 65535. `MaxCalls` is 3 for exchanges and signing: one call to leave something
behind, one to meet it, and one that overlaps. It is 2 in `BleConnect`, where leaving
behind and meeting is what matters and the calls overlap as they like. `MaxStrays`
and `MaxLost` bound notifications that nobody asked for, and those that do not come:
one of each kind of stray (tag of another protocol, long and too short for a packet,
or empty) can be at any place. `MaxFaults` is 1: what a call leaves behind is the
work of one fault, and two tasks are there to find it. `MaxUserSteps` is 1: the user
leaves the app that was seen, or opens one where none was, or locks the device; the
other caller is another actor that quits and opens. `MaxRuns` is 2: one run to leave
something behind and one to meet it. All counters are compared with their bounds in guards
only, and the specifications stop in `AllReturned` (`AllRun`), so deadlock is
checked. The proofs have no bound.

Fairness. `FairSpec` of `SignPayload`, and of `OpenApp`, asks that a caller in a call
goes on: an exchange ends, with an answer or with an error. Over HID that is up to the
crate beneath; over BLE it is what `EveryExchangeReturns` shows. `OpenApp` asks
besides that an app told to quit closes, on a device that is not slow, since the
second of sleep is not over before. `FairSpec` of `BleTransport` asks of each task
only what the code and the runtime see to: a free lock is handed on in turn, and a
wait for a notification ends with one, or with the timeout of `next_notification`. It
asks nothing of writes: `write` has no timeout in the code. That writes come
back is the hypothesis `WritesComeBack` of `EveryExchangeReturns`, and
`ReceiversReturn` shows what holds without it. `FairSpec` of `BleConnect` asks that
an await of the stack comes back, with success or not. Nothing is asked of
devices, which need never answer, and nothing of the link. The timeout is per
notification: these properties hold because the strays are finitely many,
and with strays for ever, less than five minutes apart, they would not.

## Findings

### Late answers and the reuse of a transport

`src/ble_api.rs:3` says that a `TransportBle` "should be reused across calls".
`exchange` takes the first notification with the APDU tag as the answer to the
command it has just sent (`src/ble.rs:440-449`). If an exchange ends with
`Timeout` and the device answers later, the answer stays in the stream, and the
next exchange on the same transport returns it as its own, with Ok. Run
`ble_transport_reuse` has the trace: one task, a link without any fault, a
device that takes longer than five minutes. The same happens to the exchange that
follows one whose future was dropped, and to exchanges that overlap.

What this means for the calls is in `AppCalls`: the key calls check the
length of the data and take nothing but a key (`KeyCallsOnlyGetKeys`), possibly that of
another HD path; `get_version` and the signing calls take whatever data comes with
`0x9000` (`src/ble_api.rs:56`, `src/ble_api.rs:361`), so that a late answer can be
returned as "an `Signature` (bytes)" (`src/lib.rs:472`).

For signing it means that Ok can carry the signature of an earlier request, that a
status error does not say that nothing was signed, and that a chunk which was refused
can pass for accepted, so that the last chunk is signed alone. `SignPayload` sets such
calls apart as `late`: without `c \notin late`, TLC finds
`OutcomeAccountsForSignature` violated in the instance of `sign_payload`, after
seven states. For opening it means that Ok can follow on the name of an app that is no longer
there, and that a NEAR app that runs can be quit for the name of another, where
`src/ble_api.rs:145` says "No-op if NEAR app is already open": without `\ late`,
`OkMeansNearRan` and `NoOpIfNearRuns` are violated in the instance of `open_app`, after
eight and nine states. The signing examples, which open the device anew, notice
(`OkMeansOneDevice`): they verify what they get.

### The first available device

`src/ble.rs:296` says that `new` connects "to the first available Ledger device". It
takes the first one listed (`src/ble.rs:299`), and the list has the devices that the
stack remembers, present or not. With a remembered Ledger that is switched off in first
place, `new` fails although another one is there. Run `ble_connect_first` has the
trace.

### A malformed app name

`src/ble_api.rs:1` calls the BLE functions "mirroring the USB HID API". For a
reply to the question for the app's name that is shorter than its length byte
says, `running_app_name_ble` returns an error (`src/ble_api.rs:88-98`), while
`running_app_name` slices out of range and panics (`src/lib.rs:216-217`). Run
`open_app_mirror` has the trace.

### Placeholders for signatures

`README.md:101` of the repository says of all signing examples that
`--speculos-test-generate` "just generates APDUs". After them, the example verifies
its expected signature (`examples/common/lib.rs:250`), which is all zeros in sixteen
of the twenty examples: those end in a panic. `UndisturbedNeverPanics` says that
these are the only ones that do.

## Proofs

TLAPS checks these for all callers, requests, chunk sizes, commands, answers, mtu
replies, strays, devices and bounds that satisfy the ASSUMEs of the modules: requests
and commands are sequences of bytes, `ChunkSize` is in 1..255, `U16Max` is a positive
u16, an answer is a sequence of bytes whose length fits 16 bits, strays do not
carry the tag they would have to carry to be no strays, and `Peripherals` is finite,
so that a scan makes a list. Every property of every passing run is proved, except
the liveness properties. `ChannelCorrect` has the two further hypotheses of `BleChannel`, one
task and answers of one packet.

**SignPayloadProofs.** `TypeCorrect` is `TypeOK`; on the way, the bytes of an HD path
are bytes and every chunk makes a well-formed command. `SignatureCorrect`,
`AppInSyncWithLoop` and `OutcomeCorrect` are `SignedIsWhatWasAsked`,
`AppHoldsWhatWasSent` and `OutcomeAccountsForSignature`. None is inductive by itself.
The invariant `IInv` adds `LoopKeepsCount` (`CountCorrect`): how many chunks were sent
in each place of the loop, and which answers are on the transport: for a caller outside
`late`, the one that is awaited, and none that would make the next call late after a
call that returned with an answer of the device. Beneath it are
lemmas on chunks: a prefix of n whole chunks and the next chunk make a prefix of n+1,
and the chunk with the last-chunk flag completes the data. `PrintedCorrect` and
`UnableCorrect` add the commands sent, and that an empty request has no chunk.
`ServiceCorrect` is the refinement of `SigningService`: under `IInv`, each action maps
to one of its steps or a stutter. `ServiceIsEnough` goes the other way: the service alone,
whatever implements it, implies `SignedIsWhatWasAsked` and
`OutcomeAccountsForSignature`, so that nothing which `ClientFlow` builds on is lost in it.

**BleFramingProofs.** `InitialPacketRoundTrip` and `SubsequentPacketRoundTrip`: parsing
a serialized packet gives back its fields (`U16RoundTrip` is the lemma about the two
bytes). `PacketsReadBack`: the k-th packet of some data, parsed, takes the prefix
collected so far to the next one, and the last one completes it.

**BleTransportProofs.** `SendInv` says that `mtu_size` is more than 5
(`InferMtuFloor`) and that a caller in the loop has written at least 3 bytes per
packet after the first: `SeqIndexCorrect`, and `PacketSizeCorrect` with the round
trips. `TypeInv` adds the types of the rest, and that the queue of the lock has each
waiting task once and nobody else (`TransportTypeCorrect`). `SyncInv` adds, for the
caller that has the transport to itself, that the device has the prefix up to
`offset` and expects `seq_index` (`DeviceInSyncCorrect`); since no length beyond
`U16Max` gets past `Begin`, the cut of the length changes nothing (`LengthUncut`).

`SendMovesOnCorrect` needs no more than `SendInv`: from it, `PacketAdvances` says that a
packet has at least a byte of the command. It is what liveness of `send_framed` rests on, for
every command and not only for the short ones that TLC tries.

`OwnAnswerCorrect`, on top of `SyncInv`. The stream is followed
packet by packet: a function `M` counts, for every notification in it, how many packets
of the caller's answer are out (`Counts`); each notification is the next packet, or
none of an answer. `Follows` says that what the device still has to send begins where
the stream ends, and that the buffer of `recv_framed` is what the packets before the
stream make. Strays add a notification at the same count, `ReceiveRest` takes the next
packet, and the last one completes the answer by `PacketsReadBack`. Timeouts, dropped
futures and losses leave `alone` or end the exchange.

`OkLeavesQuietCorrect` is from the same invariant. An exchange that returns Ok has taken a
packet that completes the answer; no packet is superfluous (`PacketsLeast`), so it
was the last one; the count in the stream can then go no further (`CountsDone`), so what is left there
is none of an answer; and the device, if it can be reached at all (`DownInv`), has
nothing to send. With `Begin`, which counts an exchange among those that have the
transport to themselves if it finds it quiet, and `OwnAnswerCorrect`, this is what can be said
for the reuse of a transport: a task that is the only one, loses nothing and has had nothing but Ok
has its own answers. What happens to others is the first of the findings.

**BleChannelProofs.** `ChannelCorrect` is `ImplementsChannel`, the refinement of
`ApduChannel`. The invariant `ChannelInv` adds to the types: the task never waits for
a second packet, the device has the prefix up to `offset` also in an exchange that
others before it left behind (`TaskInv`, from `PacketFollowed`); and what the device
is to handle are commands, and every packet with the APDU tag in the stream or at the device is
the one packet of an answer (`StreamInv`). An action then either does a step of the channel or
leaves all of phase, command, outcome, queue and answers as they are: a write
that is not the last is none, the last one delivers the command, a notification
moves an answer from the device to the stream, which the channel does not see.
What that needs is how `AnswersIn` behaves when a stream gets a notification
(`AnswersInAppend`) and when its first one is taken (`AnswersInTail`). They go by the rank
of a packet; where an induction is called for, the least counterexample is
refuted (`NatMin`), since an induction theorem would need an operator for an argument.

**BleConnectProofs.** `ConnectInvCorrect` proves the invariant `IInv`, of which
`ConnectTypeCorrect`, `MtuCorrect`, `ScanCorrect` and `ConnectCorrect` are consequences.
Its parts: the types of what each task keeps and of the stack; per task, where it is
(`TaskInv`), that a scan is on only in the two awaits between its start and its stop as
long as there are no faults (`ScanInv`), that every mtu reply in its stream is the one of
its device (`OwnStream`), and what an unhindered connect to a usable device has reached
(`ReachInv`): the link from `Discover` on, the subscription from `OpenStream` on, and, in
`ReceiveMtu`, a request that the device has not replied to yet or a reply in the stream.
That the pair found is the one the device speaks at is `PairOfUsable`; it needs that a
set of uuids has a first element (`FirstUuid`).

**OpenAppProofs.** `OkCorrect`, `NoOpCorrect`, `UnhinderedCorrect` and
`OpenAppTypeCorrect`. What a call outside `late` takes is the answer to the command that it
has just sent, because the transport held nothing when it was sent (`AnswersStep`). The
invariant has, besides the types, a part for each property, about such calls: `NearInv`
(an answer that will lead to Ok implies `nearRan`), `StayInv` (a call during which the
NEAR app stays gets no further than its name) and `ReadyInv` (for each place of an
unhindered call, the device is as the next step wants it; in particular, who sleeps is
covered by its second as long as the app closes).

**AppCallsProofs.** `InStepCorrect`, `KeysCorrect` and `AppCallsTypeCorrect`. `ExchangeOK`
ties the place of the call to the phase of the channel and its command to the chunk;
`InStepInv` says that, in step, at most one command or answer is on its way, that it is
the one of the exchange that waits, and that an outcome is the answer to the command.

**ClientFlowProofs.** `OkCorrect`, `NoPanicCorrect` and `ClientTypeCorrect`. `BuiltInv`
says that from `PrintOrSign` on the payload is the one built from `key`; `DeviceInv` that
`key` is of the device asked, and that a signature over the payload is of the device that
signed and for the HD path (nobody else has it signed); `RightInv` that in an undisturbed
run key and signature are those of the device that is plugged in. Success is then
a signature over the payload by `key`, so that both devices and both paths are the same.

Only model-checked: the liveness properties (the three `EveryCallReturns`,
`EveryExchangeReturns` and `ReceiversReturn`), because fairness is out of the prover's
reach (`SigningService` and `ApduChannel` are safety specifications); that `Apdus`
is `SelectSeq`, whose recursion would need an induction over data; and the three violated
properties.

## Not modelled

- Texts of errors and the formatting of logs, apart from the choice of a text for a
  return code (`RetcodeError`).
- The cryptography of signatures and keys: a signature is known by its key and by
  what it is over, and whether 32 bytes are a key is a kind of answer.
- Borsh encoding: a payload is a sequence of bytes in `SignPayload`, and in
  `ClientFlow` the actions and the keys in it.
- `cla` and `p2` of commands, which are constants.
- The framing of USB HID, in the crate `ledger-transport-hid`: `get_transport` and
  `exchange` succeed or fail. That a HID exchange keeps no answer of an earlier one that
  has been reported before the device was opened is an assumption of `AppCalls` about
  that crate.
- The seven examples that only ask or open: straight lines of calls that the other
  modules model.
- Build files and continuous integration: no logic of the system.
- Real time: a timeout may happen whenever there is nothing to take, a second of sleep
  is what `covered` makes of it.
- The drop of a `TransportBle` (there is no `Drop`), and several transports to one
  device after they were handed out: `BleConnect` ends with the transport, and
  `BleTransport` begins with one, quiet or not.

## What could come next

1. `AppCalls` on `BleTransport` itself, for answers of several packets, in which
   an exchange that gave up leaves half an answer.
2. Several tasks in `AppCalls`, each call a sequence of exchanges on one shared
   transport, and `open_near_application_ble` among them.
3. A channel in which an answer may be cut short, so that `ImplementsChannel`
   can drop the hypothesis of one packet per answer, and several tasks.
