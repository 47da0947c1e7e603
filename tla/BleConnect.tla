----------------------------- MODULE BleConnect -----------------------------
(***************************************************************************)
(* How a TransportBle comes about (src/ble.rs): list_ledgers scans with    *)
(* every adapter in turn and lists the Ledgers it knows of, new connects   *)
(* to the first one listed, and connect brings the link up, picks the two  *)
(* characteristics of the Ledger service, subscribes to one of them, and   *)
(* asks for the mtu_size over the other.                                   *)
(*                                                                         *)
(* Every await may fail, and every future may be dropped.  Nothing is      *)
(* undone then: a scan, a link or a subscription may be left behind, and   *)
(* the next call, of this task or of another one, finds it.                *)
(*                                                                         *)
(* The Bluetooth stack and the devices are external.  A stream has what is *)
(* notified after it was made, of every subscription of its peripheral.    *)
(***************************************************************************)
EXTENDS BleFraming, FiniteSets

CONSTANTS
  Tasks,            \* tasks that list and connect
  Peripherals,
  NAdapters,        \* adapters, counted from 1
  AdapterOf,        \*   and which of them may come to know a peripheral
  Advertised,       \* of each peripheral: its local name and its services
  Characteristics,  \* of each peripheral: its characteristics
  Speaks,           \* of each peripheral: the uuids at which it listens and talks
  MtuReply,         \* of each peripheral: the reply to MTU_COMMAND_TAG
  Strays,           \* notifications that are no such reply
  Cached,           \* peripherals that the stack knows from before
  MaxCalls,         \* bounds: calls,
  MaxFaults,        \*   failures of the stack, dropped futures and lost devices,
  MaxStrays         \*   and stray notifications

\* The fields d1 and d3 of a uuid and byte 1 of d4; the rest is the same in all
\* that matter here.  Uuids are ordered as BTreeSet orders them.
Uuid == [d1 : Nat, d3 : Nat, d4 : Nat]
Precedes(u, v) ==
  \/ u.d1 < v.d1
  \/ u.d1 = v.d1 /\ u.d3 < v.d3
  \/ u.d1 = v.d1 /\ u.d3 = v.d3 /\ u.d4 < v.d4

LedgerUuid(d3) == [d1 |-> 332805120, d3 |-> d3, d4 |-> 0]
NANO_X_SERVICE_UUID               == LedgerUuid(4)
STAX_SERVICE_UUID                 == LedgerUuid(24580)
FLEX_SERVICE_UUID                 == LedgerUuid(12292)
NANO_GEN5_SERVICE_UUID            == LedgerUuid(32772)
NANO_GEN5_BOOTLOADER_SERVICE_UUID == LedgerUuid(36868)
LEDGER_SERVICE_UUIDS ==
  { NANO_X_SERVICE_UUID, STAX_SERVICE_UUID, FLEX_SERVICE_UUID,
    NANO_GEN5_SERVICE_UUID, NANO_GEN5_BOOTLOADER_SERVICE_UUID }

IsLedgerServiceUuid(uuid)     == uuid \in LEDGER_SERVICE_UUIDS
NotifyUuidForService(service) == [service EXCEPT !.d4 = 1]
WriteUuidForService(service)  == [service EXCEPT !.d4 = 2]

Characteristic == [uuid : Uuid, service : Uuid, properties : SUBSET {"WRITE", "NOTIFY"}]

\* Names stand for the names that start with them.
LEDGER_NAMES == {"Nano X", "Nano S Plus", "Stax", "Flex", "Ledger"}

ASSUME PeripheralsAssumption ==
  /\ NAdapters \in Nat
  /\ IsFiniteSet(Peripherals)
  /\ AdapterOf \in [Peripherals -> Nat \ {0}]
  /\ Advertised \in [Peripherals -> [name : STRING, services : SUBSET Uuid]]
  /\ Characteristics \in [Peripherals -> SUBSET Characteristic]
  /\ \A p \in Peripherals :
       \A c, d \in Characteristics[p] : c.uuid = d.uuid => c = d
  /\ Speaks \in [Peripherals -> [write : Uuid, notify : Uuid]]
  /\ Cached \subseteq Peripherals
ASSUME MtuReplyAssumption ==
  /\ MtuReply \in [Peripherals -> Seq(Byte)]
  /\ \A p \in Peripherals :
       MtuReply[p] # <<>> /\ CommandTag(MtuReply[p]) = MTU_COMMAND_TAG
ASSUME StraysAssumption ==
  /\ Strays \subseteq Seq(Byte)
  /\ \A s \in Strays : s = <<>> \/ CommandTag(s) # MTU_COMMAND_TAG
ASSUME BoundsAssumption == MaxCalls \in Nat /\ MaxFaults \in Nat /\ MaxStrays \in Nat

-----------------------------------------------------------------------------
(* is_ledger, and the choice of characteristics.                           *)

IsLedger(p) ==
  \/ Advertised[p].name \in LEDGER_NAMES
  \/ \E svc \in Advertised[p].services : IsLedgerServiceUuid(svc)
Ledgers == {p \in Peripherals : IsLedger(p)}

\* None, or Some(the first one), of a sorted set of characteristics.
Find(S) == IF S = {} THEN {}
           ELSE {CHOOSE c \in S : \A d \in S \ {c} : Precedes(c.uuid, d.uuid)}

\* A bug (for the mutation runs): the property flags decide for all devices.
FindPairByFlags(characteristics) ==
  [write  |-> Find({c \in characteristics : "WRITE" \in c.properties}),
   notify |-> Find({c \in characteristics : "NOTIFY" \in c.properties})]

\* The write and the notify characteristic: those of the Ledger service that
\* comes first, or, without one, the first ones with the right flag.
FindPair(characteristics) ==
  LET ours == Find({c \in characteristics : IsLedgerServiceUuid(c.service)})
      svc  == (CHOOSE c \in ours : TRUE).service
  IN  IF ours # {}
      THEN [write  |-> Find({c \in characteristics : c.uuid = WriteUuidForService(svc)}),
            notify |-> Find({c \in characteristics : c.uuid = NotifyUuidForService(svc)})]
      ELSE [write  |-> Find({c \in characteristics : "WRITE" \in c.properties}),
            notify |-> Find({c \in characteristics : "NOTIFY" \in c.properties})]

\* A bug: anything but an empty notification is taken for the reply.
IsMtuReplyAny(raw) == raw # <<>>

\* infer_mtu takes no other notification, and no empty one, for the reply.
IsMtuReply(raw) == raw # <<>> /\ CommandTag(raw) = MTU_COMMAND_TAG

Pair(p) == FindPair(Characteristics[p])
HasUuid(found, uuid) == \E c \in found : c.uuid = uuid

-----------------------------------------------------------------------------
Places == {"idle", "adapters", "scan", "sleep", "stop", "list", "check", "link",
           "discover", "subscribe", "stream", "ask", "mtu"}
Kinds == {"none", "listed", "connected", "not_found", "comm", "timeout",
          "stream_ended", "ble", "cancelled"}

VARIABLES
  pc,           \* where each task is
  call,         \* its current or last call: "list_ledgers", "new" or "connect"
  adapter,      \* list_ledgers: the adapter it is at
  ledgers,      \*   and the Ledgers found so far
  device,       \* connect: the peripheral, a set of at most one
  notifications, \*  and the stream, a set of at most one
  outcome,      \* what the last call returned, and the mtu_size if a transport
  scanning,     \* stack: the scans that are on, by task and adapter
  known,        \*   the peripherals that are known
  up,           \*   the links that are up
  subscribed,   \*   and the characteristics that are subscribed to
  powered,      \* the peripherals that are on and in range
  asked,        \* device: mtu requests to be replied to
  calls, faults, strays,  \* counted against the bounds
  hindered      \* history: tasks whose call met a failure of the stack, was
                \*   dropped, or had a device that was off or too slow

localVars == <<adapter, ledgers, device, notifications>>
hostVars  == <<pc, call, localVars, outcome>>
stackVars == <<scanning, known, up, subscribed>>
bounded   == <<calls, faults, strays>>
vars == <<hostVars, stackVars, powered, asked, bounded, hindered>>

Outcome == [kind : Kinds, mtu : Byte]
Result(kind) == [kind |-> kind, mtu |-> 0]
Active == {t \in Tasks : pc[t] # "idle"}

TypeOK ==
  /\ pc \in [Tasks -> Places]
  /\ call \in [Tasks -> {"list_ledgers", "new", "connect"}]
  /\ adapter \in [Tasks -> 1 .. NAdapters + 1]
  /\ ledgers \in [Tasks -> Seq(Ledgers)]
  /\ device \in [Tasks -> {{}} \cup {{p} : p \in Ledgers}]
  /\ DOMAIN notifications = Tasks
  /\ \A t \in Tasks : \A s, u \in notifications[t] : s = u /\ s \in Seq(Seq(Byte))
  /\ outcome \in [Tasks -> Outcome]
  /\ scanning \subseteq Tasks \X (1 .. NAdapters)
  /\ known \subseteq Peripherals /\ powered \subseteq Peripherals
  /\ up \subseteq powered
  /\ subscribed \subseteq up \X Uuid
  /\ asked \in [Peripherals -> Nat]
  /\ calls \in 0 .. MaxCalls /\ faults \in 0 .. MaxFaults /\ strays \in 0 .. MaxStrays
  /\ hindered \subseteq Tasks

Init ==
  /\ pc = [t \in Tasks |-> "idle"]
  /\ call = [t \in Tasks |-> "list_ledgers"]
  /\ adapter = [t \in Tasks |-> 1]
  /\ ledgers = [t \in Tasks |-> <<>>]
  /\ device = [t \in Tasks |-> {}]
  /\ notifications = [t \in Tasks |-> {}]
  /\ outcome = [t \in Tasks |-> Result("none")]
  /\ scanning = {}
  /\ known = Cached
  /\ powered \in SUBSET Peripherals
  /\ up = {}
  /\ subscribed = {}
  /\ asked = [p \in Peripherals |-> 0]
  /\ calls = 0 /\ faults = 0 /\ strays = 0
  /\ hindered = {}

-----------------------------------------------------------------------------
(* The calls, and how they end.                                            *)

Go(t, there) == pc' = [pc EXCEPT ![t] = there]
Device(t) == CHOOSE p \in device[t] : TRUE

\* The locals that are read no more stay as they are; the stream of a failed
\* connect is dropped, and that of a transport is the transport's.
Return(t, result) ==
  /\ Go(t, "idle")
  /\ outcome' = [outcome EXCEPT ![t] = result]
  /\ notifications' = [notifications EXCEPT ![t] = {}]

Begin(t, what) ==
  /\ pc[t] = "idle"
  /\ calls < MaxCalls
  /\ calls' = calls + 1
  /\ call' = [call EXCEPT ![t] = what]
  /\ outcome' = [outcome EXCEPT ![t] = Result("none")]
  /\ adapter' = [adapter EXCEPT ![t] = 1]
  /\ ledgers' = [ledgers EXCEPT ![t] = <<>>]
  /\ hindered' = hindered \ {t}
  /\ UNCHANGED <<notifications, stackVars, powered, asked, faults, strays>>

ListLedgers(t) ==
  /\ Begin(t, "list_ledgers") \/ Begin(t, "new")
  /\ Go(t, "adapters")
  /\ device' = [device EXCEPT ![t] = {}]

\* "The peripheral should be one returned by list_ledgers."
Connect(t, p) ==
  /\ Begin(t, "connect")
  /\ Go(t, "check")
  /\ device' = [device EXCEPT ![t] = {p}]

-----------------------------------------------------------------------------
(* list_ledgers and new.                                                   *)

\* A bug: the loop goes one adapter too far.
ToAdapterLate(t, a, found) ==
  IF a <= NAdapters + 1
  THEN Go(t, "scan") /\ UNCHANGED <<device, notifications, outcome>>
  ELSE Return(t, Result("listed")) /\ UNCHANGED device

\* On to adapter a; or the loop is over, and new takes the first of the list.
ToAdapter(t, a, found) ==
  IF a <= NAdapters
  THEN Go(t, "scan") /\ UNCHANGED <<device, notifications, outcome>>
  ELSE \/ call[t] = "list_ledgers" /\ Return(t, Result("listed")) /\ UNCHANGED device
       \/ call[t] = "new" /\ found = <<>> /\ Return(t, Result("not_found"))
          /\ UNCHANGED device
       \/ call[t] = "new" /\ found # <<>> /\ Go(t, "check")
          /\ device' = [device EXCEPT ![t] = {Head(found)}]
          /\ UNCHANGED <<notifications, outcome>>

GetAdapters(t) ==
  /\ pc[t] = "adapters"
  /\ ToAdapter(t, 1, <<>>)
  /\ UNCHANGED <<call, adapter, ledgers, stackVars, powered, asked, bounded, hindered>>

\* What the stack does for the await that t is at.
StackDoes(t) ==
  /\ scanning' = IF pc[t] = "scan" THEN scanning \cup {<<t, adapter[t]>>}
                 ELSE IF pc[t] = "stop" THEN scanning \ {<<t, adapter[t]>>}
                 ELSE scanning
  /\ up' = IF pc[t] = "link" THEN up \cup (device[t] \cap powered) ELSE up
  /\ subscribed' = IF pc[t] = "subscribe" /\ device[t] \subseteq up
                   THEN subscribed \cup
                          {<<p, c.uuid>> : p \in device[t], c \in Pair(Device(t)).notify}
                   ELSE subscribed
  /\ asked' = [p \in Peripherals |->
                 IF /\ pc[t] = "ask" /\ p \in device[t] \cap up
                    /\ HasUuid(Pair(p).write, Speaks[p].write)
                 THEN asked[p] + 1 ELSE asked[p]]
  /\ UNCHANGED known

\* An await is over, and nothing is left to do but the next one.
Await(t, here, there) ==
  /\ pc[t] = here
  /\ Go(t, there)
  /\ StackDoes(t)
  /\ UNCHANGED <<call, adapter, ledgers, device, outcome, powered, bounded, hindered>>

StartScan(t) == Await(t, "scan", "sleep") /\ UNCHANGED notifications

\* A bug: the scan goes on.
StopScanNot(t) ==
  /\ pc[t] = "stop"
  /\ Go(t, "list")
  /\ UNCHANGED <<call, localVars, outcome, stackVars, powered, asked, bounded, hindered>>

StopScan(t) == Await(t, "stop", "list")  /\ UNCHANGED notifications

\* BLE_SCAN_DURATION_SECS are over: peripherals may have been discovered.
Sleep(t) ==
  /\ pc[t] = "sleep"
  /\ Go(t, "stop")
  /\ \E found \in SUBSET {p \in powered : AdapterOf[p] = adapter[t]} :
       known' = known \cup found
  /\ UNCHANGED <<call, localVars, outcome, scanning, up, subscribed>>
  /\ UNCHANGED <<powered, asked, bounded, hindered>>

Orders(S) ==
  {order \in [1 .. Cardinality(S) -> S] : \A p \in S : \E k \in DOMAIN order : order[k] = p}

\* adapter.peripherals(), in any order, and is_ledger for each; one whose
\* properties cannot be had is passed over.
List(t) ==
  /\ pc[t] = "list"
  /\ LET candidates == {p \in known : AdapterOf[p] = adapter[t] /\ IsLedger(p)}
     IN  \E seen \in SUBSET candidates : \E order \in Orders(seen) :
           /\ IF seen = candidates THEN UNCHANGED <<faults, hindered>>
              ELSE /\ faults < MaxFaults
                   /\ faults' = faults + 1
                   /\ hindered' = hindered \cup {t}
           /\ ledgers' = [ledgers EXCEPT ![t] = @ \o order]
           /\ adapter' = [adapter EXCEPT ![t] = @ + 1]
           /\ ToAdapter(t, adapter[t] + 1, ledgers[t] \o order)
  /\ UNCHANGED <<call, stackVars, powered, asked, calls, strays>>

-----------------------------------------------------------------------------
(* connect.                                                                *)

\* if !peripheral.is_connected().await?
Check(t) == Await(t, "check", IF device[t] \subseteq up THEN "discover" ELSE "link")
            /\ UNCHANGED notifications

Link(t) ==
  /\ device[t] \subseteq powered
  /\ Await(t, "link", "discover") /\ UNCHANGED notifications

\* discover_services, and the choice of characteristics: one may be missing.
Discover(t) ==
  /\ pc[t] = "discover"
  /\ device[t] \subseteq up
  /\ IF Pair(Device(t)).write = {} \/ Pair(Device(t)).notify = {}
     THEN Return(t, Result("comm"))
     ELSE Go(t, "subscribe") /\ UNCHANGED <<notifications, outcome>>
  /\ UNCHANGED <<call, adapter, ledgers, device>>
  /\ UNCHANGED <<stackVars, powered, asked, bounded, hindered>>

Subscribe(t) ==
  /\ device[t] \subseteq up
  /\ Await(t, "subscribe", "stream") /\ UNCHANGED notifications

OpenStream(t) ==
  /\ Await(t, "stream", "ask")
  /\ notifications' = [notifications EXCEPT ![t] = {<<>>}]

\* infer_mtu: the request ...
AskMtu(t) ==
  /\ device[t] \subseteq up
  /\ Await(t, "ask", "mtu") /\ UNCHANGED notifications

\* ... and the loop over the notifications.
ReceiveMtu(t) ==
  /\ pc[t] = "mtu"
  /\ \E stream \in notifications[t] :
       /\ stream # <<>>
       /\ LET raw == Head(stream)
          IN  IF IsMtuReply(raw)
              THEN Return(t, [kind |-> "connected", mtu |-> InferMtu(raw)])
              ELSE /\ notifications' = [notifications EXCEPT ![t] = {Tail(stream)}]
                   /\ UNCHANGED <<pc, outcome>>
  /\ UNCHANGED <<call, adapter, ledgers, device>>
  /\ UNCHANGED <<stackVars, powered, asked, bounded, hindered>>

\* What ends a connect without a fault of its own: the device is off, the link
\* has gone, or nothing is notified for BLE_RESPONSE_TIMEOUT_SECS.
Fails(t, kind, S) ==
  /\ Return(t, Result(kind))
  /\ hindered' = hindered \cup S
  /\ UNCHANGED <<call, adapter, ledgers, device, stackVars, powered, asked, bounded>>

LinkFails(t) ==
  /\ \/ pc[t] = "link" /\ ~(device[t] \subseteq powered)
     \/ pc[t] \in {"discover", "subscribe", "ask"} /\ ~(device[t] \subseteq up)
  /\ Fails(t, "ble", {t})

StreamEnded(t) ==
  /\ pc[t] = "mtu" /\ notifications[t] = {<<>>}
  /\ ~(device[t] \subseteq up)
  /\ Fails(t, "stream_ended", {t})

\* A bug: it waits on.
TimeoutIgnored(t) == pc[t] = "mtu" /\ notifications[t] = {<<>>} /\ UNCHANGED vars

Timeout(t) ==
  /\ pc[t] = "mtu" /\ notifications[t] = {<<>>}
  /\ Fails(t, "timeout", IF asked[Device(t)] > 0 THEN {t} ELSE {})

\* An await fails, or the future is dropped at it; the stack may have done its
\* part all the same.
Ends(t, kind) ==
  /\ pc[t] # "idle"
  /\ faults < MaxFaults
  /\ faults' = faults + 1
  /\ Return(t, Result(kind))
  /\ StackDoes(t) \/ UNCHANGED <<stackVars, asked>>
  /\ hindered' = hindered \cup {t}
  /\ UNCHANGED <<call, adapter, ledgers, device, powered, calls, strays>>

StackFails(t) == pc[t] # "sleep" /\ Ends(t, "ble")
Cancel(t)     == Ends(t, "cancelled")

-----------------------------------------------------------------------------
(* The devices.                                                            *)

\* Every stream of p gets it.
Notify(p, raw) ==
  notifications' = [t \in Tasks |->
    IF device[t] = {p} THEN {Append(s, raw) : s \in notifications[t]} ELSE notifications[t]]

ReplyMtu(p) ==
  /\ p \in up
  /\ asked[p] > 0
  /\ asked' = [asked EXCEPT ![p] = @ - 1]
  /\ IF <<p, Speaks[p].notify>> \in subscribed
     THEN Notify(p, MtuReply[p]) ELSE UNCHANGED notifications
  /\ UNCHANGED <<pc, call, adapter, ledgers, device, outcome>>
  /\ UNCHANGED <<stackVars, powered, bounded, hindered>>

\* An answer to an earlier transport, or a notification without any sense.
Stray(p, raw) ==
  /\ \E s \in subscribed : s[1] = p
  /\ strays < MaxStrays
  /\ strays' = strays + 1
  /\ Notify(p, raw)
  /\ UNCHANGED <<pc, call, adapter, ledgers, device, outcome>>
  /\ UNCHANGED <<stackVars, powered, asked, calls, faults, hindered>>

\* A device is switched off or out of range, and its link with it.
Disappear(p) ==
  /\ p \in powered
  /\ faults < MaxFaults
  /\ faults' = faults + 1
  /\ powered' = powered \ {p} /\ up' = up \ {p}
  /\ subscribed' = {s \in subscribed : s[1] # p}
  /\ asked' = [asked EXCEPT ![p] = 0]
  /\ hindered' = hindered \cup {t \in Active : device[t] = {p}}
  /\ UNCHANGED <<hostVars, scanning, known, calls, strays>>

Appear(p) ==
  /\ p \notin powered
  /\ powered' = powered \cup {p}
  /\ UNCHANGED <<hostVars, stackVars, asked, bounded, hindered>>

\* Callers may stop calling.
AllReturned == calls = MaxCalls /\ Active = {} /\ UNCHANGED vars

-----------------------------------------------------------------------------
HostStep(t) ==
  \/ GetAdapters(t) \/ StartScan(t) \/ Sleep(t) \/ StopScan(t) \/ List(t)
  \/ Check(t) \/ Link(t) \/ Discover(t) \/ Subscribe(t) \/ OpenStream(t)
  \/ AskMtu(t) \/ ReceiveMtu(t)
  \/ LinkFails(t) \/ StreamEnded(t) \/ Timeout(t)

Next ==
  \/ \E t \in Tasks : ListLedgers(t) \/ HostStep(t) \/ StackFails(t) \/ Cancel(t)
  \/ \E t \in Tasks, p \in Ledgers \cap known : Connect(t, p)
  \/ \E p \in Peripherals : ReplyMtu(p) \/ Disappear(p) \/ Appear(p)
  \/ \E p \in Peripherals, raw \in Strays : Stray(p, raw)
  \/ AllReturned

Spec == Init /\ [][Next]_vars

\* An await of the stack comes back, with success or not; a sleep and a timeout
\* come to an end.  Nothing is asked of the devices.
FairSpec == Spec /\ \A t \in Tasks : WF_vars(HostStep(t))

-----------------------------------------------------------------------------
(* Properties.                                                             *)

\* A device that speaks at the characteristics of the one Ledger service it
\* has; or at the only ones with the right flags, if it has no such service.
Usable(p) ==
  LET chars == Characteristics[p]
      At(u) == {c \in chars : c.uuid = u}
  IN  /\ At(Speaks[p].write) # {} /\ At(Speaks[p].notify) # {}
      /\ \/ \E svc \in LEDGER_SERVICE_UUIDS :
               /\ Speaks[p] = [write |-> WriteUuidForService(svc),
                               notify |-> NotifyUuidForService(svc)]
               /\ svc \in {c.service : c \in chars}
               /\ {c.service : c \in chars} \cap LEDGER_SERVICE_UUIDS = {svc}
         \/ /\ {c.service : c \in chars} \cap LEDGER_SERVICE_UUIDS = {}
            /\ {c \in chars : "WRITE" \in c.properties} = At(Speaks[p].write)
            /\ {c \in chars : "NOTIFY" \in c.properties} = At(Speaks[p].notify)

\* A connect to such a device succeeds unless something goes wrong in that very
\* call: whatever earlier and concurrent calls have left behind (a link, a
\* subscription, requests, notifications of other tags), and whatever other
\* services the device has.
UnhinderedConnectSucceeds ==
  \A t \in Tasks \ hindered :
    outcome[t].kind \in {"none", "listed", "not_found", "connected"}
      \/ \A p \in device[t] : ~Usable(p)

\* The mtu_size of a transport that is handed out is the one its device named,
\* or the default in place of one that is too small, however many other
\* notifications came before the reply, and whoever asked for it.
MtuIsTheDevices ==
  \A t \in Tasks : outcome[t].kind = "connected" =>
    \A p \in device[t] : outcome[t].mtu = InferMtu(MtuReply[p])

\* A scan is left on by a failure or a dropped future only, never by a call that
\* ends by itself: with a list, without a device, or with an error of connect.
ScanLeftOnlyByFault ==
  faults = 0 =>
    \A s \in scanning : pc[s[1]] \in {"sleep", "stop"} /\ adapter[s[1]] = s[2]

\* Every call returns, with devices that do not reply and devices that vanish:
\* the loops over the adapters and over the notifications end.
EveryCallReturns == \A t \in Tasks : (pc[t] # "idle") ~> (pc[t] = "idle")

\* "Scan for and connect to the first available Ledger device" (src/ble.rs): if
\* nothing fails in the meantime, new does not end with the error of a device
\* that is not there while another one, listed, is.  The code takes the first
\* one listed, available or not.
NewTakesAvailable ==
  \A t \in Tasks :
    faults = 0 /\ call[t] = "new" /\ outcome[t].kind = "ble" =>
      \A k \in DOMAIN ledgers[t] : ledgers[t][k] \notin powered
============================================================================
