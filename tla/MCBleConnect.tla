---------------------------- MODULE MCBleConnect ----------------------------
(* BleConnect on two adapters.  A Nano X, known from before, has a writable  *)
(* characteristic and a notifying one of other services besides its own; a  *)
(* future device has a service nobody knows; a Stax in some odd state lacks  *)
(* its write characteristic; a headset is no Ledger.                         *)
EXTENDS BleConnect, TLC

Group == Permutations(Tasks)

Gatt(d1, d3, d4) == [d1 |-> d1, d3 |-> d3, d4 |-> d4]
Char(uuid, service, flags) == [uuid |-> uuid, service |-> service, properties |-> flags]
PairOf(svc) == { Char(NotifyUuidForService(svc), svc, {"NOTIFY"}),
                 Char(WriteUuidForService(svc), svc, {"WRITE"}) }

GenericAccess == Gatt(6144, 0, 0)
Battery       == Gatt(6159, 0, 0)
FutureService == Gatt(332805121, 4, 0)

MCPeripherals == {"nano", "future", "stax", "headset"}
MCAdapterOf   == [nano |-> 1, future |-> 2, stax |-> 1, headset |-> 2]
MCAdvertised  ==
  [nano    |-> [name |-> "Nano X", services |-> {}],
   future  |-> [name |-> "Ledger", services |-> {FutureService}],
   stax    |-> [name |-> "", services |-> {STAX_SERVICE_UUID}],
   headset |-> [name |-> "Headset", services |-> {Battery}]]
MCCharacteristics ==
  [nano    |-> PairOf(NANO_X_SERVICE_UUID) \cup
                 { Char(Gatt(10752, 0, 0), GenericAccess, {"WRITE"}),
                   Char(Gatt(10777, 0, 0), Battery, {"NOTIFY"}) },
   future  |-> PairOf(FutureService),
   stax    |-> { Char(NotifyUuidForService(STAX_SERVICE_UUID), STAX_SERVICE_UUID, {"NOTIFY"}) },
   headset |-> { Char(Gatt(10777, 0, 0), Battery, {"NOTIFY"}) }]
SpeaksAt(svc) == [write |-> WriteUuidForService(svc), notify |-> NotifyUuidForService(svc)]
MCSpeaks ==
  [nano |-> SpeaksAt(NANO_X_SERVICE_UUID), future |-> SpeaksAt(FutureService),
   stax |-> SpeaksAt(STAX_SERVICE_UUID), headset |-> SpeaksAt(Battery)]
MCMtuReply ==
  [nano |-> <<8, 0, 0, 0, 1, 156>>, future |-> <<8, 0, 0, 0, 1, 4>>,
   stax |-> <<8, 0, 0>>, headset |-> <<8>>]

\* The late answer to an earlier command, and an empty notification.
MCStrays == { <<5, 0, 0, 0, 2, 144, 0>>, <<>> }
MCCached == {"nano", "headset"}
============================================================================
