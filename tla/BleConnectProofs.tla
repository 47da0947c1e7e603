-------------------------- MODULE BleConnectProofs --------------------------
(***************************************************************************)
(* Proofs about BleConnect, for any number of tasks, adapters and devices, *)
(* whatever characteristics these have and whatever they reply.            *)
(***************************************************************************)
EXTENDS BleConnect, BleFramingProofs, FiniteSetTheorems

-----------------------------------------------------------------------------
(* The choice of characteristics.                                          *)

\* Of some characteristics one comes first: by d1, then d3, then d4.
LEMMA FirstUuid ==
  ASSUME NEW U, U \subseteq Uuid, U # {}
  PROVE  \E u \in U : \A v \in U : u = v \/ Precedes(u, v)
<1> DEFINE D1 == {u.d1 : u \in U}
<1>1. D1 \subseteq Nat /\ D1 # {}
  BY DEF Uuid
<1>2. PICK a \in D1 : \A b \in D1 : a <= b
  BY <1>1, NatMin
<1> DEFINE U1 == {u \in U : u.d1 = a}
           D3 == {u.d3 : u \in U1}
<1>3. U1 \subseteq U /\ U1 # {} /\ D3 \subseteq Nat /\ D3 # {}
  BY <1>2 DEF Uuid
<1>4. PICK b \in D3 : \A c \in D3 : b <= c
  BY <1>3, NatMin
<1> DEFINE U2 == {u \in U1 : u.d3 = b}
           D4 == {u.d4 : u \in U2}
<1>5. U2 \subseteq U1 /\ U2 # {} /\ D4 \subseteq Nat /\ D4 # {}
  BY <1>4 DEF Uuid
<1>6. PICK c \in D4 : \A d \in D4 : c <= d
  BY <1>5, NatMin
<1>7. PICK u \in U2 : u.d4 = c
  BY <1>6
<1>8. u \in U /\ u.d1 = a /\ u.d3 = b /\ u.d4 = c
  BY <1>7
<1>9. a \in Nat /\ b \in Nat /\ c \in Nat
  BY <1>1, <1>2, <1>3, <1>4, <1>5, <1>6
<1>10. ASSUME NEW v \in U PROVE u = v \/ Precedes(u, v)
  <2>1. v.d1 \in Nat /\ v.d3 \in Nat /\ v.d4 \in Nat
    BY DEF Uuid
  <2>2. a <= v.d1
    BY <1>2
  <2>3. v.d1 = a => b <= v.d3
    <3>1. v.d1 = a => v.d3 \in D3
      OBVIOUS
    <3> QED
      BY <1>4, <3>1
  <2>4. v.d1 = a /\ v.d3 = b => c <= v.d4
    <3>1. v.d1 = a /\ v.d3 = b => v.d4 \in D4
      OBVIOUS
    <3> QED
      BY <1>6, <3>1
  <2>5. v.d1 = a /\ v.d3 = b /\ v.d4 = c => u = v
    BY <1>8 DEF Uuid
  <2> QED
    BY <1>8, <1>9, <2>1, <2>2, <2>3, <2>4, <2>5 DEF Precedes
<1> QED
  BY <1>8, <1>10

\* Find gives one of the characteristics, if there is any.
LEMMA FindOne ==
  ASSUME NEW p \in Peripherals, NEW S, S \subseteq Characteristics[p], S # {}
  PROVE  \E c \in S : Find(S) = {c}
<1> DEFINE U == {c.uuid : c \in S}
<1>1. /\ S \subseteq Characteristic
      /\ \A c, d \in S : c.uuid = d.uuid => c = d
  BY PeripheralsAssumption
<1>2. U \subseteq Uuid /\ U # {}
  BY <1>1 DEF Characteristic
<1>3. PICK u \in U : \A v \in U : u = v \/ Precedes(u, v)
  BY <1>2, FirstUuid
<1>4. PICK c \in S : c.uuid = u
  BY <1>3
<1>5. \A d \in S \ {c} : Precedes(c.uuid, d.uuid)
  BY <1>1, <1>3, <1>4
<1> DEFINE e == CHOOSE e \in S : \A d \in S \ {e} : Precedes(e.uuid, d.uuid)
<1>6. e \in S
  BY <1>5
<1>7. Find(S) = {e}
  BY DEF Find
<1> HIDE DEF e
<1> QED
  BY <1>6, <1>7

LEMMA FindNone == Find({}) = {}
BY DEF Find

LEMMA FindType ==
  ASSUME NEW p \in Peripherals, NEW S, S \subseteq Characteristics[p]
  PROVE  Find(S) \subseteq S
<1>1. CASE S = {}
  BY <1>1, FindNone
<1>2. CASE S # {}
  BY <1>2, FindOne
<1> QED
  BY <1>1, <1>2

LEMMA PairType ==
  ASSUME NEW p \in Peripherals
  PROVE  \A c \in Pair(p).write \cup Pair(p).notify : c.uuid \in Uuid
<1> DEFINE chars == Characteristics[p]
           ours == Find({c \in chars : IsLedgerServiceUuid(c.service)})
           svc == (CHOOSE c \in ours : TRUE).service
           W1 == {c \in chars : c.uuid = WriteUuidForService(svc)}
           N1 == {c \in chars : c.uuid = NotifyUuidForService(svc)}
           W2 == {c \in chars : "WRITE" \in c.properties}
           N2 == {c \in chars : "NOTIFY" \in c.properties}
<1>1. Pair(p) = IF ours # {} THEN [write |-> Find(W1), notify |-> Find(N1)]
                ELSE [write |-> Find(W2), notify |-> Find(N2)]
  BY DEF Pair, FindPair
<1> HIDE DEF ours, svc
<1>2. \A S \in SUBSET chars : Find(S) \subseteq chars
  BY FindType
<1>3. /\ W1 \in SUBSET chars /\ N1 \in SUBSET chars
      /\ W2 \in SUBSET chars /\ N2 \in SUBSET chars
  OBVIOUS
<1>4. Pair(p).write \subseteq chars /\ Pair(p).notify \subseteq chars
  <2>1. /\ Find(W1) \subseteq chars /\ Find(N1) \subseteq chars
        /\ Find(W2) \subseteq chars /\ Find(N2) \subseteq chars
    BY <1>2, <1>3
  <2> HIDE DEF W1, W2, N1, N2, chars
  <2> QED
    BY <1>1, <2>1
<1>5. \A c \in chars : c.uuid \in Uuid
  BY PeripheralsAssumption DEF Characteristic
<1> QED
  BY <1>4, <1>5

\* Of a device that speaks at the characteristics of its one Ledger service, or
\* at the only ones with the right flags, these are the two that are chosen.
LEMMA PairOfUsable ==
  ASSUME NEW p \in Peripherals, Usable(p)
  PROVE  /\ \E c \in Pair(p).write : c.uuid = Speaks[p].write
         /\ \E c \in Pair(p).notify : c.uuid = Speaks[p].notify
<1> DEFINE chars == Characteristics[p]
           At(u) == {c \in chars : c.uuid = u}
           w == Speaks[p].write
           n == Speaks[p].notify
           Ours == {c \in chars : IsLedgerServiceUuid(c.service)}
           ours == Find(Ours)
           svc == (CHOOSE c \in ours : TRUE).service
<1>1. At(w) # {} /\ At(n) # {}
  BY DEF Usable
<1>2. /\ \E c \in At(w) : Find(At(w)) = {c}
      /\ \E c \in At(n) : Find(At(n)) = {c}
  BY <1>1, FindOne
<1>3. Pair(p) = [write |-> Find(At(w)), notify |-> Find(At(n))]
  <2>1. CASE \E s \in LEDGER_SERVICE_UUIDS :
               /\ Speaks[p] = [write |-> WriteUuidForService(s),
                               notify |-> NotifyUuidForService(s)]
               /\ s \in {c.service : c \in chars}
               /\ {c.service : c \in chars} \cap LEDGER_SERVICE_UUIDS = {s}
    <3>1. PICK s \in LEDGER_SERVICE_UUIDS :
               /\ Speaks[p] = [write |-> WriteUuidForService(s),
                               notify |-> NotifyUuidForService(s)]
               /\ s \in {c.service : c \in chars}
               /\ {c.service : c \in chars} \cap LEDGER_SERVICE_UUIDS = {s}
      BY <2>1
    <3>2. Ours # {} /\ \A c \in Ours : c.service = s
      BY <3>1 DEF IsLedgerServiceUuid
    <3>3. PICK c \in Ours : ours = {c}
      BY <3>2, FindOne
    <3>4. svc = s /\ ours # {}
      BY <3>2, <3>3
    <3>5. Pair(p) = [write  |-> Find(At(WriteUuidForService(svc))),
                     notify |-> Find(At(NotifyUuidForService(svc)))]
      BY <3>4 DEF Pair, FindPair
    <3>6. w = WriteUuidForService(s) /\ n = NotifyUuidForService(s)
      BY <3>1
    <3> HIDE DEF svc, At, w, n
    <3> QED
      BY <3>4, <3>5, <3>6
  <2>2. CASE /\ {c.service : c \in chars} \cap LEDGER_SERVICE_UUIDS = {}
             /\ {c \in chars : "WRITE" \in c.properties} = At(w)
             /\ {c \in chars : "NOTIFY" \in c.properties} = At(n)
    <3>1. Ours = {}
      BY <2>2 DEF IsLedgerServiceUuid
    <3>2. ours = {}
      BY <3>1, FindNone
    <3>3. Pair(p) = [write  |-> Find({c \in chars : "WRITE" \in c.properties}),
                     notify |-> Find({c \in chars : "NOTIFY" \in c.properties})]
      BY <3>2 DEF Pair, FindPair
    <3> QED
      BY <2>2, <3>3
  <2> QED
    BY <2>1, <2>2 DEF Usable
<1>4. Pair(p).write = Find(At(w)) /\ Pair(p).notify = Find(At(n))
  BY <1>3
<1> QED
  BY <1>2, <1>4

-----------------------------------------------------------------------------
(* The invariant.                                                          *)

Scans    == {"scan", "sleep", "stop", "list"}
Connects == {"check", "link", "discover", "subscribe", "stream", "ask", "mtu"}
Streams  == {"ask", "mtu"}
Fine     == {"none", "listed", "not_found", "connected"}

LocalTypes ==
  /\ pc \in [Tasks -> Places]
  /\ call \in [Tasks -> {"list_ledgers", "new", "connect"}]
  /\ adapter \in [Tasks -> 1 .. NAdapters + 1]
  /\ ledgers \in [Tasks -> Seq(Ledgers)]
  /\ device \in [Tasks -> {{}} \cup {{p} : p \in Ledgers}]
  /\ notifications = [t \in Tasks |-> notifications[t]]
  /\ outcome \in [Tasks -> Outcome]

StackTypes ==
  /\ scanning \subseteq Tasks \X (1 .. NAdapters)
  /\ known \subseteq Peripherals /\ powered \subseteq Peripherals
  /\ up \subseteq powered
  /\ subscribed \subseteq up \X Uuid
  /\ asked \in [Peripherals -> Nat]

CountTypes ==
  /\ calls \in 0 .. MaxCalls /\ faults \in 0 .. MaxFaults /\ strays \in 0 .. MaxStrays
  /\ hindered \subseteq Tasks

\* A stream, in which every reply is that of the device.
OwnStream(t, s) ==
  /\ s \in Seq(Seq(Byte))
  /\ \A i \in 1 .. Len(s) : IsMtuReply(s[i]) => \A p \in device[t] : s[i] = MtuReply[p]

TaskInv(t) ==
  /\ pc[t] # "idle" => outcome[t] = Result("none")
  /\ pc[t] = "adapters" => adapter[t] = 1 /\ ledgers[t] = <<>>
  /\ pc[t] \in Scans => adapter[t] \in 1 .. NAdapters
  /\ pc[t] \in Connects => device[t] # {}
  /\ pc[t] \in Streams => \E s : notifications[t] = {s} /\ OwnStream(t, s)
  /\ pc[t] \notin Streams => notifications[t] = {}
  /\ outcome[t].kind = "connected" =>
       \A p \in device[t] : outcome[t].mtu = InferMtu(MtuReply[p])

\* The scans that are on when there was no fault.
ScanInv(t) ==
  faults = 0 => \A a \in 1 .. NAdapters :
    <<t, a>> \in scanning => pc[t] \in {"sleep", "stop"} /\ adapter[t] = a

\* How far a task has come with a device it can use: what it waits for is
\* there already, or is still to come.
ReachInv(t) ==
  \A p \in device[t] : Usable(p) =>
    /\ pc[t] \in {"discover", "subscribe", "stream", "ask", "mtu"} => p \in up
    /\ pc[t] \in {"stream", "ask", "mtu"} => <<p, Speaks[p].notify>> \in subscribed
    /\ pc[t] = "mtu" =>
         \/ asked[p] > 0
         \/ \E s \in notifications[t] : \E i \in 1 .. Len(s) : IsMtuReply(s[i])
    /\ outcome[t].kind \in Fine

Reached(t) == t \notin hindered => ReachInv(t)
Each(t) == TaskInv(t) /\ ScanInv(t) /\ Reached(t)

IInv == LocalTypes /\ StackTypes /\ CountTypes /\ \A t \in Tasks : Each(t)

\* What a step of t does not touch.
Same(u) ==
  /\ pc'[u] = pc[u] /\ call'[u] = call[u] /\ adapter'[u] = adapter[u]
  /\ ledgers'[u] = ledgers[u] /\ device'[u] = device[u]
  /\ notifications'[u] = notifications[u] /\ outcome'[u] = outcome[u]

LocalStep(t) == LocalTypes' /\ \A u \in Tasks \ {t} : Same(u)

StackStep(t) ==
  /\ StackTypes'
  /\ \A u \in Tasks \ {t}, a \in 1 .. NAdapters :
       <<u, a>> \in scanning' => <<u, a>> \in scanning
  /\ up \subseteq up' /\ subscribed \subseteq subscribed'
  /\ \A p \in Peripherals : asked[p] <= asked'[p]

CountStep(t) ==
  /\ CountTypes'
  /\ hindered \subseteq hindered' \cup {t}
  /\ faults' = 0 => faults = 0

LEMMA InitInv == Init => IInv
<1> SUFFICES ASSUME Init PROVE IInv
  OBVIOUS
<1>1. LocalTypes
  <2>1. Result("none") \in Outcome
    BY DEF Result, Outcome, Kinds, Byte
  <2>2. <<>> \in Seq(Ledgers)
    OBVIOUS
  <2>3. 1 \in 1 .. NAdapters + 1
    BY PeripheralsAssumption
  <2> QED
    BY <2>1, <2>2, <2>3 DEF Init, LocalTypes, Places
<1>2. StackTypes
  BY PeripheralsAssumption DEF Init, StackTypes
<1>3. CountTypes
  BY BoundsAssumption DEF Init, CountTypes
<1>4. ASSUME NEW t \in Tasks PROVE Each(t)
  BY DEF Init, Each, TaskInv, ScanInv, Reached, ReachInv, Scans, Connects, Streams,
         Fine, Result
<1> QED
  BY <1>1, <1>2, <1>3, <1>4 DEF IInv

\* A step of t keeps what is said of the others.
LEMMA OthersKeep ==
  ASSUME IInv, NEW t \in Tasks, LocalStep(t), StackStep(t), CountStep(t)
  PROVE  \A u \in Tasks \ {t} : Each(u)'
<1> TAKE u \in Tasks \ {t}
<1>1. Each(u) /\ Same(u)
  BY DEF IInv, LocalStep
<1>2. TaskInv(u)'
  <2>1. \A s : OwnStream(u, s) => OwnStream(u, s)'
    BY <1>1 DEF Same, OwnStream
  <2> QED
    BY <1>1, <2>1 DEF Each, TaskInv, Same
<1>3. ScanInv(u)'
  BY <1>1 DEF Each, ScanInv, Same, StackStep, CountStep
<1>4. Reached(u)'
  <2> SUFFICES ASSUME u \notin hindered', NEW p \in device'[u], Usable(p)
               PROVE  /\ pc'[u] \in {"discover", "subscribe", "stream", "ask", "mtu"} => p \in up'
                      /\ pc'[u] \in {"stream", "ask", "mtu"} =>
                           <<p, Speaks[p].notify>> \in subscribed'
                      /\ pc'[u] = "mtu" =>
                           \/ asked'[p] > 0
                           \/ \E s \in notifications'[u] :
                                \E i \in 1 .. Len(s) : IsMtuReply(s[i])
                      /\ outcome'[u].kind \in Fine
    BY DEF Reached, ReachInv
  <2>1. u \notin hindered /\ p \in device[u]
    BY <1>1 DEF CountStep, Same
  <2>2. p \in Peripherals /\ asked[p] \in Nat /\ asked'[p] \in Nat /\ asked[p] <= asked'[p]
    <3>1. p \in Peripherals
      BY <2>1 DEF IInv, LocalTypes, Ledgers
    <3> QED
      BY <3>1 DEF IInv, StackTypes, StackStep
  <2> QED
    BY <1>1, <2>1, <2>2 DEF Each, Reached, ReachInv, Same, StackStep
<1> QED
  BY <1>2, <1>3, <1>4 DEF Each

LEMMA TaskStep ==
  ASSUME IInv, NEW t \in Tasks, LocalStep(t), StackStep(t), CountStep(t), Each(t)'
  PROVE  IInv'
BY OthersKeep DEF IInv, LocalStep, StackStep, CountStep

-----------------------------------------------------------------------------
(* The parts that the steps have in common.                                *)

LEMMA StackIdle ==
  ASSUME IInv, NEW t \in Tasks, UNCHANGED <<stackVars, powered, asked>>
  PROVE  StackStep(t)
<1>1. StackTypes' /\ asked \in [Peripherals -> Nat]
  BY DEF IInv, StackTypes, stackVars
<1> QED
  BY <1>1 DEF StackStep, stackVars

LEMMA DeviceOf ==
  ASSUME IInv, NEW t \in Tasks, NEW p \in device[t]
  PROVE  p \in Peripherals /\ device[t] = {p} /\ Device(t) = p
BY DEF IInv, LocalTypes, Ledgers, Device

LEMMA StackDoesStep ==
  ASSUME IInv, NEW t \in Tasks, StackDoes(t), UNCHANGED powered
  PROVE  StackStep(t)
<1>1. /\ scanning' \subseteq Tasks \X (1 .. NAdapters)
      /\ \A u \in Tasks \ {t}, a \in 1 .. NAdapters :
           <<u, a>> \in scanning' => <<u, a>> \in scanning
  <2>1. pc[t] = "scan" => adapter[t] \in 1 .. NAdapters
    BY DEF IInv, Each, TaskInv, Scans
  <2> QED
    BY <2>1 DEF IInv, StackTypes, StackDoes
<1>2. up' \subseteq powered' /\ up \subseteq up'
  BY DEF IInv, StackTypes, StackDoes
<1>3. subscribed' \subseteq up' \X Uuid /\ subscribed \subseteq subscribed'
  <2>1. ASSUME device[t] \subseteq up
        PROVE  {<<p, c.uuid>> : p \in device[t], c \in Pair(Device(t)).notify}
                  \subseteq up \X Uuid
    BY <2>1, DeviceOf, PairType
  <2> QED
    BY <1>2, <2>1 DEF IInv, StackTypes, StackDoes
<1>4. asked' \in [Peripherals -> Nat] /\ \A p \in Peripherals : asked[p] <= asked'[p]
  BY DEF IInv, StackTypes, StackDoes
<1> QED
  BY <1>1, <1>2, <1>3, <1>4 DEF IInv, StackTypes, StackStep, StackDoes

LEMMA CountIdle ==
  ASSUME IInv, NEW t \in Tasks, UNCHANGED <<bounded, hindered>>
  PROVE  CountStep(t)
BY DEF IInv, CountTypes, CountStep, bounded

LEMMA CountFault ==
  ASSUME IInv, NEW t \in Tasks, faults < MaxFaults, faults' = faults + 1,
         hindered' = hindered \cup {t}, UNCHANGED <<calls, strays>>
  PROVE  CountStep(t)
BY BoundsAssumption DEF IInv, CountTypes, CountStep

LEMMA GoStep ==
  ASSUME IInv, NEW t \in Tasks, NEW there \in Places, Go(t, there),
         UNCHANGED <<call, localVars, outcome>>
  PROVE  /\ LocalStep(t)
         /\ pc'[t] = there
         /\ call'[t] = call[t] /\ adapter'[t] = adapter[t] /\ device'[t] = device[t]
         /\ notifications'[t] = notifications[t] /\ outcome'[t] = outcome[t]
BY DEF IInv, LocalTypes, LocalStep, Same, Go, localVars

LEMMA ReturnStep ==
  ASSUME IInv, NEW t \in Tasks, NEW result \in Outcome, Return(t, result),
         UNCHANGED <<call, adapter, ledgers, device>>
  PROVE  /\ LocalStep(t)
         /\ pc'[t] = "idle"
         /\ call'[t] = call[t] /\ adapter'[t] = adapter[t] /\ device'[t] = device[t]
         /\ notifications'[t] = {} /\ outcome'[t] = result
<1>1. /\ pc' \in [Tasks -> Places] /\ pc'[t] = "idle"
      /\ \A u \in Tasks \ {t} : pc'[u] = pc[u]
  BY DEF IInv, LocalTypes, Return, Go, Places
<1>2. /\ outcome' \in [Tasks -> Outcome] /\ outcome'[t] = result
      /\ \A u \in Tasks \ {t} : outcome'[u] = outcome[u]
  BY DEF IInv, LocalTypes, Return
<1>3. /\ notifications' = [u \in Tasks |-> notifications'[u]] /\ notifications'[t] = {}
      /\ \A u \in Tasks \ {t} : notifications'[u] = notifications[u]
  BY DEF IInv, LocalTypes, Return
<1> QED
  BY <1>1, <1>2, <1>3 DEF IInv, LocalTypes, LocalStep, Same

LEMMA ResultType ==
  \A kind \in Kinds : Result(kind) \in Outcome /\ Result(kind).kind = kind
BY DEF Result, Outcome, Byte

\* A call that ends with no transport: the scan, if any, is off.
LEMMA ReturnKeeps ==
  ASSUME IInv, NEW t \in Tasks, NEW kind \in Kinds \ {"connected"},
         Return(t, Result(kind)), UNCHANGED <<call, adapter, ledgers, device>>,
         StackStep(t), CountStep(t), pc[t] \in {"sleep", "stop"} => faults' # 0,
         faults' = 0 => \A a \in 1 .. NAdapters :
                          <<t, a>> \in scanning' => <<t, a>> \in scanning,
         kind \in Fine \/ t \in hindered' \/ \A p \in device[t] : ~Usable(p)
  PROVE  IInv'
<1>1. /\ LocalStep(t)
      /\ pc'[t] = "idle" /\ device'[t] = device[t] /\ adapter'[t] = adapter[t]
      /\ notifications'[t] = {} /\ outcome'[t] = Result(kind)
  BY ReturnStep, ResultType
<1>2. TaskInv(t)'
  BY <1>1, ResultType DEF TaskInv, Scans, Connects, Streams
<1>3. ScanInv(t)'
  BY DEF IInv, Each, ScanInv, CountStep
<1>4. Reached(t)'
  BY <1>1, ResultType DEF Reached, ReachInv
<1> QED
  BY <1>1, <1>2, <1>3, <1>4, TaskStep DEF Each

-----------------------------------------------------------------------------
(* The calls begin.                                                        *)

LEMMA BeginStep ==
  ASSUME IInv, NEW t \in Tasks, NEW what \in {"list_ledgers", "new", "connect"},
         Begin(t, what), NEW there \in {"adapters", "check"}, Go(t, there),
         NEW d \in {{}} \cup {{p} : p \in Ledgers}, device' = [device EXCEPT ![t] = d],
         there = "check" => d # {}
  PROVE  IInv'
<1>1. LocalStep(t)
  <2>1. Result("none") \in Outcome /\ there \in Places
    BY ResultType DEF Kinds, Places
  <2>2. <<>> \in Seq(Ledgers) /\ 1 \in 1 .. NAdapters + 1
    BY PeripheralsAssumption
  <2>3. /\ notifications' = notifications
        /\ call' = [call EXCEPT ![t] = what]
        /\ outcome' = [outcome EXCEPT ![t] = Result("none")]
        /\ adapter' = [adapter EXCEPT ![t] = 1]
        /\ ledgers' = [ledgers EXCEPT ![t] = <<>>]
    BY DEF Begin
  <2> QED
    BY <2>1, <2>2, <2>3 DEF IInv, LocalTypes, LocalStep, Same, Go
<1>2. StackStep(t)
  BY StackIdle DEF Begin
<1>3. CountStep(t)
  <2>1. /\ calls' = calls + 1 /\ calls < MaxCalls /\ hindered' = hindered \ {t}
        /\ faults' = faults /\ strays' = strays
    BY DEF Begin
  <2>2. CountTypes
    BY DEF IInv
  <2> QED
    BY <2>1, <2>2, BoundsAssumption DEF CountTypes, CountStep
<1>4. /\ pc[t] = "idle" /\ pc'[t] = there /\ device'[t] = d
      /\ adapter'[t] = 1 /\ ledgers'[t] = <<>>
      /\ outcome'[t] = Result("none") /\ notifications'[t] = notifications[t]
  BY DEF IInv, LocalTypes, Begin, Go
<1>5. Result("none").kind = "none"
  BY DEF Result
<1>6. TaskInv(t)'
  <2>1. notifications[t] = {}
    BY <1>4 DEF IInv, Each, TaskInv, Streams
  <2> QED
    BY <1>4, <1>5, <2>1 DEF TaskInv, Scans, Connects, Streams
<1>7. ScanInv(t)'
  <2>1. faults' = faults /\ scanning' = scanning
    BY DEF Begin, stackVars
  <2> QED
    BY <1>4, <2>1 DEF IInv, Each, ScanInv
<1>8. Reached(t)'
  BY <1>4, <1>5 DEF Reached, ReachInv, Fine
<1> QED
  BY <1>1, <1>2, <1>3, <1>6, <1>7, <1>8, TaskStep DEF Each

LEMMA ListLedgersKeeps ==
  ASSUME IInv, NEW t \in Tasks, ListLedgers(t)
  PROVE  IInv'
<1>1. CASE Begin(t, "list_ledgers")
  BY <1>1, BeginStep DEF ListLedgers
<1>2. CASE Begin(t, "new")
  BY <1>2, BeginStep DEF ListLedgers
<1> QED
  BY <1>1, <1>2 DEF ListLedgers

LEMMA ConnectKeeps ==
  ASSUME IInv, NEW t \in Tasks, NEW p \in Ledgers \cap known, Connect(t, p)
  PROVE  IInv'
<1>1. {p} \in {{}} \cup {{q} : q \in Ledgers} /\ {p} # {}
  OBVIOUS
<1> QED
  BY <1>1, BeginStep DEF Connect

-----------------------------------------------------------------------------
(* The awaits that succeed.                                                *)

\* An await, but for what it brings about.
LEMMA AwaitStep ==
  ASSUME IInv, NEW t \in Tasks, NEW here, NEW there \in Places,
         Await(t, here, there), UNCHANGED notifications
  PROVE  /\ LocalStep(t) /\ StackStep(t) /\ CountStep(t)
         /\ pc[t] = here /\ pc'[t] = there
         /\ adapter'[t] = adapter[t] /\ device'[t] = device[t]
         /\ notifications'[t] = notifications[t] /\ outcome'[t] = outcome[t]
         /\ hindered' = hindered /\ faults' = faults
<1>1. UNCHANGED <<call, localVars, outcome>>
  BY DEF Await, localVars
<1>2. StackStep(t) /\ CountStep(t)
  BY StackDoesStep, CountIdle DEF Await
<1> QED
  BY <1>1, <1>2, GoStep DEF Await, bounded

LEMMA StartScanKeeps ==
  ASSUME IInv, NEW t \in Tasks, StartScan(t)
  PROVE  IInv'
<1>1. Await(t, "scan", "sleep") /\ UNCHANGED notifications /\ "sleep" \in Places
  BY DEF StartScan, Places
<1>2. /\ LocalStep(t) /\ StackStep(t) /\ CountStep(t)
      /\ pc[t] = "scan" /\ pc'[t] = "sleep"
      /\ adapter'[t] = adapter[t] /\ device'[t] = device[t]
      /\ notifications'[t] = notifications[t] /\ outcome'[t] = outcome[t]
      /\ hindered' = hindered /\ faults' = faults
  BY <1>1, AwaitStep
<1>3. TaskInv(t)'
  BY <1>2 DEF IInv, Each, TaskInv, Scans, Connects, Streams
<1>4. ScanInv(t)'
  <2>1. scanning' = scanning \cup {<<t, adapter[t]>>}
    BY <1>1 DEF Await, StackDoes
  <2> QED
    BY <1>2, <2>1 DEF IInv, Each, ScanInv
<1>5. Reached(t)'
  BY <1>2 DEF IInv, Each, Reached, ReachInv
<1> QED
  BY <1>2, <1>3, <1>4, <1>5, TaskStep DEF Each

LEMMA StopScanKeeps ==
  ASSUME IInv, NEW t \in Tasks, StopScan(t)
  PROVE  IInv'
<1>1. Await(t, "stop", "list") /\ UNCHANGED notifications /\ "list" \in Places
  BY DEF StopScan, Places
<1>2. /\ LocalStep(t) /\ StackStep(t) /\ CountStep(t)
      /\ pc[t] = "stop" /\ pc'[t] = "list"
      /\ adapter'[t] = adapter[t] /\ device'[t] = device[t]
      /\ notifications'[t] = notifications[t] /\ outcome'[t] = outcome[t]
      /\ hindered' = hindered /\ faults' = faults
  BY <1>1, AwaitStep
<1>3. TaskInv(t)'
  BY <1>2 DEF IInv, Each, TaskInv, Scans, Connects, Streams
<1>4. ScanInv(t)'
  <2>1. scanning' = scanning \ {<<t, adapter[t]>>}
    BY <1>1 DEF Await, StackDoes
  <2> QED
    BY <1>2, <2>1 DEF IInv, Each, ScanInv
<1>5. Reached(t)'
  BY <1>2 DEF IInv, Each, Reached, ReachInv
<1> QED
  BY <1>2, <1>3, <1>4, <1>5, TaskStep DEF Each

LEMMA SleepKeeps ==
  ASSUME IInv, NEW t \in Tasks, Sleep(t)
  PROVE  IInv'
<1>1. /\ Go(t, "stop") /\ pc[t] = "sleep" /\ "stop" \in Places
      /\ UNCHANGED <<call, localVars, outcome>>
      /\ UNCHANGED <<scanning, up, subscribed, powered, asked, bounded, hindered>>
  BY DEF Sleep, Places
<1>2. /\ LocalStep(t)
      /\ pc'[t] = "stop"
      /\ adapter'[t] = adapter[t] /\ device'[t] = device[t]
      /\ notifications'[t] = notifications[t] /\ outcome'[t] = outcome[t]
  BY <1>1, GoStep
<1>3. StackStep(t) /\ CountStep(t)
  <2>1. known' \subseteq Peripherals
    BY DEF IInv, StackTypes, Sleep
  <2>2. asked \in [Peripherals -> Nat]
    BY DEF IInv, StackTypes
  <2>3. CountStep(t)
    BY <1>1, CountIdle
  <2> QED
    BY <1>1, <2>1, <2>2, <2>3 DEF IInv, StackTypes, StackStep
<1>4. TaskInv(t)'
  BY <1>1, <1>2 DEF IInv, Each, TaskInv, Scans, Connects, Streams
<1>5. ScanInv(t)'
  BY <1>1, <1>2 DEF IInv, Each, ScanInv, bounded
<1>6. Reached(t)'
  BY <1>1, <1>2 DEF IInv, Each, Reached, ReachInv
<1> QED
  BY <1>2, <1>3, <1>4, <1>5, <1>6, TaskStep DEF Each

-----------------------------------------------------------------------------
(* The loop over the adapters.                                             *)

LEMMA OrdersType ==
  ASSUME IInv, NEW seen, seen \subseteq {p \in known : IsLedger(p)},
         NEW order \in Orders(seen)
  PROVE  order \in Seq(Ledgers)
<1>1. seen \subseteq Ledgers /\ seen \in SUBSET Peripherals
  BY DEF IInv, StackTypes, Ledgers
<1>2. Cardinality(seen) \in Nat
  BY <1>1, FS_Subset, FS_CardinalityType, PeripheralsAssumption
<1> DEFINE n == Cardinality(seen)
<1>3. order \in [1 .. n -> seen]
  BY DEF Orders
<1> HIDE DEF n
<1>4. order \in [1 .. n -> Ledgers]
  BY <1>1, <1>3
<1> QED
  BY <1>2, <1>4 DEF n

\* t goes to adapter a with the Ledgers it found, whatever fails in between.
LEMMA ToAdapterKeeps ==
  ASSUME IInv, NEW t \in Tasks, pc[t] \in {"adapters", "list"},
         NEW a \in 1 .. NAdapters + 1, NEW found \in Seq(Ledgers),
         ToAdapter(t, a, found),
         adapter' = [adapter EXCEPT ![t] = a], ledgers' = [ledgers EXCEPT ![t] = found],
         UNCHANGED <<call, stackVars, powered, asked>>, CountStep(t)
  PROVE  IInv'
<1> USE DEF LocalTypes
<1>1. StackStep(t)
  BY StackIdle
<1>2. /\ adapter' \in [Tasks -> 1 .. NAdapters + 1] /\ adapter'[t] = a
      /\ \A u \in Tasks \ {t} : adapter'[u] = adapter[u]
  BY DEF IInv
<1>3. /\ ledgers' \in [Tasks -> Seq(Ledgers)]
      /\ \A u \in Tasks \ {t} : ledgers'[u] = ledgers[u]
  BY DEF IInv
<1>4. outcome[t] = Result("none") /\ notifications[t] = {} /\ Each(t)
  BY DEF IInv, Each, TaskInv, Streams
<1>5. ScanInv(t)'
  <2>1. faults' = 0 => faults = 0
    BY DEF CountStep
  <2> QED
    BY <1>4, <2>1 DEF Each, ScanInv, stackVars
<1>6. CASE a <= NAdapters
  <2>1. Go(t, "scan") /\ UNCHANGED <<device, notifications, outcome>> /\ "scan" \in Places
    BY <1>6 DEF ToAdapter, Places
  <2>2. LocalStep(t) /\ pc'[t] = "scan"
    BY <1>2, <1>3, <2>1 DEF IInv, LocalStep, Same, Go
  <2>3. a \in 1 .. NAdapters
    BY <1>6, PeripheralsAssumption
  <2>4. TaskInv(t)'
    BY <1>2, <1>4, <2>1, <2>2, <2>3
    DEF TaskInv, Scans, Connects, Streams, Result
  <2>5. Reached(t)'
    BY <1>4, <2>1, <2>2 DEF Reached, ReachInv, Fine, Result
  <2> QED
    BY <1>1, <1>5, <2>2, <2>4, <2>5, TaskStep DEF Each
<1>7. ASSUME NEW kind \in {"listed", "not_found"}, Return(t, Result(kind)), UNCHANGED device
      PROVE  IInv'
  <2>1. Result(kind) \in Outcome /\ Result(kind).kind = kind
    BY ResultType DEF Kinds
  <2>2. /\ LocalStep(t) /\ pc'[t] = "idle" /\ notifications'[t] = {}
        /\ outcome'[t] = Result(kind)
    <3>1. /\ pc' \in [Tasks -> Places] /\ pc'[t] = "idle"
          /\ \A u \in Tasks \ {t} : pc'[u] = pc[u]
      BY <1>7 DEF IInv, Return, Go, Places
    <3>2. /\ outcome' \in [Tasks -> Outcome] /\ outcome'[t] = Result(kind)
          /\ \A u \in Tasks \ {t} : outcome'[u] = outcome[u]
      BY <1>7, <2>1 DEF IInv, Return
    <3>3. /\ notifications' = [u \in Tasks |-> notifications'[u]] /\ notifications'[t] = {}
          /\ \A u \in Tasks \ {t} : notifications'[u] = notifications[u]
      BY <1>7 DEF IInv, Return
    <3> QED
      BY <1>2, <1>3, <1>7, <3>1, <3>2, <3>3 DEF IInv, LocalStep, Same
  <2>3. TaskInv(t)'
    BY <2>1, <2>2 DEF TaskInv, Scans, Connects, Streams
  <2>4. Reached(t)'
    BY <2>1, <2>2 DEF Reached, ReachInv, Fine
  <2> QED
    BY <1>1, <1>5, <2>2, <2>3, <2>4, TaskStep DEF Each
<1>8. CASE /\ found # <<>> /\ Go(t, "check")
           /\ device' = [device EXCEPT ![t] = {Head(found)}]
           /\ UNCHANGED <<notifications, outcome>>
  <2>1. Head(found) \in Ledgers /\ "check" \in Places
    BY <1>8, HeadTailProperties DEF Places
  <2>2. LocalStep(t) /\ pc'[t] = "check" /\ device'[t] = {Head(found)}
    BY <1>2, <1>3, <1>8, <2>1 DEF IInv, LocalStep, Same, Go
  <2>3. TaskInv(t)'
    <3>1. /\ outcome'[t] = Result("none") /\ Result("none").kind = "none"
          /\ notifications'[t] = {} /\ device'[t] # {}
      BY <1>4, <1>8, <2>2 DEF Result
    <3> QED
      BY <2>2, <3>1 DEF TaskInv, Scans, Connects, Streams
  <2>4. Reached(t)'
    BY <1>4, <1>8, <2>2 DEF Reached, ReachInv, Fine, Result
  <2> QED
    BY <1>1, <1>5, <2>2, <2>3, <2>4, TaskStep DEF Each
<1> QED
  BY <1>6, <1>7, <1>8 DEF ToAdapter

LEMMA GetAdaptersKeeps ==
  ASSUME IInv, NEW t \in Tasks, GetAdapters(t)
  PROVE  IInv'
<1>1. /\ pc[t] = "adapters" /\ ToAdapter(t, 1, <<>>)
      /\ UNCHANGED <<call, adapter, ledgers, stackVars, powered, asked, bounded, hindered>>
  BY DEF GetAdapters
<1>2. /\ adapter' = [adapter EXCEPT ![t] = 1]
      /\ ledgers' = [ledgers EXCEPT ![t] = <<>>]
  BY <1>1 DEF IInv, LocalTypes, Each, TaskInv
<1>3. 1 \in 1 .. NAdapters + 1 /\ <<>> \in Seq(Ledgers)
  BY PeripheralsAssumption
<1>4. CountStep(t)
  BY <1>1, CountIdle
<1> QED
  BY <1>1, <1>2, <1>3, <1>4, ToAdapterKeeps

LEMMA ListKeeps ==
  ASSUME IInv, NEW t \in Tasks, List(t)
  PROVE  IInv'
<1> DEFINE candidates == {p \in known : AdapterOf[p] = adapter[t] /\ IsLedger(p)}
<1>0. PICK seen \in SUBSET candidates : \E order \in Orders(seen) :
        /\ IF seen = candidates THEN UNCHANGED <<faults, hindered>>
           ELSE /\ faults < MaxFaults
                /\ faults' = faults + 1
                /\ hindered' = hindered \cup {t}
        /\ ledgers' = [ledgers EXCEPT ![t] = ledgers[t] \o order]
        /\ adapter' = [adapter EXCEPT ![t] = adapter[t] + 1]
        /\ ToAdapter(t, adapter[t] + 1, ledgers[t] \o order)
  BY DEF List
<1>1. PICK order \in Orders(seen) :
        /\ IF seen = candidates THEN UNCHANGED <<faults, hindered>>
           ELSE /\ faults < MaxFaults
                /\ faults' = faults + 1
                /\ hindered' = hindered \cup {t}
        /\ ledgers' = [ledgers EXCEPT ![t] = ledgers[t] \o order]
        /\ adapter' = [adapter EXCEPT ![t] = adapter[t] + 1]
        /\ ToAdapter(t, adapter[t] + 1, ledgers[t] \o order)
  BY <1>0
<1>2. pc[t] = "list" /\ UNCHANGED <<call, stackVars, powered, asked, calls, strays>>
  BY DEF List
<1>3. CountStep(t)
  <2>1. CASE seen = candidates
    BY <1>1, <1>2, <2>1, CountIdle DEF bounded
  <2>2. CASE seen # candidates
    BY <1>1, <1>2, <2>2, CountFault
  <2> QED
    BY <2>1, <2>2
<1>4. adapter[t] + 1 \in 1 .. NAdapters + 1
  BY <1>2, PeripheralsAssumption DEF IInv, Each, TaskInv, Scans
<1>5. order \in Seq(Ledgers)
  BY OrdersType
<1>6. ledgers[t] \o order \in Seq(Ledgers)
  BY <1>5, ConcatProperties DEF IInv, LocalTypes
<1>7. /\ adapter' = [adapter EXCEPT ![t] = adapter[t] + 1]
      /\ ledgers' = [ledgers EXCEPT ![t] = ledgers[t] \o order]
      /\ ToAdapter(t, adapter[t] + 1, ledgers[t] \o order)
  BY <1>1
<1> HIDE DEF candidates
<1> QED
  BY <1>2, <1>3, <1>4, <1>6, <1>7, ToAdapterKeeps

-----------------------------------------------------------------------------
(* connect.                                                                *)

LEMMA CheckKeeps ==
  ASSUME IInv, NEW t \in Tasks, Check(t)
  PROVE  IInv'
<1> DEFINE there == IF device[t] \subseteq up THEN "discover" ELSE "link"
<1>1. Await(t, "check", there) /\ UNCHANGED notifications /\ there \in Places
  BY DEF Check, Places
<1>2. there \in {"discover", "link"} /\ (there = "discover" => device[t] \subseteq up)
  OBVIOUS
<1> HIDE DEF there
<1>3. /\ LocalStep(t) /\ StackStep(t) /\ CountStep(t)
      /\ pc[t] = "check" /\ pc'[t] = there
      /\ adapter'[t] = adapter[t] /\ device'[t] = device[t]
      /\ notifications'[t] = notifications[t] /\ outcome'[t] = outcome[t]
      /\ hindered' = hindered /\ faults' = faults
  BY <1>1, AwaitStep
<1>4. TaskInv(t)'
  BY <1>2, <1>3 DEF IInv, Each, TaskInv, Scans, Connects, Streams
<1>5. ScanInv(t)'
  <2>1. scanning' = scanning
    BY <1>1 DEF Await, StackDoes
  <2> QED
    BY <1>3, <2>1 DEF IInv, Each, ScanInv
<1>6. Reached(t)'
  BY <1>2, <1>3 DEF IInv, Each, Reached, ReachInv, StackStep
<1> QED
  BY <1>3, <1>4, <1>5, <1>6, TaskStep DEF Each

LEMMA LinkKeeps ==
  ASSUME IInv, NEW t \in Tasks, Link(t)
  PROVE  IInv'
<1>1. /\ Await(t, "link", "discover") /\ UNCHANGED notifications
      /\ "discover" \in Places /\ device[t] \subseteq powered
  BY DEF Link, Places
<1>2. /\ LocalStep(t) /\ StackStep(t) /\ CountStep(t)
      /\ pc[t] = "link" /\ pc'[t] = "discover"
      /\ adapter'[t] = adapter[t] /\ device'[t] = device[t]
      /\ notifications'[t] = notifications[t] /\ outcome'[t] = outcome[t]
      /\ hindered' = hindered /\ faults' = faults
  BY <1>1, AwaitStep
<1>3. TaskInv(t)'
  BY <1>2 DEF IInv, Each, TaskInv, Scans, Connects, Streams
<1>4. scanning' = scanning /\ up' = up \cup (device[t] \cap powered)
  BY <1>1, <1>2 DEF Await, StackDoes
<1>5. ScanInv(t)'
  BY <1>2, <1>4 DEF IInv, Each, ScanInv
<1>6. Reached(t)'
  BY <1>1, <1>2, <1>4 DEF IInv, Each, Reached, ReachInv
<1> QED
  BY <1>2, <1>3, <1>5, <1>6, TaskStep DEF Each

LEMMA DiscoverKeeps ==
  ASSUME IInv, NEW t \in Tasks, Discover(t)
  PROVE  IInv'
<1>1. /\ pc[t] = "discover" /\ device[t] \subseteq up
      /\ UNCHANGED <<call, adapter, ledgers, device>>
      /\ UNCHANGED <<stackVars, powered, asked, bounded, hindered>>
  BY DEF Discover
<1>2. StackStep(t) /\ CountStep(t) /\ UNCHANGED <<scanning, up, hindered, faults>>
  BY <1>1, StackIdle, CountIdle DEF stackVars, bounded
<1>3. CASE Pair(Device(t)).write = {} \/ Pair(Device(t)).notify = {}
  <2>1. Return(t, Result("comm"))
    BY <1>3 DEF Discover
  <2>2. \A p \in device[t] : ~Usable(p)
    BY <1>3, DeviceOf, PairOfUsable
  <2>3. "comm" \in Kinds \ {"connected"}
    BY DEF Kinds
  <2> QED
    BY <1>1, <1>2, <2>1, <2>2, <2>3, ReturnKeeps
<1>4. CASE ~(Pair(Device(t)).write = {} \/ Pair(Device(t)).notify = {})
  <2>1. Go(t, "subscribe") /\ UNCHANGED <<notifications, outcome>> /\ "subscribe" \in Places
    BY <1>4 DEF Discover, Places
  <2>2. UNCHANGED <<call, localVars, outcome>>
    BY <1>1, <2>1 DEF localVars
  <2>3. /\ LocalStep(t) /\ pc'[t] = "subscribe"
        /\ adapter'[t] = adapter[t] /\ device'[t] = device[t]
        /\ notifications'[t] = notifications[t] /\ outcome'[t] = outcome[t]
    BY <2>1, <2>2, GoStep
  <2>4. TaskInv(t)'
    BY <1>1, <2>3 DEF IInv, Each, TaskInv, Scans, Connects, Streams
  <2>5. ScanInv(t)'
    BY <1>1, <1>2, <2>3 DEF IInv, Each, ScanInv
  <2>6. Reached(t)'
    BY <1>1, <1>2, <2>3 DEF IInv, Each, Reached, ReachInv
  <2> QED
    BY <1>2, <2>3, <2>4, <2>5, <2>6, TaskStep DEF Each
<1> QED
  BY <1>3, <1>4

LEMMA SubscribeKeeps ==
  ASSUME IInv, NEW t \in Tasks, Subscribe(t)
  PROVE  IInv'
<1>1. /\ Await(t, "subscribe", "stream") /\ UNCHANGED notifications
      /\ "stream" \in Places /\ device[t] \subseteq up
  BY DEF Subscribe, Places
<1>2. /\ LocalStep(t) /\ StackStep(t) /\ CountStep(t)
      /\ pc[t] = "subscribe" /\ pc'[t] = "stream"
      /\ adapter'[t] = adapter[t] /\ device'[t] = device[t]
      /\ notifications'[t] = notifications[t] /\ outcome'[t] = outcome[t]
      /\ hindered' = hindered /\ faults' = faults
  BY <1>1, AwaitStep
<1>3. TaskInv(t)'
  BY <1>2 DEF IInv, Each, TaskInv, Scans, Connects, Streams
<1>4. /\ scanning' = scanning /\ up \subseteq up'
      /\ subscribed' = subscribed \cup
           {<<p, c.uuid>> : p \in device[t], c \in Pair(Device(t)).notify}
  BY <1>1, <1>2 DEF Await, StackDoes, StackStep
<1>5. ScanInv(t)'
  BY <1>2, <1>4 DEF IInv, Each, ScanInv
<1>6. \A p \in device[t] : Usable(p) => <<p, Speaks[p].notify>> \in subscribed'
  <2> SUFFICES ASSUME NEW p \in device[t], Usable(p)
               PROVE  <<p, Speaks[p].notify>> \in subscribed'
    OBVIOUS
  <2>1. p \in Peripherals /\ Device(t) = p
    BY DeviceOf
  <2>2. PICK c \in Pair(p).notify : c.uuid = Speaks[p].notify
    BY <2>1, PairOfUsable
  <2>3. <<p, c.uuid>> \in subscribed'
    BY <1>4, <2>1, <2>2
  <2> QED
    BY <2>2, <2>3
<1>7. Reached(t)'
  BY <1>1, <1>2, <1>4, <1>6 DEF IInv, Each, Reached, ReachInv
<1> QED
  BY <1>2, <1>3, <1>5, <1>7, TaskStep DEF Each

LEMMA OpenStreamKeeps ==
  ASSUME IInv, NEW t \in Tasks, OpenStream(t)
  PROVE  IInv'
<1>1. /\ pc[t] = "stream" /\ Go(t, "ask")
      /\ notifications' = [notifications EXCEPT ![t] = {<<>>}]
      /\ UNCHANGED <<call, adapter, ledgers, device, outcome, powered, bounded, hindered>>
      /\ StackDoes(t)
  BY DEF OpenStream, Await
<1>2. StackStep(t) /\ CountStep(t) /\ faults' = faults /\ hindered' = hindered
  BY <1>1, StackDoesStep, CountIdle DEF bounded
<1>3. /\ LocalStep(t) /\ pc'[t] = "ask" /\ notifications'[t] = {<<>>}
      /\ outcome'[t] = outcome[t] /\ device'[t] = device[t] /\ adapter'[t] = adapter[t]
  <2>1. /\ pc' \in [Tasks -> Places] /\ pc'[t] = "ask"
        /\ \A u \in Tasks \ {t} : pc'[u] = pc[u]
    BY <1>1 DEF IInv, LocalTypes, Go, Places
  <2>2. /\ notifications' = [u \in Tasks |-> notifications'[u]]
        /\ notifications'[t] = {<<>>}
        /\ \A u \in Tasks \ {t} : notifications'[u] = notifications[u]
    BY <1>1 DEF IInv, LocalTypes
  <2> QED
    BY <1>1, <2>1, <2>2 DEF IInv, LocalTypes, LocalStep, Same
<1>4. /\ outcome[t] = Result("none") /\ device[t] # {}
      /\ ScanInv(t) /\ Reached(t)
  BY <1>1 DEF IInv, Each, TaskInv, Connects
<1>5. TaskInv(t)'
  <2>1. OwnStream(t, <<>>)'
    BY DEF OwnStream
  <2>2. Result("none").kind = "none"
    BY DEF Result
  <2> QED
    BY <1>3, <1>4, <2>1, <2>2 DEF TaskInv, Scans, Connects, Streams
<1>6. ScanInv(t)'
  <2>1. scanning' = scanning
    BY <1>1 DEF StackDoes
  <2> QED
    BY <1>1, <1>2, <1>4, <2>1 DEF ScanInv
<1>7. Reached(t)'
  BY <1>1, <1>2, <1>3, <1>4 DEF Reached, ReachInv, StackStep
<1> QED
  BY <1>2, <1>3, <1>5, <1>6, <1>7, TaskStep DEF Each

LEMMA AskMtuKeeps ==
  ASSUME IInv, NEW t \in Tasks, AskMtu(t)
  PROVE  IInv'
<1>1. /\ Await(t, "ask", "mtu") /\ UNCHANGED notifications
      /\ "mtu" \in Places /\ device[t] \subseteq up
  BY DEF AskMtu, Places
<1>2. /\ LocalStep(t) /\ StackStep(t) /\ CountStep(t)
      /\ pc[t] = "ask" /\ pc'[t] = "mtu"
      /\ adapter'[t] = adapter[t] /\ device'[t] = device[t]
      /\ notifications'[t] = notifications[t] /\ outcome'[t] = outcome[t]
      /\ hindered' = hindered /\ faults' = faults
  BY <1>1, AwaitStep
<1>3. TaskInv(t)'
  <2>1. \A s : OwnStream(t, s) => OwnStream(t, s)'
    BY <1>2 DEF OwnStream
  <2> QED
    BY <1>2, <2>1 DEF IInv, Each, TaskInv, Scans, Connects, Streams
<1>4. scanning' = scanning
  BY <1>1, <1>2 DEF Await, StackDoes
<1>5. ScanInv(t)'
  BY <1>2, <1>4 DEF IInv, Each, ScanInv
<1>6. \A p \in device[t] : Usable(p) => asked'[p] > 0
  <2> SUFFICES ASSUME NEW p \in device[t], Usable(p)
               PROVE  asked'[p] > 0
    OBVIOUS
  <2>1. p \in Peripherals
    BY DeviceOf
  <2>2. HasUuid(Pair(p).write, Speaks[p].write)
    BY <2>1, PairOfUsable DEF HasUuid
  <2>3. asked'[p] = asked[p] + 1
    BY <1>1, <1>2, <2>1, <2>2 DEF Await, StackDoes
  <2>4. asked[p] \in Nat
    BY <2>1 DEF IInv, StackTypes
  <2> QED
    BY <2>3, <2>4
<1>7. Reached(t)'
  BY <1>1, <1>2, <1>6 DEF IInv, Each, Reached, ReachInv, StackStep
<1> QED
  BY <1>2, <1>3, <1>5, <1>7, TaskStep DEF Each

LEMMA ReceiveMtuKeeps ==
  ASSUME IInv, NEW t \in Tasks, ReceiveMtu(t)
  PROVE  IInv'
<1>1. /\ pc[t] = "mtu" /\ UNCHANGED <<call, adapter, ledgers, device>>
      /\ UNCHANGED <<stackVars, powered, asked, bounded, hindered>>
  BY DEF ReceiveMtu
<1>2. /\ StackStep(t) /\ CountStep(t)
      /\ UNCHANGED <<scanning, up, subscribed, asked, hindered, faults>>
  BY <1>1, StackIdle, CountIdle DEF stackVars, bounded
<1>3. PICK s : notifications[t] = {s} /\ OwnStream(t, s)
  BY <1>1 DEF IInv, Each, TaskInv, Streams
<1>4. /\ s # <<>>
      /\ \/ /\ IsMtuReply(Head(s))
            /\ Return(t, [kind |-> "connected", mtu |-> InferMtu(Head(s))])
         \/ /\ ~IsMtuReply(Head(s))
            /\ notifications' = [notifications EXCEPT ![t] = {Tail(s)}]
            /\ UNCHANGED <<pc, outcome>>
  BY <1>3 DEF ReceiveMtu
<1>5. /\ s \in Seq(Seq(Byte)) /\ Head(s) = s[1] /\ Head(s) \in Seq(Byte)
      /\ Len(s) \in Nat /\ Len(s) >= 1
  BY <1>3, <1>4, HeadTailProperties DEF OwnStream
<1>6. ScanInv(t)'
  BY <1>1, <1>2 DEF IInv, Each, ScanInv
<1>7. CASE /\ IsMtuReply(Head(s))
           /\ Return(t, [kind |-> "connected", mtu |-> InferMtu(Head(s))])
  <2> DEFINE result == [kind |-> "connected", mtu |-> InferMtu(Head(s))]
  <2>1. /\ result \in Outcome /\ result.kind = "connected"
        /\ result.mtu = InferMtu(Head(s))
    BY <1>5, InferMtuFloor DEF Outcome, Kinds
  <2> HIDE DEF result
  <2>2. Return(t, result)
    BY <1>7 DEF result
  <2>3. /\ LocalStep(t) /\ pc'[t] = "idle" /\ device'[t] = device[t]
        /\ notifications'[t] = {} /\ outcome'[t] = result
    BY <1>1, <2>1, <2>2, ReturnStep
  <2>4. \A p \in device[t] : Head(s) = MtuReply[p]
    <3>1. 1 \in 1 .. Len(s)
      BY <1>5
    <3> QED
      BY <1>3, <1>5, <1>7, <3>1 DEF OwnStream
  <2>5. TaskInv(t)'
    BY <2>1, <2>3, <2>4 DEF TaskInv, Scans, Connects, Streams
  <2>6. Reached(t)'
    BY <2>1, <2>3 DEF Reached, ReachInv, Fine
  <2> QED
    BY <1>2, <1>6, <2>3, <2>5, <2>6, TaskStep DEF Each
<1>8. CASE /\ ~IsMtuReply(Head(s))
           /\ notifications' = [notifications EXCEPT ![t] = {Tail(s)}]
           /\ UNCHANGED <<pc, outcome>>
  <2>1. LocalStep(t) /\ notifications'[t] = {Tail(s)}
    BY <1>1, <1>8 DEF IInv, LocalTypes, LocalStep, Same
  <2>2. /\ Tail(s) \in Seq(Seq(Byte)) /\ Len(Tail(s)) = Len(s) - 1
        /\ \A i \in 1 .. Len(Tail(s)) : Tail(s)[i] = s[i + 1]
    BY <1>4, <1>5, HeadTailProperties
  <2> DEFINE n == Len(s)
             r == Tail(s)
  <2>3. r \in Seq(Seq(Byte)) /\ Len(r) = n - 1 /\ \A i \in 1 .. n - 1 : r[i] = s[i + 1]
    BY <2>2
  <2>4. n \in Nat /\ n >= 1
    BY <1>5
  <2>5. /\ \A i \in 1 .. n : IsMtuReply(s[i]) => \A p \in device[t] : s[i] = MtuReply[p]
        /\ ~IsMtuReply(s[1])
    BY <1>3, <1>5, <1>8 DEF OwnStream
  <2>6. notifications'[t] = {r} /\ notifications[t] = {s}
    BY <1>3, <2>1
  <2> HIDE DEF n, r
  <2>7. OwnStream(t, r)'
    <3>1. \A i \in 1 .. n - 1 : IsMtuReply(r[i]) => \A p \in device[t] : r[i] = MtuReply[p]
      BY <2>3, <2>4, <2>5
    <3> QED
      BY <1>1, <2>3, <3>1 DEF OwnStream
  <2>8. TaskInv(t)'
    BY <1>1, <1>8, <2>6, <2>7 DEF IInv, Each, TaskInv, Scans, Connects, Streams
  <2>9. (\E i \in 1 .. n : IsMtuReply(s[i])) => \E i \in 1 .. n - 1 : IsMtuReply(r[i])
    <3> SUFFICES ASSUME NEW i \in 1 .. n, IsMtuReply(s[i])
                 PROVE  \E j \in 1 .. n - 1 : IsMtuReply(r[j])
      OBVIOUS
    <3>1. i # 1
      BY <2>5
    <3>2. i - 1 \in 1 .. n - 1 /\ r[i - 1] = s[i - 1 + 1] /\ i - 1 + 1 = i
      BY <2>3, <2>4, <3>1
    <3> QED
      BY <3>2
  <2>10. /\ (\E q \in notifications[t] : \E i \in 1 .. Len(q) : IsMtuReply(q[i])) =>
               \E i \in 1 .. n : IsMtuReply(s[i])
         /\ (\E i \in 1 .. n - 1 : IsMtuReply(r[i])) =>
               \E q \in notifications'[t] : \E i \in 1 .. Len(q) : IsMtuReply(q[i])
    BY <2>3, <2>6 DEF n
  <2>11. Reached(t)'
    BY <1>1, <1>2, <1>8, <2>9, <2>10 DEF IInv, Each, Reached, ReachInv
  <2> QED
    BY <1>2, <1>6, <2>1, <2>8, <2>11, TaskStep DEF Each
<1> QED
  BY <1>4, <1>7, <1>8

-----------------------------------------------------------------------------
(* The ways a call fails.                                                  *)

LEMMA FailsKeeps ==
  ASSUME IInv, NEW t \in Tasks, NEW kind \in Kinds \ {"connected"},
         NEW S \in SUBSET {t}, Fails(t, kind, S), pc[t] \notin {"sleep", "stop"},
         t \in S \/ \A p \in device[t] : ~Usable(p)
  PROVE  IInv'
<1>1. /\ Return(t, Result(kind)) /\ hindered' = hindered \cup S
      /\ UNCHANGED <<call, adapter, ledgers, device>>
      /\ UNCHANGED <<stackVars, powered, asked>> /\ UNCHANGED bounded
  BY DEF Fails
<1>2. StackStep(t) /\ scanning' = scanning
  BY <1>1, StackIdle DEF stackVars
<1>3. CountStep(t)
  BY <1>1 DEF IInv, CountTypes, CountStep, bounded
<1> QED
  BY <1>1, <1>2, <1>3, ReturnKeeps

LEMMA LinkFailsKeeps ==
  ASSUME IInv, NEW t \in Tasks, LinkFails(t)
  PROVE  IInv'
<1>1. Fails(t, "ble", {t}) /\ pc[t] \notin {"sleep", "stop"}
  BY DEF LinkFails
<1> QED
  BY <1>1, FailsKeeps DEF Kinds

LEMMA StreamEndedKeeps ==
  ASSUME IInv, NEW t \in Tasks, StreamEnded(t)
  PROVE  IInv'
<1>1. Fails(t, "stream_ended", {t}) /\ pc[t] \notin {"sleep", "stop"}
  BY DEF StreamEnded
<1> QED
  BY <1>1, FailsKeeps DEF Kinds

\* With a device that it can use a task does not wait in vain: the device has a
\* request to reply to, or the reply is in the stream.
LEMMA TimeoutKeeps ==
  ASSUME IInv, NEW t \in Tasks, Timeout(t)
  PROVE  IInv'
<1> DEFINE S == IF asked[Device(t)] > 0 THEN {t} ELSE {}
<1>1. /\ Fails(t, "timeout", S) /\ pc[t] \notin {"sleep", "stop"}
      /\ pc[t] = "mtu" /\ notifications[t] = {<<>>}
  BY DEF Timeout
<1>2. CASE asked[Device(t)] > 0 \/ t \in hindered
  <2>1. CASE asked[Device(t)] > 0
    BY <1>1, <2>1, FailsKeeps DEF Kinds
  <2>2. CASE t \in hindered
    <3>1. Fails(t, "timeout", S \cup {t})
      BY <1>1, <2>2 DEF Fails
    <3> QED
      BY <1>1, <3>1, FailsKeeps DEF Kinds
  <2> QED
    BY <1>2, <2>1, <2>2
<1>3. CASE ~(asked[Device(t)] > 0 \/ t \in hindered)
  <2>1. \A p \in device[t] : ~Usable(p)
    <3> SUFFICES ASSUME NEW p \in device[t], Usable(p) PROVE FALSE
      OBVIOUS
    <3>1. Device(t) = p
      BY DeviceOf
    <3>2. \E s \in notifications[t] : \E i \in 1 .. Len(s) : IsMtuReply(s[i])
      BY <1>1, <1>3, <3>1 DEF IInv, Each, Reached, ReachInv
    <3> QED
      BY <1>1, <3>2
  <2> QED
    BY <1>1, <2>1, FailsKeeps DEF Kinds
<1> QED
  BY <1>2, <1>3

LEMMA EndsKeeps ==
  ASSUME IInv, NEW t \in Tasks, NEW kind \in {"ble", "cancelled"}, Ends(t, kind)
  PROVE  IInv'
<1>1. /\ faults < MaxFaults /\ faults' = faults + 1
      /\ Return(t, Result(kind)) /\ hindered' = hindered \cup {t}
      /\ UNCHANGED <<call, adapter, ledgers, device>>
      /\ UNCHANGED powered /\ UNCHANGED <<calls, strays>>
  BY DEF Ends
<1>2. StackStep(t)
  <2>1. CASE StackDoes(t)
    BY <1>1, <2>1, StackDoesStep
  <2>2. CASE UNCHANGED <<stackVars, asked>>
    BY <1>1, <2>2, StackIdle
  <2> QED
    BY <2>1, <2>2 DEF Ends
<1>3. CountStep(t)
  BY <1>1, CountFault
<1>4. faults' # 0 /\ t \in hindered'
  BY <1>1 DEF IInv, CountTypes
<1>5. kind \in Kinds \ {"connected"}
  BY DEF Kinds
<1> QED
  BY <1>1, <1>2, <1>3, <1>4, <1>5, ReturnKeeps

-----------------------------------------------------------------------------
(* The devices.                                                            *)

LEMMA TaskSame ==
  ASSUME NEW t, TaskInv(t), Same(t)
  PROVE  TaskInv(t)'
<1>1. \A s : OwnStream(t, s) => OwnStream(t, s)'
  BY DEF Same, OwnStream
<1> QED
  BY <1>1 DEF TaskInv, Same

HasReply(t) == \E s \in notifications[t] : \E i \in 1 .. Len(s) : IsMtuReply(s[i])

LEMMA NotifyKeeps ==
  ASSUME IInv, NEW p \in Peripherals, NEW raw \in Seq(Byte),
         IsMtuReply(raw) => raw = MtuReply[p],
         Notify(p, raw), UNCHANGED <<pc, call, adapter, ledgers, device, outcome>>
  PROVE  /\ LocalTypes'
         /\ \A t \in Tasks : TaskInv(t)'
         /\ \A t \in Tasks : HasReply(t) => HasReply(t)'
         /\ \A t \in Tasks : pc[t] \in Streams /\ device[t] = {p} /\ IsMtuReply(raw)
                               => HasReply(t)'
<1>1. LocalTypes'
  BY DEF IInv, LocalTypes, Notify
<1>2. ASSUME NEW t \in Tasks
      PROVE  /\ TaskInv(t)'
             /\ HasReply(t) => HasReply(t)'
             /\ pc[t] \in Streams /\ device[t] = {p} /\ IsMtuReply(raw) => HasReply(t)'
  <2>1. TaskInv(t)
    BY DEF IInv, Each
  <2>2. notifications'[t] = IF device[t] = {p}
                            THEN {Append(s, raw) : s \in notifications[t]}
                            ELSE notifications[t]
    BY DEF Notify
  <2>3. CASE pc[t] \notin Streams
    <3>1. notifications[t] = {} /\ notifications'[t] = {}
      BY <2>1, <2>2, <2>3 DEF TaskInv
    <3> QED
      BY <2>1, <2>3, <3>1 DEF TaskInv, HasReply
  <2>4. CASE pc[t] \in Streams /\ device[t] # {p}
    <3>1. notifications'[t] = notifications[t]
      BY <2>2, <2>4
    <3>2. \A s : OwnStream(t, s) => OwnStream(t, s)'
      BY DEF OwnStream
    <3>3. TaskInv(t)'
      BY <2>1, <3>1, <3>2 DEF TaskInv
    <3> QED
      BY <2>4, <3>1, <3>3 DEF HasReply
  <2>5. CASE pc[t] \in Streams /\ device[t] = {p}
    <3>1. PICK s : notifications[t] = {s} /\ OwnStream(t, s)
      BY <2>1, <2>5 DEF TaskInv
    <3> DEFINE r == Append(s, raw)
               n == Len(s)
    <3>2. notifications'[t] = {r}
      BY <2>2, <2>5, <3>1
    <3>3. /\ r \in Seq(Seq(Byte)) /\ Len(r) = n + 1 /\ n \in Nat
          /\ (\A i \in 1 .. n : r[i] = s[i]) /\ r[n + 1] = raw
      BY <3>1, AppendProperties DEF OwnStream
    <3>4. \A i \in 1 .. n : IsMtuReply(s[i]) => \A q \in device[t] : s[i] = MtuReply[q]
      BY <3>1 DEF OwnStream
    <3>5. HasReply(t) => \E i \in 1 .. n : IsMtuReply(s[i])
      BY <3>1 DEF HasReply
    <3> HIDE DEF r, n
    <3>6. ASSUME NEW i \in 1 .. n + 1
          PROVE  IsMtuReply(r[i]) => \A q \in device[t] : r[i] = MtuReply[q]
      <4>1. CASE i = n + 1
        BY <2>5, <3>3, <4>1
      <4>2. CASE i # n + 1
        <5>1. i \in 1 .. n
          BY <3>3, <4>2
        <5> QED
          BY <3>3, <3>4, <5>1
      <4> QED
        BY <4>1, <4>2
    <3>7. OwnStream(t, r)'
      BY <3>3, <3>6 DEF OwnStream
    <3>8. TaskInv(t)'
      BY <2>1, <2>5, <3>2, <3>7 DEF TaskInv
    <3>9. HasReply(t) => HasReply(t)'
      <4>1. 1 .. n \subseteq 1 .. n + 1
        BY <3>3
      <4>2. HasReply(t) => \E i \in 1 .. n + 1 : IsMtuReply(r[i])
        BY <3>3, <3>5, <4>1
      <4> QED
        BY <3>2, <3>3, <4>2 DEF HasReply
    <3>10. IsMtuReply(raw) => HasReply(t)'
      <4>1. n + 1 \in 1 .. n + 1
        BY <3>3
      <4> QED
        BY <3>2, <3>3, <4>1 DEF HasReply
    <3> QED
      BY <3>8, <3>9, <3>10
  <2> QED
    BY <2>3, <2>4, <2>5
<1> QED
  BY <1>1, <1>2

LEMMA ReplyMtuKeeps ==
  ASSUME IInv, NEW p \in Peripherals, ReplyMtu(p)
  PROVE  IInv'
<1>1. /\ p \in up /\ asked[p] > 0 /\ asked' = [asked EXCEPT ![p] = asked[p] - 1]
      /\ IF <<p, Speaks[p].notify>> \in subscribed
         THEN Notify(p, MtuReply[p]) ELSE UNCHANGED notifications
      /\ UNCHANGED <<pc, call, adapter, ledgers, device, outcome>>
      /\ UNCHANGED <<scanning, known, up, subscribed, powered, hindered>>
      /\ UNCHANGED <<calls, faults, strays>>
  BY DEF ReplyMtu, stackVars, bounded
<1>2. StackTypes'
  BY <1>1 DEF IInv, StackTypes
<1>3. CountTypes'
  BY <1>1 DEF IInv, CountTypes
<1>4. MtuReply[p] \in Seq(Byte) /\ IsMtuReply(MtuReply[p])
  BY MtuReplyAssumption DEF IsMtuReply
<1>5. /\ LocalTypes' /\ \A t \in Tasks : TaskInv(t)'
      /\ \A t \in Tasks : HasReply(t) => HasReply(t)'
      /\ \A t \in Tasks :
           pc[t] \in Streams /\ device[t] = {p} /\ <<p, Speaks[p].notify>> \in subscribed
             => HasReply(t)'
  <2>1. CASE <<p, Speaks[p].notify>> \in subscribed
    BY <1>1, <1>4, <2>1, NotifyKeeps
  <2>2. CASE <<p, Speaks[p].notify>> \notin subscribed
    <3>1. LocalTypes'
      BY <1>1, <2>2 DEF IInv, LocalTypes
    <3>2. \A t \in Tasks : TaskInv(t)'
      BY <1>1, <2>2, TaskSame DEF IInv, Each, Same
    <3> QED
      BY <1>1, <2>2, <3>1, <3>2 DEF HasReply
  <2> QED
    BY <2>1, <2>2
<1>6. ASSUME NEW t \in Tasks PROVE ScanInv(t)' /\ Reached(t)'
  <2>1. ScanInv(t)'
    BY <1>1 DEF IInv, Each, ScanInv
  <2>2. ASSUME t \notin hindered', NEW q \in device'[t], Usable(q)
        PROVE  /\ pc'[t] \in {"discover", "subscribe", "stream", "ask", "mtu"} => q \in up'
               /\ pc'[t] \in {"stream", "ask", "mtu"} => <<q, Speaks[q].notify>> \in subscribed'
               /\ pc'[t] = "mtu" => asked'[q] > 0 \/ HasReply(t)'
               /\ outcome'[t].kind \in Fine
    <3>1. t \notin hindered /\ q \in device[t] /\ device[t] = {q} /\ q \in Peripherals
      BY <1>1, <2>2, DeviceOf
    <3>2. /\ pc[t] \in {"discover", "subscribe", "stream", "ask", "mtu"} => q \in up
          /\ pc[t] \in {"stream", "ask", "mtu"} => <<q, Speaks[q].notify>> \in subscribed
          /\ pc[t] = "mtu" => asked[q] > 0 \/ HasReply(t)
          /\ outcome[t].kind \in Fine
      BY <2>2, <3>1 DEF IInv, Each, Reached, ReachInv, HasReply
    <3>3. pc[t] = "mtu" => asked'[q] > 0 \/ HasReply(t)'
      <4>1. CASE q = p
        BY <1>5, <3>1, <3>2, <4>1 DEF Streams
      <4>2. CASE q # p
        <5>1. asked'[q] = asked[q]
          BY <1>1, <3>1, <4>2 DEF IInv, StackTypes
        <5> QED
          BY <1>5, <3>2, <5>1
      <4> QED
        BY <4>1, <4>2
    <3> QED
      BY <1>1, <3>2, <3>3
  <2> QED
    BY <2>1, <2>2 DEF Reached, ReachInv, HasReply
<1> QED
  BY <1>2, <1>3, <1>5, <1>6 DEF IInv, Each

LEMMA StrayKeeps ==
  ASSUME IInv, NEW p \in Peripherals, NEW raw \in Strays, Stray(p, raw)
  PROVE  IInv'
<1>1. /\ strays < MaxStrays /\ strays' = strays + 1 /\ Notify(p, raw)
      /\ UNCHANGED <<pc, call, adapter, ledgers, device, outcome>>
      /\ UNCHANGED <<scanning, known, up, subscribed, powered, asked>>
      /\ UNCHANGED <<calls, faults, hindered>>
  BY DEF Stray, stackVars
<1>2. StackTypes'
  BY <1>1 DEF IInv, StackTypes
<1>3. CountTypes'
  BY <1>1, BoundsAssumption DEF IInv, CountTypes
<1>4. raw \in Seq(Byte) /\ ~IsMtuReply(raw)
  BY StraysAssumption DEF IsMtuReply
<1>5. /\ LocalTypes' /\ \A t \in Tasks : TaskInv(t)'
      /\ \A t \in Tasks : HasReply(t) => HasReply(t)'
  BY <1>1, <1>4, NotifyKeeps
<1>6. ASSUME NEW t \in Tasks PROVE ScanInv(t)' /\ Reached(t)'
  <2>1. ScanInv(t)'
    BY <1>1 DEF IInv, Each, ScanInv
  <2>2. Reached(t)'
    BY <1>1, <1>5 DEF IInv, Each, Reached, ReachInv, HasReply
  <2> QED
    BY <2>1, <2>2
<1> QED
  BY <1>2, <1>3, <1>5, <1>6 DEF IInv, Each

LEMMA DisappearKeeps ==
  ASSUME IInv, NEW p \in Peripherals, Disappear(p)
  PROVE  IInv'
<1>1. /\ faults < MaxFaults /\ faults' = faults + 1
      /\ powered' = powered \ {p} /\ up' = up \ {p}
      /\ subscribed' = {s \in subscribed : s[1] # p}
      /\ asked' = [asked EXCEPT ![p] = 0]
      /\ hindered' = hindered \cup {t \in Active : device[t] = {p}}
      /\ UNCHANGED <<pc, call, adapter, ledgers, device, notifications, outcome>>
      /\ UNCHANGED <<scanning, known, calls, strays>>
  BY DEF Disappear, hostVars, localVars
<1>2. LocalTypes'
  BY <1>1 DEF IInv, LocalTypes
<1>3. StackTypes'
  <2>1. subscribed' \subseteq up' \X Uuid
    BY <1>1 DEF IInv, StackTypes
  <2> QED
    BY <1>1, <2>1 DEF IInv, StackTypes
<1>4. CountTypes' /\ faults' # 0
  BY <1>1, BoundsAssumption DEF IInv, CountTypes, Active
<1>5. ASSUME NEW t \in Tasks PROVE Each(t)'
  <2>1. TaskInv(t)'
    BY <1>1, TaskSame DEF IInv, Each, Same
  <2>2. ScanInv(t)'
    BY <1>4 DEF ScanInv
  <2>3. Reached(t)'
    <3> SUFFICES ASSUME t \notin hindered' PROVE ReachInv(t)'
      BY DEF Reached
    <3>1. ReachInv(t) /\ (pc[t] = "idle" \/ device[t] # {p})
      BY <1>1 DEF IInv, Each, Reached, Active
    <3>2. CASE pc[t] = "idle"
      BY <1>1, <3>1, <3>2 DEF ReachInv
    <3>3. CASE device[t] # {p}
      <4>1. \A q \in device[t] : q # p /\ q \in Peripherals
        BY <3>3, DeviceOf
      <4>2. \A q \in device[t] : asked'[q] = asked[q]
        BY <1>1, <4>1 DEF IInv, StackTypes
      <4>3. \A q \in device[t] : /\ q \in up => q \in up'
                                 /\ <<q, Speaks[q].notify>> \in subscribed =>
                                      <<q, Speaks[q].notify>> \in subscribed'
        BY <1>1, <4>1
      <4> QED
        BY <1>1, <3>1, <4>2, <4>3 DEF ReachInv
    <3> QED
      BY <3>1, <3>2, <3>3
  <2> QED
    BY <2>1, <2>2, <2>3 DEF Each
<1> QED
  BY <1>2, <1>3, <1>4, <1>5 DEF IInv

\* Neither the tasks nor what they have in the stack change.
LEMMA StutterKeeps ==
  ASSUME IInv, UNCHANGED <<hostVars, stackVars, asked, bounded, hindered>>,
         powered \subseteq powered', powered' \subseteq Peripherals
  PROVE  IInv'
<1>1. /\ UNCHANGED <<pc, call, adapter, ledgers, device, notifications, outcome>>
      /\ UNCHANGED <<scanning, known, up, subscribed, asked>>
      /\ UNCHANGED <<calls, faults, strays, hindered>>
  BY DEF hostVars, localVars, stackVars, bounded
<1>2. LocalTypes'
  BY <1>1 DEF IInv, LocalTypes
<1>3. StackTypes' /\ CountTypes'
  BY <1>1 DEF IInv, StackTypes, CountTypes
<1>4. ASSUME NEW t \in Tasks PROVE Each(t)'
  <2>1. TaskInv(t)'
    BY <1>1, TaskSame DEF IInv, Each, Same
  <2> QED
    BY <1>1, <2>1 DEF IInv, Each, ScanInv, Reached, ReachInv
<1> QED
  BY <1>2, <1>3, <1>4 DEF IInv

LEMMA AppearKeeps ==
  ASSUME IInv, NEW p \in Peripherals, Appear(p)
  PROVE  IInv'
BY StutterKeeps DEF IInv, StackTypes, Appear

-----------------------------------------------------------------------------
(* The theorems.                                                           *)

\* Every step of BleConnect keeps the invariant.
THEOREM ConnectInvCorrect == Spec => []IInv
<1>1. IInv /\ [Next]_vars => IInv'
  <2> SUFFICES ASSUME IInv, [Next]_vars PROVE IInv'
    OBVIOUS
  <2>1. ASSUME NEW t \in Tasks, HostStep(t) PROVE IInv'
    BY <2>1, GetAdaptersKeeps, StartScanKeeps, SleepKeeps, StopScanKeeps, ListKeeps,
       CheckKeeps, LinkKeeps, DiscoverKeeps, SubscribeKeeps, OpenStreamKeeps,
       AskMtuKeeps, ReceiveMtuKeeps, LinkFailsKeeps, StreamEndedKeeps, TimeoutKeeps
    DEF HostStep
  <2>2. ASSUME NEW t \in Tasks, StackFails(t) \/ Cancel(t) PROVE IInv'
    BY <2>2, EndsKeeps DEF StackFails, Cancel
  <2>3. CASE UNCHANGED vars
    BY <2>3, StutterKeeps DEF vars, IInv, StackTypes
  <2> QED
    BY <2>1, <2>2, <2>3, ListLedgersKeeps, ConnectKeeps, ReplyMtuKeeps, StrayKeeps,
       DisappearKeeps, AppearKeeps
    DEF Next, AllReturned
<1> QED
  BY InitInv, <1>1, PTL DEF Spec

\* The types of the tasks, the stack and the devices.
THEOREM ConnectTypeCorrect == Spec => []TypeOK
<1>1. IInv => TypeOK
  <2> SUFFICES ASSUME IInv PROVE TypeOK
    OBVIOUS
  <2>1. DOMAIN notifications = Tasks
    BY DEF IInv, LocalTypes
  <2>2. \A t \in Tasks : \A s, u \in notifications[t] : s = u /\ s \in Seq(Seq(Byte))
    BY DEF IInv, Each, TaskInv, OwnStream
  <2> QED
    BY <2>1, <2>2 DEF IInv, LocalTypes, StackTypes, CountTypes, TypeOK
<1> QED
  BY <1>1, ConnectInvCorrect, PTL

\* infer_mtu takes its mtu_size from a reply of its own device and no other
\* notification, as every reply in the stream of a task is its device's.
THEOREM MtuCorrect == Spec => []MtuIsTheDevices
<1>1. IInv => MtuIsTheDevices
  BY DEF IInv, Each, TaskInv, MtuIsTheDevices
<1> QED
  BY <1>1, ConnectInvCorrect, PTL

\* list_ledgers and new leave no scan behind when no await fails and no future
\* is dropped.
THEOREM ScanCorrect == Spec => []ScanLeftOnlyByFault
<1>1. IInv => ScanLeftOnlyByFault
  <2> SUFFICES ASSUME IInv, faults = 0, NEW s \in scanning
               PROVE  pc[s[1]] \in {"sleep", "stop"} /\ adapter[s[1]] = s[2]
    BY DEF ScanLeftOnlyByFault
  <2>1. PICK t \in Tasks, a \in 1 .. NAdapters : s = <<t, a>>
    BY DEF IInv, StackTypes
  <2> QED
    BY <2>1 DEF IInv, Each, ScanInv
<1> QED
  BY <1>1, ConnectInvCorrect, PTL

\* A connect to a device with the characteristics that the code looks for
\* succeeds, unless something goes wrong in that call, whatever was left behind
\* by others: the link and the subscription are there when they are needed, and
\* the reply is in the stream or is still owed by the device.
THEOREM ConnectCorrect == Spec => []UnhinderedConnectSucceeds
<1>1. IInv => UnhinderedConnectSucceeds
  BY DEF IInv, Each, Reached, ReachInv, Fine, UnhinderedConnectSucceeds
<1> QED
  BY <1>1, ConnectInvCorrect, PTL
============================================================================
