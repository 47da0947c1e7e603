------------------------- MODULE BleTransportProofs -------------------------
(***************************************************************************)
(* Proofs about BleTransport, for any number of callers, all commands and  *)
(* answers, every reply to infer_mtu and any number of calls, strays and   *)
(* losses.                                                                 *)
(***************************************************************************)
EXTENDS BleTransport, BleFramingProofs

-----------------------------------------------------------------------------
(* The queue of the lock.                                                  *)

Once(queue) == \A i, j \in DOMAIN queue : queue[i] = queue[j] => i = j

LEMMA LeaveQueue ==
  ASSUME NEW S, NEW q \in Seq(S), Once(q), NEW c
  PROVE  LET r == Leave(q, c)
         IN  /\ r \in Seq(S)
             /\ Once(r)
             /\ \A i \in DOMAIN r : r[i] # c /\ \E j \in DOMAIN q : r[i] = q[j]
<1>1. CASE ~ \E k \in DOMAIN q : q[k] = c
  BY <1>1 DEF Leave
<1>2. CASE \E k \in DOMAIN q : q[k] = c
  <2> DEFINE k == CHOOSE k \in DOMAIN q : q[k] = c
             n == Len(q)
             r == Leave(q, c)
  <2>1. k \in DOMAIN q /\ q[k] = c
    BY <1>2
  <2>2. r = SubSeq(q, 1, k - 1) \o SubSeq(q, k + 1, n)
    BY <1>2 DEF Leave
  <2> HIDE DEF k
  <2>3. k \in 1 .. n /\ n \in Nat /\ DOMAIN q = 1 .. n
    BY <2>1, LenProperties
  <2> HIDE DEF n, r
  <2> DEFINE u == SubSeq(q, 1, k - 1)
             v == SubSeq(q, k + 1, n)
  <2>4. u \in Seq(S) /\ Len(u) = k - 1 /\ \A i \in 1 .. k - 1 : u[i] = q[i]
    <3>1. \A i \in 1 .. k - 1 : q[i] \in S
      BY <2>3, ElementOfSeq DEF n
    <3>2. /\ u \in Seq(S)
          /\ Len(u) = IF 1 <= k - 1 THEN k - 1 - 1 + 1 ELSE 0
          /\ \A i \in 1 .. k - 1 - 1 + 1 : u[i] = q[1 + i - 1]
      BY <2>3, <3>1, SubSeqProperties
    <3> HIDE DEF u
    <3> QED
      BY <2>3, <3>2
  <2>5. v \in Seq(S) /\ Len(v) = n - k /\ \A i \in 1 .. n - k : v[i] = q[k + i]
    <3>1. \A i \in k + 1 .. n : q[i] \in S
      BY <2>3, ElementOfSeq DEF n
    <3>2. /\ v \in Seq(S)
          /\ Len(v) = IF k + 1 <= n THEN n - (k + 1) + 1 ELSE 0
          /\ \A i \in 1 .. n - (k + 1) + 1 : v[i] = q[k + 1 + i - 1]
      BY <2>3, <3>1, SubSeqProperties
    <3> HIDE DEF v
    <3> QED
      BY <2>3, <3>2
  <2> HIDE DEF u, v
  <2>6. /\ r \in Seq(S) /\ Len(r) = n - 1
        /\ \A i \in 1 .. n - 1 : r[i] = IF i < k THEN q[i] ELSE q[i + 1]
    <3>1. r = u \o v
      BY <2>2 DEF u, v
    <3>2. /\ r \in Seq(S) /\ Len(r) = Len(u) + Len(v)
          /\ \A i \in 1 .. Len(u) + Len(v) :
               r[i] = IF i <= Len(u) THEN u[i] ELSE v[i - Len(u)]
      BY <2>4, <2>5, <3>1, ConcatProperties
    <3>3. Len(u) + Len(v) = n - 1
      BY <2>3, <2>4, <2>5
    <3>4. ASSUME NEW i \in 1 .. n - 1
          PROVE  r[i] = IF i < k THEN q[i] ELSE q[i + 1]
      <4>1. CASE i < k
        <5>1. i \in 1 .. k - 1 /\ i <= Len(u)
          BY <2>3, <2>4, <4>1
        <5>2. r[i] = u[i]
          BY <3>2, <3>3, <5>1
        <5> QED
          BY <2>4, <4>1, <5>1, <5>2
      <4>2. CASE ~(i < k)
        <5> DEFINE d == i - (k - 1)
        <5>1. d \in 1 .. n - k /\ k + d = i + 1
          BY <2>3, <4>2
        <5>2. r[i] = v[d]
          <6>1. ~(i <= Len(u)) /\ i \in 1 .. Len(u) + Len(v) /\ i - Len(u) = d
            BY <2>3, <2>4, <3>3, <4>2
          <6>2. r[i] = v[i - Len(u)]
            BY <3>2, <6>1
          <6> QED
            BY <6>1, <6>2
        <5> HIDE DEF d
        <5>3. v[d] = q[k + d]
          BY <2>5, <5>1
        <5> QED
          BY <4>2, <5>1, <5>2, <5>3
      <4> QED
        BY <4>1, <4>2
    <3> QED
      BY <3>2, <3>3, <3>4
  <2>7. DOMAIN r = 1 .. n - 1
    BY <2>6, LenProperties
  <2>8. \A i \in 1 .. n - 1 : r[i] # c /\ \E j \in 1 .. n : r[i] = q[j]
    <3> SUFFICES ASSUME NEW i \in 1 .. n - 1
                 PROVE  r[i] # c /\ \E j \in 1 .. n : r[i] = q[j] /\ j # k
      OBVIOUS
    <3> DEFINE j == IF i < k THEN i ELSE i + 1
    <3>1. j \in 1 .. n /\ j # k /\ r[i] = q[j]
      BY <2>3, <2>6
    <3> HIDE DEF j
    <3> QED
      BY <2>1, <2>3, <3>1 DEF Once
  <2>9. ASSUME NEW i \in 1 .. n - 1, NEW j \in 1 .. n - 1, r[i] = r[j]
        PROVE  i = j
    <3> DEFINE a == IF i < k THEN i ELSE i + 1
               b == IF j < k THEN j ELSE j + 1
    <3>1. /\ a \in 1 .. n /\ r[i] = q[a]
          /\ b \in 1 .. n /\ r[j] = q[b]
      BY <2>3, <2>6
    <3>2. a = b => i = j
      BY <2>3
    <3> HIDE DEF a, b
    <3> QED
      BY <2>3, <2>9, <3>1, <3>2 DEF Once
  <2> QED
    BY <2>3, <2>6, <2>7, <2>8, <2>9 DEF Once, r
<1> QED
  BY <1>1, <1>2

LEMMA TailQueue ==
  ASSUME NEW S, NEW q \in Seq(S), Once(q), q # <<>>
  PROVE  /\ Tail(q) \in Seq(S)
         /\ Once(Tail(q))
         /\ \A i \in DOMAIN Tail(q) : \E j \in DOMAIN q : Tail(q)[i] = q[j]
BY DEF Once

LEMMA JoinQueue ==
  ASSUME NEW S, NEW q \in Seq(S), Once(q), NEW c \in S,
         \A i \in DOMAIN q : q[i] # c
  PROVE  /\ Append(q, c) \in Seq(S)
         /\ Once(Append(q, c))
         /\ \A i \in DOMAIN Append(q, c) :
              Append(q, c)[i] = c \/ \E j \in DOMAIN q : Append(q, c)[i] = q[j]
BY DEF Once

-----------------------------------------------------------------------------
(* The loop of send_framed: every packet but the first carries at least    *)
(* three bytes, so the sequence index is at most a third of the length.    *)

SendTypes ==
  /\ pc \in [Callers -> {"idle", "initial", "subsequent", "first", "rest"}]
  /\ command \in [Callers -> Commands \cup {<<>>}]
  /\ offset \in [Callers -> Nat]
  /\ seqIndex \in [Callers -> 0 .. U16Max]

\* One caller in send_framed.
InSend(c) ==
  /\ pc[c] \in {"initial", "subsequent"} => Len(command[c]) <= U16Max
  /\ pc[c] \in {"idle", "initial"} => offset[c] = 0 /\ seqIndex[c] = 0
  /\ pc[c] = "subsequent" => /\ seqIndex[c] >= 1
                             /\ 3 * seqIndex[c] <= offset[c] + 2
                             /\ offset[c] < Len(command[c])

SendInv == /\ mtuSize \in Byte /\ mtuSize > 5
           /\ SendTypes
           /\ \A c \in Callers : InSend(c)

LEMMA U16MaxType == U16Max \in Nat
<1>1. Word \subseteq Nat
  BY DEF Word
<1> QED
  BY <1>1, U16MaxAssumption

LEMMA CommandType ==
  ASSUME NEW cmd \in Commands \cup {<<>>}
  PROVE  cmd \in Seq(Byte) /\ Len(cmd) \in Nat
<1>1. <<>> \in Seq(Byte)
  OBVIOUS
<1>2. cmd \in Seq(Byte)
  BY <1>1, CommandsAssumption
<1> QED
  BY <1>2, LenProperties

LEMMA SendInvInit == Init => SendInv
<1> SUFFICES ASSUME Init PROVE SendInv
  OBVIOUS
<1>1. mtuSize \in Byte /\ mtuSize > 5
  BY InferMtuFloor, MtuRepliesAssumption DEF Init
<1>2. SendTypes
  BY U16MaxType DEF Init, SendTypes
<1>3. \A c \in Callers : InSend(c)
  BY DEF Init, InSend
<1> QED
  BY <1>1, <1>2, <1>3 DEF SendInv

\* A command that is too large never gets into the loop.
LEMMA BeginSend ==
  ASSUME SendInv, NEW c \in Callers, NEW cmd \in Commands, Begin(c, cmd)
  PROVE  SendInv'
<1>1. /\ command' = [command EXCEPT ![c] = cmd]
      /\ UNCHANGED <<mtuSize, offset, seqIndex>>
      /\ \/ pc' = pc /\ pc[c] = "idle"
         \/ pc' = [pc EXCEPT ![c] = "initial"] /\ ~(Len(cmd) > U16Max)
      /\ pc[c] = "idle"
  BY DEF Begin, Idle
<1>2. SendTypes'
  BY <1>1 DEF SendInv, SendTypes
<1>3. ASSUME NEW d \in Callers \ {c} PROVE InSend(d)'
  BY <1>1 DEF SendInv, SendTypes, InSend
<1>4. InSend(c)'
  <2>1. /\ command'[c] = cmd /\ offset'[c] = 0 /\ seqIndex'[c] = 0
        /\ \/ pc'[c] = "idle"
           \/ pc'[c] = "initial" /\ ~(Len(cmd) > U16Max)
    <3>1. SendTypes /\ InSend(c)
      BY DEF SendInv
    <3>2. offset[c] = 0 /\ seqIndex[c] = 0
      BY <1>1, <3>1 DEF InSend
    <3>3. command'[c] = cmd /\ offset'[c] = 0 /\ seqIndex'[c] = 0
      BY <1>1, <3>1, <3>2 DEF SendTypes
    <3> QED
      BY <1>1, <3>1, <3>3 DEF SendTypes
  <2>2. Len(cmd) \in Nat /\ U16Max \in Nat
    BY CommandType, U16MaxType
  <2> QED
    BY <2>1, <2>2 DEF InSend
<1> QED
  BY <1>1, <1>2, <1>3, <1>4 DEF SendInv

LEMMA IndexStep ==
  ASSUME NEW m \in Nat, NEW s \in 0 .. m
  PROVE  /\ (s + 1) % (m + 1) \in 0 .. m
         /\ s + 1 <= m => (s + 1) % (m + 1) = s + 1
OBVIOUS

\* One packet is written: the next offset and the next index.
LEMMA PacketAdvances ==
  ASSUME SendInv, NEW c \in Callers, pc[c] \in {"initial", "subsequent"}
  PROVE  /\ DataEnd(c) \in Nat
         /\ DataEnd(c) <= Len(command[c])
         /\ DataEnd(c) < Len(command[c]) =>
              /\ 3 * (seqIndex[c] + 1) <= DataEnd(c) + 2
              /\ (seqIndex[c] + 1) % (U16Max + 1) = seqIndex[c] + 1
         /\ (seqIndex[c] + 1) % (U16Max + 1) \in 0 .. U16Max
         /\ offset[c] < DataEnd(c) \/ Len(command[c]) = 0
<1> DEFINE n == Len(command[c])
           end == DataEnd(c)
           seq == seqIndex[c]
<1>1. /\ n \in Nat /\ n <= U16Max /\ mtuSize \in Nat /\ mtuSize > 5
      /\ seq \in 0 .. U16Max /\ offset[c] \in Nat /\ U16Max \in Nat
  <2>1. n \in Nat
    BY CommandType DEF SendInv, SendTypes
  <2>2. mtuSize \in Nat /\ mtuSize > 5
    BY DEF SendInv, Byte
  <2>3. seq \in 0 .. U16Max /\ offset[c] \in Nat
    BY DEF SendInv, SendTypes
  <2>4. n <= U16Max
    BY DEF SendInv, InSend
  <2> QED
    BY <2>1, <2>2, <2>3, <2>4, U16MaxType
<1>4. /\ (seq + 1) % (U16Max + 1) \in 0 .. U16Max
      /\ seq + 1 <= U16Max => (seq + 1) % (U16Max + 1) = seq + 1
  BY <1>1, IndexStep
<1>2. CASE pc[c] = "initial"
  <2>1. end = IF mtuSize - 5 < n THEN mtuSize - 5 ELSE n
    BY <1>1, <1>2 DEF DataEnd, FirstDataEnd, SaturatingSub, Least
  <2>2. offset[c] = 0 /\ seq = 0
    BY <1>2 DEF SendInv, InSend
  <2> HIDE DEF n, end, seq
  <2>3. end < n => 3 * (seq + 1) <= end + 2 /\ seq + 1 <= U16Max
    BY <1>1, <2>1, <2>2
  <2> QED
    BY <1>1, <2>1, <2>2, <2>3 DEF n, end, seq
<1>3. CASE pc[c] = "subsequent"
  <2>1. end = IF offset[c] + (mtuSize - 3) < n THEN offset[c] + (mtuSize - 3) ELSE n
    BY <1>1, <1>3 DEF DataEnd, NextDataEnd, SaturatingSub, Least
  <2>2. seq >= 1 /\ 3 * seq <= offset[c] + 2 /\ offset[c] < n
    BY <1>3 DEF SendInv, InSend
  <2> HIDE DEF n, end, seq
  <2>3. end < n => 3 * (seq + 1) <= end + 2 /\ seq + 1 <= U16Max
    BY <1>1, <2>1, <2>2
  <2>4. /\ end \in Nat /\ end <= n
        /\ offset[c] < end
    BY <1>1, <2>1, <2>2
  <2> QED
    BY <1>4, <2>3, <2>4 DEF n, end, seq
<1> QED
  BY <1>2, <1>3

LEMMA WriteSend ==
  ASSUME SendInv, NEW c \in Callers, WriteInitial(c) \/ WriteSubsequent(c)
  PROVE  SendInv'
<1>1. /\ pc[c] \in {"initial", "subsequent"}
      /\ offset' = [offset EXCEPT ![c] = DataEnd(c)]
      /\ seqIndex' = [seqIndex EXCEPT ![c] = (@ + 1) % (U16Max + 1)]
      /\ pc' = [pc EXCEPT ![c] = IF DataEnd(c) < Len(command[c])
                                 THEN "subsequent" ELSE "first"]
      /\ UNCHANGED <<mtuSize, command>>
  BY DEF WriteInitial, WriteSubsequent, Write
<1> DEFINE end == DataEnd(c)
           seq == (seqIndex[c] + 1) % (U16Max + 1)
<1>2. /\ end \in Nat
      /\ seq \in 0 .. U16Max
      /\ end < Len(command[c]) => /\ 3 * (seqIndex[c] + 1) <= end + 2
                                  /\ seq = seqIndex[c] + 1
  BY <1>1, PacketAdvances
<1>3. /\ offset' = [offset EXCEPT ![c] = end]
      /\ seqIndex' = [seqIndex EXCEPT ![c] = seq]
      /\ pc' = [pc EXCEPT ![c] = IF end < Len(command[c])
                                 THEN "subsequent" ELSE "first"]
  BY <1>1
<1> HIDE DEF end, seq
<1>4. SendTypes'
  BY <1>1, <1>2, <1>3 DEF SendInv, SendTypes
<1>5. ASSUME NEW d \in Callers \ {c} PROVE InSend(d)'
  BY <1>1, <1>3 DEF SendInv, SendTypes, InSend
<1>6. InSend(c)'
  <2>1. /\ offset'[c] = end /\ seqIndex'[c] = seq /\ command'[c] = command[c]
        /\ pc'[c] = IF end < Len(command[c]) THEN "subsequent" ELSE "first"
        /\ Len(command[c]) <= U16Max
        /\ seqIndex[c] \in Nat
    BY <1>1, <1>3 DEF SendInv, SendTypes, InSend
  <2> QED
    BY <1>2, <2>1 DEF InSend
<1> QED
  BY <1>1, <1>4, <1>5, <1>6 DEF SendInv

LEMMA ReturnSend ==
  ASSUME SendInv, NEW c \in Callers, NEW result, Return(c, result),
         UNCHANGED mtuSize
  PROVE  SendInv'
<1>1. /\ pc' = [pc EXCEPT ![c] = "idle"]
      /\ offset' = [offset EXCEPT ![c] = 0]
      /\ seqIndex' = [seqIndex EXCEPT ![c] = 0]
      /\ UNCHANGED command
  BY DEF Return
<1>2. SendTypes'
  BY <1>1, U16MaxType DEF SendInv, SendTypes
<1>3. ASSUME NEW d \in Callers PROVE InSend(d)'
  BY <1>1 DEF SendInv, SendTypes, InSend
<1> QED
  BY <1>2, <1>3 DEF SendInv

\* Out of the loop, nothing that it uses is touched.
LEMMA ElsewhereSend ==
  ASSUME SendInv, UNCHANGED <<mtuSize, command, offset, seqIndex>>,
         \/ UNCHANGED pc
         \/ \E c \in Callers : pc' = [pc EXCEPT ![c] = "rest"]
  PROVE  SendInv'
<1>1. SendTypes'
  BY DEF SendInv, SendTypes
<1>2. ASSUME NEW d \in Callers PROVE InSend(d)'
  BY DEF SendInv, SendTypes, InSend
<1> QED
  BY <1>1, <1>2 DEF SendInv

\* A notification ends the exchange, or leaves it among the receivers.
LEMMA ReceiveSend ==
  ASSUME SendInv, NEW c \in Callers, ReceiveFirst(c) \/ ReceiveRest(c)
  PROVE  SendInv'
<1>1. UNCHANGED mtuSize
  BY DEF ReceiveFirst, ReceiveRest, NextNotification
<1>2. \/ \E result : Return(c, result)
      \/ Skip
      \/ \E bytes, length : Reassemble(c, bytes, length)
  BY DEF ReceiveFirst, ReceiveRest
<1>3. CASE \E result : Return(c, result)
  BY <1>1, <1>3, ReturnSend
<1>4. CASE Skip
  BY <1>1, <1>4, ElsewhereSend DEF Skip
<1>5. ASSUME NEW bytes, NEW length, Reassemble(c, bytes, length) PROVE SendInv'
  <2>1. CASE Len(bytes) < length
    BY <1>1, <1>5, <2>1, ElsewhereSend DEF Reassemble
  <2>2. CASE ~(Len(bytes) < length)
    BY <1>1, <1>5, <2>2, ReturnSend DEF Reassemble
  <2> QED
    BY <2>1, <2>2
<1> QED
  BY <1>2, <1>3, <1>4, <1>5

LEMMA SendInvStep == SendInv /\ [Next]_vars => SendInv'
<1> SUFFICES ASSUME SendInv, [Next]_vars PROVE SendInv'
  OBVIOUS
<1>1. ASSUME NEW c \in Callers, NEW cmd \in Commands, Begin(c, cmd)
      PROVE  SendInv'
  BY <1>1, BeginSend
<1>2. ASSUME NEW c \in Callers, WriteInitial(c) \/ WriteSubsequent(c)
      PROVE  SendInv'
  BY <1>2, WriteSend
<1>3. ASSUME NEW c \in Callers,
             WriteFails(c) \/ Timeout(c) \/ StreamEnded(c) \/ Cancel(c)
      PROVE  SendInv'
  <2>1. UNCHANGED mtuSize /\ \E result : Return(c, result)
    BY <1>3 DEF WriteFails, WriteEnds, Timeout, StreamEnded, Cancel, Unanswered
  <2> QED
    BY <2>1, ReturnSend
<1>4. ASSUME NEW c \in Callers, Lock(c) PROVE SendInv'
  BY <1>4, ElsewhereSend DEF Lock
<1>5. ASSUME NEW c \in Callers, ReceiveFirst(c) \/ ReceiveRest(c)
      PROVE  SendInv'
  BY <1>5, ReceiveSend
<1>6. CASE Device \/ NotificationLost \/ Disconnect \/ \E raw \in Strays : Stray(raw)
  BY <1>6, ElsewhereSend
     DEF Device, DeviceAnswers, DeviceNotifies, NotificationLost, Disconnect,
         Stray, hostVars
<1>7. CASE UNCHANGED vars
  BY <1>7, ElsewhereSend DEF vars, hostVars
<1> QED
  BY <1>1, <1>2, <1>3, <1>4, <1>5, <1>6, <1>7 DEF Next, HostStep, SendStep, ReceiveStep, AllReturned

LEMMA SendInvHolds == Spec => []SendInv
BY SendInvInit, SendInvStep, PTL DEF Spec

\* For every mtu that a device may reply and every command that send_framed
\* does not refuse, the sequence index stays a u16.
THEOREM SeqIndexCorrect == Spec => []SeqIndexNeverWraps
<1>1. SendInv => SeqIndexNeverWraps
  BY DEF SendInv, InSend, SeqIndexNeverWraps
<1> QED
  BY <1>1, SendInvHolds, PTL

\* One caller in send_framed, in one step of it or of somebody else.
MovesOn(c) ==
  \/ UNCHANGED <<pc[c], offset[c], seqIndex[c], command[c]>>
  \/ pc'[c] = "idle"
  \/ /\ pc'[c] = "subsequent"
     /\ offset[c] < offset'[c] /\ offset'[c] < Len(command'[c])
  \/ pc'[c] = "first" /\ offset'[c] = Len(command'[c])

LEMMA WriteMovesOn ==
  ASSUME SendInv, NEW c \in Callers, WriteInitial(c) \/ WriteSubsequent(c)
  PROVE  MovesOn(c)
<1>1. /\ pc[c] \in {"initial", "subsequent"}
      /\ offset' = [offset EXCEPT ![c] = DataEnd(c)]
      /\ pc' = [pc EXCEPT ![c] = IF DataEnd(c) < Len(command[c])
                                 THEN "subsequent" ELSE "first"]
      /\ UNCHANGED command
  BY DEF WriteInitial, WriteSubsequent, Write
<1> DEFINE end == DataEnd(c)
<1>2. /\ end \in Nat /\ end <= Len(command[c]) /\ Len(command[c]) \in Nat
      /\ offset[c] < end \/ Len(command[c]) = 0
  <2>1. command[c] \in Commands \cup {<<>>}
    BY DEF SendInv, SendTypes
  <2> QED
    BY <1>1, <2>1, PacketAdvances, CommandType
<1>3. /\ offset'[c] = end /\ command'[c] = command[c]
      /\ pc'[c] = IF end < Len(command[c]) THEN "subsequent" ELSE "first"
  BY <1>1 DEF SendInv, SendTypes
<1> HIDE DEF end
<1>4. CASE end < Len(command[c])
  BY <1>2, <1>3, <1>4 DEF MovesOn
<1>5. CASE ~(end < Len(command[c]))
  BY <1>2, <1>3, <1>5 DEF MovesOn
<1> QED
  BY <1>4, <1>5

\* Whoever else moves on, the locals of a caller in send_framed are its own.
LEMMA SendStepMovesOn ==
  ASSUME SendInv, [Next]_vars, NEW c \in Callers,
         pc[c] \in {"initial", "subsequent"}
  PROVE  MovesOn(c)
<1>1. ASSUME NEW d \in Callers, NEW cmd \in Commands, Begin(d, cmd)
      PROVE  MovesOn(c)
  <2>1. c # d
    BY <1>1 DEF Begin, Idle
  <2> QED
    BY <1>1, <2>1 DEF Begin, MovesOn, SendInv, SendTypes
<1>2. ASSUME NEW d \in Callers, WriteInitial(d) \/ WriteSubsequent(d)
      PROVE  MovesOn(c)
  <2>1. CASE c = d
    BY <1>2, <2>1, WriteMovesOn
  <2>2. CASE c # d
    BY <1>2, <2>2
       DEF WriteInitial, WriteSubsequent, Write, MovesOn, SendInv, SendTypes
  <2> QED
    BY <2>1, <2>2
<1>3. ASSUME NEW d \in Callers, NEW result, Return(d, result)
      PROVE  MovesOn(c)
  <2>1. CASE c = d
    <3>1. pc'[c] = "idle"
      BY <1>3, <2>1 DEF Return, SendInv, SendTypes
    <3> QED
      BY <3>1 DEF MovesOn
  <2>2. CASE c # d
    BY <1>3, <2>2 DEF Return, MovesOn, SendInv, SendTypes
  <2> QED
    BY <2>1, <2>2
<1>4. ASSUME NEW d \in Callers,
             WriteFails(d) \/ Timeout(d) \/ StreamEnded(d) \/ Cancel(d)
      PROVE  MovesOn(c)
  <2>1. \E result : Return(d, result)
    BY <1>4 DEF WriteFails, WriteEnds, Timeout, StreamEnded, Cancel, Unanswered
  <2> QED
    BY <1>3, <2>1
<1>5. ASSUME NEW d \in Callers, Lock(d) PROVE MovesOn(c)
  BY <1>5 DEF Lock, MovesOn
<1>6. ASSUME NEW d \in Callers, ReceiveFirst(d) \/ ReceiveRest(d)
      PROVE  MovesOn(c)
  <2>1. pc[d] \in {"first", "rest"}
    BY <1>6 DEF ReceiveFirst, ReceiveRest
  <2>2. c # d
    BY <2>1
  <2>3. \/ \E result : Return(d, result)
        \/ Skip
        \/ \E bytes, length : Reassemble(d, bytes, length)
    BY <1>6 DEF ReceiveFirst, ReceiveRest
  <2>4. CASE Skip
    BY <2>4 DEF Skip, MovesOn
  <2>5. ASSUME NEW bytes, NEW length, Reassemble(d, bytes, length)
        PROVE  MovesOn(c)
    <3>1. CASE Len(bytes) < length
      BY <2>2, <2>5, <3>1 DEF Reassemble, MovesOn, SendInv, SendTypes
    <3>2. CASE ~(Len(bytes) < length)
      <4>1. \E result : Return(d, result)
        BY <2>5, <3>2 DEF Reassemble
      <4> QED
        BY <1>3, <4>1
    <3> QED
      BY <3>1, <3>2
  <2> QED
    BY <1>3, <2>3, <2>4, <2>5
<1>7. CASE Device \/ NotificationLost \/ Disconnect \/ \E raw \in Strays : Stray(raw)
  BY <1>7 DEF Device, DeviceAnswers, DeviceNotifies, NotificationLost,
              Disconnect, Stray, hostVars, MovesOn
<1>8. CASE UNCHANGED vars
  BY <1>8 DEF vars, hostVars, MovesOn
<1> QED
  BY <1>1, <1>2, <1>4, <1>5, <1>6, <1>7, <1>8
     DEF Next, HostStep, SendStep, ReceiveStep, AllReturned

\* For every mtu that a device may reply and every command, each write moves
\* the offset on, and recv_framed begins when all of the command is written.
THEOREM SendMovesOnCorrect == Spec => SendMovesOn
<1>1. SendInv /\ [Next]_vars =>
        [\A c \in Callers : pc[c] \in {"initial", "subsequent"} => MovesOn(c)]_vars
  BY SendStepMovesOn
<1> QED
  BY <1>1, SendInvHolds, PTL DEF Spec, SendMovesOn, MovesOn

LEMMA CutOfSmall ==
  ASSUME NEW m \in Nat, NEW n \in Nat, n <= m
  PROVE  n % (m + 1) = n
OBVIOUS

\* The length of a command that is not refused is a u16.
LEMMA LengthUncut ==
  ASSUME SendInv, NEW c \in Callers, pc[c] \in {"initial", "subsequent"}
  PROVE  Len(command[c]) % (U16Max + 1) = Len(command[c])
<1>1. Len(command[c]) \in Nat /\ Len(command[c]) <= U16Max
  BY CommandType DEF SendInv, SendTypes, InSend
<1> QED
  BY <1>1, U16MaxType, CutOfSmall

\* Whatever the device asked for, no packet is larger.
LEMMA PacketSize ==
  ASSUME SendInv, NEW c \in Callers, pc[c] \in {"initial", "subsequent"}
  PROVE  Len(Packet(c)) <= mtuSize
<1> DEFINE cmd == command[c]
           n == Len(cmd)
           start == offset[c]
           end == DataEnd(c)
           payload == SubSeq(cmd, start + 1, end)
<1>1. cmd \in Seq(Byte) /\ n \in Nat
  BY CommandType DEF SendInv, SendTypes
<1>2. start \in Nat /\ end \in Nat /\ end <= n /\ (start < end \/ n = 0)
  BY PacketAdvances DEF SendInv, SendTypes
<1>3. mtuSize \in Nat /\ mtuSize > 5
  BY DEF SendInv, Byte
<1>4. n \in Word /\ seqIndex[c] \in Word
  <2>1. n <= U16Max /\ seqIndex[c] \in 0 .. U16Max
    BY DEF SendInv, SendTypes, InSend
  <2>2. U16Max \in Word
    BY U16MaxAssumption
  <2>3. ASSUME NEW k \in Nat, k <= U16Max PROVE k \in Word
    BY <2>2, <2>3, WordDownClosed
  <2>4. seqIndex[c] \in Nat /\ seqIndex[c] <= U16Max
    BY <2>1, U16MaxType
  <2> QED
    BY <1>1, <2>1, <2>2, <2>3, <2>4
<1>5. APDU_COMMAND_TAG \in Byte
  BY DEF APDU_COMMAND_TAG, Byte
<1> HIDE DEF n, cmd, start, end
<1>6. payload \in Seq(Byte)
  BY <1>1, <1>2, SubSeqType DEF n
<1>7. Len(payload) = IF start < end THEN end - start ELSE 0
  <2>1. \A i \in start + 1 .. end : cmd[i] \in Byte
    BY <1>1, <1>2, ElementOfSeq DEF n
  <2>2. Len(payload) = IF start + 1 <= end THEN end - (start + 1) + 1 ELSE 0
    BY <1>2, <2>1, SubSeqProperties
  <2> QED
    BY <1>2, <2>2
<1>8. Len(payload) \in Nat
  BY <1>2, <1>7
<1> HIDE DEF payload
<1>9. CASE pc[c] = "initial"
  <2>1. end = IF mtuSize - 5 < n THEN mtuSize - 5 ELSE n
    BY <1>3, <1>9 DEF DataEnd, FirstDataEnd, SaturatingSub, Least, end, n, cmd
  <2>2. start = 0
    BY <1>9 DEF SendInv, InSend, start
  <2>3. Packet(c) = InitialPacket(APDU_COMMAND_TAG, n, payload)
    BY <1>9, LengthUncut DEF Packet, n, cmd, start, end, payload
  <2>4. Len(Packet(c)) = 5 + Len(payload)
    BY <1>4, <1>5, <1>6, <2>3, InitialPacketRoundTrip
  <2> QED
    BY <1>1, <1>2, <1>3, <1>7, <1>8, <2>1, <2>2, <2>4
<1>10. CASE pc[c] = "subsequent"
  <2>1. end = IF start + (mtuSize - 3) < n THEN start + (mtuSize - 3) ELSE n
    BY <1>3, <1>10 DEF DataEnd, NextDataEnd, SaturatingSub, Least, end, n, cmd, start
  <2>2. Packet(c) = SubsequentPacket(APDU_COMMAND_TAG, seqIndex[c], payload)
    BY <1>10 DEF Packet, n, cmd, start, end, payload
  <2>3. Len(Packet(c)) = 3 + Len(payload)
    BY <1>4, <1>5, <1>6, <2>2, SubsequentPacketRoundTrip
  <2> QED
    BY <1>1, <1>2, <1>3, <1>7, <1>8, <2>1, <2>3
<1> QED
  BY <1>9, <1>10

\* The packets that send_framed writes fit the mtu_size of the device.
THEOREM PacketSizeCorrect == Spec => []PacketsFitMtu
<1>1. SendInv => PacketsFitMtu
  BY PacketSize DEF PacketsFitMtu
<1> QED
  BY <1>1, SendInvHolds, PTL

-----------------------------------------------------------------------------
(* Type correctness, part by part.                                         *)

QueueOK == readers \in Seq(Callers) /\ WaitInTurn(readers)

ReceiveTypes ==
  /\ buffer \in [Callers -> Seq(Byte)]
  /\ total \in [Callers -> Word]
  /\ outcome \in [Callers -> Outcome]

DeviceTypes ==
  /\ notifications \in Seq(Seq(Byte))
  /\ connected \in BOOLEAN
  /\ rx \in [length : Word, data : Seq(Byte), next : Nat]
  /\ pending \in Seq(Seq(Byte))
  /\ outgoing \in Seq(Seq(Byte))

CountTypes ==
  /\ calls \in 0 .. MaxCalls /\ strays \in 0 .. MaxStrays /\ lost \in 0 .. MaxLost
  /\ alone \in SUBSET Callers

\* TypeOK, with what it needs of send_framed.
TypeInv == SendInv /\ QueueOK /\ ReceiveTypes /\ DeviceTypes /\ CountTypes

LEMMA TypeInvImpliesTypeOK == TypeInv => TypeOK
  BY DEF TypeInv, SendInv, SendTypes, QueueOK, ReceiveTypes, DeviceTypes, CountTypes, TypeOK

LEMMA WordZero == 0 \in Word /\ 2 \in Word
<1> DEFINE b == 65535
<1>1. b \in Nat /\ b >= 2 /\ Word = 0 .. b
  BY DEF Word
<1> HIDE DEF b
<1> QED
  BY <1>1

LEMMA FailedType ==
  ASSUME NEW kind \in Errors
  PROVE  Failed(kind) \in Outcome
BY DEF Failed, Outcome

LEMMA InitTypes == Init => TypeInv
<1> SUFFICES ASSUME Init PROVE TypeInv
  OBVIOUS
<1>1. QueueOK
  BY DEF Init, QueueOK, WaitInTurn
<1>2. ReceiveTypes
  <2>1. Failed("none") \in Outcome
    BY FailedType DEF Errors
  <2> QED
    BY <2>1, WordZero DEF Init, ReceiveTypes
<1>3. DeviceTypes
  BY WordZero DEF Init, DeviceTypes, NoRx
<1>4. CountTypes
  BY BoundsAssumption DEF Init, CountTypes
<1> QED
  BY <1>1, <1>2, <1>3, <1>4, SendInvInit DEF TypeInv

\* The queue of the lock: who enters waits once, who leaves is out of it.
LEMMA QueueLeft ==
  ASSUME TypeInv, NEW c \in Callers, NEW result, Return(c, result)
  PROVE  QueueOK'
<1>1. /\ readers \in Seq(Callers) /\ Once(readers)
      /\ \A i \in DOMAIN readers : Receiving(readers[i])
  BY DEF TypeInv, QueueOK, WaitInTurn, Once
<1> DEFINE r == Leave(readers, c)
<1>2. /\ r \in Seq(Callers) /\ Once(r)
      /\ \A i \in DOMAIN r : r[i] # c /\ \E j \in DOMAIN readers : r[i] = readers[j]
  BY <1>1, LeaveQueue
<1>3. readers' = r /\ pc' = [pc EXCEPT ![c] = "idle"]
  BY DEF Return
<1> HIDE DEF r
<1>4. \A i \in DOMAIN r : r[i] \in Callers /\ r[i] # c /\ Receiving(r[i])
  BY <1>1, <1>2, ElementOfSeq, LenProperties
<1>5. \A d \in Callers : d # c /\ Receiving(d) => Receiving(d)'
  BY <1>3 DEF Receiving, TypeInv, SendInv, SendTypes
<1> QED
  BY <1>2, <1>3, <1>4, <1>5 DEF QueueOK, WaitInTurn, Once

LEMMA QueueTail ==
  ASSUME TypeInv, readers # <<>>, readers' = Tail(readers),
         \/ UNCHANGED pc
         \/ \E c \in Callers : Receiving(c) /\ pc' = [pc EXCEPT ![c] = "rest"]
  PROVE  QueueOK'
<1>1. /\ readers \in Seq(Callers) /\ Once(readers)
      /\ \A i \in DOMAIN readers : Receiving(readers[i])
  BY DEF TypeInv, QueueOK, WaitInTurn, Once
<1>2. /\ readers' \in Seq(Callers) /\ Once(readers')
      /\ \A i \in DOMAIN readers' : \E j \in DOMAIN readers : readers'[i] = readers[j]
  BY <1>1, TailQueue
<1>3. \A i \in DOMAIN readers' : readers'[i] \in Callers /\ Receiving(readers'[i])
  BY <1>1, <1>2, ElementOfSeq, LenProperties
<1>4. \A d \in Callers : Receiving(d) => Receiving(d)'
  BY DEF Receiving, TypeInv, SendInv, SendTypes
<1> QED
  BY <1>2, <1>3, <1>4 DEF QueueOK, WaitInTurn, Once

LEMMA QueueKept ==
  ASSUME TypeInv, UNCHANGED readers,
         \A d \in Callers : Receiving(d) => Receiving(d)'
  PROVE  QueueOK'
<1>1. \A i \in DOMAIN readers : readers[i] \in Callers
  BY ElementOfSeq, LenProperties DEF TypeInv, QueueOK
<1> QED
  BY <1>1 DEF TypeInv, QueueOK, WaitInTurn

LEMMA ReceiveCases ==
  ASSUME TypeInv, NEW c \in Callers, ReceiveFirst(c) \/ ReceiveRest(c)
  PROVE  /\ Receiving(c) /\ readers # <<>> /\ notifications # <<>>
         /\ UNCHANGED <<mtuSize, connected, deviceVars, counters, alone>>
         /\ notifications' = Tail(notifications)
         /\ \/ Return(c, Failed("invalid_packet"))
            \/ Skip
            \/ \E bytes \in Seq(Byte), length \in Word : Reassemble(c, bytes, length)
<1>1. /\ Receiving(c) /\ readers # <<>> /\ notifications # <<>>
      /\ UNCHANGED <<mtuSize, connected, deviceVars, counters, alone>>
      /\ notifications' = Tail(notifications)
  BY DEF ReceiveFirst, ReceiveRest, NextNotification, Holds
<1> DEFINE raw == Head(notifications)
<1>2. raw \in Seq(Byte)
  BY <1>1, HeadTailProperties DEF TypeInv, DeviceTypes
<1>3. ASSUME ReceiveFirst(c)
      PROVE  \/ Return(c, Failed("invalid_packet"))
             \/ Skip
             \/ \E bytes \in Seq(Byte), length \in Word : Reassemble(c, bytes, length)
  <2>1. ASSUME IsInitialPacket(raw), Reassemble(c, InitialPayload(raw), DataLength(raw))
        PROVE  \E bytes \in Seq(Byte), length \in Word : Reassemble(c, bytes, length)
    <3> HIDE DEF raw
    <3>1. Len(raw) \in Nat /\ Len(raw) >= 5
      BY <1>2, <2>1, LenProperties DEF IsInitialPacket
    <3>2. InitialPayload(raw) \in Seq(Byte)
      BY <1>2, <3>1, SubSeqType DEF InitialPayload
    <3>3. raw[4] \in Byte /\ raw[5] \in Byte
      BY <1>2, <3>1, ElementOfSeq
    <3>4. DataLength(raw) \in Word
      BY <3>3, U16Type DEF DataLength
    <3> QED
      BY <2>1, <3>2, <3>4
  <2> QED
    BY <1>3, <2>1 DEF ReceiveFirst
<1>4. ASSUME ReceiveRest(c)
      PROVE  \/ Return(c, Failed("invalid_packet"))
             \/ Skip
             \/ \E bytes \in Seq(Byte), length \in Word : Reassemble(c, bytes, length)
  <2>1. ASSUME IsSubsequentPacket(raw),
               Reassemble(c, buffer[c] \o SubsequentPayload(raw), total[c])
        PROVE  \E bytes \in Seq(Byte), length \in Word : Reassemble(c, bytes, length)
    <3> HIDE DEF raw
    <3>1. Len(raw) \in Nat /\ Len(raw) >= 3
      BY <1>2, <2>1, LenProperties DEF IsSubsequentPacket
    <3>2. SubsequentPayload(raw) \in Seq(Byte)
      BY <1>2, <3>1, SubSeqType DEF SubsequentPayload
    <3>3. buffer[c] \in Seq(Byte) /\ total[c] \in Word
      BY DEF TypeInv, ReceiveTypes
    <3>4. buffer[c] \o SubsequentPayload(raw) \in Seq(Byte)
      BY <3>2, <3>3, ConcatProperties
    <3> QED
      BY <2>1, <3>3, <3>4
  <2> QED
    BY <1>4, <2>1 DEF ReceiveRest
<1> QED
  BY <1>1, <1>3, <1>4

LEMMA QueueStep == TypeInv /\ [Next]_vars => QueueOK'
<1> SUFFICES ASSUME TypeInv, [Next]_vars PROVE QueueOK'
  OBVIOUS
<1> DEFINE Stays == \A d \in Callers : Receiving(d) => Receiving(d)'
<1>1. ASSUME NEW c \in Callers, NEW cmd \in Commands, Begin(c, cmd)
      PROVE  QueueOK'
  <2>1. UNCHANGED readers /\ pc[c] = "idle"
        /\ (UNCHANGED pc \/ pc' = [pc EXCEPT ![c] = "initial"])
    BY <1>1 DEF Begin, Idle
  <2>2. Stays
    BY <2>1 DEF Receiving, TypeInv, SendInv, SendTypes
  <2> QED
    BY <2>1, <2>2, QueueKept
<1>2. ASSUME NEW c \in Callers, WriteInitial(c) \/ WriteSubsequent(c)
      PROVE  QueueOK'
  <2>1. UNCHANGED readers /\ pc[c] \in {"initial", "subsequent"}
        /\ \E p : pc' = [pc EXCEPT ![c] = p]
    BY <1>2 DEF WriteInitial, WriteSubsequent, Write
  <2>2. Stays
    BY <2>1 DEF Receiving, TypeInv, SendInv, SendTypes
  <2> QED
    BY <2>1, <2>2, QueueKept
<1>3. ASSUME NEW c \in Callers,
             WriteFails(c) \/ Timeout(c) \/ StreamEnded(c) \/ Cancel(c)
      PROVE  QueueOK'
  <2>1. \E result : Return(c, result)
    BY <1>3 DEF WriteFails, WriteEnds, Timeout, StreamEnded, Cancel, Unanswered
  <2> QED
    BY <2>1, QueueLeft
<1>4. ASSUME NEW c \in Callers, Lock(c) PROVE QueueOK'
  <2>1. /\ readers \in Seq(Callers) /\ Once(readers)
        /\ \A i \in DOMAIN readers : Receiving(readers[i])
    BY DEF TypeInv, QueueOK, WaitInTurn, Once
  <2>2. /\ Receiving(c) /\ UNCHANGED pc /\ readers' = Append(readers, c)
        /\ \A i \in DOMAIN readers : readers[i] # c
    BY <1>4 DEF Lock, Waits
  <2>3. /\ readers' \in Seq(Callers) /\ Once(readers')
        /\ \A i \in DOMAIN readers' :
             readers'[i] = c \/ \E j \in DOMAIN readers : readers'[i] = readers[j]
    BY <2>1, <2>2, JoinQueue
  <2>4. \A i \in DOMAIN readers' : readers'[i] \in Callers /\ Receiving(readers'[i])
    BY <2>1, <2>2, <2>3, ElementOfSeq, LenProperties
  <2>5. \A d \in Callers : Receiving(d) => Receiving(d)'
    BY <2>2 DEF Receiving
  <2> QED
    BY <2>3, <2>4, <2>5 DEF QueueOK, WaitInTurn, Once
<1>5. ASSUME NEW c \in Callers, ReceiveFirst(c) \/ ReceiveRest(c)
      PROVE  QueueOK'
  <2>1. Receiving(c) /\ readers # <<>>
    BY <1>5, ReceiveCases
  <2>2. CASE \E result : Return(c, result)
    BY <2>2, QueueLeft
  <2>3. CASE Skip
    BY <2>1, <2>3, QueueTail DEF Skip
  <2>4. ASSUME NEW bytes, NEW length, Reassemble(c, bytes, length) PROVE QueueOK'
    <3>1. CASE Len(bytes) < length
      BY <2>1, <2>4, <3>1, QueueTail DEF Reassemble
    <3>2. CASE ~(Len(bytes) < length)
      BY <2>4, <3>2, QueueLeft DEF Reassemble
    <3> QED
      BY <3>1, <3>2
  <2> QED
    BY <1>5, <2>2, <2>3, <2>4 DEF ReceiveFirst, ReceiveRest
<1>6. CASE Device \/ NotificationLost \/ Disconnect \/ \E raw \in Strays : Stray(raw)
  <2>1. UNCHANGED <<readers, pc>>
    BY <1>6 DEF Device, DeviceAnswers, DeviceNotifies, NotificationLost,
                Disconnect, Stray, hostVars
  <2> QED
    BY <2>1, QueueKept DEF Receiving
<1>7. CASE UNCHANGED vars
  BY <1>7, QueueKept DEF vars, hostVars, Receiving
<1> QED
  BY <1>1, <1>2, <1>3, <1>4, <1>5, <1>6, <1>7
     DEF Next, HostStep, SendStep, ReceiveStep, AllReturned

LEMMA ReturnTypes ==
  ASSUME TypeInv, NEW c \in Callers, NEW result \in Outcome, Return(c, result)
  PROVE  ReceiveTypes'
BY WordZero DEF TypeInv, ReceiveTypes, Return

LEMMA ReassembleTypes ==
  ASSUME TypeInv, NEW c \in Callers, NEW bytes \in Seq(Byte), NEW length \in Word,
         Reassemble(c, bytes, length)
  PROVE  ReceiveTypes'
<1>1. CASE Len(bytes) < length
  BY <1>1 DEF Reassemble, TypeInv, ReceiveTypes
<1>2. CASE ~(Len(bytes) < length)
  <2> DEFINE data == SubSeq(bytes, 1, length)
             ok   == [kind |-> "ok", data |-> data]
  <2>1. data \in Seq(Byte)
    <3>1. Word \subseteq Nat
      BY DEF Word
    <3>2. length \in Int /\ length <= Len(bytes) /\ 1 \in Nat \ {0}
      BY <1>2, <3>1, LenProperties
    <3> QED
      BY <3>2, SubSeqType
  <2> HIDE DEF data
  <2>2. ok \in Outcome /\ Failed("too_short") \in Outcome
    BY <2>1, FailedType DEF Outcome, Errors
  <2>3. Return(c, Failed("too_short")) \/ Return(c, ok)
    BY <1>2 DEF Reassemble, data
  <2> HIDE DEF ok
  <2> QED
    BY <2>2, <2>3, ReturnTypes
<1> QED
  BY <1>1, <1>2

LEMMA ReceiveTypesStep == TypeInv /\ [Next]_vars => ReceiveTypes'
<1> SUFFICES ASSUME TypeInv, [Next]_vars PROVE ReceiveTypes'
  OBVIOUS
<1>1. ASSUME NEW c \in Callers, NEW cmd \in Commands, Begin(c, cmd)
      PROVE  ReceiveTypes'
  <2>1. Failed("too_large") \in Outcome /\ Failed("none") \in Outcome
    BY FailedType DEF Errors
  <2> QED
    BY <1>1, <2>1 DEF Begin, TypeInv, ReceiveTypes
<1>2. ASSUME NEW c \in Callers,
             WriteFails(c) \/ Timeout(c) \/ StreamEnded(c) \/ Cancel(c)
      PROVE  ReceiveTypes'
  <2>1. \E kind \in Errors : Return(c, Failed(kind))
    BY <1>2 DEF WriteFails, WriteEnds, Timeout, StreamEnded, Cancel, Unanswered, Errors
  <2> QED
    BY <2>1, FailedType, ReturnTypes
<1>3. ASSUME NEW c \in Callers, ReceiveFirst(c) \/ ReceiveRest(c)
      PROVE  ReceiveTypes'
  <2>1. CASE Return(c, Failed("invalid_packet"))
    <3>1. Failed("invalid_packet") \in Outcome
      BY FailedType DEF Errors
    <3> QED
      BY <2>1, <3>1, ReturnTypes
  <2>2. CASE Skip
    BY <2>2 DEF Skip, TypeInv, ReceiveTypes
  <2>3. CASE \E bytes \in Seq(Byte), length \in Word : Reassemble(c, bytes, length)
    BY <2>3, ReassembleTypes
  <2> QED
    BY <1>3, <2>1, <2>2, <2>3, ReceiveCases
<1>4. CASE UNCHANGED <<buffer, total, outcome>>
  BY <1>4 DEF TypeInv, ReceiveTypes
<1>5. ASSUME NEW c \in Callers, WriteInitial(c) \/ WriteSubsequent(c) \/ Lock(c)
      PROVE  UNCHANGED <<buffer, total, outcome>>
  BY <1>5 DEF WriteInitial, WriteSubsequent, Write, Lock
<1>6. Device \/ NotificationLost \/ Disconnect \/ (\E raw \in Strays : Stray(raw))
        \/ UNCHANGED vars => UNCHANGED <<buffer, total, outcome>>
  BY DEF Device, DeviceAnswers, DeviceNotifies, NotificationLost,
         Disconnect, Stray, vars, hostVars
<1> QED
  BY <1>1, <1>2, <1>3, <1>4, <1>5, <1>6
     DEF Next, HostStep, SendStep, ReceiveStep, AllReturned

LEMMA CountTypesStep == TypeInv /\ [Next]_vars => CountTypes'
<1> SUFFICES ASSUME TypeInv, [Next]_vars PROVE CountTypes'
  OBVIOUS
<1>1. CountTypes
  BY DEF TypeInv
<1>2. ASSUME NEW c \in Callers, NEW cmd \in Commands, Begin(c, cmd)
      PROVE  CountTypes'
  BY <1>1, <1>2, BoundsAssumption DEF Begin, CountTypes, Active
<1>3. CASE NotificationLost \/ \E raw \in Strays : Stray(raw)
  BY <1>1, <1>3, BoundsAssumption DEF NotificationLost, Stray, CountTypes
<1>4. CASE UNCHANGED <<counters, alone>>
  BY <1>1, <1>4 DEF counters, CountTypes
<1>5. ASSUME NEW c \in Callers, HostStep(c) \/ Cancel(c)
      PROVE  UNCHANGED <<counters, alone>>
  <2>1. CASE ReceiveFirst(c) \/ ReceiveRest(c)
    BY <2>1, ReceiveCases
  <2>2. CASE Lock(c) \/ Timeout(c) \/ StreamEnded(c) \/ SendStep(c) \/ Cancel(c)
    BY <2>2 DEF Lock, Timeout, StreamEnded, SendStep, Cancel, WriteInitial,
                WriteSubsequent, Write, WriteFails, WriteEnds, Unanswered
  <2> QED
    BY <1>5, <2>1, <2>2 DEF HostStep, ReceiveStep
<1>6. Device \/ Disconnect \/ UNCHANGED vars => UNCHANGED <<counters, alone>>
  BY DEF Device, DeviceAnswers, DeviceNotifies, Disconnect, vars
<1> QED
  BY <1>2, <1>3, <1>4, <1>5, <1>6 DEF Next, AllReturned

\* What send_framed writes, as the device reads it.
LEMMA PacketFacts ==
  ASSUME SendInv, NEW c \in Callers, pc[c] \in {"initial", "subsequent"}
  PROVE  LET raw     == Packet(c)
             payload == SubSeq(command[c], offset[c] + 1, DataEnd(c))
         IN  /\ raw \in Seq(Byte) /\ payload \in Seq(Byte)
             /\ Len(command[c]) \in Word
             /\ pc[c] = "initial" =>
                  /\ SequenceIndex(raw) = 0
                  /\ DataLength(raw) = Len(command[c])
                  /\ InitialPayload(raw) = payload
             /\ pc[c] = "subsequent" =>
                  /\ SequenceIndex(raw) = seqIndex[c]
                  /\ SubsequentPayload(raw) = payload
<1> DEFINE cmd == command[c]
           n == Len(cmd)
           start == offset[c]
           end == DataEnd(c)
           payload == SubSeq(cmd, start + 1, end)
           raw == Packet(c)
<1>1. cmd \in Seq(Byte) /\ n \in Nat
  BY CommandType DEF SendInv, SendTypes
<1>2. start \in Nat /\ end \in Nat /\ end <= n
  BY PacketAdvances DEF SendInv, SendTypes
<1>3. n \in Word /\ seqIndex[c] \in Word
  <2>1. n <= U16Max /\ seqIndex[c] \in 0 .. U16Max
    BY DEF SendInv, SendTypes, InSend
  <2>2. ASSUME NEW k \in Nat, k <= U16Max PROVE k \in Word
    BY <2>2, U16MaxAssumption, WordDownClosed
  <2>3. seqIndex[c] \in Nat /\ seqIndex[c] <= U16Max
    BY <2>1, U16MaxType
  <2> QED
    BY <1>1, <2>1, <2>2, <2>3
<1>4. APDU_COMMAND_TAG \in Byte
  BY DEF APDU_COMMAND_TAG, Byte
<1> HIDE DEF n, cmd, start, end
<1>5. payload \in Seq(Byte)
  BY <1>1, <1>2, SubSeqType DEF n
<1> HIDE DEF payload
<1>6. CASE pc[c] = "initial"
  <2>1. raw = InitialPacket(APDU_COMMAND_TAG, n, payload)
    BY <1>6, LengthUncut DEF Packet, n, cmd, start, end, payload
  <2>2. /\ raw \in Seq(Byte)
        /\ SequenceIndex(raw) = 0 /\ DataLength(raw) = n
        /\ InitialPayload(raw) = payload
    BY <1>3, <1>4, <1>5, <2>1, InitialPacketRoundTrip
  <2> QED
    BY <1>3, <1>5, <1>6, <2>2 DEF n, cmd, start, end, payload
<1>7. CASE pc[c] = "subsequent"
  <2>1. raw = SubsequentPacket(APDU_COMMAND_TAG, seqIndex[c], payload)
    BY <1>7 DEF Packet, n, cmd, start, end, payload
  <2>2. /\ raw \in Seq(Byte)
        /\ SequenceIndex(raw) = seqIndex[c]
        /\ SubsequentPayload(raw) = payload
    BY <1>3, <1>4, <1>5, <2>1, SubsequentPacketRoundTrip
  <2> QED
    BY <1>3, <1>5, <1>7, <2>2 DEF n, cmd, start, end, payload
<1> QED
  BY <1>6, <1>7

RxType == [length : Word, data : Seq(Byte), next : Nat]

LEMMA NoRxType == NoRx \in RxType
BY WordZero DEF NoRx, RxType

LEMMA PacketTaken ==
  ASSUME TypeInv, NEW c \in Callers, pc[c] \in {"initial", "subsequent"},
         DeviceTakes(Packet(c))
  PROVE  rx' \in RxType /\ pending' \in Seq(Seq(Byte))
<1> DEFINE raw  == Packet(c)
           data == SubSeq(command[c], offset[c] + 1, DataEnd(c))
           rest == [rx EXCEPT !.data = @ \o SubsequentPayload(raw), !.next = @ + 1]
           new  == IF SequenceIndex(raw) = 0
                   THEN [length |-> DataLength(raw), data |-> InitialPayload(raw), next |-> 1]
                   ELSE IF SequenceIndex(raw) = rx.next THEN rest ELSE NoRx
<1>1. SendInv /\ rx \in RxType /\ pending \in Seq(Seq(Byte))
  BY DEF TypeInv, DeviceTypes, RxType
<1>2. /\ data \in Seq(Byte) /\ Len(command[c]) \in Word
      /\ pc[c] = "initial" =>
           /\ SequenceIndex(raw) = 0
           /\ DataLength(raw) = Len(command[c])
           /\ InitialPayload(raw) = data
      /\ pc[c] = "subsequent" => /\ SequenceIndex(raw) = seqIndex[c]
                                 /\ SubsequentPayload(raw) = data
  BY <1>1, PacketFacts
<1>3. pc[c] = "subsequent" => SequenceIndex(raw) # 0
  BY <1>1, <1>2 DEF SendInv, InSend
<1>4. \/ /\ new # NoRx /\ Len(new.data) >= new.length
         /\ pending' = Append(pending, SubSeq(new.data, 1, new.length))
         /\ rx' = NoRx
      \/ rx' = new /\ UNCHANGED pending
  BY DEF DeviceTakes
<1> HIDE DEF raw, data
<1>5. new \in RxType
  <2>1. CASE pc[c] = "initial"
    <3>1. new = [length |-> Len(command[c]), data |-> data, next |-> 1]
      BY <1>2, <2>1
    <3> HIDE DEF new
    <3> QED
      BY <1>2, <3>1 DEF RxType
  <2>2. CASE pc[c] = "subsequent"
    <3>1. new = NoRx \/ new = [rx EXCEPT !.data = @ \o data, !.next = @ + 1]
      BY <1>2, <1>3, <2>2
    <3>2. rx.data \in Seq(Byte) /\ rx.next \in Nat
      BY <1>1 DEF RxType
    <3>3. rx.data \o data \in Seq(Byte)
      BY <1>2, <3>2, ConcatProperties
    <3> HIDE DEF new
    <3> DEFINE bytes == rx.data \o data
    <3>4. new = NoRx \/ new = [rx EXCEPT !.data = bytes, !.next = rx.next + 1]
      BY <3>1
    <3> HIDE DEF bytes
    <3>5. bytes \in Seq(Byte) /\ rx.next + 1 \in Nat
      BY <3>2, <3>3 DEF bytes
    <3>6. [rx EXCEPT !.data = bytes, !.next = rx.next + 1] \in RxType
      BY <1>1, <3>5 DEF RxType
    <3> QED
      BY <3>4, <3>6, NoRxType
  <2> QED
    BY <2>1, <2>2
<1> HIDE DEF new
<1>6. CASE rx' = new /\ UNCHANGED pending
  BY <1>1, <1>5, <1>6
<1>7. CASE /\ Len(new.data) >= new.length
           /\ pending' = Append(pending, SubSeq(new.data, 1, new.length))
           /\ rx' = NoRx
  <2>1. new.data \in Seq(Byte) /\ new.length \in Word
    BY <1>5 DEF RxType
  <2>2. Word \subseteq Nat
    BY DEF Word
  <2> DEFINE bytes  == new.data
             length == new.length
  <2>3. Len(bytes) >= length
    BY <1>7
  <2> HIDE DEF bytes, length
  <2>4. length \in Int /\ length <= Len(bytes) /\ 1 \in Nat \ {0}
    <3>1. Len(bytes) \in Nat
      BY <2>1, LenProperties DEF bytes
    <3>2. length \in Nat
      BY <2>1, <2>2 DEF length
    <3> QED
      BY <2>3, <3>1, <3>2
  <2>5. SubSeq(new.data, 1, new.length) \in Seq(Byte)
    BY <2>1, <2>4, SubSeqType DEF bytes, length
  <2>6. pending' \in Seq(Seq(Byte))
    BY <1>1, <1>7, <2>5, AppendProperties
  <2> QED
    BY <1>7, <2>6, NoRxType
<1> QED
  BY <1>4, <1>6, <1>7

LEMMA AnswerToType ==
  ASSUME NEW bytes
  PROVE  AnswerTo(bytes) \in Seq(Byte) /\ Len(AnswerTo(bytes)) \in Word
<1>1. UNKNOWN_COMMAND \in Seq(Byte) /\ Len(UNKNOWN_COMMAND) = 2
  BY DEF UNKNOWN_COMMAND, Byte
<1> QED
  BY <1>1, WordZero, AnswerAssumption DEF AnswerTo

LEMMA DeviceTypesStep == TypeInv /\ [Next]_vars => DeviceTypes'
<1> SUFFICES ASSUME TypeInv, [Next]_vars PROVE DeviceTypes'
  OBVIOUS
<1>1. DeviceTypes /\ rx \in RxType
  BY DEF TypeInv, DeviceTypes, RxType
<1>2. ASSUME NEW c \in Callers, NEW cmd \in Commands, Begin(c, cmd)
      PROVE  DeviceTypes'
  BY <1>1, <1>2 DEF Begin, DeviceTypes, deviceVars
<1>3. ASSUME NEW c \in Callers, pc[c] \in {"initial", "subsequent"},
             DeviceTakes(Packet(c)) \/ UNCHANGED <<rx, pending>>,
             UNCHANGED <<notifications, connected, outgoing>>
      PROVE  DeviceTypes'
  <2>1. rx' \in RxType /\ pending' \in Seq(Seq(Byte))
    BY <1>1, <1>3, PacketTaken DEF DeviceTypes
  <2> QED
    BY <1>1, <1>3, <2>1 DEF DeviceTypes, RxType
<1>4. ASSUME NEW c \in Callers, SendStep(c) \/ Cancel(c)
      PROVE  DeviceTypes'
  <2>1. CASE WriteInitial(c) \/ WriteSubsequent(c)
    BY <1>3, <2>1 DEF WriteInitial, WriteSubsequent, Write
  <2>2. CASE WriteEnds(c, "ble") \/ WriteEnds(c, "cancelled")
    BY <1>3, <2>2 DEF WriteEnds
  <2>3. CASE Unanswered(c, "cancelled")
    BY <1>1, <2>3 DEF Unanswered, DeviceTypes, deviceVars
  <2> QED
    BY <1>4, <2>1, <2>2, <2>3 DEF SendStep, Cancel, WriteFails
<1>5. ASSUME NEW c \in Callers, Lock(c) \/ Timeout(c) \/ StreamEnded(c)
      PROVE  DeviceTypes'
  BY <1>1, <1>5 DEF Lock, Timeout, StreamEnded, Unanswered, DeviceTypes, deviceVars
<1>6. ASSUME NEW c \in Callers, ReceiveFirst(c) \/ ReceiveRest(c)
      PROVE  DeviceTypes'
  <2>1. /\ notifications # <<>> /\ notifications' = Tail(notifications)
        /\ UNCHANGED <<connected, deviceVars>>
    BY <1>6, ReceiveCases
  <2>2. notifications' \in Seq(Seq(Byte))
    BY <1>1, <2>1, HeadTailProperties DEF DeviceTypes
  <2> QED
    BY <1>1, <2>1, <2>2 DEF DeviceTypes, deviceVars
<1>7. CASE DeviceAnswers
  <2> DEFINE data == AnswerTo(Head(pending))
  <2>1. /\ outgoing' = Packets(APDU_COMMAND_TAG, data, mtuSize)
        /\ pending # <<>> /\ pending' = Tail(pending)
        /\ UNCHANGED <<notifications, connected, rx>>
    BY <1>7 DEF DeviceAnswers
  <2>2. data \in Seq(Byte) /\ Len(data) \in Word
    BY AnswerToType
  <2>3. mtuSize \in Byte /\ mtuSize > 5
    BY DEF TypeInv, SendInv
  <2> HIDE DEF data
  <2>4. outgoing' \in Seq(Seq(Byte))
    BY <2>1, <2>2, <2>3, PacketsType
  <2>5. pending' \in Seq(Seq(Byte))
    BY <1>1, <2>1, HeadTailProperties DEF DeviceTypes
  <2> QED
    BY <1>1, <2>1, <2>4, <2>5 DEF DeviceTypes
<1>8. CASE DeviceNotifies \/ NotificationLost
  <2>1. /\ outgoing # <<>> /\ outgoing' = Tail(outgoing)
        /\ UNCHANGED <<connected, rx, pending>>
        /\ notifications' = notifications
             \/ notifications' = Append(notifications, Head(outgoing))
    BY <1>8 DEF DeviceNotifies, NotificationLost
  <2>2. Head(outgoing) \in Seq(Byte) /\ outgoing' \in Seq(Seq(Byte))
    BY <1>1, <2>1, HeadTailProperties DEF DeviceTypes
  <2>3. notifications' \in Seq(Seq(Byte))
    <3>1. notifications \in Seq(Seq(Byte))
      BY <1>1 DEF DeviceTypes
    <3>2. CASE notifications' = notifications
      BY <3>1, <3>2
    <3>3. CASE notifications' = Append(notifications, Head(outgoing))
      BY <2>2, <3>1, <3>3, AppendProperties
    <3> QED
      BY <2>1, <3>2, <3>3
  <2> QED
    BY <1>1, <2>1, <2>2, <2>3 DEF DeviceTypes
<1>9. CASE \E raw \in Strays : Stray(raw)
  <2>1. PICK raw \in Strays : Stray(raw)
    BY <1>9
  <2>2. notifications' \in Seq(Seq(Byte))
    <3>1. raw \in Seq(Byte) /\ notifications' = Append(notifications, raw)
      BY <2>1, StraysAssumption DEF Stray
    <3> QED
      BY <1>1, <3>1, AppendProperties DEF DeviceTypes
  <2> QED
    BY <1>1, <2>1, <2>2 DEF Stray, DeviceTypes, deviceVars
<1>10. CASE Disconnect
  <2>1. /\ rx' = NoRx /\ pending' = <<>> /\ outgoing' = <<>> /\ connected' = FALSE
        /\ UNCHANGED notifications
    BY <1>10 DEF Disconnect
  <2>2. <<>> \in Seq(Seq(Byte))
    OBVIOUS
  <2> QED
    BY <1>1, <2>1, <2>2, NoRxType DEF DeviceTypes, RxType
<1>11. CASE UNCHANGED vars
  BY <1>1, <1>11 DEF vars, deviceVars, DeviceTypes
<1> QED
  BY <1>2, <1>4, <1>5, <1>6, <1>7, <1>8, <1>9, <1>10, <1>11
     DEF Next, HostStep, ReceiveStep, Device, AllReturned

LEMMA TypeInvHolds == Spec => []TypeInv
<1>1. TypeInv /\ [Next]_vars => TypeInv'
  <2>1. TypeInv => SendInv
    BY DEF TypeInv
  <2>2. TypeInv /\ [Next]_vars =>
          SendInv' /\ QueueOK' /\ ReceiveTypes' /\ DeviceTypes' /\ CountTypes'
    BY <2>1, SendInvStep, QueueStep, ReceiveTypesStep, DeviceTypesStep, CountTypesStep
  <2> QED
    BY <2>2 DEF TypeInv
<1> QED
  BY <1>1, InitTypes, PTL DEF Spec

\* Type correctness: who waits for the lock is in recv_framed, and waits once;
\* every packet that the device or send_framed makes is one of bytes, whatever
\* the mtu_size, the commands and the answers.
THEOREM TransportTypeCorrect == Spec => []TypeOK
BY TypeInvHolds, TypeInvImpliesTypeOK, PTL

-----------------------------------------------------------------------------
(* The device follows send_framed.                                         *)

\* The device has of a command what is written of it.
RxFollows(c) == rx = [length |-> Len(command[c]), next |-> seqIndex[c],
                      data |-> SubSeq(command[c], 1, offset[c])]

\* One caller that has the transport to itself, from its first write on: no
\* other exchange is on, the device has nothing else to do, and what it has of
\* the command is what is written of it.
InSync(c) ==
  /\ ~Idle(c) => \A d \in Callers \ {c} : Idle(d)
  /\ pc[c] \in {"initial", "subsequent"} => pending = <<>> /\ outgoing = <<>>
  /\ pc[c] = "subsequent" /\ connected => RxFollows(c)
  /\ Receiving(c) => pending \in {<<>>, <<command[c]>>}

SyncInv == TypeInv /\ \A c \in alone : InSync(c)

LEMMA SyncInvInit == Init => SyncInv
<1>1. Init => alone = {}
  BY DEF Init
<1> QED
  BY <1>1, InitTypes DEF SyncInv

LEMMA IdleInSync ==
  ASSUME NEW c \in Callers, pc'[c] = "idle"
  PROVE  InSync(c)'
BY DEF InSync, RxFollows, Idle, Receiving

\* What one exchange does, no other one that has the transport to itself sees.
LEMMA OtherInSync ==
  ASSUME SyncInv, NEW c \in Callers, ~Idle(c), NEW d \in alone, d # c,
         pc'[d] = pc[d]
  PROVE  InSync(d)'
<1>1. d \in Callers
  BY DEF SyncInv, TypeInv, CountTypes
<1>2. pc[d] = "idle"
  BY <1>1 DEF SyncInv, InSync, Idle
<1> QED
  BY <1>1, <1>2, IdleInSync

LEMMA BeginInSync ==
  ASSUME SyncInv, NEW c \in Callers, NEW cmd \in Commands, Begin(c, cmd),
         NEW d \in alone'
  PROVE  InSync(d)'
<1>1. /\ pc \in [Callers -> {"idle", "initial", "subsequent", "first", "rest"}]
      /\ alone \subseteq Callers
  BY DEF SyncInv, TypeInv, SendInv, SendTypes, CountTypes
<1>2. /\ pc[c] = "idle"
      /\ pc' = pc \/ pc' = [pc EXCEPT ![c] = "initial"]
      /\ alone' = (alone \ (Active \cup {c})) \cup (IF Quiet THEN {c} ELSE {})
      /\ UNCHANGED <<pending, outgoing>>
  BY DEF Begin, Idle, deviceVars
<1>3. CASE d # c
  <2>1. d \in alone /\ d \notin Active
    BY <1>2, <1>3
  <2>2. d \in Callers /\ pc'[d] = "idle"
    BY <1>1, <1>2, <1>3, <2>1 DEF Active, Idle
  <2> QED
    BY <2>2, IdleInSync
<1>4. CASE d = c
  <2>1. Quiet
    BY <1>2, <1>4
  <2>2. pending' = <<>> /\ outgoing' = <<>> /\ \A e \in Callers : pc[e] = "idle"
    BY <1>2, <2>1 DEF Quiet, Active, Idle
  <2>3. pc'[c] \in {"idle", "initial"} /\ \A e \in Callers \ {c} : pc'[e] = "idle"
    BY <1>1, <1>2, <2>2
  <2> QED
    BY <1>4, <2>2, <2>3 DEF InSync, RxFollows, Idle, Receiving
<1> QED
  BY <1>3, <1>4

\* The device after a packet of a caller that it follows: it has one more
\* packet, or the command, whole.
LEMMA PacketFollowed ==
  ASSUME SendInv, NEW c \in Callers, pc[c] \in {"initial", "subsequent"},
         pc[c] = "subsequent" => RxFollows(c), DeviceTakes(Packet(c))
  PROVE  IF DataEnd(c) < Len(command[c])
         THEN /\ rx' = [length |-> Len(command[c]), next |-> seqIndex[c] + 1,
                        data |-> SubSeq(command[c], 1, DataEnd(c))]
              /\ UNCHANGED pending
         ELSE pending' = Append(pending, command[c])
<1> DEFINE cmd  == command[c]
           n    == Len(cmd)
           start == offset[c]
           end  == DataEnd(c)
           raw  == Packet(c)
           data == SubSeq(cmd, start + 1, end)
           all  == SubSeq(cmd, 1, end)
           whole == [length |-> n, data |-> all, next |-> seqIndex[c] + 1]
           rest == [rx EXCEPT !.data = @ \o SubsequentPayload(raw), !.next = @ + 1]
           new  == IF SequenceIndex(raw) = 0
                   THEN [length |-> DataLength(raw), data |-> InitialPayload(raw), next |-> 1]
                   ELSE IF SequenceIndex(raw) = rx.next THEN rest ELSE NoRx
<1>2. /\ data \in Seq(Byte)
      /\ pc[c] = "initial" =>
           /\ SequenceIndex(raw) = 0
           /\ DataLength(raw) = n
           /\ InitialPayload(raw) = data
      /\ pc[c] = "subsequent" => /\ SequenceIndex(raw) = seqIndex[c]
                                 /\ SubsequentPayload(raw) = data
  BY PacketFacts
<1>3. cmd \in Seq(Byte) /\ n \in Nat
  BY CommandType DEF SendInv, SendTypes
<1>4. start \in Nat /\ end \in Nat /\ end <= n /\ (start < end \/ n = 0)
  BY PacketAdvances DEF SendInv, SendTypes
<1>5. /\ seqIndex[c] \in Nat
      /\ pc[c] = "initial" => start = 0 /\ seqIndex[c] = 0
      /\ pc[c] = "subsequent" => seqIndex[c] # 0 /\ start < n
  BY U16MaxType DEF SendInv, SendTypes, InSend
<1>6. pc[c] = "subsequent" =>
        rx = [length |-> n, next |-> seqIndex[c], data |-> SubSeq(cmd, 1, start)]
  BY DEF RxFollows
<1>7. \/ /\ new # NoRx /\ Len(new.data) >= new.length
         /\ pending' = Append(pending, SubSeq(new.data, 1, new.length))
         /\ rx' = NoRx
      \/ /\ ~(new # NoRx /\ Len(new.data) >= new.length)
         /\ rx' = new /\ UNCHANGED pending
  BY DEF DeviceTakes
<1> HIDE DEF raw, n, cmd, start, end
<1>8. new = whole
  <2>1. CASE pc[c] = "initial"
    <3>1. start + 1 = 1 /\ seqIndex[c] + 1 = 1
      BY <1>5, <2>1
    <3>2. data = all
      BY <3>1
    <3> HIDE DEF data, all
    <3> QED
      BY <1>2, <2>1, <3>1, <3>2
  <2>2. CASE pc[c] = "subsequent"
    <3>1. SubSeq(cmd, 1, start) \o data = all
      <4>1. 1 \in 1 .. n + 1 /\ start \in 1 - 1 .. n /\ end \in start .. n
        BY <1>3, <1>4, <1>5, <2>2
      <4> QED
        BY <1>3, <4>1, ConcatAdjacentSubSeq DEF n
    <3>2. rx = [length |-> n, next |-> seqIndex[c], data |-> SubSeq(cmd, 1, start)]
      BY <1>6, <2>2
    <3> DEFINE had == SubSeq(cmd, 1, start)
    <3> HIDE DEF had, data, all
    <3>3. rest = [rx EXCEPT !.data = @ \o data, !.next = @ + 1]
      BY <1>2, <2>2
    <3>4. rx = [length |-> n, next |-> seqIndex[c], data |-> had] /\ had \o data = all
      BY <3>1, <3>2 DEF had
    <3> HIDE DEF rest
    <3>5. rest = whole
      BY <3>3, <3>4
    <3>6. SequenceIndex(raw) # 0 /\ SequenceIndex(raw) = rx.next
      BY <1>2, <1>5, <2>2, <3>4
    <3> QED
      BY <3>5, <3>6
  <2> QED
    BY <2>1, <2>2
<1> HIDE DEF new, data
<1>9. Len(all) = end /\ all \in Seq(Byte)
  <2>1. \A i \in 1 .. end : cmd[i] \in Byte
    BY <1>3, <1>4, ElementOfSeq DEF n
  <2>2. /\ all \in Seq(Byte)
        /\ Len(all) = IF 1 <= end THEN end - 1 + 1 ELSE 0
    BY <1>4, <2>1, SubSeqProperties
  <2> QED
    BY <1>4, <2>2
<1> HIDE DEF all
<1>10. new # NoRx /\ new.data = all /\ new.length = n
  BY <1>5, <1>8 DEF NoRx
<1>11. CASE end < n
  <2>1. ~(Len(new.data) >= new.length)
    BY <1>3, <1>4, <1>9, <1>10, <1>11
  <2>2. rx' = new /\ UNCHANGED pending
    BY <1>7, <2>1
  <2> QED
    BY <1>8, <1>11, <2>2 DEF n, cmd, end, all
<1>12. CASE ~(end < n)
  <2>1. end = n
    BY <1>3, <1>4, <1>12
  <2>2. all = cmd
    BY <1>3, <2>1, SubSeqFull DEF all, n
  <2>3. SubSeq(new.data, 1, new.length) = cmd
    BY <1>3, <1>10, <2>2, SubSeqFull DEF n
  <2>4. Len(new.data) >= new.length
    BY <1>3, <1>9, <1>10, <2>1
  <2>5. pending' = Append(pending, cmd)
    BY <1>7, <1>10, <2>3, <2>4
  <2> QED
    BY <1>12, <2>5 DEF n, cmd, end
<1> QED
  BY <1>11, <1>12

\* Nothing else is to be handled when the transport is an exchange's own.
LEMMA PacketTakenInSync ==
  ASSUME SyncInv, NEW c \in alone, c \in Callers,
         pc[c] \in {"initial", "subsequent"}, connected, DeviceTakes(Packet(c))
  PROVE  IF DataEnd(c) < Len(command[c])
         THEN /\ rx' = [length |-> Len(command[c]), next |-> seqIndex[c] + 1,
                        data |-> SubSeq(command[c], 1, DataEnd(c))]
              /\ pending' = <<>>
         ELSE pending' = <<command[c]>>
<1>1. SendInv /\ pending = <<>> /\ (pc[c] = "subsequent" => RxFollows(c))
  BY DEF SyncInv, TypeInv, InSync
<1>2. IF DataEnd(c) < Len(command[c])
      THEN /\ rx' = [length |-> Len(command[c]), next |-> seqIndex[c] + 1,
                     data |-> SubSeq(command[c], 1, DataEnd(c))]
           /\ UNCHANGED pending
      ELSE pending' = Append(pending, command[c])
  BY <1>1, PacketFollowed
<1> QED
  BY <1>1, <1>2

LEMMA WriteInSync ==
  ASSUME SyncInv, NEW c \in Callers, WriteInitial(c) \/ WriteSubsequent(c),
         NEW d \in alone'
  PROVE  InSync(d)'
<1>1. /\ pc[c] \in {"initial", "subsequent"} /\ connected
      /\ DeviceTakes(Packet(c))
      /\ offset' = [offset EXCEPT ![c] = DataEnd(c)]
      /\ seqIndex' = [seqIndex EXCEPT ![c] = (@ + 1) % (U16Max + 1)]
      /\ pc' = [pc EXCEPT ![c] = IF DataEnd(c) < Len(command[c])
                                 THEN "subsequent" ELSE "first"]
      /\ UNCHANGED <<command, outgoing, connected, alone>>
  BY DEF WriteInitial, WriteSubsequent, Write
<1>2. SendInv /\ SendTypes /\ d \in alone /\ d \in Callers
  BY <1>1 DEF SyncInv, TypeInv, SendInv, CountTypes
<1>3. CASE d # c
  <2>1. pc'[d] = pc[d] /\ ~Idle(c)
    BY <1>1, <1>2, <1>3 DEF SendTypes, Idle
  <2> QED
    BY <1>2, <1>3, <2>1, OtherInSync
<1>4. CASE d = c
  <2> DEFINE end == DataEnd(c)
             n   == Len(command[c])
             seq == (seqIndex[c] + 1) % (U16Max + 1)
             P(k, m) == [length |-> n, next |-> k, data |-> SubSeq(command[c], 1, m)]
  <2>1. end < n => seq = seqIndex[c] + 1
    BY <1>1, <1>2, PacketAdvances
  <2>2. IF end < n
        THEN rx' = P(seqIndex[c] + 1, end) /\ pending' = <<>>
        ELSE pending' = <<command[c]>>
    BY <1>1, <1>2, <1>4, PacketTakenInSync
  <2>3. /\ offset'[c] = end /\ seqIndex'[c] = seq /\ command'[c] = command[c]
        /\ pc'[c] = IF end < n THEN "subsequent" ELSE "first"
        /\ \A e \in Callers \ {c} : pc'[e] = pc[e]
    BY <1>1, <1>2 DEF SendTypes
  <2>4. outgoing' = <<>> /\ \A e \in Callers \ {c} : pc[e] = "idle"
    BY <1>1, <1>2, <1>4 DEF SyncInv, InSync, Idle
  <2> HIDE DEF end, n, seq
  <2>5. CASE end < n
    <3>1. /\ rx' = [length |-> Len(command'[c]), next |-> seqIndex'[c],
                    data |-> SubSeq(command'[c], 1, offset'[c])]
          /\ pending' = <<>> /\ pc'[c] = "subsequent"
      BY <2>1, <2>2, <2>3, <2>5 DEF n
    <3> QED
      BY <1>4, <2>3, <2>4, <3>1 DEF InSync, RxFollows, Idle, Receiving
  <2>6. CASE ~(end < n)
    <3>1. pending' = <<command'[c]>> /\ pc'[c] = "first"
      BY <2>2, <2>3, <2>6
    <3> QED
      BY <1>4, <2>3, <2>4, <3>1 DEF InSync, RxFollows, Idle, Receiving
  <2> QED
    BY <2>5, <2>6
<1> QED
  BY <1>3, <1>4

\* An exchange that returns leaves nobody who has the transport to itself.
LEMMA ReturnInSync ==
  ASSUME SyncInv, NEW c \in Callers, ~Idle(c), NEW result, Return(c, result),
         UNCHANGED alone, NEW d \in alone'
  PROVE  InSync(d)'
<1>1. d \in alone /\ d \in Callers /\ pc' = [pc EXCEPT ![c] = "idle"] /\ SendTypes
  BY DEF SyncInv, TypeInv, CountTypes, Return, SendInv
<1>2. CASE d # c
  BY <1>1, <1>2, OtherInSync DEF SendTypes
<1>3. CASE d = c
  BY <1>1, <1>3, IdleInSync DEF SendTypes
<1> QED
  BY <1>2, <1>3

\* One more notification, or a turn in the queue: nothing that is looked at.
LEMMA WaitInSync ==
  ASSUME SyncInv, NEW c \in Callers, Receiving(c),
         UNCHANGED pc \/ pc' = [pc EXCEPT ![c] = "rest"],
         UNCHANGED <<command, pending, alone>>, NEW d \in alone'
  PROVE  InSync(d)'
<1>1. d \in alone /\ d \in Callers /\ SendTypes /\ ~Idle(c)
  BY DEF SyncInv, TypeInv, CountTypes, SendInv, Idle, Receiving
<1>2. CASE d # c
  BY <1>1, <1>2, OtherInSync DEF SendTypes
<1>3. CASE d = c
  <2>1. /\ pending \in {<<>>, <<command[c]>>}
        /\ \A e \in Callers \ {c} : pc[e] = "idle"
    BY <1>1, <1>3 DEF SyncInv, InSync, Idle
  <2>2. /\ pc'[c] \in {"first", "rest"}
        /\ \A e \in Callers \ {c} : pc'[e] = "idle"
    BY <1>1, <2>1 DEF SendTypes, Receiving
  <2>3. pending' \in {<<>>, <<command'[c]>>}
    BY <2>1
  <2> QED
    BY <1>3, <2>2, <2>3 DEF InSync, RxFollows, Idle, Receiving
<1> QED
  BY <1>2, <1>3

LEMMA DeviceInSyncStep ==
  ASSUME SyncInv,
         Device \/ NotificationLost \/ Disconnect \/ \E raw \in Strays : Stray(raw),
         NEW d \in alone'
  PROVE  InSync(d)'
<1> DEFINE Answers ==
             /\ pending # <<>> \/ outgoing # <<>>
             /\ pending' = pending \/ (pending # <<>> /\ pending' = Tail(pending))
           Down  == connected' = FALSE /\ pending' = <<>> /\ outgoing' = <<>>
           Keeps == UNCHANGED <<connected, rx, pending, outgoing>>
<1>1. /\ UNCHANGED <<pc, command, offset, seqIndex>> /\ alone' \subseteq alone
      /\ Answers \/ Down \/ Keeps
  <2>1. ASSUME DeviceAnswers
        PROVE  UNCHANGED <<hostVars, alone>> /\ Answers
    BY <2>1 DEF DeviceAnswers
  <2>2. ASSUME DeviceNotifies
        PROVE  UNCHANGED <<hostVars, alone>> /\ Answers
    BY <2>2 DEF DeviceNotifies
  <2>3. ASSUME NotificationLost
        PROVE  UNCHANGED hostVars /\ alone' \subseteq alone /\ Answers
    BY <2>3 DEF NotificationLost
  <2>4. ASSUME Disconnect
        PROVE  UNCHANGED <<hostVars, alone>> /\ Down
    BY <2>4 DEF Disconnect
  <2>5. ASSUME \E raw \in Strays : Stray(raw)
        PROVE  UNCHANGED <<hostVars, alone>> /\ Keeps
    BY <2>5 DEF Stray, deviceVars
  <2> HIDE DEF Answers, Down, Keeps
  <2> QED
    BY <2>1, <2>2, <2>3, <2>4, <2>5 DEF Device, hostVars
<1>2. InSync(d) /\ d \in Callers
  BY <1>1 DEF SyncInv, TypeInv, CountTypes
<1>3. CASE /\ pending # <<>> \/ outgoing # <<>>
           /\ pending' = pending \/ (pending # <<>> /\ pending' = Tail(pending))
  <2>1. pc[d] \notin {"initial", "subsequent"}
    BY <1>2, <1>3 DEF InSync
  <2>2. ASSUME Receiving(d) PROVE pending' \in {<<>>, <<command[d]>>}
    <3>1. pending \in {<<>>, <<command[d]>>}
      BY <1>2, <2>2 DEF InSync
    <3>2. CASE pending' = pending
      BY <3>1, <3>2
    <3>3. CASE pending # <<>> /\ pending' = Tail(pending)
      <4>1. Tail(<<command[d]>>) = <<>>
        OBVIOUS
      <4> QED
        BY <3>1, <3>3, <4>1
    <3> QED
      BY <1>3, <3>2, <3>3
  <2> QED
    BY <1>1, <1>2, <2>1, <2>2 DEF InSync, RxFollows, Idle, Receiving
<1>4. CASE connected' = FALSE /\ pending' = <<>> /\ outgoing' = <<>>
  BY <1>1, <1>2, <1>4 DEF InSync, RxFollows, Idle, Receiving
<1>5. CASE UNCHANGED <<connected, rx, pending, outgoing>>
  BY <1>1, <1>2, <1>5 DEF InSync, RxFollows, Idle, Receiving
<1> QED
  BY <1>1, <1>3, <1>4, <1>5

LEMMA SyncInvStep == SyncInv /\ [Next]_vars => SyncInv'
<1> SUFFICES ASSUME SyncInv, [Next]_vars, TypeInv', NEW d \in alone'
             PROVE  InSync(d)'
  <2>1. SyncInv /\ [Next]_vars => TypeInv'
    <3>1. SyncInv => TypeInv /\ SendInv
      BY DEF SyncInv, TypeInv
    <3>2. SyncInv /\ [Next]_vars =>
            SendInv' /\ QueueOK' /\ ReceiveTypes' /\ DeviceTypes' /\ CountTypes'
      BY <3>1, SendInvStep, QueueStep, ReceiveTypesStep, DeviceTypesStep, CountTypesStep
    <3> QED
      BY <3>2 DEF TypeInv
  <2> QED
    BY <2>1 DEF SyncInv
<1>1. ASSUME NEW c \in Callers, NEW cmd \in Commands, Begin(c, cmd)
      PROVE  InSync(d)'
  BY <1>1, BeginInSync
<1>2. ASSUME NEW c \in Callers, WriteInitial(c) \/ WriteSubsequent(c)
      PROVE  InSync(d)'
  BY <1>2, WriteInSync
<1>3. ASSUME NEW c \in Callers,
             WriteFails(c) \/ Timeout(c) \/ StreamEnded(c) \/ Cancel(c)
      PROVE  InSync(d)'
  <2>1. ~Idle(c) /\ UNCHANGED alone /\ \E result : Return(c, result)
    BY <1>3 DEF WriteFails, WriteEnds, Timeout, StreamEnded, Cancel, Unanswered,
                Holds, Receiving, Idle
  <2> QED
    BY <2>1, ReturnInSync
<1>4. ASSUME NEW c \in Callers, Lock(c) PROVE InSync(d)'
  BY <1>4, WaitInSync DEF Lock, deviceVars
<1>5. ASSUME NEW c \in Callers, ReceiveFirst(c) \/ ReceiveRest(c)
      PROVE  InSync(d)'
  <2>1. TypeInv
    BY DEF SyncInv
  <2>2. Receiving(c) /\ UNCHANGED <<deviceVars, alone>>
    BY <1>5, <2>1, ReceiveCases
  <2>3. ~Idle(c) /\ UNCHANGED <<pending, alone>>
    BY <2>2 DEF Receiving, Idle, deviceVars
  <2>4. CASE \E result : Return(c, result)
    BY <2>3, <2>4, ReturnInSync
  <2>5. CASE Skip
    BY <2>2, <2>3, <2>5, WaitInSync DEF Skip
  <2>6. ASSUME NEW bytes, NEW length, Reassemble(c, bytes, length) PROVE InSync(d)'
    <3>1. CASE Len(bytes) < length
      BY <2>2, <2>3, <2>6, <3>1, WaitInSync DEF Reassemble
    <3>2. CASE ~(Len(bytes) < length)
      BY <2>3, <2>6, <3>2, ReturnInSync DEF Reassemble
    <3> QED
      BY <3>1, <3>2
  <2> QED
    BY <1>5, <2>4, <2>5, <2>6 DEF ReceiveFirst, ReceiveRest
<1>6. CASE Device \/ NotificationLost \/ Disconnect \/ \E raw \in Strays : Stray(raw)
  BY <1>6, DeviceInSyncStep
<1>7. CASE UNCHANGED vars
  BY <1>7 DEF SyncInv, InSync, RxFollows, Idle, Receiving, vars, hostVars, deviceVars
<1> QED
  BY <1>1, <1>2, <1>3, <1>4, <1>5, <1>6, <1>7
     DEF Next, HostStep, SendStep, ReceiveStep, AllReturned

LEMMA SyncInvHolds == Spec => []SyncInv
BY SyncInvInit, SyncInvStep, PTL DEF Spec

\* An undisturbed exchange gets its command to the device, whole and once, for
\* every command, mtu and number of callers: in the middle of send_framed the
\* device has the bytes that are written and expects the packet that comes next.
THEOREM DeviceInSyncCorrect == Spec => []DeviceInSync
<1>1. SyncInv => DeviceInSync
  BY DEF SyncInv, InSync, RxFollows, DeviceInSync
<1> QED
  BY <1>1, SyncInvHolds, PTL

-----------------------------------------------------------------------------
(* An exchange that has the transport to itself gets the answer to its own *)
(* command.  The stream is followed packet by packet: between the          *)
(* notifications that are no part of an answer come the packets of this    *)
(* one, in order, from the one recv_framed waits for to the one the device *)
(* sends next.                                                             *)

NoAnswer(stream) == \A i \in DOMAIN stream : ~IsApdu(stream[i])

\* M[i] packets of P are out once the first i notifications are taken.
Counts(stream, M, P) ==
  /\ M \in [0 .. Len(stream) -> Nat]
  /\ \A i \in 1 .. Len(stream) :
       \/ M[i] = M[i - 1] /\ ~IsApdu(stream[i])
       \/ /\ M[i] = M[i - 1] + 1 /\ M[i] \in 1 .. Len(P)
          /\ stream[i] = P[M[i]]

\* No packet is out.
LEMMA CountsNone ==
  ASSUME NEW S, NEW s \in Seq(S), NoAnswer(s), NEW P
  PROVE  LET M == [i \in 0 .. Len(s) |-> 0]
         IN  Counts(s, M, P) /\ M[0] = 0 /\ M[Len(s)] = 0
<1> DEFINE n == Len(s)
           M == [i \in 0 .. n |-> 0]
<1>1. n \in Nat /\ DOMAIN s = 1 .. n
  BY LenProperties
<1> HIDE DEF n
<1>2. M \in [0 .. n -> Nat] /\ \A i \in 0 .. n : M[i] = 0
  OBVIOUS
<1> HIDE DEF M
<1>3. ASSUME NEW i \in 1 .. n PROVE M[i] = M[i - 1] /\ ~IsApdu(s[i])
  <2>1. i \in 0 .. n /\ i - 1 \in 0 .. n
    BY <1>1
  <2> QED
    BY <1>1, <1>2, <2>1 DEF NoAnswer
<1>4. 0 \in 0 .. n /\ n \in 0 .. n
  BY <1>1
<1> QED
  BY <1>2, <1>3, <1>4 DEF Counts, M, n

\* One more notification.
LEMMA CountsAppend ==
  ASSUME NEW S, NEW s \in Seq(S), NEW M, NEW P, Counts(s, M, P), NEW raw \in S,
         NEW k \in Nat,
         \/ k = M[Len(s)] /\ ~IsApdu(raw)
         \/ k = M[Len(s)] + 1 /\ k \in 1 .. Len(P) /\ raw = P[k]
  PROVE  \E N : /\ Counts(Append(s, raw), N, P)
                /\ N[0] = M[0] /\ N[Len(Append(s, raw))] = k
<1> DEFINE n == Len(s)
           t == Append(s, raw)
           N == [i \in 0 .. n + 1 |-> IF i = n + 1 THEN k ELSE M[i]]
<1>1. /\ n \in Nat /\ Len(t) = n + 1 /\ t[n + 1] = raw
      /\ \A i \in 1 .. n : t[i] = s[i]
  BY LenProperties, AppendProperties
<1>2. M \in [0 .. n -> Nat]
  BY DEF Counts
<1> HIDE DEF n, t
<1>3. /\ N \in [0 .. n + 1 -> Nat] /\ N[n + 1] = k
      /\ \A i \in 0 .. n : N[i] = M[i]
  BY <1>1, <1>2
<1> HIDE DEF N
<1>4. ASSUME NEW i \in 1 .. n + 1
      PROVE  \/ N[i] = N[i - 1] /\ ~IsApdu(t[i])
             \/ N[i] = N[i - 1] + 1 /\ N[i] \in 1 .. Len(P) /\ t[i] = P[N[i]]
  <2>1. CASE i = n + 1
    <3>1. i - 1 = n /\ N[i - 1] = M[n] /\ N[i] = k /\ t[i] = raw
      BY <1>1, <1>3, <2>1
    <3> QED
      BY <3>1 DEF n
  <2>2. CASE i # n + 1
    <3>1. i \in 1 .. n /\ i - 1 \in 0 .. n /\ i \in 0 .. n
      BY <1>1, <2>2
    <3>2. N[i] = M[i] /\ N[i - 1] = M[i - 1] /\ t[i] = s[i]
      BY <1>1, <1>3, <3>1
    <3>3. \/ M[i] = M[i - 1] /\ ~IsApdu(s[i])
          \/ M[i] = M[i - 1] + 1 /\ M[i] \in 1 .. Len(P) /\ s[i] = P[M[i]]
      BY <3>1 DEF Counts, n
    <3> QED
      BY <3>2, <3>3
  <2> QED
    BY <2>1, <2>2
<1>5. Counts(t, N, P)
  BY <1>1, <1>3, <1>4 DEF Counts
<1>6. N[0] = M[0] /\ N[Len(t)] = k
  <2>1. 0 \in 0 .. n
    BY <1>1
  <2> QED
    BY <1>1, <1>3, <2>1
<1> QED
  BY <1>5, <1>6 DEF t

\* One notification less: it is no part of the answer, or the next packet.
LEMMA CountsTail ==
  ASSUME NEW S, NEW s \in Seq(S), NEW M, NEW P, Counts(s, M, P), s # <<>>
  PROVE  /\ \E N : /\ Counts(Tail(s), N, P)
                   /\ N[0] = M[1] /\ N[Len(Tail(s))] = M[Len(s)]
         /\ M[0] \in Nat
         /\ \/ M[1] = M[0] /\ ~IsApdu(Head(s))
            \/ /\ M[1] = M[0] + 1 /\ M[1] \in 1 .. Len(P)
               /\ Head(s) = P[M[1]]
<1> DEFINE n == Len(s)
           t == Tail(s)
           N == [i \in 0 .. n - 1 |-> M[i + 1]]
<1>1. n \in Nat \ {0} /\ Len(t) = n - 1 /\ \A i \in 1 .. Len(t) : t[i] = s[i + 1]
  BY EmptySeq, HeadTailProperties
<1>2. Head(s) = s[1]
  OBVIOUS
<1>3. M \in [0 .. n -> Nat]
  BY DEF Counts
<1> HIDE DEF n, t
<1>4. /\ N \in [0 .. n - 1 -> Nat]
      /\ \A i \in 0 .. n - 1 : N[i] = M[i + 1]
  BY <1>1, <1>3
<1> HIDE DEF N
<1>5. ASSUME NEW i \in 1 .. n - 1
      PROVE  \/ N[i] = N[i - 1] /\ ~IsApdu(t[i])
             \/ N[i] = N[i - 1] + 1 /\ N[i] \in 1 .. Len(P) /\ t[i] = P[N[i]]
  <2>1. i \in 0 .. n - 1 /\ i - 1 \in 0 .. n - 1 /\ i + 1 \in 1 .. n
        /\ i - 1 + 1 = i /\ i + 1 - 1 = i /\ i \in 1 .. Len(t)
    BY <1>1
  <2>2. N[i] = M[i + 1] /\ N[i - 1] = M[i] /\ t[i] = s[i + 1]
    BY <1>1, <1>4, <2>1
  <2>3. \/ M[i + 1] = M[i] /\ ~IsApdu(s[i + 1])
        \/ /\ M[i + 1] = M[i] + 1 /\ M[i + 1] \in 1 .. Len(P)
           /\ s[i + 1] = P[M[i + 1]]
    <3> DEFINE j == i + 1
    <3>1. j \in 1 .. n /\ j - 1 = i
      BY <2>1
    <3> HIDE DEF j
    <3>2. \/ M[j] = M[j - 1] /\ ~IsApdu(s[j])
          \/ M[j] = M[j - 1] + 1 /\ M[j] \in 1 .. Len(P) /\ s[j] = P[M[j]]
      BY <3>1 DEF Counts, n
    <3>3. \/ M[j] = M[i] /\ ~IsApdu(s[j])
          \/ M[j] = M[i] + 1 /\ M[j] \in 1 .. Len(P) /\ s[j] = P[M[j]]
      BY <3>1, <3>2
    <3> QED
      BY <3>3 DEF j
  <2> QED
    BY <2>2, <2>3
<1>6. Counts(t, N, P)
  BY <1>1, <1>4, <1>5 DEF Counts
<1>7. N[0] = M[1] /\ N[Len(t)] = M[n]
  <2>1. 0 \in 0 .. n - 1 /\ n - 1 \in 0 .. n - 1 /\ 0 + 1 = 1 /\ n - 1 + 1 = n
    BY <1>1
  <2> QED
    BY <1>1, <1>4, <2>1
<1>8. M[0] \in Nat
  BY <1>1, <1>3
<1>9. \/ M[1] = M[0] /\ ~IsApdu(Head(s))
      \/ M[1] = M[0] + 1 /\ M[1] \in 1 .. Len(P) /\ Head(s) = P[M[1]]
  <2>1. 1 \in 1 .. n /\ 1 - 1 = 0
    BY <1>1
  <2>2. \/ M[1] = M[1 - 1] /\ ~IsApdu(s[1])
        \/ M[1] = M[1 - 1] + 1 /\ M[1] \in 1 .. Len(P) /\ s[1] = P[M[1]]
    BY <2>1 DEF Counts, n
  <2> QED
    BY <1>2, <2>1, <2>2
<1> QED
  BY <1>6, <1>7, <1>8, <1>9 DEF t, n

\* With the last packet taken, none is left in the stream.
LEMMA CountsDone ==
  ASSUME NEW S, NEW s \in Seq(S), NEW M, NEW P, Counts(s, M, P), s # <<>>,
         Len(P) \in Nat, M[1] = Len(P)
  PROVE  NoAnswer(Tail(s)) /\ M[Len(s)] = Len(P)
<1> DEFINE n == Len(s)
           t == Tail(s)
           last == Len(P)
<1>1. /\ n \in Nat \ {0} /\ t \in Seq(S) /\ Len(t) = n - 1
      /\ \A i \in 1 .. Len(t) : t[i] = s[i + 1]
  BY EmptySeq, HeadTailProperties
<1>2. DOMAIN t = 1 .. n - 1
  BY <1>1, LenProperties
<1>3. \A i \in 1 .. n :
        \/ M[i] = M[i - 1] /\ ~IsApdu(s[i])
        \/ M[i] = M[i - 1] + 1 /\ M[i] \in 1 .. last
  BY DEF Counts
<1>4. last \in Nat /\ M[1] = last
  OBVIOUS
<1> HIDE DEF n, t, last
<1>5. \A i \in 1 .. n : M[i] = last
  <2> DEFINE T == {i \in 1 .. n : M[i] # last}
  <2> SUFFICES ASSUME T # {} PROVE FALSE
    OBVIOUS
  <2>1. PICK i \in T : \A j \in T : i <= j
    <3>1. T \subseteq Nat
      BY <1>1
    <3> QED
      BY <3>1, NatMin
  <2>2. i \in 2 .. n /\ i - 1 \in 1 .. n /\ i \in 1 .. n
    BY <1>1, <1>4
  <2>3. M[i - 1] = last
    <3>1. i - 1 \notin T
      BY <2>1, <2>2
    <3> QED
      BY <2>2, <3>1
  <2>4. M[i] # last
    OBVIOUS
  <2> QED
    BY <1>3, <1>4, <2>2, <2>3, <2>4
<1>6. ASSUME NEW i \in 1 .. n - 1 PROVE ~IsApdu(t[i])
  <2> DEFINE j == i + 1
  <2>1. j \in 1 .. n /\ j - 1 \in 1 .. n /\ t[i] = s[j] /\ i \in 1 .. Len(t)
    BY <1>1
  <2> HIDE DEF j
  <2>2. M[j] = last /\ M[j - 1] = last
    BY <1>5, <2>1
  <2>3. \/ M[j] = M[j - 1] /\ ~IsApdu(s[j])
        \/ M[j] = M[j - 1] + 1 /\ M[j] \in 1 .. last
    BY <1>3, <2>1
  <2> QED
    BY <1>4, <2>1, <2>2, <2>3
<1>7. n \in 1 .. n
  BY <1>1
<1> QED
  BY <1>2, <1>5, <1>6, <1>7 DEF NoAnswer, n, t, last

LEMMA NoAnswerTail ==
  ASSUME NEW S, NEW s \in Seq(S), NoAnswer(s), s # <<>>
  PROVE  NoAnswer(Tail(s)) /\ ~IsApdu(Head(s))
<1>1. /\ Len(s) \in Nat \ {0} /\ Len(Tail(s)) = Len(s) - 1
      /\ Tail(s) \in Seq(S)
      /\ \A i \in 1 .. Len(Tail(s)) : Tail(s)[i] = s[i + 1]
  BY EmptySeq, HeadTailProperties
<1>2. DOMAIN s = 1 .. Len(s) /\ DOMAIN Tail(s) = 1 .. Len(Tail(s))
  BY <1>1, LenProperties
<1>3. ASSUME NEW i \in DOMAIN Tail(s) PROVE ~IsApdu(Tail(s)[i])
  <2>1. i + 1 \in DOMAIN s /\ Tail(s)[i] = s[i + 1]
    BY <1>1, <1>2
  <2> QED
    BY <2>1 DEF NoAnswer
<1>4. Head(s) = s[1] /\ 1 \in DOMAIN s
  BY <1>1, <1>2
<1> QED
  BY <1>3, <1>4 DEF NoAnswer

LEMMA NoAnswerAppend ==
  ASSUME NEW S, NEW s \in Seq(S), NoAnswer(s), NEW raw \in S, ~IsApdu(raw)
  PROVE  NoAnswer(Append(s, raw))
<1>1. /\ Len(s) \in Nat /\ DOMAIN s = 1 .. Len(s)
      /\ Append(s, raw) \in Seq(S) /\ Len(Append(s, raw)) = Len(s) + 1
      /\ \A i \in 1 .. Len(s) : Append(s, raw)[i] = s[i]
      /\ Append(s, raw)[Len(s) + 1] = raw
  BY LenProperties, AppendProperties
<1>2. DOMAIN Append(s, raw) = 1 .. Len(s) + 1
  BY <1>1, LenProperties
<1>3. ASSUME NEW i \in 1 .. Len(s) + 1 PROVE ~IsApdu(Append(s, raw)[i])
  <2>1. i = Len(s) + 1 \/ i \in 1 .. Len(s)
    BY <1>1
  <2> QED
    BY <1>1, <2>1 DEF NoAnswer
<1> QED
  BY <1>2, <1>3 DEF NoAnswer

-----------------------------------------------------------------------------
(* One caller that has the transport to itself.                            *)

Own(c)   == Answer(command[c])
Whole(c) == Packets(APDU_COMMAND_TAG, Own(c), mtuSize)
\* How many bytes of the answer the first k packets hold, and these bytes.
Taken(c, k) == TakenOf(Own(c), mtuSize, k)
Had(c, k)   == SubSeq(Own(c), 1, Taken(c, k))

\* The buffer has what the packets taken from the stream hold, and the device
\* goes on after those that are in the stream.
Follows(c, M) ==
  /\ Counts(notifications, M, Whole(c))
  /\ connected =>
       outgoing = SubSeq(Whole(c), M[Len(notifications)] + 1, Len(Whole(c)))
  /\ pc[c] = "first" => M[0] = 0
  /\ pc[c] = "rest" => /\ M[0] # 0 /\ Taken(c, M[0]) < Len(Own(c))
                       /\ total[c] = Len(Own(c)) /\ buffer[c] = Had(c, M[0])

AnswerFor(c) ==
  /\ outcome[c].kind = "ok" => outcome[c].data = Own(c)
  /\ ~Idle(c) => command[c] \in Commands
  /\ pc[c] \in {"initial", "subsequent"} => NoAnswer(notifications)
  /\ Receiving(c) /\ pending # <<>> =>
       pc[c] = "first" /\ outgoing = <<>> /\ NoAnswer(notifications)
  /\ Receiving(c) /\ pending = <<>> => \E M : Follows(c, M)

AnswerInv == SyncInv /\ \A c \in alone : AnswerFor(c)

LEMMA AnswerInvFacts ==
  ASSUME AnswerInv
  PROVE  /\ SyncInv /\ TypeInv /\ SendTypes
         /\ alone \subseteq Callers
         /\ outcome \in [Callers -> Outcome]
         /\ notifications \in Seq(Seq(Byte))
         /\ mtuSize \in Byte /\ mtuSize > 5
BY DEF AnswerInv, SyncInv, TypeInv, SendInv, CountTypes, ReceiveTypes, DeviceTypes

LEMMA OwnType ==
  ASSUME NEW c, command[c] \in Commands
  PROVE  /\ Own(c) \in Seq(Byte) /\ Len(Own(c)) \in Word /\ Len(Own(c)) \in Nat
         /\ Len(Own(c)) >= 2
<1>1. Own(c) \in Seq(Byte) /\ Len(Own(c)) \in Word \ {0, 1}
  BY AnswerAssumption DEF Own
<1>2. Len(Own(c)) \in Nat
  BY <1>1, LenProperties
<1>3. Len(Own(c)) # 0 /\ Len(Own(c)) # 1
  BY <1>1
<1> DEFINE n == Len(Own(c))
<1> HIDE DEF n
<1>4. n >= 2
  <2>1. n \in Nat /\ n # 0 /\ n # 1
    BY <1>2, <1>3 DEF n
  <2> QED
    BY <2>1
<1> QED
  BY <1>1, <1>2, <1>4 DEF n

LEMMA IdleAnswered ==
  ASSUME NEW c, pc'[c] = "idle",
         outcome'[c].kind = "ok" => outcome'[c].data = Own(c)'
  PROVE  AnswerFor(c)'
BY DEF AnswerFor, Idle, Receiving

\* The exchanges of the others are over.
LEMMA OtherAnswered ==
  ASSUME AnswerInv, NEW c \in Callers, ~Idle(c), NEW d \in alone, d # c,
         pc'[d] = pc[d], outcome'[d] = outcome[d], command'[d] = command[d]
  PROVE  AnswerFor(d)'
<1>1. d \in Callers /\ SyncInv
  BY AnswerInvFacts
<1>2. pc[d] = "idle"
  BY <1>1 DEF SyncInv, InSync, Idle
<1>3. outcome[d].kind = "ok" => outcome[d].data = Own(d)
  BY DEF AnswerInv, AnswerFor
<1> QED
  BY <1>2, <1>3, IdleAnswered DEF Own

LEMMA BeginAnswered ==
  ASSUME AnswerInv, NEW c \in Callers, NEW cmd \in Commands, Begin(c, cmd),
         NEW d \in alone'
  PROVE  AnswerFor(d)'
<1>1. /\ SendTypes /\ alone \subseteq Callers /\ outcome \in [Callers -> Outcome]
  BY AnswerInvFacts
<1>2. /\ pc[c] = "idle"
      /\ pc' = pc \/ pc' = [pc EXCEPT ![c] = "initial"]
      /\ \/ outcome' = [outcome EXCEPT ![c] = Failed("none")]
         \/ outcome' = [outcome EXCEPT ![c] = Failed("too_large")]
      /\ command' = [command EXCEPT ![c] = cmd]
      /\ alone' = (alone \ (Active \cup {c})) \cup (IF Quiet THEN {c} ELSE {})
      /\ UNCHANGED notifications
  BY DEF Begin, Idle
<1>3. CASE d # c
  <2>1. d \in alone /\ d \notin Active /\ d \in Callers
    BY <1>1, <1>2, <1>3
  <2>2. pc'[d] = "idle" /\ outcome'[d] = outcome[d] /\ command'[d] = command[d]
    BY <1>1, <1>2, <1>3, <2>1 DEF Active, Idle, SendTypes
  <2>3. outcome[d].kind = "ok" => outcome[d].data = Own(d)
    BY <2>1 DEF AnswerInv, AnswerFor
  <2> QED
    BY <2>2, <2>3, IdleAnswered DEF Own
<1>4. CASE d = c
  <2>1. outcome'[c].kind # "ok"
    BY <1>1, <1>2 DEF Failed
  <2>2. command'[c] \in Commands /\ pc'[c] \in {"idle", "initial"}
    BY <1>1, <1>2 DEF SendTypes
  <2>3. NoAnswer(notifications')
    BY <1>2, <1>4 DEF Quiet, NoAnswer
  <2> QED
    BY <1>4, <2>1, <2>2, <2>3 DEF AnswerFor, Idle, Receiving
<1> QED
  BY <1>3, <1>4

LEMMA WriteAnswered ==
  ASSUME AnswerInv, NEW c \in Callers, WriteInitial(c) \/ WriteSubsequent(c),
         NEW d \in alone'
  PROVE  AnswerFor(d)'
<1>1. /\ pc[c] \in {"initial", "subsequent"} /\ connected
      /\ DeviceTakes(Packet(c))
      /\ pc' = [pc EXCEPT ![c] = IF DataEnd(c) < Len(command[c])
                                 THEN "subsequent" ELSE "first"]
      /\ UNCHANGED <<command, outgoing, outcome, notifications, alone>>
  BY DEF WriteInitial, WriteSubsequent, Write
<1>2. SyncInv /\ SendTypes /\ d \in alone /\ d \in Callers
  BY <1>1, AnswerInvFacts
<1>3. CASE d # c
  BY <1>1, <1>2, <1>3, OtherAnswered DEF SendTypes, Idle
<1>4. CASE d = c
  <2>1. AnswerFor(c)
    BY <1>2, <1>4 DEF AnswerInv
  <2>2. /\ outcome'[c].kind = "ok" => outcome'[c].data = Own(c)'
        /\ command'[c] \in Commands /\ NoAnswer(notifications')
    BY <1>1, <2>1 DEF AnswerFor, Own, Idle
  <2>3. outgoing' = <<>>
    BY <1>1, <1>2, <1>4 DEF SyncInv, InSync
  <2>4. \/ pc'[c] = "subsequent"
        \/ pc'[c] = "first" /\ pending' = <<command[c]>>
    <3>1. pc'[c] = IF DataEnd(c) < Len(command[c]) THEN "subsequent" ELSE "first"
      BY <1>1, <1>2 DEF SendTypes
    <3>2. ~(DataEnd(c) < Len(command[c])) => pending' = <<command[c]>>
      BY <1>1, <1>2, <1>4, PacketTakenInSync
    <3> QED
      BY <3>1, <3>2
  <2>5. <<command[c]>> # <<>>
    OBVIOUS
  <2> QED
    BY <1>4, <2>2, <2>3, <2>4, <2>5 DEF AnswerFor, Idle, Receiving
<1> QED
  BY <1>3, <1>4

\* An exchange returns, with its answer or with an error.
LEMMA ReturnAnswered ==
  ASSUME AnswerInv, NEW c \in Callers, ~Idle(c), NEW result \in Outcome,
         Return(c, result), UNCHANGED alone,
         c \in alone /\ result.kind = "ok" => result.data = Own(c),
         NEW d \in alone'
  PROVE  AnswerFor(d)'
<1>1. /\ d \in alone /\ d \in Callers /\ SendTypes
      /\ outcome \in [Callers -> Outcome]
      /\ pc' = [pc EXCEPT ![c] = "idle"]
      /\ outcome' = [outcome EXCEPT ![c] = result]
      /\ UNCHANGED command
  BY AnswerInvFacts DEF Return
<1>2. CASE d # c
  BY <1>1, <1>2, OtherAnswered DEF SendTypes
<1>3. CASE d = c
  <2>1. pc'[c] = "idle" /\ outcome'[c] = result
    BY <1>1 DEF SendTypes
  <2>2. Own(c)' = Own(c)
    BY <1>1 DEF Own
  <2> QED
    BY <1>1, <1>3, <2>1, <2>2, IdleAnswered
<1> QED
  BY <1>2, <1>3

LEMMA FailAnswered ==
  ASSUME AnswerInv, NEW c \in Callers, ~Idle(c), NEW kind \in Errors,
         Return(c, Failed(kind)), UNCHANGED alone, NEW d \in alone'
  PROVE  AnswerFor(d)'
<1>1. Failed(kind) \in Outcome
  BY FailedType
<1>2. Failed(kind).kind # "ok"
  BY DEF Failed, Errors
<1> QED
  BY <1>1, <1>2, ReturnAnswered

-----------------------------------------------------------------------------
(* recv_framed takes a notification.                                       *)

\* A notification of no use, if it is none of the answer.
LEMMA SkipAnswered ==
  ASSUME AnswerInv, NEW c \in Callers, Receiving(c), Skip,
         notifications # <<>>, notifications' = Tail(notifications),
         ~IsApdu(Head(notifications)),
         UNCHANGED <<mtuSize, connected, deviceVars, alone>>, NEW d \in alone'
  PROVE  AnswerFor(d)'
<1>1. /\ d \in alone /\ SyncInv /\ notifications \in Seq(Seq(Byte))
      /\ ~Idle(c)
      /\ UNCHANGED <<pc, command, buffer, total, outcome, mtuSize, connected,
                     pending, outgoing>>
  BY AnswerInvFacts DEF Skip, deviceVars, Receiving, Idle
<1>2. CASE d # c
  BY <1>1, <1>2, OtherAnswered
<1>3. CASE d = c
  <2>1. AnswerFor(c)
    BY <1>1, <1>3 DEF AnswerInv
  <2>2. ASSUME pending # <<>>
        PROVE  NoAnswer(notifications')
    <3>1. NoAnswer(notifications)
      BY <2>1, <2>2 DEF AnswerFor
    <3> QED
      BY <1>1, <3>1, NoAnswerTail
  <2>3. ASSUME pending = <<>>
        PROVE  \E N : Follows(c, N)'
    <3>1. PICK M : Follows(c, M)
      BY <2>1, <2>3 DEF AnswerFor
    <3>2. Counts(notifications, M, Whole(c))
      BY <3>1 DEF Follows
    <3>3. /\ \E N : /\ Counts(Tail(notifications), N, Whole(c))
                    /\ N[0] = M[1]
                    /\ N[Len(Tail(notifications))] = M[Len(notifications)]
          /\ \/ M[1] = M[0] /\ ~IsApdu(Head(notifications))
             \/ /\ M[1] = M[0] + 1 /\ M[1] \in 1 .. Len(Whole(c))
                /\ Head(notifications) = Whole(c)[M[1]]
      BY <1>1, <3>2, CountsTail
    <3>4. M[1] = M[0]
      <4>1. ASSUME M[1] \in 1 .. Len(Whole(c)), Head(notifications) = Whole(c)[M[1]]
            PROVE  FALSE
        <5>1. command[c] \in Commands
          BY <1>1, <2>1 DEF AnswerFor
        <5>2. Own(c) \in Seq(Byte) /\ Len(Own(c)) \in Word
          BY <5>1, OwnType
        <5>3. mtuSize \in Byte /\ mtuSize > 5
          BY AnswerInvFacts
        <5>4. LET raw == Whole(c)[M[1]]
              IN  Len(raw) >= 1 /\ CommandTag(raw) = APDU_COMMAND_TAG
          BY <4>1, <5>2, <5>3, PacketsReadBack DEF Whole
        <5>5. Len(<<>>) = 0
          OBVIOUS
        <5> QED
          BY <4>1, <5>4, <5>5 DEF IsApdu
      <4> QED
        BY <3>3, <4>1
    <3>5. PICK N : /\ Counts(notifications', N, Whole(c)) /\ N[0] = M[0]
                   /\ N[Len(notifications')] = M[Len(notifications)]
      BY <3>3, <3>4
    <3>6. Whole(c)' = Whole(c) /\ Own(c)' = Own(c)
      BY <1>1 DEF Whole, Own
    <3>7. \A k : Taken(c, k)' = Taken(c, k) /\ Had(c, k)' = Had(c, k)
      BY <1>1 DEF Taken, Had, Own
    <3>8. Follows(c, N)'
      BY <1>1, <3>1, <3>5, <3>6, <3>7 DEF Follows
    <3> QED
      BY <3>8
  <2> QED
    BY <1>1, <1>3, <2>1, <2>2, <2>3 DEF AnswerFor, Idle, Receiving, Own
<1> QED
  BY <1>2, <1>3

\* What the first k packets hold.
LEMMA HadFacts ==
  ASSUME NEW c, command[c] \in Commands, mtuSize \in Byte, mtuSize > 5,
         NEW k \in 1 .. Len(Whole(c))
  PROVE  /\ Taken(c, k) \in 0 .. Len(Own(c))
         /\ Len(Had(c, k)) = Taken(c, k) /\ Had(c, k) \in Seq(Byte)
<1> DEFINE n == Len(Own(c))
           e == Taken(c, k)
<1>1. Own(c) \in Seq(Byte) /\ n \in Word /\ n \in Nat /\ n >= 2
  BY OwnType
<1>2. e \in 0 .. n
  BY <1>1, PacketsReadBack DEF Whole, Taken
<1>3. e \in Nat /\ e <= n
  BY <1>1, <1>2
<1> HIDE DEF e
<1>4. \A i \in 1 .. e : Own(c)[i] \in Byte
  BY <1>1, <1>3, ElementOfSeq
<1>5. /\ SubSeq(Own(c), 1, e) \in Seq(Byte)
      /\ Len(SubSeq(Own(c), 1, e)) = IF 1 <= e THEN e - 1 + 1 ELSE 0
  BY <1>3, <1>4, SubSeqProperties
<1>6. Len(SubSeq(Own(c), 1, e)) = e
  BY <1>3, <1>5
<1> QED
  BY <1>2, <1>5, <1>6 DEF Had, e

\* The next packet of the answer: it is the answer, or recv_framed goes on.
LEMMA ReassembleAnswered ==
  ASSUME AnswerInv, NEW c \in Callers, c \in alone, Receiving(c), pending = <<>>,
         NEW M, Follows(c, M), notifications # <<>>,
         notifications' = Tail(notifications),
         M[1] = M[0] + 1, M[1] \in 1 .. Len(Whole(c)),
         Reassemble(c, Had(c, M[1]), Len(Own(c))),
         UNCHANGED <<mtuSize, connected, deviceVars, alone>>, NEW d \in alone'
  PROVE  AnswerFor(d)'
<1> DEFINE n == Len(Own(c))
           k == M[1]
<1>1. /\ d \in alone /\ d \in Callers /\ SendTypes
      /\ notifications \in Seq(Seq(Byte)) /\ mtuSize \in Byte /\ mtuSize > 5
      /\ outcome \in [Callers -> Outcome]
      /\ buffer \in [Callers -> Seq(Byte)] /\ total \in [Callers -> Word]
      /\ ~Idle(c) /\ AnswerFor(c)
  BY AnswerInvFacts DEF AnswerInv, Receiving, Idle, TypeInv, ReceiveTypes
<1>2. command[c] \in Commands
  BY <1>1 DEF AnswerFor
<1>3. Own(c) \in Seq(Byte) /\ n \in Word /\ n \in Nat /\ n >= 2
  BY <1>2, OwnType
<1>4. Taken(c, k) \in 0 .. n
  BY <1>1, <1>2, HadFacts
<1>5. Len(Had(c, k)) = Taken(c, k) /\ Had(c, k) \in Seq(Byte)
  BY <1>1, <1>2, HadFacts
<1> HIDE DEF n, k
<1>6. CASE Len(Had(c, k)) < n
  <2>1. /\ pc' = [pc EXCEPT ![c] = "rest"]
        /\ buffer' = [buffer EXCEPT ![c] = Had(c, k)]
        /\ total' = [total EXCEPT ![c] = n]
        /\ UNCHANGED <<command, outcome>>
    BY <1>6 DEF Reassemble, n, k
  <2>2. CASE d # c
    BY <1>1, <2>1, <2>2, OtherAnswered DEF SendTypes
  <2>3. CASE d = c
    <3>1. UNCHANGED <<command, outcome, mtuSize, connected, pending, outgoing>>
      BY <2>1 DEF deviceVars
    <3>2. /\ Whole(c)' = Whole(c) /\ Own(c)' = Own(c)
          /\ Taken(c, k)' = Taken(c, k) /\ Had(c, k)' = Had(c, k)
      BY <3>1 DEF Whole, Own, Taken, Had
    <3>3. pc'[c] = "rest" /\ buffer'[c] = Had(c, k) /\ total'[c] = n
      BY <1>1, <2>1 DEF SendTypes
    <3>4. Counts(notifications, M, Whole(c)) /\ M[0] \in Nat
      BY <1>1, CountsTail DEF Follows
    <3>5. PICK N : /\ Counts(notifications', N, Whole(c)) /\ N[0] = k
                   /\ N[Len(notifications')] = M[Len(notifications)]
      BY <1>1, <3>4, CountsTail DEF k
    <3>6. k # 0
      BY <3>4 DEF k
    <3>7. Follows(c, N)'
      <4>1. Counts(notifications', N, Whole(c)')
        BY <3>2, <3>5
      <4>2. connected' =>
              outgoing' = SubSeq(Whole(c)', N[Len(notifications')] + 1, Len(Whole(c)'))
        BY <3>1, <3>2, <3>5 DEF Follows
      <4>3. /\ N[0] # 0 /\ TakenOf(Own(c)', mtuSize', N[0]) < Len(Own(c)')
            /\ total'[c] = Len(Own(c)')
            /\ buffer'[c] = SubSeq(Own(c)', 1, TakenOf(Own(c)', mtuSize', N[0]))
        BY <1>5, <1>6, <3>1, <3>2, <3>3, <3>5, <3>6 DEF n, Taken, Had
      <4> QED
        BY <3>3, <4>1, <4>2, <4>3 DEF Follows, Taken, Had
    <3>8. outcome[c].kind = "ok" => outcome[c].data = Own(c)
      BY <1>1 DEF AnswerFor
    <3> QED
      BY <1>2, <2>3, <3>1, <3>2, <3>3, <3>7, <3>8 DEF AnswerFor, Idle, Receiving
  <2> QED
    BY <2>2, <2>3
<1>7. CASE ~(Len(Had(c, k)) < n)
  <2> DEFINE ok == [kind |-> "ok", data |-> SubSeq(Had(c, k), 1, n)]
  <2>1. Return(c, ok)
    <3>1. ~(n < 2)
      BY <1>3 DEF n
    <3> QED
      BY <1>7, <3>1 DEF Reassemble, n, k
  <2>2. Had(c, k) = Own(c)
    <3>1. Taken(c, k) = n
      BY <1>3, <1>4, <1>5, <1>7 DEF n, k
    <3> QED
      BY <1>3, <3>1, SubSeqFull DEF Had, n
  <2>3. SubSeq(Had(c, k), 1, n) = Own(c)
    BY <1>3, <2>2, SubSeqFull DEF n
  <2>4. ok.data = Own(c) /\ ok \in Outcome
    BY <1>3, <2>3 DEF Outcome
  <2> HIDE DEF ok
  <2> QED
    BY <1>1, <2>1, <2>4, ReturnAnswered
<1> QED
  BY <1>6, <1>7

\* A notification with the APDU tag is the next packet of the answer.
LEMMA AnswerPacketTaken ==
  ASSUME AnswerInv, NEW c \in Callers, c \in alone, ReceiveFirst(c) \/ ReceiveRest(c),
         IsApdu(Head(notifications))
  PROVE  /\ pending = <<>>
         /\ \E M : /\ Follows(c, M)
                   /\ M[1] = M[0] + 1 /\ M[1] \in 1 .. Len(Whole(c))
                   /\ Reassemble(c, Had(c, M[1]), Len(Own(c)))
<1> DEFINE raw == Head(notifications)
<1>1. /\ Receiving(c) /\ ~Idle(c) /\ notifications # <<>>
      /\ notifications \in Seq(Seq(Byte)) /\ mtuSize \in Byte /\ mtuSize > 5
  <2>1. TypeInv
    BY AnswerInvFacts
  <2>2. Receiving(c) /\ notifications # <<>>
    BY <2>1, ReceiveCases
  <2> QED
    BY <2>2, AnswerInvFacts DEF Receiving, Idle
<1>2. AnswerFor(c)
  BY DEF AnswerInv
<1>3. pending = <<>>
  <2>1. pending # <<>> => NoAnswer(notifications)
    BY <1>1, <1>2 DEF AnswerFor
  <2> QED
    BY <1>1, <2>1, NoAnswerTail
<1>4. PICK M : Follows(c, M)
  BY <1>1, <1>2, <1>3 DEF AnswerFor
<1>5. Counts(notifications, M, Whole(c))
  BY <1>4 DEF Follows
<1>6. /\ M[0] \in Nat /\ M[1] = M[0] + 1 /\ M[1] \in 1 .. Len(Whole(c))
      /\ raw = Whole(c)[M[1]]
  BY <1>1, <1>5, CountsTail
<1>7. command[c] \in Commands
  BY <1>1, <1>2 DEF AnswerFor
<1>8. Own(c) \in Seq(Byte) /\ Len(Own(c)) \in Word
  BY <1>7, OwnType
<1> DEFINE k == M[1]
<1>9. /\ k = 1 => /\ IsInitialPacket(raw)
                  /\ DataLength(raw) = Len(Own(c))
                  /\ InitialPayload(raw) = Had(c, k)
      /\ k # 1 => /\ IsSubsequentPacket(raw)
                  /\ Taken(c, k - 1) < Len(Own(c)) =>
                       Had(c, k - 1) \o SubsequentPayload(raw) = Had(c, k)
  BY <1>1, <1>6, <1>8, PacketsReadBack DEF Whole, Taken, Had
<1>10. k - 1 = M[0] /\ (k = 1 <=> M[0] = 0)
  BY <1>6
<1>11. Reassemble(c, Had(c, k), Len(Own(c)))
  <2>1. CASE ReceiveFirst(c)
    <3>1. pc[c] = "first" /\ M[0] = 0
      BY <1>4, <2>1 DEF ReceiveFirst, Follows
    <3> QED
      BY <1>9, <1>10, <2>1, <3>1 DEF ReceiveFirst, IsApdu
  <2>2. CASE ReceiveRest(c)
    <3>1. /\ M[0] # 0 /\ Taken(c, M[0]) < Len(Own(c))
          /\ total[c] = Len(Own(c)) /\ buffer[c] = Had(c, M[0])
      BY <1>4, <2>2 DEF ReceiveRest, Follows
    <3>2. buffer[c] \o SubsequentPayload(raw) = Had(c, k) /\ IsSubsequentPacket(raw)
      BY <1>9, <1>10, <3>1
    <3> QED
      BY <2>2, <3>1, <3>2 DEF ReceiveRest, IsApdu
  <2> QED
    BY <2>1, <2>2
<1> QED
  BY <1>3, <1>4, <1>6, <1>11

LEMMA ReceiveAnswered ==
  ASSUME AnswerInv, NEW c \in Callers, ReceiveFirst(c) \/ ReceiveRest(c),
         NEW d \in alone'
  PROVE  AnswerFor(d)'
<1> DEFINE raw == Head(notifications)
<1>1. /\ Receiving(c) /\ ~Idle(c) /\ notifications # <<>>
      /\ notifications' = Tail(notifications)
      /\ UNCHANGED <<mtuSize, connected, deviceVars, alone>>
      /\ notifications \in Seq(Seq(Byte)) /\ mtuSize \in Byte /\ mtuSize > 5
      /\ SendTypes /\ d \in alone
  <2>1. TypeInv
    BY AnswerInvFacts
  <2>2. /\ Receiving(c) /\ notifications # <<>>
        /\ notifications' = Tail(notifications)
        /\ UNCHANGED <<mtuSize, connected, deviceVars, alone>>
    BY <2>1, ReceiveCases
  <2> QED
    BY <2>2, AnswerInvFacts DEF Receiving, Idle
\* Nobody else who is in an exchange has the transport to itself.
<1>2. CASE c \notin alone
  <2>1. \/ \E result : Return(c, result)
        \/ Skip
        \/ \E bytes, length : Reassemble(c, bytes, length)
    BY DEF ReceiveFirst, ReceiveRest
  <2>2. d # c /\ d \in Callers
    BY <1>1, <1>2, AnswerInvFacts
  <2>3. pc'[d] = pc[d] /\ outcome'[d] = outcome[d] /\ command'[d] = command[d]
    <3>1. outcome \in [Callers -> Outcome]
      BY AnswerInvFacts
    <3>2. ASSUME NEW result, Return(c, result)
          PROVE  pc'[d] = pc[d] /\ outcome'[d] = outcome[d] /\ command'[d] = command[d]
      BY <1>1, <2>2, <3>1, <3>2 DEF Return, SendTypes
    <3>3. ASSUME NEW bytes, NEW length, Reassemble(c, bytes, length)
          PROVE  pc'[d] = pc[d] /\ outcome'[d] = outcome[d] /\ command'[d] = command[d]
      <4>1. CASE Len(bytes) < length
        BY <1>1, <2>2, <3>3, <4>1 DEF Reassemble, SendTypes
      <4>2. CASE ~(Len(bytes) < length)
        BY <3>2, <3>3, <4>2 DEF Reassemble
      <4> QED
        BY <4>1, <4>2
    <3>4. CASE Skip
      BY <3>4 DEF Skip
    <3> QED
      BY <2>1, <3>2, <3>3, <3>4
  <2> QED
    BY <1>1, <2>2, <2>3, OtherAnswered
<1>3. CASE Return(c, Failed("invalid_packet"))
  <2>1. "invalid_packet" \in Errors
    BY DEF Errors
  <2> QED
    BY <1>1, <1>3, <2>1, FailAnswered
<1>4. CASE c \in alone /\ ~IsApdu(raw)
  <2>1. Return(c, Failed("invalid_packet")) \/ Skip
    <3>1. ~IsSubsequentPacket(<<>>)
      BY DEF IsSubsequentPacket
    <3> QED
      BY <1>4, <3>1 DEF ReceiveFirst, ReceiveRest, IsApdu
  <2>2. CASE Skip
    BY <1>1, <1>4, <2>2, SkipAnswered
  <2> QED
    BY <1>3, <2>1, <2>2
<1>5. CASE c \in alone /\ IsApdu(raw)
  <2>1. /\ pending = <<>>
        /\ \E M : /\ Follows(c, M)
                  /\ M[1] = M[0] + 1 /\ M[1] \in 1 .. Len(Whole(c))
                  /\ Reassemble(c, Had(c, M[1]), Len(Own(c)))
    BY <1>5, AnswerPacketTaken
  <2> QED
    BY <1>1, <1>5, <2>1, ReassembleAnswered
<1> QED
  BY <1>2, <1>4, <1>5

-----------------------------------------------------------------------------
(* The others: the lock, the device and the link.                          *)

\* All that is looked at stays.
LEMMA KeptAnswered ==
  ASSUME AnswerInv, NEW d \in alone,
         UNCHANGED <<mtuSize, pc, command, buffer, total, outcome, notifications,
                     connected, pending, outgoing>>
  PROVE  AnswerFor(d)'
<1>1. AnswerFor(d)
  BY DEF AnswerInv
<1>2. Whole(d)' = Whole(d) /\ Own(d)' = Own(d)
  BY DEF Whole, Own
<1>3. \A k : Taken(d, k)' = Taken(d, k) /\ Had(d, k)' = Had(d, k)
  BY DEF Taken, Had, Own
<1>4. \A M : Follows(d, M) => Follows(d, M)'
  BY <1>2, <1>3 DEF Follows
<1> QED
  BY <1>1, <1>2, <1>4 DEF AnswerFor, Idle, Receiving

LEMMA DeviceAnswersAnswered ==
  ASSUME AnswerInv, DeviceAnswers, NEW d \in alone'
  PROVE  AnswerFor(d)'
<1>1. /\ UNCHANGED <<mtuSize, pc, command, buffer, total, outcome, notifications,
                     connected, alone>>
      /\ pending # <<>> /\ pending' = Tail(pending)
      /\ outgoing' = Packets(APDU_COMMAND_TAG, AnswerTo(Head(pending)), mtuSize)
  BY DEF DeviceAnswers, hostVars
<1>2. /\ AnswerFor(d) /\ InSync(d)
      /\ notifications \in Seq(Seq(Byte)) /\ mtuSize \in Byte /\ mtuSize > 5
  BY <1>1, AnswerInvFacts DEF AnswerInv, SyncInv
<1>3. pc[d] \notin {"initial", "subsequent"}
  BY <1>1, <1>2 DEF InSync
<1>4. ASSUME Receiving(d)
      PROVE  pending' = <<>> /\ \E N : Follows(d, N)'
  <2>1. pending = <<command[d]>>
    BY <1>1, <1>2, <1>4 DEF InSync
  <2>2. command[d] \in Commands /\ pc[d] = "first" /\ NoAnswer(notifications)
    BY <1>1, <1>2, <1>4 DEF AnswerFor, Receiving, Idle
  <2>3. outgoing' = Whole(d) /\ pending' = <<>>
    <3>1. Head(<<command[d]>>) = command[d] /\ Tail(<<command[d]>>) = <<>>
      OBVIOUS
    <3> QED
      BY <1>1, <2>1, <2>2, <3>1 DEF AnswerTo, Whole, Own
  <2>4. Own(d) \in Seq(Byte) /\ Len(Own(d)) \in Word
    BY <2>2, OwnType
  <2>5. Whole(d) \in Seq(Seq(Byte))
    BY <1>2, <2>4, PacketsType DEF Whole
  <2>6. PICK N : /\ Counts(notifications, N, Whole(d))
                 /\ N[0] = 0 /\ N[Len(notifications)] = 0
    BY <1>2, <2>2, CountsNone
  <2>7. outgoing' = SubSeq(Whole(d), N[Len(notifications)] + 1, Len(Whole(d)))
    <3>1. SubSeq(Whole(d), 1, Len(Whole(d))) = Whole(d)
      BY <2>5, SubSeqFull
    <3>2. N[Len(notifications)] + 1 = 1
      BY <2>6
    <3> QED
      BY <2>3, <3>1, <3>2
  <2>8. Whole(d)' = Whole(d) /\ notifications' = notifications /\ pc'[d] = "first"
    BY <1>1, <2>2 DEF Whole, Own
  <2>9. Follows(d, N)'
    BY <2>6, <2>7, <2>8 DEF Follows
  <2> QED
    BY <2>3, <2>9
<1>5. Own(d)' = Own(d)
  BY <1>1 DEF Own
<1> QED
  BY <1>1, <1>2, <1>3, <1>4, <1>5 DEF AnswerFor, Idle, Receiving

\* A notification more: the next packet, or a stray.
LEMMA MoreAnswered ==
  ASSUME AnswerInv, NEW raw \in Seq(Byte),
         notifications' = Append(notifications, raw),
         UNCHANGED <<mtuSize, pc, command, buffer, total, outcome, connected,
                     pending, alone>>,
         \/ ~IsApdu(raw) /\ UNCHANGED outgoing
         \/ /\ connected /\ outgoing # <<>>
            /\ raw = Head(outgoing) /\ outgoing' = Tail(outgoing),
         NEW d \in alone'
  PROVE  AnswerFor(d)'
<1>1. /\ d \in alone /\ AnswerFor(d) /\ InSync(d)
      /\ notifications \in Seq(Seq(Byte)) /\ mtuSize \in Byte /\ mtuSize > 5
  BY AnswerInvFacts DEF AnswerInv, SyncInv
<1>2. /\ Whole(d)' = Whole(d) /\ Own(d)' = Own(d)
      /\ \A k : Taken(d, k)' = Taken(d, k) /\ Had(d, k)' = Had(d, k)
  BY DEF Whole, Own, Taken, Had
<1>3. ASSUME NoAnswer(notifications), outgoing = <<>>
      PROVE  NoAnswer(notifications') /\ outgoing' = <<>>
  BY <1>1, <1>3, NoAnswerAppend
<1>4. pc[d] \in {"initial", "subsequent"} => NoAnswer(notifications')
  BY <1>1, <1>3 DEF AnswerFor, InSync
<1>5. Receiving(d) /\ pending # <<>> =>
        pc[d] = "first" /\ outgoing' = <<>> /\ NoAnswer(notifications')
  BY <1>1, <1>3 DEF AnswerFor
<1>6. ASSUME Receiving(d), pending = <<>>
      PROVE  \E N : Follows(d, N)'
  <2>1. PICK M : Follows(d, M)
    BY <1>1, <1>6 DEF AnswerFor
  <2> DEFINE P == Whole(d)
             m == M[Len(notifications)]
  <2>2. Counts(notifications, M, P)
    BY <2>1 DEF Follows
  <2>3. m \in Nat
    <3>1. Len(notifications) \in Nat
      BY <1>1, LenProperties
    <3>2. Len(notifications) \in 0 .. Len(notifications)
      BY <3>1
    <3> QED
      BY <2>2, <3>2 DEF Counts
  <2>4. P \in Seq(Seq(Byte))
    <3>1. command[d] \in Commands
      BY <1>1, <1>6 DEF AnswerFor, Receiving, Idle
    <3>2. Own(d) \in Seq(Byte) /\ Len(Own(d)) \in Word
      BY <3>1, OwnType
    <3> QED
      BY <1>1, <3>2, PacketsType DEF Whole
  <2> HIDE DEF P, m
  <2>5. CASE ~IsApdu(raw) /\ UNCHANGED outgoing
    <3>1. PICK N : /\ Counts(notifications', N, P)
                   /\ N[0] = M[0] /\ N[Len(notifications')] = m
      BY <1>1, <2>2, <2>3, <2>5, CountsAppend DEF m
    <3>2. Follows(d, N)'
      BY <1>2, <2>1, <2>5, <3>1 DEF Follows, P, m
    <3> QED
      BY <3>2
  <2>6. CASE /\ connected /\ outgoing # <<>>
             /\ raw = Head(outgoing) /\ outgoing' = Tail(outgoing)
    <3>1. outgoing = SubSeq(P, m + 1, Len(P))
      BY <2>1, <2>6 DEF Follows, P, m
    <3>2. Len(P) \in Nat
      BY <2>4, LenProperties
    <3>3. m + 1 \in 1 .. Len(P)
      <4>1. ASSUME Len(P) < m + 1 PROVE FALSE
        <5>1. SubSeq(P, m + 1, Len(P)) = <<>>
          BY <2>3, <3>2, <4>1, SubSeqEmpty
        <5> QED
          BY <2>6, <3>1, <5>1
      <4> QED
        BY <2>3, <3>2, <4>1
    <3>4. raw = P[m + 1] /\ outgoing' = SubSeq(P, m + 1 + 1, Len(P))
      <4>1. Len(P) \in m + 1 .. Len(P)
        BY <3>2, <3>3
      <4> QED
        BY <2>4, <2>6, <3>1, <3>3, <4>1, HeadTailOfSubSeq
    <3>5. PICK N : /\ Counts(notifications', N, P)
                   /\ N[0] = M[0] /\ N[Len(notifications')] = m + 1
      <4>1. m + 1 \in Nat
        BY <2>3
      <4> QED
        BY <1>1, <2>2, <3>3, <3>4, <4>1, CountsAppend DEF m
    <3>6. Follows(d, N)'
      BY <1>2, <2>1, <3>4, <3>5 DEF Follows, P
    <3> QED
      BY <3>6
  <2> QED
    BY <2>5, <2>6
<1> QED
  BY <1>1, <1>2, <1>4, <1>5, <1>6 DEF AnswerFor, Idle, Receiving

LEMMA DisconnectAnswered ==
  ASSUME AnswerInv, Disconnect, NEW d \in alone'
  PROVE  AnswerFor(d)'
<1>1. /\ UNCHANGED <<mtuSize, pc, command, buffer, total, outcome, notifications,
                     alone>>
      /\ connected' = FALSE /\ pending' = <<>> /\ outgoing' = <<>>
  BY DEF Disconnect, hostVars
<1>2. AnswerFor(d) /\ notifications \in Seq(Seq(Byte))
  BY <1>1, AnswerInvFacts DEF AnswerInv
<1>3. /\ Whole(d)' = Whole(d) /\ Own(d)' = Own(d)
      /\ \A k : Taken(d, k)' = Taken(d, k) /\ Had(d, k)' = Had(d, k)
  BY <1>1 DEF Whole, Own, Taken, Had
<1>4. ASSUME Receiving(d)
      PROVE  \E N : Follows(d, N)'
  <2>1. CASE pending = <<>>
    <3>1. PICK M : Follows(d, M)
      BY <1>2, <1>4, <2>1 DEF AnswerFor
    <3>2. Follows(d, M)'
      BY <1>1, <1>3, <3>1 DEF Follows
    <3> QED
      BY <3>2
  <2>2. CASE pending # <<>>
    <3>1. pc[d] = "first" /\ NoAnswer(notifications)
      BY <1>2, <1>4, <2>2 DEF AnswerFor
    <3>2. PICK N : Counts(notifications, N, Whole(d)) /\ N[0] = 0
      BY <1>2, <3>1, CountsNone
    <3>3. Follows(d, N)'
      BY <1>1, <1>3, <3>1, <3>2 DEF Follows
    <3> QED
      BY <3>3
  <2> QED
    BY <2>1, <2>2
<1> QED
  BY <1>1, <1>2, <1>3, <1>4 DEF AnswerFor, Idle, Receiving

\* Whoever is in an exchange when a notification is lost is not undisturbed.
LEMMA LostAnswered ==
  ASSUME AnswerInv, NotificationLost, NEW d \in alone'
  PROVE  AnswerFor(d)'
<1>1. d \in alone /\ d \notin Active /\ UNCHANGED <<pc, outcome, command>>
  BY DEF NotificationLost, hostVars
<1>2. d \in Callers /\ AnswerFor(d)
  BY <1>1, AnswerInvFacts DEF AnswerInv
<1>3. pc'[d] = "idle"
  BY <1>1, <1>2 DEF Active, Idle
<1>4. outcome'[d].kind = "ok" => outcome'[d].data = Own(d)'
  BY <1>1, <1>2 DEF AnswerFor, Own
<1> QED
  BY <1>3, <1>4, IdleAnswered

LEMMA AnswerInvStep == AnswerInv /\ [Next]_vars => AnswerInv'
<1> SUFFICES ASSUME AnswerInv, [Next]_vars, NEW d \in alone'
             PROVE  AnswerFor(d)'
  BY SyncInvStep DEF AnswerInv
<1>1. ASSUME NEW c \in Callers, NEW cmd \in Commands, Begin(c, cmd)
      PROVE  AnswerFor(d)'
  BY <1>1, BeginAnswered
<1>2. ASSUME NEW c \in Callers, WriteInitial(c) \/ WriteSubsequent(c)
      PROVE  AnswerFor(d)'
  BY <1>2, WriteAnswered
<1>3. ASSUME NEW c \in Callers,
             WriteFails(c) \/ Timeout(c) \/ StreamEnded(c) \/ Cancel(c)
      PROVE  AnswerFor(d)'
  <2>1. ~Idle(c) /\ UNCHANGED alone /\ \E kind \in Errors : Return(c, Failed(kind))
    BY <1>3 DEF WriteFails, WriteEnds, Timeout, StreamEnded, Cancel, Unanswered,
                Holds, Receiving, Idle, Errors
  <2> QED
    BY <2>1, FailAnswered
<1>4. ASSUME NEW c \in Callers, ReceiveFirst(c) \/ ReceiveRest(c)
      PROVE  AnswerFor(d)'
  BY <1>4, ReceiveAnswered
<1>5. CASE DeviceNotifies
  <2>1. Head(outgoing) \in Seq(Byte)
    <3>1. outgoing \in Seq(Seq(Byte)) /\ outgoing # <<>>
      BY <1>5, AnswerInvFacts DEF TypeInv, DeviceTypes, DeviceNotifies
    <3> QED
      BY <3>1, HeadTailProperties
  <2> QED
    BY <1>5, <2>1, MoreAnswered DEF DeviceNotifies, hostVars
<1>6. ASSUME NEW raw \in Strays, Stray(raw)
      PROVE  AnswerFor(d)'
  <2>1. raw \in Seq(Byte) /\ ~IsApdu(raw)
    BY StraysAssumption DEF IsApdu
  <2> QED
    BY <1>6, <2>1, MoreAnswered DEF Stray, hostVars, deviceVars
<1>7. ASSUME UNCHANGED vars \/ \E c \in Callers : Lock(c)
      PROVE  AnswerFor(d)'
  <2>1. UNCHANGED <<mtuSize, pc, command, buffer, total, outcome, notifications,
                    connected, pending, outgoing, alone>>
    BY <1>7 DEF Lock, vars, hostVars, deviceVars
  <2> QED
    BY <2>1, KeptAnswered
<1> QED
  BY <1>1, <1>2, <1>3, <1>4, <1>5, <1>6, <1>7,
     DeviceAnswersAnswered, DisconnectAnswered, LostAnswered
     DEF Next, HostStep, SendStep, ReceiveStep, Device, AllReturned

LEMMA AnswerInvHolds == Spec => []AnswerInv
<1>1. Init => AnswerInv
  <2>1. Init => alone = {}
    BY DEF Init
  <2> QED
    BY <2>1, SyncInvInit DEF AnswerInv
<1> QED
  BY <1>1, AnswerInvStep, PTL DEF Spec

\* An exchange that begins on a quiet transport and is not overlapped returns,
\* when it returns Ok, the answer to its own command, byte for byte: for every
\* number of callers, every mtu the device asks for, all commands and answers,
\* whatever failed or timed out before and however many strays come in between.
THEOREM OwnAnswerCorrect == Spec => []OwnAnswer
<1>1. AnswerInv => OwnAnswer
  BY DEF AnswerInv, AnswerFor, Own, OwnAnswer
<1> QED
  BY <1>1, AnswerInvHolds, PTL

-----------------------------------------------------------------------------
(* What such an exchange leaves behind when it returns Ok: nothing.        *)

\* A device that is out of reach has nothing to say.
DownInv == ~connected => outgoing = <<>>

LEMMA DownInvHolds == Spec => []DownInv
<1>1. Init => DownInv
  BY DEF Init, DownInv
<1>2. DownInv /\ [Next]_vars => DownInv'
  <2> SUFFICES ASSUME DownInv, [Next]_vars PROVE DownInv'
    OBVIOUS
  <2>1. ASSUME NEW c \in Callers, HostStep(c) \/ Cancel(c)
        PROVE  UNCHANGED <<connected, outgoing>>
    BY <2>1 DEF HostStep, SendStep, ReceiveStep, Cancel, WriteInitial,
                WriteSubsequent, Write, WriteFails, WriteEnds, Lock, ReceiveFirst,
                ReceiveRest, NextNotification, Timeout, StreamEnded, Unanswered,
                deviceVars
  <2>2. ASSUME NEW c \in Callers, NEW cmd \in Commands, Begin(c, cmd)
        PROVE  UNCHANGED <<connected, outgoing>>
    BY <2>2 DEF Begin, deviceVars
  <2>3. ASSUME NEW raw \in Strays, Stray(raw)
        PROVE  UNCHANGED <<connected, outgoing>>
    BY <2>3 DEF Stray, deviceVars
  <2>4. CASE Device \/ NotificationLost \/ Disconnect
    BY <2>4 DEF Device, DeviceAnswers, DeviceNotifies, NotificationLost,
                Disconnect, DownInv
  <2>5. CASE UNCHANGED vars
    BY <2>5 DEF vars, deviceVars, DownInv
  <2> QED
    BY <2>1, <2>2, <2>3, <2>4, <2>5 DEF Next, AllReturned, DownInv
<1> QED
  BY <1>1, <1>2, PTL DEF Spec

\* The notification with which it returns is the last packet of its answer, the
\* device has no further one, and no command either.
LEMMA ReceiveLeavesQuiet ==
  ASSUME AnswerInv, DownInv, NEW c \in alone, ReceiveFirst(c) \/ ReceiveRest(c),
         Idle(c)', outcome'[c].kind = "ok"
  PROVE  Quiet'
<1>1. /\ c \in Callers /\ SyncInv /\ TypeInv /\ SendTypes
      /\ outcome \in [Callers -> Outcome]
      /\ notifications \in Seq(Seq(Byte)) /\ mtuSize \in Byte /\ mtuSize > 5
      /\ AnswerFor(c)
  BY AnswerInvFacts DEF AnswerInv
<1>2. /\ Receiving(c) /\ ~Idle(c) /\ notifications # <<>>
      /\ notifications' = Tail(notifications)
      /\ UNCHANGED <<mtuSize, connected, deviceVars>>
  BY <1>1, ReceiveCases DEF Receiving, Idle
<1>3. ~Skip
  BY <1>2 DEF Skip, Idle
<1>4. ~Return(c, Failed("invalid_packet"))
  BY <1>1 DEF Return, Failed
<1>5. IsApdu(Head(notifications))
  <2>1. ~IsSubsequentPacket(<<>>)
    BY DEF IsSubsequentPacket
  <2> QED
    BY <1>3, <1>4, <2>1 DEF ReceiveFirst, ReceiveRest, IsApdu
<1>6. /\ pending = <<>>
      /\ \E M : /\ Follows(c, M)
                /\ M[1] = M[0] + 1 /\ M[1] \in 1 .. Len(Whole(c))
                /\ Reassemble(c, Had(c, M[1]), Len(Own(c)))
  BY <1>1, <1>5, AnswerPacketTaken
<1>7. PICK M : /\ Follows(c, M)
               /\ M[1] \in 1 .. Len(Whole(c))
               /\ Reassemble(c, Had(c, M[1]), Len(Own(c)))
  BY <1>6
<1> DEFINE n == Len(Own(c))
           k == M[1]
<1>8. command[c] \in Commands
  BY <1>1, <1>2 DEF AnswerFor
<1>9. Own(c) \in Seq(Byte) /\ n \in Word /\ n \in Nat
  BY <1>8, OwnType
<1>10. ~(Len(Had(c, k)) < n) /\ pc' = [pc EXCEPT ![c] = "idle"]
  <2>1. CASE Len(Had(c, k)) < n
    <3>1. pc'[c] = "rest"
      BY <1>1, <1>7, <2>1 DEF Reassemble, SendTypes
    <3> QED
      BY <3>1 DEF Idle
  <2>2. CASE ~(Len(Had(c, k)) < n)
    BY <1>7, <2>2 DEF Reassemble, Return
  <2> QED
    BY <2>1, <2>2
<1>11. Taken(c, k) = n
  <2>1. Taken(c, k) \in 0 .. n /\ Len(Had(c, k)) = Taken(c, k)
    BY <1>1, <1>7, <1>8, HadFacts
  <2> HIDE DEF n, k
  <2> QED
    BY <1>9, <1>10, <2>1
<1>12. k = Len(Whole(c)) /\ Len(Whole(c)) \in Nat
  <2>1. Whole(c) \in Seq(Seq(Byte))
    BY <1>1, <1>9, PacketsType DEF Whole
  <2>2. k = Len(Whole(c))
    BY <1>1, <1>7, <1>9, <1>11, PacketsLeast DEF Whole, Taken
  <2> QED
    BY <2>1, <2>2, LenProperties
<1>13. NoAnswer(Tail(notifications)) /\ M[Len(notifications)] = Len(Whole(c))
  <2>1. Counts(notifications, M, Whole(c))
    BY <1>7 DEF Follows
  <2> QED
    BY <1>1, <1>2, <1>12, <2>1, CountsDone
<1>14. outgoing = <<>>
  <2>1. CASE connected
    <3>1. outgoing = SubSeq(Whole(c), Len(Whole(c)) + 1, Len(Whole(c)))
      BY <1>7, <1>13, <2>1 DEF Follows
    <3> QED
      BY <1>12, <3>1, SubSeqEmpty
  <2>2. CASE ~connected
    BY <2>2 DEF DownInv
  <2> QED
    BY <2>1, <2>2
<1>15. Active' = {}
  <2>1. \A d \in Callers \ {c} : Idle(d)
    BY <1>1, <1>2 DEF SyncInv, InSync
  <2>2. \A d \in Callers : pc'[d] = "idle"
    BY <1>1, <1>10, <2>1 DEF SendTypes, Idle
  <2> QED
    BY <2>2 DEF Active, Idle
<1> QED
  BY <1>2, <1>6, <1>13, <1>14, <1>15 DEF Quiet, NoAnswer, deviceVars

\* An exchange returns Ok with a notification and in no other way.
LEMMA OkByNotification ==
  ASSUME AnswerInv, [Next]_vars, NEW c \in alone, ~Idle(c), Idle(c)',
         outcome'[c].kind = "ok"
  PROVE  ReceiveFirst(c) \/ ReceiveRest(c)
<1>1. /\ c \in Callers /\ TypeInv /\ SendTypes /\ outcome \in [Callers -> Outcome]
  BY AnswerInvFacts
<1>2. \A d \in Callers : \A result :
        Return(d, result) => d = c /\ result.kind = "ok"
  <2> SUFFICES ASSUME NEW d \in Callers, NEW result, Return(d, result)
               PROVE  d = c /\ result.kind = "ok"
    OBVIOUS
  <2>1. d = c
    <3>1. CASE d # c
      <4>1. pc'[c] = pc[c]
        BY <1>1, <3>1 DEF Return, SendTypes
      <4> QED
        BY <4>1 DEF Idle
    <3> QED
      BY <3>1
  <2>2. outcome'[c] = result
    BY <1>1, <2>1 DEF Return
  <2> QED
    BY <2>1, <2>2
<1>3. pc' # pc
  BY DEF Idle
<1>4. ASSUME NEW d \in Callers, NEW cmd \in Commands, Begin(d, cmd) PROVE FALSE
  <2>1. CASE Len(cmd) > U16Max
    BY <1>3, <1>4, <2>1 DEF Begin
  <2>2. CASE ~(Len(cmd) > U16Max)
    <3>1. pc'[c] = pc[c] \/ pc'[c] = "initial"
      BY <1>1, <1>4, <2>2 DEF Begin, SendTypes
    <3> QED
      BY <3>1 DEF Idle
  <2> QED
    BY <2>1, <2>2
<1>5. ASSUME NEW d \in Callers, WriteInitial(d) \/ WriteSubsequent(d) PROVE FALSE
  <2>1. pc'[c] \in {pc[c], "subsequent", "first"}
    BY <1>1, <1>5 DEF WriteInitial, WriteSubsequent, Write, SendTypes
  <2> QED
    BY <2>1 DEF Idle
<1>6. ASSUME NEW d \in Callers,
             WriteFails(d) \/ Timeout(d) \/ StreamEnded(d) \/ Cancel(d)
      PROVE  FALSE
  <2>1. \E kind \in Errors : Return(d, Failed(kind))
    BY <1>6 DEF WriteFails, WriteEnds, Timeout, StreamEnded, Cancel, Unanswered, Errors
  <2>2. PICK kind \in Errors : Return(d, Failed(kind))
    BY <2>1
  <2>3. Failed(kind).kind = "ok"
    BY <1>2, <2>2
  <2> QED
    BY <2>3 DEF Failed, Errors
<1>7. ASSUME NEW d \in Callers, ReceiveFirst(d) \/ ReceiveRest(d) PROVE d = c
  <2>1. \/ \E result : Return(d, result)
        \/ Skip
        \/ \E bytes, length : Reassemble(d, bytes, length)
    BY <1>7 DEF ReceiveFirst, ReceiveRest
  <2>2. ~Skip
    BY <1>3 DEF Skip
  <2>3. ASSUME NEW bytes, NEW length, Reassemble(d, bytes, length) PROVE d = c
    <3>1. CASE Len(bytes) < length
      <4>1. pc'[c] \in {pc[c], "rest"}
        BY <1>1, <2>3, <3>1 DEF Reassemble, SendTypes
      <4> QED
        BY <4>1 DEF Idle
    <3>2. CASE ~(Len(bytes) < length)
      <4>1. \E result : Return(d, result)
        BY <2>3, <3>2 DEF Reassemble
      <4> QED
        BY <1>2, <4>1
    <3> QED
      BY <3>1, <3>2
  <2> QED
    BY <1>2, <2>1, <2>2, <2>3
<1>8. ~(\E d \in Callers : Lock(d)) /\ ~Device /\ ~NotificationLost /\ ~Disconnect
      /\ ~(\E raw \in Strays : Stray(raw)) /\ ~UNCHANGED vars
  BY <1>3 DEF Lock, Device, DeviceAnswers, DeviceNotifies, NotificationLost,
              Disconnect, Stray, hostVars, vars
<1> QED
  BY <1>4, <1>5, <1>6, <1>7, <1>8
     DEF Next, HostStep, SendStep, ReceiveStep, AllReturned

\* An exchange that has the transport to itself and returns Ok leaves it quiet
\* for the next one: for every mtu, all commands and answers of any length, no
\* packet of the answer stays in the stream or is still to come.
THEOREM OkLeavesQuietCorrect == Spec => OkLeavesQuiet
<1>1. AnswerInv /\ DownInv /\ [Next]_vars =>
        [\A c \in alone :
           ~Idle(c) /\ Idle(c)' /\ outcome'[c].kind = "ok" => Quiet']_vars
  BY OkByNotification, ReceiveLeavesQuiet
<1> QED
  BY <1>1, AnswerInvHolds, DownInvHolds, PTL DEF Spec, OkLeavesQuiet
=============================================================================
