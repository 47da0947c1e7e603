-------------------------- MODULE BleFramingProofs --------------------------
(* What the packets of BleFraming carry, for all data and every mtu_size.  *)
EXTENDS BleFraming, SequenceTheorems, WellFoundedInduction, TLAPS

\* A set of numbers has a least one: the form in which the proofs here go by
\* induction.
LEMMA NatMin ==
  ASSUME NEW T, T \subseteq Nat, T # {}
  PROVE  \E x \in T : \A y \in T : x <= y
<1>1. PICK x \in T : \A y \in T : ~(<<y, x>> \in OpToRel(<, Nat))
  BY NatLessThanWellFounded, WFMin
<1>2. \A y \in T : ~(y < x)
  BY <1>1 DEF OpToRel
<1> QED
  BY <1>2

LEMMA SubSeqType ==
  ASSUME NEW S, NEW s \in Seq(S), NEW m \in Nat \ {0}, NEW n \in Int,
         n <= Len(s)
  PROVE  SubSeq(s, m, n) \in Seq(S)
<1>1. \A i \in m .. n : s[i] \in S
  BY ElementOfSeq
<1> QED
  BY <1>1, SubSeqProperties

LEMMA U16RoundTrip ==
  ASSUME NEW n \in Word
  PROVE  \E hi \in Byte, lo \in Byte : U16Be(n) = <<hi, lo>> /\ U16(hi, lo) = n
<1> DEFINE q == n \div 256
           r == n % 256
<1>1. n \in Nat /\ n < 65536
  BY DEF Word
<1>2. q \in Nat /\ q < 256
  BY <1>1
<1>3. r \in 0 .. 255
  BY <1>1
<1>4. q = n \div 256 /\ r = n % 256
  OBVIOUS
<1>5. U16Be(n) = <<q, r>>
  BY DEF U16Be
<1> HIDE DEF q, r
<1>6. 256 * q + r = n
  <2>1. n \in Nat /\ q \in Int /\ r \in Int
    BY <1>1, <1>2, <1>3
  <2> QED
    BY <1>4, <2>1
<1>7. q \in Byte /\ r \in Byte
  BY <1>2, <1>3 DEF Byte
<1> QED
  BY <1>5, <1>6, <1>7 DEF U16

LEMMA U16Type ==
  ASSUME NEW hi \in Byte, NEW lo \in Byte
  PROVE  U16(hi, lo) \in Word
BY DEF U16, Byte, Word

\* infer_mtu lets no packet size through that has no room for data.
LEMMA InferMtuFloor ==
  ASSUME NEW raw \in Seq(Byte)
  PROVE  InferMtu(raw) \in Byte /\ InferMtu(raw) > 5
<1>1. CASE Len(raw) >= 6 /\ raw[6] > 5
  BY <1>1, ElementOfSeq DEF InferMtu
<1>2. CASE ~(Len(raw) >= 6 /\ raw[6] > 5)
  BY <1>2 DEF InferMtu, DEFAULT_MTU_SIZE, Byte
<1> QED
  BY <1>1, <1>2

\* Five bytes, or three, in front of a payload.
LEMMA InitialHeader ==
  ASSUME NEW tag \in Byte, NEW hi \in Byte, NEW lo \in Byte,
         NEW payload \in Seq(Byte)
  PROVE  LET raw == <<tag, 0, 0>> \o <<hi, lo>> \o payload
         IN  /\ raw \in Seq(Byte)
             /\ Len(raw) = 5 + Len(payload)
             /\ raw[1] = tag /\ raw[2] = 0 /\ raw[3] = 0 /\ raw[4] = hi /\ raw[5] = lo
             /\ SubSeq(raw, 6, Len(raw)) = payload
BY DEF Byte

LEMMA SubsequentHeader ==
  ASSUME NEW tag \in Byte, NEW hi \in Byte, NEW lo \in Byte,
         NEW payload \in Seq(Byte)
  PROVE  LET raw == <<tag>> \o <<hi, lo>> \o payload
         IN  /\ raw \in Seq(Byte)
             /\ Len(raw) = 3 + Len(payload)
             /\ raw[1] = tag /\ raw[2] = hi /\ raw[3] = lo
             /\ SubSeq(raw, 4, Len(raw)) = payload
BY DEF Byte

\* An initial packet that is parsed gives back what it was serialized from.
THEOREM InitialPacketRoundTrip ==
  ASSUME NEW tag \in Byte, NEW n \in Word, NEW payload \in Seq(Byte)
  PROVE  LET raw == InitialPacket(tag, n, payload)
         IN  /\ raw \in Seq(Byte)
             /\ Len(raw) = 5 + Len(payload)
             /\ IsInitialPacket(raw)
             /\ CommandTag(raw) = tag
             /\ SequenceIndex(raw) = 0
             /\ DataLength(raw) = n
             /\ InitialPayload(raw) = payload
<1> DEFINE raw == InitialPacket(tag, n, payload)
<1>1. PICK hi \in Byte, lo \in Byte : U16Be(n) = <<hi, lo>> /\ U16(hi, lo) = n
  BY U16RoundTrip
<1>2. raw = <<tag, 0, 0>> \o <<hi, lo>> \o payload
  BY <1>1 DEF InitialPacket
<1>3. /\ raw \in Seq(Byte)
      /\ Len(raw) = 5 + Len(payload)
      /\ raw[1] = tag /\ raw[2] = 0 /\ raw[3] = 0 /\ raw[4] = hi /\ raw[5] = lo
      /\ SubSeq(raw, 6, Len(raw)) = payload
  BY <1>2, InitialHeader
<1>4. Len(payload) \in Nat
  BY LenProperties
<1> HIDE DEF raw
<1>5. Len(raw) >= 5 /\ U16(raw[2], raw[3]) = 0
  BY <1>3, <1>4 DEF U16
<1> QED
  BY <1>1, <1>3, <1>5
     DEF raw, IsInitialPacket, CommandTag, SequenceIndex, DataLength, InitialPayload

\* And so does a subsequent packet.
THEOREM SubsequentPacketRoundTrip ==
  ASSUME NEW tag \in Byte, NEW index \in Word, NEW payload \in Seq(Byte)
  PROVE  LET raw == SubsequentPacket(tag, index, payload)
         IN  /\ raw \in Seq(Byte)
             /\ Len(raw) = 3 + Len(payload)
             /\ IsSubsequentPacket(raw)
             /\ CommandTag(raw) = tag
             /\ SequenceIndex(raw) = index
             /\ SubsequentPayload(raw) = payload
<1> DEFINE raw == SubsequentPacket(tag, index, payload)
<1>1. PICK hi \in Byte, lo \in Byte : U16Be(index) = <<hi, lo>> /\ U16(hi, lo) = index
  BY U16RoundTrip
<1>2. raw = <<tag>> \o <<hi, lo>> \o payload
  BY <1>1 DEF SubsequentPacket
<1>3. /\ raw \in Seq(Byte)
      /\ Len(raw) = 3 + Len(payload)
      /\ raw[1] = tag /\ raw[2] = hi /\ raw[3] = lo
      /\ SubSeq(raw, 4, Len(raw)) = payload
  BY <1>2, SubsequentHeader
<1>4. Len(payload) \in Nat
  BY LenProperties
<1> HIDE DEF raw
<1>5. Len(raw) >= 3
  BY <1>3, <1>4
<1> QED
  BY <1>1, <1>3, <1>5
     DEF raw, IsSubsequentPacket, CommandTag, SequenceIndex, SubsequentPayload

LEMMA DownClosed ==
  ASSUME NEW b \in Nat, NEW m \in 0 .. b, NEW k \in Nat, k <= m
  PROVE  k \in 0 .. b
OBVIOUS

\* What is at most a u16 is one.
LEMMA WordDownClosed ==
  ASSUME NEW m \in Word, NEW k \in Nat, k <= m
  PROVE  k \in Word
<1> DEFINE b == 65535
<1>1. b \in Nat /\ Word = 0 .. b
  BY DEF Word
<1> HIDE DEF b
<1> QED
  BY <1>1, DownClosed

LEMMA QuotientBound ==
  ASSUME NEW m \in Nat, NEW step \in Nat, step >= 1
  PROVE  (m + step - 1) \div step <= m /\ (m + step - 1) \div step \in Nat
<1>1. m + step - 1 \in Nat
  OBVIOUS
<1> DEFINE q == (m + step - 1) \div step
           r == (m + step - 1) % step
<1>2. q \in Nat /\ r \in 0 .. step - 1 /\ m + step - 1 = step * q + r
  BY <1>1
<1> HIDE DEF q, r
<1>3. q <= m
  <2> SUFFICES ASSUME q >= m + 1 PROVE FALSE
    BY <1>2
  <2>1. step * q >= step * (m + 1)
    BY <1>2
  <2>2. step * (m + 1) = step * m + step /\ step * m >= m
    OBVIOUS
  <2>3. step * q \in Int /\ step * m \in Int
    BY <1>2
  <2> QED
    BY <1>2, <2>1, <2>2, <2>3
<1> QED
  BY <1>2, <1>3 DEF q

\* Rounding up does not round up too far.
LEMMA QuotientLeast ==
  ASSUME NEW m \in Nat, NEW step \in Nat, step >= 1,
         NEW k \in Nat, k >= 1, k <= (m + step - 1) \div step
  PROVE  (k - 1) * step < m
<1> DEFINE q == (m + step - 1) \div step
           r == (m + step - 1) % step
<1>1. m + step - 1 \in Nat
  OBVIOUS
<1>2. q \in Nat /\ r \in 0 .. step - 1 /\ m + step - 1 = step * q + r /\ k <= q
  BY <1>1
<1> HIDE DEF q, r
<1>3. step * q >= step * k
  BY <1>2
<1>4. step * k = (k - 1) * step + step /\ (k - 1) * step \in Int
  OBVIOUS
<1>5. step * q \in Int /\ step * k \in Int
  BY <1>2
<1> QED
  BY <1>2, <1>3, <1>4, <1>5

\* How many bytes of data the first k packets hold, and the part that is in
\* the k-th one.
TakenOf(data, m, k) ==
  IF k = 0 THEN 0
  ELSE Least(FirstDataEnd(Len(data), m) + (k - 1) * SaturatingSub(m, 3), Len(data))
StartOf(data, m, k) ==
  IF k = 1 THEN 1
  ELSE FirstDataEnd(Len(data), m) + (k - 2) * SaturatingSub(m, 3) + 1
PartOf(data, m, k) == SubSeq(data, StartOf(data, m, k), TakenOf(data, m, k))

\* How many packets there are after the first.
MoreOf(data, m) ==
  (Len(data) - FirstDataEnd(Len(data), m) + SaturatingSub(m, 3) - 1)
    \div SaturatingSub(m, 3)

LEMMA PartFacts ==
  ASSUME NEW data \in Seq(Byte), NEW m \in Byte, m > 5, NEW k \in Nat, k >= 1
  PROVE  /\ TakenOf(data, m, k) \in 0 .. Len(data)
         /\ PartOf(data, m, k) \in Seq(Byte)
         /\ TakenOf(data, m, k - 1) < Len(data) =>
              /\ StartOf(data, m, k) = TakenOf(data, m, k - 1) + 1
              /\ TakenOf(data, m, k - 1) \in 0 .. TakenOf(data, m, k)
<1> DEFINE n == Len(data)
           first == FirstDataEnd(n, m)
           step == SaturatingSub(m, 3)
           start == StartOf(data, m, k)
           had == TakenOf(data, m, k - 1)
           has == TakenOf(data, m, k)
<1>1. n \in Nat /\ m \in Nat
  <2>1. n \in Nat
    BY LenProperties
  <2>2. m \in Nat
    BY DEF Byte
  <2> QED
    BY <2>1, <2>2
<1>2. first \in Nat /\ first <= n /\ step \in Nat /\ step >= 1
  BY <1>1 DEF FirstDataEnd, SaturatingSub, Least
<1>3. /\ has = Least(first + (k - 1) * step, n)
      /\ had = IF k = 1 THEN 0 ELSE Least(first + (k - 2) * step, n)
      /\ start = IF k = 1 THEN 1 ELSE first + (k - 2) * step + 1
  <2>1. k - 1 - 1 = k - 2 /\ (k - 1 = 0 <=> k = 1) /\ k # 0
    OBVIOUS
  <2> QED
    BY <2>1 DEF TakenOf, StartOf
<1> HIDE DEF n, first, step, start, had, has
<1>4. /\ (k - 1) * step \in Nat
      /\ k # 1 => (k - 2) * step \in Nat /\ (k - 1) * step = (k - 2) * step + step
  <2>1. k - 1 \in Nat /\ (k # 1 => k - 2 \in Nat)
    OBVIOUS
  <2>2. \A i \in Nat : i * step \in Nat
    BY <1>2
  <2>3. k # 1 => (k - 1) * step = (k - 2) * step + step
    BY <1>2
  <2> QED
    BY <2>1, <2>2, <2>3
<1>5. has \in Nat /\ has <= n
  BY <1>1, <1>2, <1>3, <1>4 DEF Least
<1>6. start \in Nat /\ start >= 1
  BY <1>2, <1>3, <1>4
<1>7. had < n => start = had + 1 /\ had \in 0 .. has
  BY <1>1, <1>2, <1>3, <1>4 DEF Least
<1>8. SubSeq(data, start, has) \in Seq(Byte)
  <2>1. start \in Nat \ {0} /\ has \in Int
    BY <1>5, <1>6
  <2> QED
    BY <1>5, <2>1, SubSeqType DEF n
<1> QED
  BY <1>5, <1>7, <1>8 DEF PartOf, n, start, had, has

\* The packets of an answer are packets of its parts.
LEMMA PacketsType ==
  ASSUME NEW data \in Seq(Byte), Len(data) \in Word, NEW m \in Byte, m > 5
  PROVE  LET P == Packets(APDU_COMMAND_TAG, data, m)
         IN  /\ P \in Seq(Seq(Byte))
             /\ Len(P) = 1 + MoreOf(data, m)
             /\ \A k \in 1 .. Len(P) :
                  /\ k - 1 \in Word
                  /\ P[k] = IF k = 1
                            THEN InitialPacket(APDU_COMMAND_TAG, Len(data), PartOf(data, m, k))
                            ELSE SubsequentPacket(APDU_COMMAND_TAG, k - 1, PartOf(data, m, k))
<1> DEFINE n == Len(data)
           first == FirstDataEnd(n, m)
           step == SaturatingSub(m, 3)
           count == (n - first + step - 1) \div step
           Payload(k) == SubSeq(data, first + (k - 1) * step + 1,
                                Least(first + k * step, n))
           Rest(k) == SubsequentPacket(APDU_COMMAND_TAG, k, Payload(k))
           head == InitialPacket(APDU_COMMAND_TAG, n, SubSeq(data, 1, first))
           P == Packets(APDU_COMMAND_TAG, data, m)
<1>1. n \in Nat /\ m \in Nat /\ APDU_COMMAND_TAG \in Byte
  <2>1. n \in Nat
    BY LenProperties
  <2>2. m \in Nat /\ APDU_COMMAND_TAG \in Byte
    BY DEF Byte, APDU_COMMAND_TAG
  <2> QED
    BY <2>1, <2>2
<1>2. first \in Nat /\ first <= n /\ step \in Nat /\ step >= 1
  BY <1>1 DEF FirstDataEnd, SaturatingSub, Least
<1>3. /\ SubSeq(data, 1, first) = PartOf(data, m, 1)
      /\ \A k \in Nat : k >= 1 => Payload(k) = PartOf(data, m, k + 1)
  <2>1. TakenOf(data, m, 1) = first
    BY <1>1, <1>2 DEF TakenOf, Least
  <2>2. ASSUME NEW k \in Nat, k >= 1
        PROVE  /\ StartOf(data, m, k + 1) = first + (k - 1) * step + 1
               /\ TakenOf(data, m, k + 1) = Least(first + k * step, n)
    <3>1. k + 1 - 2 = k - 1 /\ k + 1 - 1 = k /\ k + 1 # 1 /\ k + 1 # 0
      BY <2>2
    <3> QED
      BY <3>1 DEF StartOf, TakenOf
  <2> HIDE DEF first, n, step
  <2> QED
    BY <2>1, <2>2 DEF PartOf, StartOf
<1> HIDE DEF n, first, step
<1>4. count \in Nat /\ count <= n
  <2>1. n - first \in Nat /\ n - first <= n
    BY <1>1, <1>2
  <2>2. count <= n - first /\ count \in Nat
    BY <1>2, <2>1, QuotientBound
  <2> HIDE DEF count
  <2> QED
    BY <1>1, <1>2, <2>1, <2>2
<1>5. P = <<head>> \o [k \in 1 .. count |-> Rest(k)] /\ count = MoreOf(data, m)
  BY DEF Packets, MoreOf, n, first, step
<1> HIDE DEF count, P, Payload
<1>6. \A k \in 0 .. count : k \in Word
  <2>1. n \in Word
    BY DEF n
  <2> TAKE k \in 0 .. count
  <2>2. k \in Nat /\ k <= n
    BY <1>1, <1>4
  <2> QED
    BY <2>1, <2>2, WordDownClosed
<1>7. head \in Seq(Byte)
  <2>1. PartOf(data, m, 1) \in Seq(Byte)
    BY PartFacts
  <2>2. n \in Word
    BY DEF n
  <2> QED
    BY <1>1, <1>3, <2>1, <2>2, InitialPacketRoundTrip
<1>8. ASSUME NEW k \in 1 .. count PROVE Rest(k) \in Seq(Byte)
  <2>1. k \in Nat /\ k >= 1 /\ k + 1 \in Nat /\ k + 1 >= 1 /\ k \in 0 .. count
    BY <1>4
  <2>2. PartOf(data, m, k + 1) \in Seq(Byte)
    BY <2>1, PartFacts
  <2> QED
    BY <1>1, <1>3, <1>6, <2>1, <2>2, SubsequentPacketRoundTrip
<1> HIDE DEF head, Rest
<1> DEFINE tail == [k \in 1 .. count |-> Rest(k)]
<1>9. tail \in Seq(Seq(Byte)) /\ Len(tail) = count /\ \A k \in 1 .. count : tail[k] = Rest(k)
  <2>1. tail \in Seq(Seq(Byte))
    BY <1>4, <1>8, IsASeq
  <2>2. DOMAIN tail = 1 .. count /\ Len(tail) \in Nat /\ DOMAIN tail = 1 .. Len(tail)
    BY <2>1, LenProperties
  <2>3. Len(tail) = count
    <3> HIDE DEF tail
    <3> QED
      BY <1>4, <2>2
  <2> QED
    BY <2>1, <2>3
<1> HIDE DEF tail
<1>10. <<head>> \in Seq(Seq(Byte)) /\ Len(<<head>>) = 1 /\ <<head>>[1] = head
  BY <1>7
<1> DEFINE one == <<head>>
<1> HIDE DEF one
<1>11. /\ P \in Seq(Seq(Byte)) /\ Len(P) = 1 + count
       /\ \A k \in 1 .. 1 + count : P[k] = IF k <= 1 THEN one[k] ELSE tail[k - 1]
  <2>1. P = one \o tail /\ one \in Seq(Seq(Byte)) /\ Len(one) = 1
    BY <1>5, <1>10 DEF one, tail
  <2>2. /\ one \o tail \in Seq(Seq(Byte)) /\ Len(one \o tail) = Len(one) + Len(tail)
        /\ \A k \in 1 .. Len(one) + Len(tail) :
             (one \o tail)[k] = IF k <= Len(one) THEN one[k] ELSE tail[k - Len(one)]
    BY <1>9, <2>1, ConcatProperties
  <2>3. /\ P \in Seq(Seq(Byte)) /\ Len(P) = Len(one) + Len(tail)
        /\ \A k \in 1 .. Len(one) + Len(tail) :
             P[k] = IF k <= Len(one) THEN one[k] ELSE tail[k - Len(one)]
    BY <2>1, <2>2
  <2>4. Len(one) = 1 /\ Len(tail) = count
    BY <1>9, <2>1
  <2> QED
    BY <2>3, <2>4
<1>12. ASSUME NEW k \in 1 .. Len(P)
       PROVE  /\ k - 1 \in Word
              /\ P[k] = IF k = 1
                        THEN InitialPacket(APDU_COMMAND_TAG, n, PartOf(data, m, k))
                        ELSE SubsequentPacket(APDU_COMMAND_TAG, k - 1, PartOf(data, m, k))
  <2>1. k - 1 \in 0 .. count /\ k \in 1 .. 1 + count
    BY <1>4, <1>11
  <2>2. CASE k = 1
    <3>1. P[1] = head
      <4>1. 1 \in 1 .. 1 + count /\ 1 <= 1 /\ one[1] = head
        BY <1>4, <1>10 DEF one
      <4> QED
        BY <1>11, <4>1
    <3>2. head = InitialPacket(APDU_COMMAND_TAG, n, PartOf(data, m, 1))
      BY <1>3 DEF head
    <3>3. k - 1 \in Word
      BY <1>6, <2>1
    <3> QED
      BY <2>2, <3>1, <3>2, <3>3
  <2>3. CASE k # 1
    <3>1. k - 1 \in 1 .. count /\ k - 1 \in Nat /\ k - 1 >= 1 /\ k - 1 + 1 = k /\ ~(k <= 1)
      BY <1>4, <2>1, <2>3
    <3>2. P[k] = Rest(k - 1)
      BY <1>9, <1>11, <2>1, <3>1
    <3>3. Payload(k - 1) = PartOf(data, m, k)
      BY <1>3, <3>1
    <3> QED
      BY <1>6, <2>1, <2>3, <3>2, <3>3 DEF Rest
  <2> QED
    BY <2>2, <2>3
<1> QED
  BY <1>5, <1>11, <1>12 DEF P, n

\* No packet is superfluous: what is complete has all of its packets.
LEMMA PacketsLeast ==
  ASSUME NEW data \in Seq(Byte), Len(data) \in Word, NEW m \in Byte, m > 5,
         NEW k \in 1 .. Len(Packets(APDU_COMMAND_TAG, data, m)),
         TakenOf(data, m, k) = Len(data)
  PROVE  k = Len(Packets(APDU_COMMAND_TAG, data, m))
<1> DEFINE n == Len(data)
           first == FirstDataEnd(n, m)
           step == SaturatingSub(m, 3)
           more == MoreOf(data, m)
           len == Len(Packets(APDU_COMMAND_TAG, data, m))
<1>1. n \in Nat /\ m \in Nat
  <2>1. n \in Nat
    BY LenProperties
  <2>2. m \in Nat
    BY DEF Byte
  <2> QED
    BY <2>1, <2>2
<1>2. first \in Nat /\ first <= n /\ step \in Nat /\ step >= 1
  BY <1>1 DEF FirstDataEnd, SaturatingSub, Least
<1>3. more = (n - first + step - 1) \div step
  BY DEF MoreOf
<1>4. len = 1 + more
  BY PacketsType
<1>5. Least(first + (k - 1) * step, n) = n
  <2>1. k # 0
    OBVIOUS
  <2> QED
    BY <2>1 DEF TakenOf
<1> HIDE DEF n, first, step, more, len
<1>6. n - first \in Nat
  BY <1>1, <1>2
<1>7. more \in Nat
  BY <1>2, <1>3, <1>6, QuotientBound
<1>8. k \in 1 .. 1 + more
  BY <1>4 DEF len
<1>9. ASSUME k <= more PROVE FALSE
  <2>1. k \in Nat /\ k >= 1
    BY <1>7, <1>8
  <2>2. (k - 1) * step < n - first
    BY <1>2, <1>3, <1>6, <1>9, <2>1, QuotientLeast
  <2>3. (k - 1) * step \in Int
    BY <1>2, <2>1
  <2> DEFINE x == (k - 1) * step
  <2> HIDE DEF x
  <2>4. x \in Int /\ x < n - first /\ Least(first + x, n) = n
    BY <1>5, <2>2, <2>3 DEF x
  <2> QED
    BY <1>1, <1>2, <2>4 DEF Least
<1>10. k = 1 + more
  BY <1>7, <1>8, <1>9
<1> QED
  BY <1>4, <1>10 DEF len

\* Packet by packet, an answer that is cut is put together again: what the
\* k-th packet adds to the part that the packets before it held is the part
\* that the first k packets hold.
THEOREM PacketsReadBack ==
  ASSUME NEW data \in Seq(Byte), Len(data) \in Word, NEW m \in Byte, m > 5,
         NEW k \in 1 .. Len(Packets(APDU_COMMAND_TAG, data, m))
  PROVE  LET raw == Packets(APDU_COMMAND_TAG, data, m)[k]
             Had == SubSeq(data, 1, TakenOf(data, m, k - 1))
             Has == SubSeq(data, 1, TakenOf(data, m, k))
         IN  /\ Len(raw) >= 1 /\ CommandTag(raw) = APDU_COMMAND_TAG
             /\ TakenOf(data, m, k) \in 0 .. Len(data)
             /\ k = 1 => /\ IsInitialPacket(raw)
                         /\ DataLength(raw) = Len(data)
                         /\ InitialPayload(raw) = Has
             /\ k # 1 => /\ IsSubsequentPacket(raw)
                         /\ TakenOf(data, m, k - 1) < Len(data) =>
                              Had \o SubsequentPayload(raw) = Has
<1> DEFINE P == Packets(APDU_COMMAND_TAG, data, m)
           raw == P[k]
           n == Len(data)
           had == TakenOf(data, m, k - 1)
           has == TakenOf(data, m, k)
           part == PartOf(data, m, k)
<1>1. /\ k - 1 \in Word /\ APDU_COMMAND_TAG \in Byte
      /\ raw = IF k = 1
               THEN InitialPacket(APDU_COMMAND_TAG, n, part)
               ELSE SubsequentPacket(APDU_COMMAND_TAG, k - 1, part)
  <2>1. APDU_COMMAND_TAG \in Byte
    BY DEF APDU_COMMAND_TAG, Byte
  <2>2. /\ k - 1 \in Word
        /\ P[k] = IF k = 1
                  THEN InitialPacket(APDU_COMMAND_TAG, Len(data), PartOf(data, m, k))
                  ELSE SubsequentPacket(APDU_COMMAND_TAG, k - 1, PartOf(data, m, k))
    BY PacketsType
  <2> QED
    BY <2>1, <2>2
<1>2. k \in Nat /\ k >= 1 /\ n \in Nat
  BY LenProperties
<1>3. /\ has \in 0 .. n /\ part \in Seq(Byte)
      /\ had < n => StartOf(data, m, k) = had + 1 /\ had \in 0 .. has
  BY <1>2, PartFacts
<1>4. part = SubSeq(data, StartOf(data, m, k), has) /\ Len(part) \in Nat
  BY <1>3, LenProperties DEF PartOf
<1> HIDE DEF P, raw, had, has, part
<1>5. CASE k = 1
  <2>1. /\ Len(raw) = 5 + Len(part) /\ CommandTag(raw) = APDU_COMMAND_TAG
        /\ IsInitialPacket(raw) /\ DataLength(raw) = n /\ InitialPayload(raw) = part
    BY <1>1, <1>3, <1>5, InitialPacketRoundTrip
  <2>2. part = SubSeq(data, 1, has)
    BY <1>4, <1>5 DEF StartOf
  <2> QED
    BY <1>3, <1>4, <1>5, <2>1, <2>2 DEF P, raw, has
<1>6. CASE k # 1
  <2>1. /\ Len(raw) = 3 + Len(part) /\ CommandTag(raw) = APDU_COMMAND_TAG
        /\ IsSubsequentPacket(raw) /\ SubsequentPayload(raw) = part
    BY <1>1, <1>3, <1>6, SubsequentPacketRoundTrip
  <2>2. ASSUME had < n
        PROVE  SubSeq(data, 1, had) \o part = SubSeq(data, 1, has)
    <3>1. 1 \in 1 .. n + 1 /\ had \in 1 - 1 .. n /\ has \in had .. n
      BY <1>2, <1>3, <2>2
    <3>2. part = SubSeq(data, had + 1, has)
      BY <1>3, <1>4, <2>2
    <3> QED
      BY <3>1, <3>2, ConcatAdjacentSubSeq DEF n
  <2>3. Len(raw) >= 1
    <3>1. Len(part) \in Nat
      BY <1>4
    <3>2. Len(raw) = 3 + Len(part)
      BY <2>1
    <3> QED
      BY <3>1, <3>2
  <2>4. SubSeq(data, 1, had) \o SubsequentPayload(raw) = SubSeq(data, 1, has)
          \/ ~(had < n)
    BY <2>1, <2>2
  <2> QED
    BY <1>3, <1>6, <2>1, <2>3, <2>4 DEF P, raw, had, has
<1> QED
  BY <1>5, <1>6
============================================================================
