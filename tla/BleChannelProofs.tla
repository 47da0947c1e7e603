-------------------------- MODULE BleChannelProofs --------------------------
(***************************************************************************)
(* Proof that BleTransport, with one task and answers that fit into one    *)
(* packet, implements ApduChannel: every step of the transport is a step   *)
(* of the channel, or one that the channel does not see.                   *)
(***************************************************************************)
EXTENDS BleChannel, BleTransportProofs, FiniteSetTheorems

-----------------------------------------------------------------------------
(* The packets of answers in a stream: Apdus, when the stream gets one     *)
(* more notification, and when the first one is taken.                     *)

\* The rank goes up by one with each answer packet.
LEMMA RankStep ==
  ASSUME NEW s, NEW i \in Nat
  PROVE  /\ Rank(s, 0) = 0
         /\ Rank(s, i) \in Nat
         /\ Rank(s, i + 1) = Rank(s, i) + (IF IsApdu(s[i + 1]) THEN 1 ELSE 0)
<1> DEFINE P(k) == {j \in 1 .. k : IsApdu(s[j])}
<1>1. \A k \in Nat : IsFiniteSet(P(k)) /\ Cardinality(P(k)) \in Nat
  <2> SUFFICES ASSUME NEW k \in Nat
               PROVE  IsFiniteSet(P(k)) /\ Cardinality(P(k)) \in Nat
    OBVIOUS
  <2>1. IsFiniteSet(1 .. k)
    BY FS_Interval
  <2>2. P(k) \in SUBSET (1 .. k)
    OBVIOUS
  <2>3. IsFiniteSet(P(k))
    BY <2>1, <2>2, FS_Subset
  <2> QED
    BY <2>3, FS_CardinalityType
<1>2. P(0) = {}
  OBVIOUS
<1>3. Cardinality(P(0)) = 0
  BY <1>2, FS_EmptySet
<1>4. CASE IsApdu(s[i + 1])
  <2>1. P(i + 1) = P(i) \cup {i + 1} /\ i + 1 \notin P(i)
    BY <1>4
  <2>2. Cardinality(P(i) \cup {i + 1}) = Cardinality(P(i)) + 1
    BY <1>1, <2>1, FS_AddElement
  <2> QED
    BY <1>1, <1>3, <1>4, <2>1, <2>2 DEF Rank
<1>5. CASE ~IsApdu(s[i + 1])
  <2>1. P(i + 1) = P(i)
    BY <1>5
  <2> QED
    BY <1>1, <1>3, <1>5, <2>1 DEF Rank
<1> QED
  BY <1>4, <1>5

LEMMA RankGrows ==
  ASSUME NEW s, NEW i \in Nat, NEW k \in Nat, i <= k
  PROVE  Rank(s, i) <= Rank(s, k)
<1> DEFINE P(n) == {j \in 1 .. n : IsApdu(s[j])}
<1>1. IsFiniteSet(1 .. k)
  BY FS_Interval
<1>2. P(k) \in SUBSET (1 .. k) /\ P(i) \in SUBSET P(k)
  OBVIOUS
<1>3. IsFiniteSet(P(k))
  BY <1>1, <1>2, FS_Subset
<1>4. Cardinality(P(i)) <= Cardinality(P(k))
  BY <1>2, <1>3, FS_Subset
<1> QED
  BY <1>4 DEF Rank

\* It only looks at what is in front.
LEMMA RankSame ==
  ASSUME NEW s, NEW t, NEW i \in Nat, \A j \in 1 .. i : s[j] = t[j]
  PROVE  Rank(s, i) = Rank(t, i)
<1>1. {j \in 1 .. i : IsApdu(s[j])} = {j \in 1 .. i : IsApdu(t[j])}
  OBVIOUS
<1> QED
  BY <1>1 DEF Rank

\* Two answer packets do not have the same rank, and no rank is left out.
LEMMA RankOnce ==
  ASSUME NEW s, NEW i \in Nat \ {0}, NEW j \in Nat \ {0},
         IsApdu(s[i]), IsApdu(s[j]), Rank(s, i) = Rank(s, j)
  PROVE  i = j
<1>1. ASSUME NEW a \in Nat \ {0}, NEW b \in Nat \ {0}, a < b, IsApdu(s[b])
      PROVE  Rank(s, a) < Rank(s, b)
  <2>1. b - 1 \in Nat /\ b - 1 + 1 = b /\ a <= b - 1
    BY <1>1
  <2>2. Rank(s, b) = Rank(s, b - 1) + 1 /\ Rank(s, b - 1) \in Nat
    BY <1>1, <2>1, RankStep
  <2>3. Rank(s, a) <= Rank(s, b - 1) /\ Rank(s, a) \in Nat
    BY <2>1, RankGrows, RankStep
  <2> QED
    BY <2>2, <2>3
<1>2. Rank(s, i) \in Nat /\ Rank(s, j) \in Nat
  BY RankStep
<1>3. ~(i < j)
  BY <1>1, <1>2
<1>4. ~(j < i)
  BY <1>1, <1>2
<1> QED
  BY <1>3, <1>4

LEMMA RankFound ==
  ASSUME NEW s, NEW n \in Nat, NEW k \in 1 .. Rank(s, n)
  PROVE  \E i \in 1 .. n : IsApdu(s[i]) /\ Rank(s, i) = k
<1> DEFINE T == {i \in 0 .. n : Rank(s, i) >= k}
<1>1. Rank(s, n) \in Nat /\ Rank(s, 0) = 0 /\ k \in Nat \ {0}
  BY RankStep
<1>2. n \in T /\ T \subseteq Nat
  BY <1>1
<1>3. PICK i \in T : \A j \in T : i <= j
  BY <1>2, NatMin
<1>4. i # 0
  BY <1>1
<1>5. i \in 1 .. n /\ i - 1 \in 0 .. n /\ i - 1 \in Nat /\ i - 1 + 1 = i /\ i \in Nat
  BY <1>4
<1>6. i - 1 \notin T
  BY <1>3, <1>5
<1>7. /\ Rank(s, i - 1) \in Nat
      /\ Rank(s, i) = Rank(s, i - 1) + (IF IsApdu(s[i]) THEN 1 ELSE 0)
  BY <1>5, RankStep
<1>8. Rank(s, i - 1) < k /\ Rank(s, i) >= k
  BY <1>1, <1>5, <1>6, <1>7
<1>9. IsApdu(s[i]) /\ Rank(s, i) = k
  BY <1>1, <1>7, <1>8
<1> QED
  BY <1>5, <1>9

\* The k-th answer packet: it is there, and it is the only one.
LEMMA ApduAtFound ==
  ASSUME NEW s, Len(s) \in Nat, NEW k \in 1 .. Rank(s, Len(s))
  PROVE  /\ ApduAt(s, k) \in 1 .. Len(s)
         /\ IsApdu(s[ApduAt(s, k)])
         /\ Rank(s, ApduAt(s, k)) = k
<1>1. \E i \in 1 .. Len(s) : IsApdu(s[i]) /\ Rank(s, i) = k
  BY RankFound
<1> QED
  BY <1>1 DEF ApduAt

LEMMA ApduAtIs ==
  ASSUME NEW s, Len(s) \in Nat, NEW i \in 1 .. Len(s), IsApdu(s[i])
  PROVE  /\ Rank(s, i) \in 1 .. Rank(s, Len(s))
         /\ ApduAt(s, Rank(s, i)) = i
<1>1. i \in Nat \ {0} /\ i - 1 \in Nat /\ i - 1 + 1 = i /\ i <= Len(s)
  OBVIOUS
<1>2. /\ Rank(s, i) = Rank(s, i - 1) + 1 /\ Rank(s, i - 1) \in Nat
      /\ Rank(s, Len(s)) \in Nat
  BY <1>1, RankStep
<1>3. Rank(s, i) <= Rank(s, Len(s))
  BY <1>1, RankGrows
<1>4. Rank(s, i) \in 1 .. Rank(s, Len(s))
  BY <1>2, <1>3
<1> DEFINE j == ApduAt(s, Rank(s, i))
<1>5. j \in 1 .. Len(s) /\ IsApdu(s[j]) /\ Rank(s, j) = Rank(s, i)
  BY <1>4, ApduAtFound
<1> HIDE DEF j
<1>6. j = i
  BY <1>1, <1>5, RankOnce
<1> QED
  BY <1>4, <1>6 DEF j

\* What a packet of an answer carries.
Payloads == Seq(Byte)

\* AnswersIn, as a sequence of its own.
LEMMA AnswersInType ==
  ASSUME NEW s \in Seq(Seq(Byte))
  PROVE  /\ Rank(s, Len(s)) \in Nat
         /\ AnswersIn(s) \in Seq(Payloads)
         /\ Len(AnswersIn(s)) = Rank(s, Len(s))
         /\ \A k \in 1 .. Rank(s, Len(s)) :
              /\ ApduAt(s, k) \in 1 .. Len(s)
              /\ AnswersIn(s)[k] = InitialPayload(s[ApduAt(s, k)])
<1> DEFINE r == Rank(s, Len(s))
<1>1. Len(s) \in Nat
  BY LenProperties
<1>2. r \in Nat
  BY <1>1, RankStep
<1>3. DOMAIN Apdus(s) = 1 .. r /\ \A k \in 1 .. r : Apdus(s)[k] = s[ApduAt(s, k)]
  BY DEF Apdus
<1>4. \A k \in 1 .. r : ApduAt(s, k) \in 1 .. Len(s)
  BY <1>1, ApduAtFound
<1>5. ASSUME NEW k \in 1 .. r PROVE InitialPayload(Apdus(s)[k]) \in Payloads
  <2>1. s[ApduAt(s, k)] \in Seq(Byte)
    BY <1>4, ElementOfSeq
  <2> DEFINE raw == s[ApduAt(s, k)]
  <2>2. Len(raw) \in Nat
    BY <2>1, LenProperties
  <2>3. \A i \in 6 .. Len(raw) : raw[i] \in Byte
    BY <2>1, <2>2, ElementOfSeq
  <2>4. SubSeq(raw, 6, Len(raw)) \in Seq(Byte)
    BY <2>2, <2>3, SubSeqProperties
  <2> QED
    BY <1>3, <2>4 DEF InitialPayload, Payloads
<1> HIDE DEF r
<1> DEFINE a == AnswersIn(s)
<1>6. a = [k \in 1 .. r |-> InitialPayload(Apdus(s)[k])]
  BY <1>3 DEF AnswersIn
<1>7. a \in [1 .. r -> Payloads]
  BY <1>5, <1>6
<1>8. a \in Seq(Payloads) /\ Len(a) = r
  <2>1. a \in Seq(Payloads)
    BY <1>2, <1>7, SeqDef
  <2> QED
    BY <1>2, <1>7, <2>1
<1> QED
  BY <1>2, <1>3, <1>4, <1>6, <1>8 DEF r

LEMMA AnswersInEmpty == AnswersIn(<<>>) = <<>>
<1>1. <<>> \in Seq(Seq(Byte)) /\ Len(<<>>) = 0
  OBVIOUS
<1>2. Rank(<<>>, 0) = 0
  BY RankStep
<1>3. AnswersIn(<<>>) \in Seq(Payloads) /\ Len(AnswersIn(<<>>)) = 0
  BY <1>1, <1>2, AnswersInType
<1> QED
  BY <1>3, EmptySeq

\* Two streams with the same answer packets.
LEMMA AnswersInEqual ==
  ASSUME NEW s \in Seq(Seq(Byte)), NEW t \in Seq(Payloads),
         Len(t) = Rank(s, Len(s)),
         \A i \in 1 .. Len(s) : IsApdu(s[i]) => t[Rank(s, i)] = InitialPayload(s[i])
  PROVE  AnswersIn(s) = t
<1> DEFINE r == Rank(s, Len(s))
<1>1. /\ AnswersIn(s) \in Seq(Payloads) /\ Len(AnswersIn(s)) = r
      /\ \A k \in 1 .. r : AnswersIn(s)[k] = InitialPayload(s[ApduAt(s, k)])
  BY AnswersInType
<1>2. Len(s) \in Nat
  BY LenProperties
<1>3. ASSUME NEW k \in 1 .. r PROVE AnswersIn(s)[k] = t[k]
  <2>1. /\ ApduAt(s, k) \in 1 .. Len(s) /\ IsApdu(s[ApduAt(s, k)])
        /\ Rank(s, ApduAt(s, k)) = k
    BY <1>2, ApduAtFound
  <2> QED
    BY <1>1, <2>1
<1> HIDE DEF r
<1> QED
  BY <1>1, <1>3, SeqEqual DEF r

\* Of an answer packet, the place of its payload.
LEMMA AnswersInAt ==
  ASSUME NEW s \in Seq(Seq(Byte)), NEW i \in 1 .. Len(s), IsApdu(s[i])
  PROVE  /\ Rank(s, i) \in 1 .. Len(AnswersIn(s))
         /\ AnswersIn(s)[Rank(s, i)] = InitialPayload(s[i])
<1>1. Len(s) \in Nat
  BY LenProperties
<1>2. Rank(s, i) \in 1 .. Rank(s, Len(s)) /\ ApduAt(s, Rank(s, i)) = i
  BY <1>1, ApduAtIs
<1> QED
  BY <1>2, AnswersInType

\* One more notification.
LEMMA AnswersInAppend ==
  ASSUME NEW s \in Seq(Seq(Byte)), NEW raw \in Seq(Byte)
  PROVE  AnswersIn(Append(s, raw)) = IF IsApdu(raw)
                                     THEN Append(AnswersIn(s), InitialPayload(raw))
                                     ELSE AnswersIn(s)
<1> DEFINE n == Len(s)
           t == Append(s, raw)
           a == AnswersIn(s)
           b == IF IsApdu(raw) THEN Append(a, InitialPayload(raw)) ELSE a
<1>1. /\ n \in Nat /\ t \in Seq(Seq(Byte)) /\ Len(t) = n + 1 /\ t[n + 1] = raw
      /\ \A i \in 1 .. n : t[i] = s[i]
  BY LenProperties, AppendProperties
<1>2. InitialPayload(raw) \in Payloads
  <2>1. Len(raw) \in Nat /\ \A i \in 6 .. Len(raw) : raw[i] \in Byte
    BY LenProperties, ElementOfSeq
  <2>2. SubSeq(raw, 6, Len(raw)) \in Seq(Byte)
    BY <2>1, SubSeqProperties
  <2> QED
    BY <2>2 DEF InitialPayload, Payloads
<1>3. a \in Seq(Payloads) /\ Len(a) = Rank(s, n) /\ Rank(s, n) \in Nat
  BY AnswersInType
<1>4. \A i \in 0 .. n : Rank(t, i) = Rank(s, i)
  <2> SUFFICES ASSUME NEW i \in 0 .. n PROVE Rank(t, i) = Rank(s, i)
    OBVIOUS
  <2>1. i \in Nat /\ \A j \in 1 .. i : t[j] = s[j]
    BY <1>1
  <2> HIDE DEF n, t
  <2> QED
    BY <2>1, RankSame
<1>5. Rank(t, n + 1) = Rank(s, n) + (IF IsApdu(raw) THEN 1 ELSE 0)
  <2>1. n \in 0 .. n
    BY <1>1
  <2>2. Rank(t, n + 1) = Rank(t, n) + (IF IsApdu(t[n + 1]) THEN 1 ELSE 0)
    BY <1>1, RankStep
  <2> HIDE DEF n, t
  <2> QED
    BY <1>1, <1>4, <2>1, <2>2
<1> HIDE DEF n, t, a
<1>6. /\ b \in Seq(Payloads) /\ Len(b) = Rank(t, n + 1)
      /\ \A k \in 1 .. Len(a) : b[k] = a[k]
      /\ IsApdu(raw) => b[Len(a) + 1] = InitialPayload(raw)
  BY <1>2, <1>3, <1>5, AppendProperties
<1> HIDE DEF b
<1>7. ASSUME NEW i \in 1 .. n + 1, IsApdu(t[i])
      PROVE  b[Rank(t, i)] = InitialPayload(t[i])
  <2>1. CASE i = n + 1
    <3>1. IsApdu(raw) /\ t[i] = raw
      BY <1>1, <1>7, <2>1
    <3>2. Rank(t, i) = Len(a) + 1
      BY <1>3, <1>5, <2>1, <3>1
    <3> QED
      BY <1>6, <3>1, <3>2
  <2>2. CASE i # n + 1
    <3>1. i \in 1 .. n /\ i \in 0 .. n
      BY <1>1, <2>2
    <3>2. t[i] = s[i] /\ IsApdu(s[i]) /\ Rank(t, i) = Rank(s, i)
      BY <1>1, <1>4, <1>7, <3>1
    <3>3. Rank(s, i) \in 1 .. Len(a) /\ a[Rank(s, i)] = InitialPayload(s[i])
      BY <3>1, <3>2, AnswersInAt DEF a, n
    <3> QED
      BY <1>6, <3>2, <3>3
  <2> QED
    BY <2>1, <2>2
<1>8. AnswersIn(t) = b
  BY <1>1, <1>6, <1>7, AnswersInEqual
<1> QED
  BY <1>8 DEF b, t, a

\* The first notification is taken.
LEMMA AnswersInTail ==
  ASSUME NEW s \in Seq(Seq(Byte)), s # <<>>
  PROVE  IF IsApdu(Head(s))
         THEN /\ AnswersIn(s) # <<>>
              /\ Head(AnswersIn(s)) = InitialPayload(Head(s))
              /\ AnswersIn(Tail(s)) = Tail(AnswersIn(s))
         ELSE AnswersIn(Tail(s)) = AnswersIn(s)
<1> DEFINE n == Len(s)
           t == Tail(s)
           a == AnswersIn(s)
           d == IF IsApdu(s[1]) THEN 1 ELSE 0
<1>1. /\ n \in Nat \ {0} /\ t \in Seq(Seq(Byte)) /\ Len(t) = n - 1
      /\ \A i \in 1 .. n - 1 : t[i] = s[i + 1]
      /\ Head(s) = s[1]
  BY EmptySeq, HeadTailProperties
<1>2. a \in Seq(Payloads) /\ Len(a) = Rank(s, n) /\ Rank(s, n) \in Nat
  BY AnswersInType
<1> HIDE DEF n, t, a
<1>3. Rank(s, 1) = d /\ Rank(s, 0) = 0 /\ Rank(t, 0) = 0
  <2>1. /\ Rank(s, 0) = 0 /\ Rank(t, 0) = 0
        /\ Rank(s, 0 + 1) = Rank(s, 0) + (IF IsApdu(s[0 + 1]) THEN 1 ELSE 0)
    BY RankStep
  <2> QED
    BY <2>1
<1>4. \A i \in 0 .. n - 1 : Rank(s, i + 1) = Rank(t, i) + d
  <2> DEFINE T == {i \in 0 .. n - 1 : Rank(s, i + 1) # Rank(t, i) + d}
  <2> SUFFICES ASSUME T # {} PROVE FALSE
    OBVIOUS
  <2>1. T \subseteq Nat
    OBVIOUS
  <2>2. PICK i \in T : \A j \in T : i <= j
    BY <2>1, NatMin
  <2>3. i # 0
    BY <1>3, <2>2
  <2>4. i \in 1 .. n - 1 /\ i - 1 \in 0 .. n - 1 /\ i \in Nat /\ i - 1 \in Nat
        /\ i - 1 + 1 = i
    BY <1>1, <2>3
  <2>5. i - 1 \notin T
    BY <2>2, <2>4
  <2>6. Rank(s, i) = Rank(t, i - 1) + d
    BY <2>4, <2>5
  <2>7. /\ Rank(s, i + 1) = Rank(s, i) + (IF IsApdu(s[i + 1]) THEN 1 ELSE 0)
        /\ Rank(t, i) = Rank(t, i - 1) + (IF IsApdu(t[i]) THEN 1 ELSE 0)
        /\ Rank(s, i) \in Nat /\ Rank(t, i - 1) \in Nat /\ Rank(t, i) \in Nat
    BY <2>4, RankStep
  <2>8. t[i] = s[i + 1]
    BY <1>1, <2>4
  <2>9. Rank(s, i + 1) = Rank(t, i) + d
    BY <2>6, <2>7, <2>8
  <2> QED
    BY <2>2, <2>9
<1>5. Rank(s, n) = Rank(t, n - 1) + d /\ Rank(t, n - 1) \in Nat
  <2>1. n - 1 \in 0 .. n - 1 /\ n - 1 + 1 = n /\ n - 1 \in Nat
    BY <1>1
  <2> QED
    BY <1>4, <2>1, RankStep
\* What is behind the first one in a is in the tail.
<1>6. ASSUME NEW i \in 1 .. n - 1, IsApdu(t[i])
      PROVE  /\ Rank(t, i) \in 1 .. Rank(t, n - 1)
             /\ a[Rank(t, i) + d] = InitialPayload(t[i])
  <2>1. i + 1 \in 1 .. n /\ i \in 0 .. n - 1 /\ t[i] = s[i + 1]
    BY <1>1
  <2>2. Rank(s, i + 1) = Rank(t, i) + d
    BY <1>4, <2>1
  <2>3. a[Rank(s, i + 1)] = InitialPayload(s[i + 1])
    BY <1>6, <2>1, AnswersInAt DEF a, n
  <2>4. Rank(t, i) \in 1 .. Rank(t, Len(t))
    <3>1. Len(t) \in Nat /\ i \in 1 .. Len(t)
      BY <1>1
    <3> QED
      BY <1>6, <3>1, ApduAtIs
  <2> QED
    BY <1>1, <2>1, <2>2, <2>3, <2>4
<1>7. CASE IsApdu(s[1])
  <2>1. 1 \in 1 .. n /\ Rank(s, 1) = 1 /\ d = 1
    BY <1>1, <1>3, <1>7
  <2>2. a[1] = InitialPayload(s[1])
    BY <1>7, <2>1, AnswersInAt DEF a, n
  <2>3. Len(a) = Rank(t, n - 1) + 1
    BY <1>2, <1>5, <2>1
  <2>4. a # <<>> /\ Head(a) = a[1]
    BY <1>2, <1>5, <2>3
  <2> DEFINE b == Tail(a)
  <2>5. /\ b \in Seq(Payloads) /\ Len(b) = Rank(t, n - 1)
        /\ \A k \in 1 .. Rank(t, n - 1) : b[k] = a[k + 1]
    <3>1. /\ b \in Seq(Payloads) /\ Len(b) = Len(a) - 1
          /\ \A k \in 1 .. Len(b) : b[k] = a[k + 1]
      BY <1>2, <2>4, HeadTailProperties
    <3>2. Len(b) = Rank(t, n - 1)
      BY <1>5, <2>3, <3>1
    <3> QED
      BY <3>1, <3>2
  <2> HIDE DEF b
  <2>6. \A i \in 1 .. n - 1 : IsApdu(t[i]) => b[Rank(t, i)] = InitialPayload(t[i])
    BY <1>6, <2>1, <2>5
  <2>7. AnswersIn(t) = b
    BY <1>1, <2>5, <2>6, AnswersInEqual
  <2> QED
    BY <1>1, <1>7, <2>2, <2>4, <2>7 DEF b, a, t
<1>8. CASE ~IsApdu(s[1])
  <2>1. d = 0
    BY <1>8
  <2>2. Len(a) = Rank(t, n - 1)
    BY <1>2, <1>5, <2>1
  <2>3. ASSUME NEW i \in 1 .. n - 1, IsApdu(t[i])
        PROVE  a[Rank(t, i)] = InitialPayload(t[i])
    <3>1. Rank(t, i) \in Nat
      BY RankStep
    <3>2. Rank(t, i) + d = Rank(t, i)
      BY <2>1, <3>1
    <3> QED
      BY <1>6, <2>3, <3>2
  <2>4. AnswersIn(t) = a
    BY <1>1, <1>2, <2>2, <2>3, AnswersInEqual
  <2> QED
    BY <1>1, <1>8, <2>4 DEF a, t
<1> QED
  BY <1>7, <1>8

-----------------------------------------------------------------------------
(* Answers that fit into one packet.                                       *)

AnswerPacket(cmd) == InitialPacket(APDU_COMMAND_TAG, Len(Answer(cmd)), Answer(cmd))

LEMMA AnswerPacketFacts ==
  ASSUME NEW cmd \in Commands
  PROVE  LET raw == AnswerPacket(cmd)
         IN  /\ raw \in Seq(Byte) /\ Answer(cmd) \in Seq(Byte)
             /\ IsApdu(raw) /\ IsInitialPacket(raw)
             /\ DataLength(raw) = Len(Answer(cmd))
             /\ InitialPayload(raw) = Answer(cmd)
             /\ Len(Answer(cmd)) \in Nat /\ Len(Answer(cmd)) >= 2
<1> DEFINE a == Answer(cmd)
           n == Len(a)
           raw == AnswerPacket(cmd)
<1>1. a \in Seq(Byte) /\ n \in Word \ {0, 1}
  BY AnswerAssumption
<1>2. n \in Nat
  BY <1>1, LenProperties
<1>3. APDU_COMMAND_TAG \in Byte
  BY DEF APDU_COMMAND_TAG, Byte
<1>4. /\ raw \in Seq(Byte) /\ Len(raw) = 5 + n
      /\ IsInitialPacket(raw) /\ CommandTag(raw) = APDU_COMMAND_TAG
      /\ DataLength(raw) = n /\ InitialPayload(raw) = a
  BY <1>1, <1>3, InitialPacketRoundTrip DEF AnswerPacket
<1> HIDE DEF raw
<1>5. n # 0 /\ n # 1
  BY <1>1
<1> HIDE DEF n
<1>6. n >= 2
  BY <1>2, <1>5
<1>7. raw # <<>>
  BY <1>2, <1>4
<1> QED
  BY <1>1, <1>2, <1>4, <1>6, <1>7 DEF raw, n, IsApdu

LEMMA OnePacket ==
  ASSUME NEW cmd \in Commands, NEW reply \in MtuReplies
  PROVE  Packets(APDU_COMMAND_TAG, Answer(cmd), InferMtu(reply)) = <<AnswerPacket(cmd)>>
<1> DEFINE a == Answer(cmd)
           n == Len(a)
           m == InferMtu(reply)
           P == Packets(APDU_COMMAND_TAG, a, m)
           first == FirstDataEnd(n, m)
           step  == SaturatingSub(m, 3)
           count == (n - first + step - 1) \div step
<1>1. a \in Seq(Byte) /\ n \in Word /\ n \in Nat
  BY AnswerAssumption, LenProperties
<1>2. m \in Byte /\ m > 5
  BY MtuRepliesAssumption, InferMtuFloor
<1>3. Len(P) = 1
  BY AnswersFitOnePacket
<1>4. /\ P \in Seq(Seq(Byte))
      /\ P[1] = InitialPacket(APDU_COMMAND_TAG, n, PartOf(a, m, 1))
  <2>1. 1 \in 1 .. Len(P)
    BY <1>3
  <2> HIDE DEF a, m
  <2> QED
    BY <1>1, <1>2, <2>1, PacketsType
<1>5. m \in Nat /\ first \in 0 .. n /\ step = m - 3
  <2> HIDE DEF n, m
  <2>1. m \in Nat
    BY <1>2 DEF Byte
  <2> QED
    BY <1>1, <1>2, <2>1 DEF FirstDataEnd, Least, SaturatingSub
<1>6. first = n
  <2>1. count \in Nat /\ Len(P) = 1 + count
    <3>1. count \in Nat
      <4>1. n - first \in Nat /\ step \in Nat /\ step >= 1
        BY <1>1, <1>2, <1>5
      <4> HIDE DEF first, step, n
      <4> QED
        BY <4>1, QuotientBound
    <3> DEFINE Q == [k \in 1 .. count |->
                       SubsequentPacket(APDU_COMMAND_TAG, k,
                         SubSeq(a, first + (k - 1) * step + 1, Least(first + k * step, n)))]
               I == InitialPacket(APDU_COMMAND_TAG, n, SubSeq(a, 1, first))
    <3>2. P = <<I>> \o Q
      BY DEF Packets
    <3> HIDE DEF count, I
    <3>3. Len(Q) = count /\ Len(<<I>>) = 1
      BY <3>1
    <3> HIDE DEF Q
    <3> QED
      BY <3>1, <3>2, <3>3
  <2>2. count = 0
    BY <1>3, <2>1
  <2>3. n - first \in Nat /\ step \in Nat /\ step >= 1
    BY <1>1, <1>2, <1>5
  <2> DEFINE left == n - first
  <2>4. ASSUME left >= 1 PROVE (left + step - 1) \div step >= 1
    <3> HIDE DEF left, step
    <3>1. left \in Nat /\ step \in Nat \ {0} /\ left + step - 1 >= step
      BY <2>3, <2>4 DEF left, step
    <3> QED
      BY <3>1
  <2>5. left = 0
    BY <2>2, <2>3, <2>4
  <2> QED
    BY <1>1, <1>5, <2>5
<1>7. PartOf(a, m, 1) = a
  <2>1. TakenOf(a, m, 1) = n
    <3>1. (1 - 1) * SaturatingSub(m, 3) = 0
      BY <1>5
    <3> QED
      BY <1>1, <1>6, <3>1 DEF TakenOf, Least
  <2>2. PartOf(a, m, 1) = SubSeq(a, 1, n)
    BY <2>1 DEF PartOf, StartOf
  <2> QED
    BY <1>1, <2>2, SubSeqFull
<1>8. P[1] = AnswerPacket(cmd)
  BY <1>4, <1>7 DEF AnswerPacket
<1>9. P = <<P[1]>>
  <2> HIDE DEF P
  <2> QED
    BY <1>3, <1>4
<1> QED
  BY <1>8, <1>9

LEMMA AnswersInOne ==
  ASSUME NEW cmd \in Commands
  PROVE  AnswersIn(<<AnswerPacket(cmd)>>) = <<Answer(cmd)>>
<1> DEFINE raw == AnswerPacket(cmd)
<1>1. raw \in Seq(Byte) /\ IsApdu(raw) /\ InitialPayload(raw) = Answer(cmd)
  BY AnswerPacketFacts
<1> HIDE DEF raw
<1>2. <<>> \in Seq(Seq(Byte)) /\ Append(<<>>, raw) = <<raw>>
  OBVIOUS
<1>3. AnswersIn(<<raw>>) = Append(AnswersIn(<<>>), Answer(cmd))
  BY <1>1, <1>2, AnswersInAppend
<1> QED
  BY <1>3, AnswersInEmpty DEF raw

-----------------------------------------------------------------------------
(* The invariant.  The device follows send_framed, whatever it still has   *)
(* to answer; it is only asked what is a command, and what is in the       *)
(* stream of an answer is the whole of one.                                *)

TaskInv ==
  /\ \E reply \in MtuReplies : mtuSize = InferMtu(reply)
  /\ ~Idle(Task) => command[Task] \in Commands
  /\ pc[Task] # "rest"
  /\ pc[Task] = "subsequent" /\ connected => RxFollows(Task)

WholeAnswers(stream) ==
  \A i \in DOMAIN stream :
    IsApdu(stream[i]) => \E cmd \in Commands : stream[i] = AnswerPacket(cmd)

StreamInv ==
  /\ pending \in Seq(Commands)
  /\ WholeAnswers(notifications)
  /\ outgoing = <<>> \/ \E cmd \in Commands : outgoing = <<AnswerPacket(cmd)>>

ChannelInv == TypeInv /\ TaskInv /\ StreamInv

LEMMA OnlyTask == Callers = {Task}
<1>1. PICK c \in Callers : Callers = {c}
  BY OneTask
<1> QED
  BY <1>1 DEF Task

LEMMA ChannelInvFacts ==
  ASSUME ChannelInv
  PROVE  /\ Task \in Callers /\ SendInv /\ SendTypes
         /\ pc[Task] \in {"idle", "initial", "subsequent", "first"}
         /\ outcome \in [Callers -> Outcome]
         /\ notifications \in Seq(Seq(Byte)) /\ outgoing \in Seq(Seq(Byte))
         /\ pending \in Seq(Commands)
<1>1. pc[Task] \in {"idle", "initial", "subsequent", "first", "rest"}
  BY OnlyTask DEF ChannelInv, TypeInv, SendInv, SendTypes
<1> QED
  BY <1>1, OnlyTask
     DEF ChannelInv, TypeInv, TaskInv, StreamInv, SendInv, DeviceTypes, ReceiveTypes

LEMMA WholeAnswersAppend ==
  ASSUME NEW s \in Seq(Seq(Byte)), NEW raw \in Seq(Byte), WholeAnswers(s),
         IsApdu(raw) => \E cmd \in Commands : raw = AnswerPacket(cmd)
  PROVE  WholeAnswers(Append(s, raw))
<1> DEFINE t == Append(s, raw)
<1>1. /\ Len(s) \in Nat /\ DOMAIN s = 1 .. Len(s) /\ t[Len(s) + 1] = raw
      /\ \A i \in 1 .. Len(s) : t[i] = s[i]
  BY LenProperties, AppendProperties
<1>2. DOMAIN t = 1 .. Len(s) + 1
  BY LenProperties, AppendProperties
<1> HIDE DEF t
<1>3. ASSUME NEW i \in 1 .. Len(s) + 1, IsApdu(t[i])
      PROVE  \E cmd \in Commands : t[i] = AnswerPacket(cmd)
  <2>1. CASE i = Len(s) + 1
    BY <1>1, <1>3, <2>1
  <2>2. CASE i # Len(s) + 1
    <3>1. i \in DOMAIN s /\ t[i] = s[i]
      BY <1>1, <2>2
    <3> QED
      BY <1>3, <3>1 DEF WholeAnswers
  <2> QED
    BY <2>1, <2>2
<1> QED
  BY <1>2, <1>3 DEF WholeAnswers, t

LEMMA WholeAnswersTail ==
  ASSUME NEW s \in Seq(Seq(Byte)), WholeAnswers(s), s # <<>>
  PROVE  /\ WholeAnswers(Tail(s))
         /\ IsApdu(Head(s)) => \E cmd \in Commands : Head(s) = AnswerPacket(cmd)
<1> DEFINE t == Tail(s)
<1>1. /\ Len(s) \in Nat \ {0} /\ DOMAIN s = 1 .. Len(s) /\ Head(s) = s[1]
      /\ t \in Seq(Seq(Byte)) /\ Len(t) = Len(s) - 1
      /\ \A i \in 1 .. Len(t) : t[i] = s[i + 1]
  BY EmptySeq, LenProperties, HeadTailProperties
<1>2. DOMAIN t = 1 .. Len(s) - 1
  BY <1>1, LenProperties
<1> HIDE DEF t
<1>3. ASSUME NEW i \in 1 .. Len(s) - 1, IsApdu(t[i])
      PROVE  \E cmd \in Commands : t[i] = AnswerPacket(cmd)
  <2>1. i + 1 \in DOMAIN s /\ t[i] = s[i + 1]
    BY <1>1
  <2> QED
    BY <1>3, <2>1 DEF WholeAnswers
<1>4. 1 \in DOMAIN s
  BY <1>1
<1> QED
  BY <1>1, <1>2, <1>3, <1>4 DEF WholeAnswers, t

LEMMA ChannelInvInit == Init => ChannelInv
<1> SUFFICES ASSUME Init PROVE ChannelInv
  OBVIOUS
<1>1. Task \in Callers
  BY OnlyTask
<1>2. TaskInv
  BY <1>1 DEF Init, TaskInv, Idle
<1>3. StreamInv
  BY DEF Init, StreamInv, WholeAnswers
<1> QED
  BY <1>2, <1>3, InitTypes DEF ChannelInv

\* What a packet makes of the device, written and waited for or not.
LEMMA PacketArrives ==
  ASSUME ChannelInv, pc[Task] \in {"initial", "subsequent"}, connected,
         DeviceTakes(Packet(Task))
  PROVE  /\ command[Task] \in Commands
         /\ IF DataEnd(Task) < Len(command[Task])
            THEN /\ rx' = [length |-> Len(command[Task]), next |-> seqIndex[Task] + 1,
                           data |-> SubSeq(command[Task], 1, DataEnd(Task))]
                 /\ UNCHANGED pending
            ELSE pending' = Append(pending, command[Task])
<1>1. Task \in Callers /\ SendInv
  BY ChannelInvFacts
<1>2. pc[Task] = "subsequent" => RxFollows(Task)
  BY DEF ChannelInv, TaskInv
<1>3. command[Task] \in Commands
  BY DEF ChannelInv, TaskInv, Idle
<1> QED
  BY <1>1, <1>2, <1>3, PacketFollowed

\* What recv_framed makes of a notification: the loop goes round, or ends with
\* the answer that is in it, or with an error.
LEMMA NotificationTaken ==
  ASSUME ChannelInv, ReceiveFirst(Task)
  PROVE  LET raw == Head(notifications)
         IN  /\ pc[Task] = "first" /\ notifications # <<>>
             /\ notifications' = Tail(notifications)
             /\ UNCHANGED <<mtuSize, connected, deviceVars>>
             /\ IF IsApdu(raw)
                THEN Return(Task, [kind |-> "ok", data |-> InitialPayload(raw)])
                ELSE Skip \/ Return(Task, Failed("invalid_packet"))
<1> DEFINE raw == Head(notifications)
<1>1. /\ pc[Task] = "first" /\ notifications # <<>>
      /\ notifications' = Tail(notifications)
      /\ UNCHANGED <<mtuSize, connected, deviceVars>>
  BY DEF ReceiveFirst, NextNotification
<1>2. CASE ~IsApdu(raw)
  BY <1>1, <1>2 DEF ReceiveFirst, IsApdu
<1>3. CASE IsApdu(raw)
  <2>1. \E cmd \in Commands : raw = AnswerPacket(cmd)
    BY <1>1, <1>3, WholeAnswersTail, ChannelInvFacts DEF ChannelInv, StreamInv
  <2>2. PICK cmd \in Commands : raw = AnswerPacket(cmd)
    BY <2>1
  <2> DEFINE a == Answer(cmd)
  <2>3. /\ a \in Seq(Byte) /\ IsInitialPacket(raw) /\ DataLength(raw) = Len(a)
        /\ InitialPayload(raw) = a /\ Len(a) \in Nat /\ Len(a) >= 2
    BY <2>2, AnswerPacketFacts
  <2>4. Reassemble(Task, a, Len(a))
    BY <1>3, <2>3 DEF ReceiveFirst, IsApdu
  <2>5. SubSeq(a, 1, Len(a)) = a
    BY <2>3, SubSeqFull
  <2> HIDE DEF a
  <2>6. Return(Task, [kind |-> "ok", data |-> a])
    BY <2>3, <2>4, <2>5 DEF Reassemble
  <2> QED
    BY <1>1, <1>3, <2>3, <2>6
<1> QED
  BY <1>2, <1>3

-----------------------------------------------------------------------------
(* Step by step: the invariant stays, and the channel takes a step of its  *)
(* own or sees nothing.                                                    *)

ChannelStep == [Channel!ChannelNext]_(Channel!channelVars)

\* What a step of the transport is to be shown to do.
Implemented == TaskInv' /\ StreamInv' /\ ChannelStep

LEMMA StreamKept ==
  ASSUME ChannelInv, UNCHANGED <<notifications, pending, outgoing>>
  PROVE  StreamInv' /\ UNCHANGED AnswersToCome
BY DEF ChannelInv, StreamInv, WholeAnswers, AnswersToCome

\* The exchange stays where it is.
LEMMA TaskKept ==
  ASSUME ChannelInv, UNCHANGED <<mtuSize, hostVars, rx>>, connected' => connected
  PROVE  TaskInv' /\ UNCHANGED <<Phase, command[Task], outcome[Task]>>
BY DEF ChannelInv, TaskInv, hostVars, Phase, Idle, Receiving, RxFollows

LEMMA TaskReturns ==
  ASSUME ChannelInv, NEW result, Return(Task, result), UNCHANGED mtuSize
  PROVE  /\ TaskInv' /\ Phase' = "idle"
         /\ UNCHANGED command[Task] /\ outcome'[Task] = result
<1>1. /\ pc' = [pc EXCEPT ![Task] = "idle"] /\ UNCHANGED command
      /\ outcome' = [outcome EXCEPT ![Task] = result]
  BY DEF Return
<1>2. Task \in Callers /\ SendTypes /\ outcome \in [Callers -> Outcome]
  BY ChannelInvFacts
<1>3. pc'[Task] = "idle" /\ outcome'[Task] = result
  BY <1>1, <1>2 DEF SendTypes
<1> QED
  BY <1>1, <1>3 DEF ChannelInv, TaskInv, Phase, Idle

LEMMA TaskGivesUp ==
  ASSUME ChannelInv, ~Idle(Task), NEW kind \in Channel!Failures,
         Return(Task, Failed(kind)), UNCHANGED <<mtuSize, AnswersToCome>>,
         \/ UNCHANGED pending
         \/ Phase = "sending" /\ pending' = Append(pending, command[Task])
  PROVE  TaskInv' /\ ChannelStep
<1>1. /\ TaskInv' /\ Phase' = "idle"
      /\ UNCHANGED command[Task] /\ outcome'[Task] = Failed(kind)
  BY TaskReturns
<1>2. Phase # "idle"
  BY DEF Phase, Idle
<1>3. Failed(kind) = Channel!Result(kind, <<>>)
  BY DEF Failed, Channel!Result
<1>4. Channel!GiveUp(kind)
  BY <1>1, <1>2, <1>3 DEF Channel!GiveUp
<1> QED
  BY <1>1, <1>4 DEF ChannelStep, Channel!ChannelNext

LEMMA BeginImplemented ==
  ASSUME ChannelInv, NEW cmd \in Commands, Begin(Task, cmd)
  PROVE  Implemented
<1>1. /\ pc[Task] = "idle" /\ command' = [command EXCEPT ![Task] = cmd]
      /\ \/ /\ outcome' = [outcome EXCEPT ![Task] = Failed("too_large")]
            /\ UNCHANGED pc
         \/ /\ outcome' = [outcome EXCEPT ![Task] = Failed("none")]
            /\ pc' = [pc EXCEPT ![Task] = "initial"]
      /\ UNCHANGED <<mtuSize, notifications, connected, rx, pending, outgoing>>
  BY DEF Begin, Idle, deviceVars
<1>2. Task \in Callers /\ SendTypes /\ outcome \in [Callers -> Outcome]
  BY ChannelInvFacts
<1>3. /\ command'[Task] = cmd
      /\ \/ pc'[Task] = "idle" /\ outcome'[Task] = Failed("too_large")
         \/ pc'[Task] = "initial" /\ outcome'[Task] = Failed("none")
  BY <1>1, <1>2 DEF SendTypes
<1>4. TaskInv'
  BY <1>1, <1>3 DEF ChannelInv, TaskInv, Idle
<1>5. StreamInv' /\ UNCHANGED AnswersToCome
  BY <1>1, StreamKept
<1>6. Phase = "idle"
  BY <1>1 DEF Phase, Idle
<1>7. CASE pc'[Task] = "idle" /\ outcome'[Task] = Failed("too_large")
  <2>1. Phase' = "idle"
    BY <1>7 DEF Phase, Idle
  <2>2. Channel!Refuse(cmd)
    BY <1>1, <1>3, <1>5, <1>6, <1>7, <2>1
       DEF Channel!Refuse, Channel!Result, Failed
  <2> QED
    BY <1>4, <1>5, <2>2 DEF Implemented, ChannelStep, Channel!ChannelNext
<1>8. CASE pc'[Task] = "initial" /\ outcome'[Task] = Failed("none")
  <2>1. Phase' = "sending"
    BY <1>8 DEF Phase, Idle, Receiving
  <2>2. Channel!Exchange(cmd)
    BY <1>1, <1>3, <1>5, <1>6, <1>8, <2>1
       DEF Channel!Exchange, Channel!Result, Failed
  <2> QED
    BY <1>4, <1>5, <2>2 DEF Implemented, ChannelStep, Channel!ChannelNext
<1> QED
  BY <1>3, <1>7, <1>8

\* The command arrives with its last packet.
LEMMA WriteImplemented ==
  ASSUME ChannelInv, WriteInitial(Task) \/ WriteSubsequent(Task)
  PROVE  Implemented
<1> DEFINE end == DataEnd(Task)
           n   == Len(command[Task])
<1>1. /\ pc[Task] \in {"initial", "subsequent"} /\ connected
      /\ DeviceTakes(Packet(Task))
      /\ offset' = [offset EXCEPT ![Task] = end]
      /\ seqIndex' = [seqIndex EXCEPT ![Task] = (@ + 1) % (U16Max + 1)]
      /\ pc' = [pc EXCEPT ![Task] = IF end < n THEN "subsequent" ELSE "first"]
      /\ UNCHANGED <<mtuSize, command, outcome, notifications, connected, outgoing>>
  BY DEF WriteInitial, WriteSubsequent, Write
<1>2. Task \in Callers /\ SendInv /\ SendTypes /\ pending \in Seq(Commands)
  BY ChannelInvFacts
<1>3. end < n => (seqIndex[Task] + 1) % (U16Max + 1) = seqIndex[Task] + 1
  BY <1>1, <1>2, PacketAdvances
<1>4. /\ command[Task] \in Commands
      /\ IF end < n
         THEN /\ rx' = [length |-> n, next |-> seqIndex[Task] + 1,
                        data |-> SubSeq(command[Task], 1, end)]
              /\ UNCHANGED pending
         ELSE pending' = Append(pending, command[Task])
  BY <1>1, PacketArrives
<1> HIDE DEF end
<1>5. /\ offset'[Task] = end
      /\ seqIndex'[Task] = (seqIndex[Task] + 1) % (U16Max + 1)
      /\ pc'[Task] = IF end < n THEN "subsequent" ELSE "first"
  BY <1>1, <1>2 DEF SendTypes
<1>6. Phase = "sending" /\ UNCHANGED AnswersToCome
  BY <1>1 DEF Phase, Idle, Receiving, AnswersToCome
<1>7. WholeAnswers(notifications)' /\ UNCHANGED <<command[Task], outcome[Task]>>
  BY <1>1 DEF ChannelInv, StreamInv, WholeAnswers
<1>8. CASE end < n
  <2>1. RxFollows(Task)'
    BY <1>1, <1>3, <1>4, <1>5, <1>8 DEF RxFollows
  <2>2. pc'[Task] = "subsequent" /\ UNCHANGED pending
    BY <1>4, <1>5, <1>8
  <2>3. TaskInv' /\ StreamInv'
    BY <1>1, <1>4, <1>7, <2>1, <2>2 DEF ChannelInv, TaskInv, StreamInv
  <2>4. UNCHANGED Phase
    BY <1>6, <2>2 DEF Phase, Idle, Receiving
  <2> QED
    BY <1>6, <1>7, <2>2, <2>3, <2>4 DEF Implemented, ChannelStep, Channel!channelVars
<1>9. CASE ~(end < n)
  <2>1. pc'[Task] = "first" /\ pending' = Append(pending, command[Task])
    BY <1>4, <1>5, <1>9
  <2>2. pending' \in Seq(Commands)
    BY <1>2, <1>4, <2>1, AppendProperties
  <2>3. TaskInv' /\ StreamInv'
    BY <1>1, <1>4, <1>7, <2>1, <2>2 DEF ChannelInv, TaskInv, StreamInv
  <2>4. Phase' = "waiting"
    BY <2>1 DEF Phase, Idle, Receiving
  <2>5. Channel!Arrive
    BY <1>6, <1>7, <2>1, <2>4 DEF Channel!Arrive
  <2> QED
    BY <2>3, <2>5 DEF Implemented, ChannelStep, Channel!ChannelNext
<1> QED
  BY <1>8, <1>9

LEMMA WriteEndsImplemented ==
  ASSUME ChannelInv, NEW kind \in Channel!Failures, WriteEnds(Task, kind)
  PROVE  Implemented
<1>1. /\ pc[Task] \in {"initial", "subsequent"}
      /\ \/ connected /\ DeviceTakes(Packet(Task))
         \/ UNCHANGED pending
      /\ Return(Task, Failed(kind))
      /\ UNCHANGED <<mtuSize, notifications, outgoing>>
  BY DEF WriteEnds
<1>2. /\ Phase = "sending" /\ ~Idle(Task)
      /\ UNCHANGED AnswersToCome
  BY <1>1 DEF Phase, Idle, Receiving, AnswersToCome
<1>3. \/ UNCHANGED pending
      \/ command[Task] \in Commands /\ pending' = Append(pending, command[Task])
  BY <1>1, PacketArrives
<1>4. StreamInv'
  <2>1. pending' \in Seq(Commands)
    <3>1. pending \in Seq(Commands)
      BY ChannelInvFacts
    <3>2. CASE UNCHANGED pending
      BY <3>1, <3>2
    <3>3. CASE command[Task] \in Commands /\ pending' = Append(pending, command[Task])
      BY <3>1, <3>3, AppendProperties
    <3> QED
      BY <1>3, <3>2, <3>3
  <2> QED
    BY <1>1, <2>1 DEF ChannelInv, StreamInv, WholeAnswers
<1>5. TaskInv' /\ ChannelStep
  BY <1>1, <1>2, <1>3, TaskGivesUp
<1> QED
  BY <1>4, <1>5 DEF Implemented

LEMMA UnansweredImplemented ==
  ASSUME ChannelInv, NEW kind \in Channel!Failures, ~Idle(Task), Unanswered(Task, kind)
  PROVE  Implemented
<1>1. /\ Return(Task, Failed(kind))
      /\ UNCHANGED <<mtuSize, notifications, pending, outgoing>>
  BY DEF Unanswered, deviceVars
<1>2. StreamInv' /\ UNCHANGED AnswersToCome
  BY <1>1, StreamKept
<1> QED
  BY <1>1, <1>2, TaskGivesUp DEF Implemented

LEMMA LockImplemented ==
  ASSUME ChannelInv, Lock(Task)
  PROVE  Implemented
<1>1. /\ UNCHANGED <<mtuSize, pc, command, offset, seqIndex, outcome, connected, rx>>
      /\ UNCHANGED <<notifications, pending, outgoing>>
  BY DEF Lock, deviceVars
<1>2. TaskInv' /\ UNCHANGED <<Phase, command[Task], outcome[Task]>>
  BY <1>1 DEF ChannelInv, TaskInv, Phase, Idle, Receiving, RxFollows
<1>3. StreamInv' /\ UNCHANGED AnswersToCome
  BY <1>1, StreamKept
<1> QED
  BY <1>1, <1>2, <1>3 DEF Implemented, ChannelStep, Channel!channelVars

LEMMA ConcatTail ==
  ASSUME NEW S, NEW s \in Seq(S), NEW t \in Seq(S), s # <<>>
  PROVE  /\ s \o t # <<>> /\ Head(s \o t) = Head(s)
         /\ Tail(s \o t) = Tail(s) \o t
<1> DEFINE u == s \o t
           v == Tail(s) \o t
<1>1. Len(s) \in Nat \ {0} /\ Len(t) \in Nat /\ Head(s) = s[1]
  BY EmptySeq, LenProperties
<1>2. /\ Tail(s) \in Seq(S) /\ Len(Tail(s)) = Len(s) - 1
      /\ \A i \in 1 .. Len(Tail(s)) : Tail(s)[i] = s[i + 1]
  BY HeadTailProperties
<1>3. /\ u \in Seq(S) /\ Len(u) = Len(s) + Len(t)
      /\ \A i \in 1 .. Len(s) + Len(t) : u[i] = IF i <= Len(s) THEN s[i] ELSE t[i - Len(s)]
  BY ConcatProperties
<1>4. /\ v \in Seq(S) /\ Len(v) = Len(s) - 1 + Len(t)
      /\ \A i \in 1 .. Len(s) - 1 + Len(t) :
           v[i] = IF i <= Len(s) - 1 THEN Tail(s)[i] ELSE t[i - (Len(s) - 1)]
  <2> DEFINE p == Tail(s)
  <2>1. p \in Seq(S) /\ Len(p) = Len(s) - 1
    BY <1>2
  <2> HIDE DEF p
  <2>2. /\ p \o t \in Seq(S) /\ Len(p \o t) = Len(p) + Len(t)
        /\ \A i \in 1 .. Len(p) + Len(t) :
             (p \o t)[i] = IF i <= Len(p) THEN p[i] ELSE t[i - Len(p)]
    BY <2>1, ConcatProperties
  <2> QED
    BY <2>1, <2>2 DEF p
<1> HIDE DEF u, v
<1>5. u # <<>> /\ Head(u) = u[1] /\ u[1] = s[1]
  BY <1>1, <1>3
<1>6. /\ Tail(u) \in Seq(S) /\ Len(Tail(u)) = Len(u) - 1
      /\ \A i \in 1 .. Len(Tail(u)) : Tail(u)[i] = u[i + 1]
  BY <1>3, <1>5, HeadTailProperties
<1>7. ASSUME NEW i \in 1 .. Len(Tail(u)) PROVE Tail(u)[i] = v[i]
  <2>1. /\ i \in 1 .. Len(s) - 1 + Len(t) /\ i + 1 \in 1 .. Len(s) + Len(t)
        /\ i + 1 - Len(s) = i - (Len(s) - 1) /\ (i + 1 <= Len(s) <=> i <= Len(s) - 1)
    BY <1>1, <1>3, <1>6
  <2>2. u[i + 1] = IF i + 1 <= Len(s) THEN s[i + 1] ELSE t[i + 1 - Len(s)]
    BY <1>3, <2>1
  <2>3. v[i] = IF i <= Len(s) - 1 THEN Tail(s)[i] ELSE t[i - (Len(s) - 1)]
    BY <1>4, <2>1
  <2>4. i <= Len(s) - 1 => Tail(s)[i] = s[i + 1]
    BY <1>1, <1>2, <2>1
  <2> QED
    BY <1>6, <2>1, <2>2, <2>3, <2>4
<1>8. Tail(u) = v
  <2>1. Len(Tail(u)) = Len(v)
    BY <1>1, <1>3, <1>4, <1>6
  <2> QED
    BY <1>4, <1>6, <1>7, <2>1, SeqEqual
<1> QED
  BY <1>1, <1>5, <1>8 DEF u, v

\* The two parts of the answers to come.
LEMMA AnswersToComeType ==
  ASSUME ChannelInv
  PROVE  AnswersIn(notifications) \in Seq(Payloads) /\ AnswersIn(outgoing) \in Seq(Payloads)
BY ChannelInvFacts, AnswersInType

LEMMA ReceiveImplemented ==
  ASSUME ChannelInv, ReceiveFirst(Task)
  PROVE  Implemented
<1> DEFINE raw == Head(notifications)
           a   == AnswersIn(notifications)
           b   == AnswersIn(outgoing)
<1>1. /\ pc[Task] = "first" /\ notifications # <<>>
      /\ notifications' = Tail(notifications)
      /\ UNCHANGED <<mtuSize, connected, rx, pending, outgoing>>
      /\ IF IsApdu(raw)
         THEN Return(Task, [kind |-> "ok", data |-> InitialPayload(raw)])
         ELSE Skip \/ Return(Task, Failed("invalid_packet"))
  BY NotificationTaken DEF deviceVars
<1>2. notifications \in Seq(Seq(Byte)) /\ a \in Seq(Payloads) /\ b \in Seq(Payloads)
  BY ChannelInvFacts, AnswersToComeType
<1>3. Phase = "waiting" /\ ~Idle(Task)
  BY <1>1 DEF Phase, Idle, Receiving
<1>4. StreamInv'
  <2>1. WholeAnswers(Tail(notifications))
    BY <1>1, <1>2, WholeAnswersTail DEF ChannelInv, StreamInv
  <2> QED
    BY <1>1, <2>1 DEF ChannelInv, StreamInv, WholeAnswers
<1>5. IF IsApdu(raw)
      THEN /\ a # <<>> /\ Head(a) = InitialPayload(raw)
           /\ AnswersIn(notifications)' = Tail(a)
      ELSE AnswersIn(notifications)' = a
  <2>1. AnswersIn(notifications)' = AnswersIn(Tail(notifications))
    BY <1>1
  <2> QED
    BY <1>1, <1>2, <2>1, AnswersInTail
<1>6. /\ AnswersToCome = a \o b
      /\ AnswersToCome' = AnswersIn(notifications)' \o b
  BY <1>1 DEF AnswersToCome
<1>7. CASE IsApdu(raw)
  <2>1. /\ TaskInv' /\ Phase' = "idle" /\ UNCHANGED command[Task]
        /\ outcome'[Task] = [kind |-> "ok", data |-> InitialPayload(raw)]
    BY <1>1, <1>7, TaskReturns
  <2>2. /\ AnswersToCome # <<>> /\ Head(AnswersToCome) = InitialPayload(raw)
        /\ AnswersToCome' = Tail(AnswersToCome)
    <3>1. /\ a \o b # <<>> /\ Head(a \o b) = Head(a)
          /\ Tail(a \o b) = Tail(a) \o b
      BY <1>2, <1>5, <1>7, ConcatTail
    <3> QED
      BY <1>5, <1>6, <1>7, <3>1
  <2>3. Channel!Receive
    BY <1>1, <1>3, <2>1, <2>2 DEF Channel!Receive, Channel!Result
  <2> QED
    BY <1>4, <2>1, <2>3 DEF Implemented, ChannelStep, Channel!ChannelNext
<1>8. CASE ~IsApdu(raw)
  <2>1. UNCHANGED AnswersToCome
    BY <1>5, <1>6, <1>8
  <2>2. CASE Return(Task, Failed("invalid_packet"))
    <3>1. "invalid_packet" \in Channel!Failures
      BY DEF Channel!Failures
    <3> QED
      BY <1>1, <1>3, <1>4, <2>1, <2>2, <3>1, TaskGivesUp DEF Implemented
  <2>3. CASE Skip
    <3>1. UNCHANGED <<pc, command, offset, seqIndex, outcome>>
      BY <2>3 DEF Skip
    <3>2. TaskInv' /\ UNCHANGED <<Phase, command[Task], outcome[Task]>>
      BY <1>1, <3>1 DEF ChannelInv, TaskInv, Phase, Idle, Receiving, RxFollows
    <3> QED
      BY <1>1, <1>4, <2>1, <3>2 DEF Implemented, ChannelStep, Channel!channelVars
  <2> QED
    BY <1>1, <1>8, <2>2, <2>3
<1> QED
  BY <1>7, <1>8

LEMMA DeviceAnswersImplemented ==
  ASSUME ChannelInv, DeviceAnswers
  PROVE  Implemented
<1> DEFINE cmd == Head(pending)
           a   == AnswersIn(notifications)
<1>1. /\ pending # <<>> /\ outgoing = <<>> /\ pending' = Tail(pending)
      /\ outgoing' = Packets(APDU_COMMAND_TAG, AnswerTo(cmd), mtuSize)
      /\ UNCHANGED <<mtuSize, hostVars, notifications, connected, rx>>
  BY DEF DeviceAnswers
<1>2. pending \in Seq(Commands)
  BY ChannelInvFacts
<1>3. cmd \in Commands /\ Tail(pending) \in Seq(Commands)
  BY <1>1, <1>2, HeadTailProperties
<1>4. outgoing' = <<AnswerPacket(cmd)>>
  <2>1. PICK reply \in MtuReplies : mtuSize = InferMtu(reply)
    BY DEF ChannelInv, TaskInv
  <2>2. AnswerTo(cmd) = Answer(cmd)
    BY <1>3 DEF AnswerTo
  <2> HIDE DEF cmd
  <2> QED
    BY <1>1, <1>3, <2>1, <2>2, OnePacket
<1>5. TaskInv' /\ UNCHANGED <<Phase, command[Task], outcome[Task]>>
  BY <1>1, TaskKept
<1>6. StreamInv'
  BY <1>1, <1>3, <1>4 DEF ChannelInv, StreamInv, WholeAnswers
<1>7. a \in Seq(Payloads) /\ Answer(cmd) \in Payloads
  BY <1>3, AnswersToComeType, AnswerPacketFacts DEF Payloads
<1>8. AnswersToCome = a
  BY <1>1, <1>7, AnswersInEmpty, ConcatEmptySeq DEF AnswersToCome
<1>9. AnswersToCome' = a \o <<Answer(cmd)>>
  <2>1. AnswersIn(outgoing)' = <<Answer(cmd)>>
    BY <1>3, <1>4, AnswersInOne
  <2> QED
    BY <1>1, <2>1 DEF AnswersToCome
<1>10. AnswersToCome' = Append(AnswersToCome, Answer(cmd))
  BY <1>7, <1>8, <1>9, AppendIsConcat
<1>11. Answer(cmd) \in TheAnswer(Head(pending))
  BY DEF TheAnswer
<1>12. Channel!AnswerComes
  BY <1>1, <1>5, <1>10, <1>11 DEF Channel!AnswerComes
<1> QED
  BY <1>5, <1>6, <1>12 DEF Implemented, ChannelStep, Channel!ChannelNext

LEMMA DeviceNotifiesImplemented ==
  ASSUME ChannelInv, DeviceNotifies
  PROVE  Implemented
<1> DEFINE a == AnswersIn(notifications)
<1>1. /\ outgoing # <<>> /\ outgoing' = Tail(outgoing)
      /\ notifications' = Append(notifications, Head(outgoing))
      /\ UNCHANGED <<mtuSize, hostVars, connected, rx, pending>>
  BY DEF DeviceNotifies
<1>2. PICK cmd \in Commands : outgoing = <<AnswerPacket(cmd)>>
  BY <1>1 DEF ChannelInv, StreamInv
<1> DEFINE raw == AnswerPacket(cmd)
<1>3. /\ raw \in Seq(Byte) /\ IsApdu(raw) /\ InitialPayload(raw) = Answer(cmd)
      /\ Answer(cmd) \in Payloads
  BY AnswerPacketFacts DEF Payloads
<1>4. notifications \in Seq(Seq(Byte)) /\ a \in Seq(Payloads)
  BY ChannelInvFacts, AnswersToComeType
<1>5. WholeAnswers(Append(notifications, raw))
  BY <1>3, <1>4, WholeAnswersAppend DEF ChannelInv, StreamInv
<1>6. AnswersIn(Append(notifications, raw)) = Append(a, Answer(cmd))
  BY <1>3, <1>4, AnswersInAppend
<1>7. AnswersIn(outgoing) = <<Answer(cmd)>>
  BY <1>2, AnswersInOne
<1> HIDE DEF raw
<1>8. outgoing' = <<>> /\ notifications' = Append(notifications, raw)
  BY <1>1, <1>2 DEF raw
<1>9. TaskInv' /\ UNCHANGED <<Phase, command[Task], outcome[Task]>>
  BY <1>1, TaskKept
<1>10. StreamInv'
  BY <1>1, <1>5, <1>8 DEF ChannelInv, StreamInv, WholeAnswers
<1>11. UNCHANGED AnswersToCome
  <2>1. AnswersToCome = a \o <<Answer(cmd)>>
    BY <1>7 DEF AnswersToCome
  <2>2. AnswersToCome' = Append(a, Answer(cmd)) \o <<>>
    BY <1>6, <1>8, AnswersInEmpty DEF AnswersToCome
  <2>3. Append(a, Answer(cmd)) \in Seq(Payloads)
    BY <1>3, <1>4, AppendProperties
  <2> QED
    BY <1>3, <1>4, <2>1, <2>2, <2>3, AppendIsConcat, ConcatEmptySeq
<1> QED
  BY <1>1, <1>9, <1>10, <1>11 DEF Implemented, ChannelStep, Channel!channelVars

\* What was still to be notified is gone: the last answer, if any.
LEMMA LastAnswerGone ==
  ASSUME ChannelInv, UNCHANGED notifications, outgoing' = <<>>
  PROVE  \/ outgoing = <<>> /\ UNCHANGED AnswersToCome
         \/ /\ AnswersToCome # <<>>
            /\ AnswersToCome' = Channel!WithoutLast(AnswersToCome)
<1> DEFINE a == AnswersIn(notifications)
           b == AnswersIn(outgoing)
<1>1. a \in Seq(Payloads) /\ b \in Seq(Payloads)
  BY AnswersToComeType
<1>2. AnswersToCome = a \o b /\ AnswersToCome' = a
  <2>1. AnswersToCome' = a \o <<>>
    BY AnswersInEmpty DEF AnswersToCome
  <2> QED
    BY <1>1, <2>1, ConcatEmptySeq DEF AnswersToCome
<1>3. CASE outgoing = <<>>
  BY <1>1, <1>2, <1>3, AnswersInEmpty, ConcatEmptySeq
<1>4. ASSUME NEW cmd \in Commands, outgoing = <<AnswerPacket(cmd)>>
      PROVE  /\ AnswersToCome # <<>>
             /\ AnswersToCome' = Channel!WithoutLast(AnswersToCome)
  <2> DEFINE x == Answer(cmd)
             u == Append(a, x)
  <2>1. x \in Payloads
    BY AnswerPacketFacts DEF Payloads
  <2>2. AnswersToCome = u
    <3>1. b = <<x>>
      BY <1>4, AnswersInOne
    <3> QED
      BY <1>1, <1>2, <2>1, <3>1, AppendIsConcat
  <2> HIDE DEF a, x
  <2>3. /\ u \in Seq(Payloads) /\ u # <<>> /\ Len(u) = Len(a) + 1 /\ Len(a) \in Nat
        /\ \A i \in 1 .. Len(a) : u[i] = a[i]
    BY <1>1, <2>1, AppendProperties, LenProperties
  <2> HIDE DEF u
  <2> DEFINE v == SubSeq(u, 1, Len(u) - 1)
  <2>4. v = a
    <3>1. \A i \in 1 .. Len(u) - 1 : u[i] \in Payloads
      BY <2>3, ElementOfSeq
    <3>2. /\ v \in Seq(Payloads)
          /\ Len(v) = IF 1 <= Len(u) - 1 THEN Len(u) - 1 - 1 + 1 ELSE 0
          /\ \A i \in 1 .. Len(u) - 1 - 1 + 1 : v[i] = u[1 + i - 1]
      BY <2>3, <3>1, SubSeqProperties
    <3> HIDE DEF v
    <3>3. Len(v) = Len(a)
      BY <2>3, <3>2
    <3>4. ASSUME NEW i \in 1 .. Len(v) PROVE v[i] = a[i]
      <4>1. i \in 1 .. Len(u) - 1 - 1 + 1 /\ 1 + i - 1 = i /\ i \in 1 .. Len(a)
        BY <2>3, <3>3
      <4> QED
        BY <2>3, <3>2, <4>1
    <3> QED
      BY <1>1, <3>2, <3>3, <3>4, SeqEqual
  <2> QED
    BY <1>2, <2>2, <2>3, <2>4 DEF Channel!WithoutLast
<1> QED
  BY <1>3, <1>4 DEF ChannelInv, StreamInv

LEMMA NotificationLostImplemented ==
  ASSUME ChannelInv, NotificationLost
  PROVE  Implemented
<1>1. /\ outgoing # <<>> /\ outgoing' = Tail(outgoing)
      /\ UNCHANGED <<mtuSize, hostVars, notifications, connected, rx, pending>>
  BY DEF NotificationLost
<1>2. outgoing' = <<>>
  <2>1. PICK cmd \in Commands : outgoing = <<AnswerPacket(cmd)>>
    BY <1>1 DEF ChannelInv, StreamInv
  <2> DEFINE raw == AnswerPacket(cmd)
  <2> HIDE DEF raw
  <2>2. outgoing = <<raw>>
    BY <2>1 DEF raw
  <2> QED
    BY <1>1, <2>2
<1>3. TaskInv' /\ UNCHANGED <<Phase, command[Task], outcome[Task]>>
  BY <1>1, TaskKept
<1>4. StreamInv'
  BY <1>1, <1>2 DEF ChannelInv, StreamInv, WholeAnswers
<1>5. /\ AnswersToCome # <<>>
      /\ AnswersToCome' = Channel!WithoutLast(AnswersToCome)
  BY <1>1, <1>2, LastAnswerGone
<1>6. Channel!LoseAnswer
  BY <1>1, <1>3, <1>5 DEF Channel!LoseAnswer
<1> QED
  BY <1>3, <1>4, <1>6 DEF Implemented, ChannelStep, Channel!ChannelNext

LEMMA DisconnectImplemented ==
  ASSUME ChannelInv, Disconnect
  PROVE  Implemented
<1>1. /\ connected' = FALSE /\ pending' = <<>> /\ outgoing' = <<>>
      /\ UNCHANGED <<mtuSize, hostVars, notifications>>
  BY DEF Disconnect
<1>2. TaskInv' /\ UNCHANGED <<Phase, command[Task], outcome[Task]>>
  BY <1>1 DEF ChannelInv, TaskInv, hostVars, Phase, Idle, Receiving
<1>3. StreamInv'
  BY <1>1 DEF ChannelInv, StreamInv, WholeAnswers
<1>4. \/ UNCHANGED AnswersToCome
      \/ /\ AnswersToCome # <<>>
         /\ AnswersToCome' = Channel!WithoutLast(AnswersToCome)
  BY <1>1, LastAnswerGone
<1>5. Channel!LoseLink
  BY <1>1, <1>2, <1>4 DEF Channel!LoseLink
<1> QED
  BY <1>2, <1>3, <1>5 DEF Implemented, ChannelStep, Channel!ChannelNext

LEMMA StrayImplemented ==
  ASSUME ChannelInv, NEW raw \in Strays, Stray(raw)
  PROVE  Implemented
<1>1. /\ notifications' = Append(notifications, raw)
      /\ UNCHANGED <<mtuSize, hostVars, connected, rx, pending, outgoing>>
  BY DEF Stray, deviceVars
<1>2. raw \in Seq(Byte) /\ ~IsApdu(raw)
  BY StraysAssumption DEF IsApdu
<1>3. notifications \in Seq(Seq(Byte))
  BY ChannelInvFacts
<1>4. AnswersIn(Append(notifications, raw)) = AnswersIn(notifications)
  BY <1>2, <1>3, AnswersInAppend
<1>5. WholeAnswers(Append(notifications, raw))
  BY <1>2, <1>3, WholeAnswersAppend DEF ChannelInv, StreamInv
<1>6. TaskInv' /\ UNCHANGED <<Phase, command[Task], outcome[Task]>>
  BY <1>1, TaskKept
<1>7. StreamInv' /\ UNCHANGED AnswersToCome
  BY <1>1, <1>4, <1>5 DEF ChannelInv, StreamInv, WholeAnswers, AnswersToCome
<1> QED
  BY <1>1, <1>6, <1>7 DEF Implemented, ChannelStep, Channel!channelVars

LEMMA StepImplemented ==
  ASSUME ChannelInv, [Next]_vars
  PROVE  Implemented
<1>1. Callers = {Task}
  BY OnlyTask
<1>2. \A kind \in {"ble", "cancelled", "timeout", "stream_ended"} :
        kind \in Channel!Failures
  BY DEF Channel!Failures
<1>3. ASSUME NEW cmd \in Commands, Begin(Task, cmd) PROVE Implemented
  BY <1>3, BeginImplemented
<1>4. CASE WriteInitial(Task) \/ WriteSubsequent(Task)
  BY <1>4, WriteImplemented
<1>5. CASE WriteFails(Task)
  BY <1>2, <1>5, WriteEndsImplemented DEF WriteFails
<1>6. CASE Lock(Task)
  BY <1>6, LockImplemented
<1>7. CASE ReceiveFirst(Task)
  BY <1>7, ReceiveImplemented
<1>8. CASE ReceiveRest(Task)
  BY <1>8 DEF ReceiveRest, ChannelInv, TaskInv
<1>9. CASE Timeout(Task) \/ StreamEnded(Task)
  <2>1. ~Idle(Task)
    BY <1>9 DEF Timeout, StreamEnded, Holds, Receiving, Idle
  <2> QED
    BY <1>2, <1>9, <2>1, UnansweredImplemented DEF Timeout, StreamEnded
<1>10. CASE Cancel(Task)
  <2>1. Receiving(Task) => ~Idle(Task)
    BY DEF Receiving, Idle
  <2> QED
    BY <1>2, <1>10, <2>1, WriteEndsImplemented, UnansweredImplemented DEF Cancel
<1>11. CASE Device
  BY <1>11, DeviceAnswersImplemented, DeviceNotifiesImplemented DEF Device
<1>12. CASE NotificationLost
  BY <1>12, NotificationLostImplemented
<1>13. CASE Disconnect
  BY <1>13, DisconnectImplemented
<1>14. ASSUME NEW raw \in Strays, Stray(raw) PROVE Implemented
  BY <1>14, StrayImplemented
<1>15. CASE UNCHANGED vars
  <2>1. UNCHANGED <<mtuSize, hostVars, notifications, connected, rx, pending, outgoing>>
    BY <1>15 DEF vars, deviceVars
  <2>2. TaskInv' /\ UNCHANGED <<Phase, command[Task], outcome[Task]>>
    BY <2>1, TaskKept
  <2>3. StreamInv' /\ UNCHANGED AnswersToCome
    BY <2>1, StreamKept
  <2> QED
    BY <2>1, <2>2, <2>3 DEF Implemented, ChannelStep, Channel!channelVars
<1> QED
  BY <1>1, <1>3, <1>4, <1>5, <1>6, <1>7, <1>8, <1>9, <1>10, <1>11, <1>12, <1>13,
     <1>14, <1>15 DEF Next, HostStep, SendStep, ReceiveStep, AllReturned

LEMMA ChannelInvHolds == Spec => []ChannelInv
<1>1. ChannelInv /\ TypeInv' /\ [Next]_vars => ChannelInv'
  BY StepImplemented DEF Implemented, ChannelInv
<1> QED
  BY <1>1, ChannelInvInit, TypeInvHolds, PTL DEF Spec

\* exchange keeps what ApduChannel promises: for every set of commands, all
\* answers of one packet and any number of calls, strays and losses, a command
\* arrives whole or not at all, and the answers are handed out in the order of
\* the commands, each of them once.
THEOREM ChannelCorrect == Spec => ImplementsChannel
<1>1. Init => Channel!ChannelInit
  <2> SUFFICES ASSUME Init PROVE Channel!ChannelInit
    OBVIOUS
  <2>1. Task \in Callers
    BY OnlyTask
  <2>2. Phase = "idle" /\ outcome[Task] = Channel!Result("none", <<>>)
    BY <2>1 DEF Init, Phase, Idle, Failed, Channel!Result
  <2>3. AnswersToCome = <<>>
    BY AnswersInEmpty DEF Init, AnswersToCome
  <2> QED
    BY <2>2, <2>3 DEF Init, Channel!ChannelInit
<1>2. ChannelInv /\ [Next]_vars => [Channel!ChannelNext]_(Channel!channelVars)
  BY StepImplemented DEF Implemented, ChannelStep
<1> QED
  BY <1>1, <1>2, ChannelInvHolds, PTL DEF Spec, ImplementsChannel, Channel!ChannelSpec
=============================================================================
