----------------------------- MODULE BleFraming -----------------------------
(***************************************************************************)
(* The packets of the Ledger BLE framing protocol (src/ble.rs): a command  *)
(* or an answer is cut into packets of at most mtu_size bytes,             *)
(*   initial:     tag, sequence index 0 (2 bytes), length (2 bytes), data  *)
(*   subsequent:  tag, sequence index (2 bytes), data                      *)
(* A packet is a sequence of bytes, not a record, as nothing in its bytes  *)
(* tells an initial packet from a subsequent one.                          *)
(***************************************************************************)
EXTENDS Integers, Sequences

Byte == 0 .. 255
Word == 0 .. 65535    \* u16

APDU_COMMAND_TAG == 5
MTU_COMMAND_TAG  == 8
DEFAULT_MTU_SIZE == 20

\* u16 in big endian, and back.
U16Be(n) == <<n \div 256, n % 256>>
U16(hi, lo) == 256 * hi + lo

SaturatingSub(a, b) == IF a > b THEN a - b ELSE 0
Least(a, b) == IF a < b THEN a ELSE b

InitialPacket(tag, data_length, payload) ==
  <<tag, 0, 0>> \o U16Be(data_length) \o payload

SubsequentPacket(tag, packet_sequence_index, payload) ==
  <<tag>> \o U16Be(packet_sequence_index) \o payload

\* TryFrom<Vec<u8>>: what is an InvalidPacket, and what is read from the rest.
\* The sequence index of a packet is parsed, logged and not looked at again.
IsInitialPacket(raw)    == Len(raw) >= 5
IsSubsequentPacket(raw) == Len(raw) >= 3
CommandTag(raw)         == raw[1]
DataLength(raw)         == U16(raw[4], raw[5])
SequenceIndex(raw)      == U16(raw[2], raw[3])
InitialPayload(raw)     == SubSeq(raw, 6, Len(raw))
SubsequentPayload(raw)  == SubSeq(raw, 4, Len(raw))

\* A bug (for the mutation runs): the length is not counted as header.
FirstDataEndShortHeader(len, mtu_size) == Least(SaturatingSub(mtu_size, 3), len)

\* How far the data of a packet goes that starts at offset.
FirstDataEnd(len, mtu_size) == Least(SaturatingSub(mtu_size, 5), len)
NextDataEnd(len, offset, mtu_size) ==
  Least(offset + SaturatingSub(mtu_size, 3), len)

\* A bug: any size the device returns will do.
InferMtuNoFloor(raw) == IF Len(raw) < 6 THEN DEFAULT_MTU_SIZE ELSE raw[6]

\* infer_mtu, from the raw reply of the device: byte 5, when the reply is long
\* enough and the packet has room for data.
InferMtu(raw) ==
  IF Len(raw) >= 6 /\ raw[6] > 5 THEN raw[6] ELSE DEFAULT_MTU_SIZE

\* All the packets of data, as send_framed makes them one by one; and as the
\* device makes them for its answers.
Packets(tag, data, mtu_size) ==
  LET n == Len(data)
      first == FirstDataEnd(n, mtu_size)
      step == SaturatingSub(mtu_size, 3)
      count == (n - first + step - 1) \div step
      Payload(k) == SubSeq(data, first + (k - 1) * step + 1,
                           Least(first + k * step, n))
  IN  <<InitialPacket(tag, n, SubSeq(data, 1, first))>>
        \o [k \in 1 .. count |-> SubsequentPacket(tag, k, Payload(k))]
============================================================================
