----------------------------- MODULE RosserialFrame -----------------------------
(***************************************************************************)
(* The bytes of a rosserial frame: how AsyncWriteBuffer::packaging_msg     *)
(* builds it (transport/async_transport.hpp), with the checksums of        *)
(* protocol/message_serialization.hpp, and the two tests that              *)
(* SerialDrive::read_length and read_body make of them                     *)
(* (session/serial_session.hpp).                                           *)
(*                                                                         *)
(* A payload is its first bytes followed by a number of zero bytes, which  *)
(* no checksum sees: long payloads cost nothing.  The machine integers     *)
(* keep their width: uint8_t is modulo 256, uint16_t modulo 65536.         *)
(***************************************************************************)
EXTENDS Integers, Sequences

Byte == 0..255
MaxWord == 65535
Word == 0..MaxWord
U8(n) == n % 256
U16(n) == n % 65536

Size(payload) == Len(payload.bytes) + payload.zeros

\* datasum_for_check of a uint16_t and of a stream.
DatasumU16(val) == U8((val \div 256) + val)
DatasumBytes(s) ==
  LET sum[i \in 0..Len(s)] == IF i = 0 THEN 0 ELSE U8(sum[i - 1] + s[i]) IN sum[Len(s)]

LowHigh(val) == <<val % 256, val \div 256>>
FromLowHigh(low, high) == low + 256 * high

\* len_check and msg_check are computed as int and stored in a uint8_t.
LengthCheck(data_len) == U8(255 - DatasumU16(data_len))
\* Wrong variants: the checksum keeps the width of an int; it leaves the topic out.
MessageCheckAsInt(body_sum, topic_sum) == 255 - (body_sum + topic_sum)
MessageCheckNoTopic(body_sum, topic_sum) == U8(255 - body_sum)
MessageCheck(body_sum, topic_sum) == U8(255 - (body_sum + topic_sum))

\* The tests of read_length and read_body: uint8_t operands promoted to int.
LengthVerifiesAlways(length, length_checksum) == TRUE
LengthVerifies(length, length_checksum) == DatasumU16(length) + length_checksum = 255

BodyVerifiesWithoutTopic(body_sum, topic_sum, data_checksum) == body_sum + data_checksum = 255
BodyVerifies(body_sum, topic_sum, data_checksum) == body_sum + topic_sum + data_checksum = 255

\* data_len is a uint16_t: of a longer payload only the first bytes are carried.
Carried(payload) ==
  LET data_len == U16(Size(payload))
      n == IF data_len < Len(payload.bytes) THEN data_len ELSE Len(payload.bytes)
  IN  [bytes |-> SubSeq(payload.bytes, 1, n), zeros |-> data_len - n]

\* Write_Buffer: its vector has room for size bytes of which written are in use.
\* buffer_write grows the vector when n more bytes do not fit.
buffer_write(buf, n) ==
  [written |-> buf.written + n,
   size |-> IF buf.size - buf.written < n THEN buf.written + n ELSE buf.size]

\* The vector packaging_msg sends: created with length bytes, filled in six writes.
\* Wrong variant: nine bytes of overhead, so that a byte the frame does not use is sent.
FrameVectorTooLong(data_len) ==
  LET w1 == buffer_write([written |-> 0, size |-> U16(9 + data_len)], 2)
      w2 == buffer_write(buffer_write(w1, 2), 1)
  IN  buffer_write(buffer_write(buffer_write(w2, 2), data_len), 1)

FrameVector(data_len) ==
  LET w1 == buffer_write([written |-> 0, size |-> U16(8 + data_len)], 2)
      w2 == buffer_write(buffer_write(w1, 2), 1)
  IN  buffer_write(buffer_write(buffer_write(w2, 2), data_len), 1)

\* The bytes after the sync flags, the zero bytes of the body left out.
packaging_msg(payload, topic) ==
  LET body == Carried(payload)
      data_len == Size(body)
  IN  LowHigh(data_len) \o <<LengthCheck(data_len)>> \o LowHigh(topic)
        \o body.bytes \o <<MessageCheck(DatasumBytes(body.bytes), DatasumU16(topic))>>
=============================================================================
