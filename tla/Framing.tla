--------------------------------- MODULE Framing ---------------------------------
(***************************************************************************)
(* One rosserial frame on a noisy line, from packaging_msg to the verdict  *)
(* of SerialDrive::read_length and read_body (session/serial_session.hpp). *)
(* The frame and its checksums are in RosserialFrame.                      *)
(***************************************************************************)
EXTENDS RosserialFrame

CONSTANTS Topics,    \* topic ids frames are sent under
          Payloads,  \* what subscribe() may hand to write_to_serial
          Noise,     \* byte values the line may put in place of another
          MaxNoise   \* bound: how many bytes of the frame are damaged

ASSUME FramingAssumption ==
  /\ Topics \subseteq Word
  /\ Payloads \subseteq [bytes : Seq(Byte), zeros : Nat]
  /\ Noise \subseteq Byte
  /\ MaxNoise \in Nat

VARIABLES
  topic, payload,   \* what write_to_serial was called with
  line,             \* the bytes on the line after the sync flags
  damage,           \* how many of them the line has changed
  stage,            \* "line", "body", "accepted" or "rejected"
  length, topic_id  \* the locals of read_length

vars == <<topic, payload, line, damage, stage, length, topic_id>>

Init ==
  /\ topic \in Topics
  /\ payload \in Payloads
  /\ line = packaging_msg(payload, topic)
  /\ damage = 0
  /\ stage = "line"
  /\ length = 0
  /\ topic_id = 0

Damage(i, b) ==
  /\ stage = "line"
  /\ damage < MaxNoise
  /\ line[i] # b
  /\ line' = [line EXCEPT ![i] = b]
  /\ damage' = damage + 1
  /\ UNCHANGED <<topic, payload, stage, length, topic_id>>

read_length ==
  /\ stage = "line"
  /\ length' = FromLowHigh(line[1], line[2])
  /\ IF LengthVerifies(length', line[3])
       THEN stage' = "body" /\ topic_id' = FromLowHigh(line[4], line[5])
       ELSE stage' = "rejected" /\ UNCHANGED topic_id
  /\ UNCHANGED <<topic, payload, line, damage>>

Body == SubSeq(line, 6, Len(line) - 1)

read_body ==
  /\ stage = "body"
  /\ stage' = IF BodyVerifies(DatasumBytes(Body), DatasumU16(topic_id), line[Len(line)])
                THEN "accepted" ELSE "rejected"
  /\ UNCHANGED <<topic, payload, line, damage, length, topic_id>>

Next ==
  \/ \E i \in DOMAIN line, b \in Noise : Damage(i, b)
  \/ read_length
  \/ read_body

Spec == Init /\ [][Next]_vars

----------------------------------------------------------------------------
TypeOK ==
  /\ topic \in Topics
  /\ payload \in Payloads
  /\ line \in Seq(Byte)
  /\ damage \in 0..MaxNoise
  /\ stage \in {"line", "body", "accepted", "rejected"}
  /\ length \in Word
  /\ topic_id \in Word

\* A single damaged byte, wherever it falls, never reaches a handler: what is accepted
\* has the topic id that was sent and, of a payload whose size has a 16-bit length, that
\* length and every byte.  Only a longer payload is cut, to its size modulo 65536.
AcceptedAsSent ==
  stage = "accepted" /\ damage <= 1 =>
    /\ topic_id = topic
    /\ Size(payload) \in Word => length = Size(payload) /\ Body = payload.bytes
    /\ Size(payload) \notin Word =>
         length = U16(Size(payload)) /\ Body = Carried(payload).bytes

\* A frame the line left intact fails only in read_body, and only because the two
\* checksums read_body adds up as int carry beyond 255.
IntactRejectedOnlyOnCarry ==
  stage = "rejected" /\ damage = 0 =>
    DatasumBytes(Carried(payload).bytes) + DatasumU16(topic) > 255

\* The vector handed to async_write holds the frame and nothing after it, although
\* its size is first computed in 16 bits and wraps for the longest payloads.
VectorIsFrame ==
  LET data_len == Size(Carried(payload))
  IN  FrameVector(data_len) = [written |-> 8 + data_len, size |-> 8 + data_len]

\* calc_msg_checksum of rosserial_stream_sniffer.py, which the repository uses to
\* watch the same line: the sum of all bytes is reduced to 8 bits.
SnifferVerifies ==
  line[Len(line)] = U8(255 - U8(line[4] + line[5] + DatasumBytes(Body)))

\* What the node accepts, the sniffer shows as a good frame.
AcceptedMeansSnifferAgrees == stage = "accepted" => SnifferVerifies

\* rosserial_stream_sniffer.py:23-25 computes the message checksum modulo 256 over
\* topic id and payload: a frame whose checksum is right by that rule, whose length
\* has verified, is not rejected by read_body.
SnifferAgreesMeansAccepted == stage = "rejected" /\ damage = 0 => ~SnifferVerifies
=============================================================================
