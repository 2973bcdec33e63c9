------------------------------ MODULE FramingProofs ------------------------------
(***************************************************************************)
(* What SerialDrive accepts of a damaged line, for every payload and every *)
(* topic id, not only for the boundary values of the run.                  *)
(*                                                                         *)
(* The inductive invariant keeps the line as the frame that was built or,  *)
(* after one damage, as that frame with one byte changed, and the stage    *)
(* with the tests the line has passed.                                     *)
(***************************************************************************)
EXTENDS Framing, RosserialFrameProofs

Frame == packaging_msg(payload, topic)
Checksum == line[Len(line)]

LengthTest == LengthVerifies(FromLowHigh(line[1], line[2]), line[3])
BodyTest == BodyVerifies(DatasumBytes(Body), DatasumU16(FromLowHigh(line[4], line[5])), Checksum)

\* The line is the frame, as long as nothing or one byte was changed.
LineInv ==
  /\ line \in Seq(Byte) /\ Len(line) = Len(Frame)
  /\ damage = 0 => line = Frame
  /\ damage = 1 => \E i \in DOMAIN Frame, b \in Byte :
                     Frame[i] # b /\ line = [Frame EXCEPT ![i] = b]

\* What the handlers have found out.
StageInv ==
  /\ stage \in {"body", "accepted"} =>
       /\ length = FromLowHigh(line[1], line[2])
       /\ topic_id = FromLowHigh(line[4], line[5])
       /\ LengthTest
  /\ stage = "accepted" => BodyTest
  /\ stage = "rejected" => ~LengthTest \/ ~BodyTest

IInv == TypeOK /\ LineInv /\ StageInv

\* What packaging_msg builds is bytes: the five before the body, the body, the checksum.
LEMMA FrameIsBytes ==
  ASSUME topic \in Topics, payload \in Payloads
  PROVE  /\ topic \in Word /\ payload \in Payload
         /\ Frame \in Seq(Byte) /\ Len(Frame) \in Nat /\ Len(Frame) >= 6
         /\ Len(Frame) = 6 + Len(Carried(payload).bytes)
<1>1. topic \in Word /\ payload \in Payload
  BY FramingAssumption DEF Payload
<1>2. PICK body : body = Carried(payload).bytes
  OBVIOUS
<1>3. Frame \in Seq(Byte) /\ Len(Frame) = 6 + Len(body) /\ body \in Seq(Byte)
  BY <1>1, <1>2, FrameLayout DEF Frame
<1> QED
  BY <1>1, <1>2, <1>3

\* The invariant holds of a frame that was just built.
LEMMA InitInvariant == Init => IInv
<1> SUFFICES ASSUME Init PROVE IInv
  OBVIOUS
<1>1. topic \in Topics /\ payload \in Payloads /\ line = Frame
  BY DEF Init, Frame
<1>2. line \in Seq(Byte)
  BY <1>1, FrameIsBytes
<1>3. TypeOK
  BY <1>2, FramingAssumption, WordFacts DEF Init, TypeOK
<1>4. LineInv
  BY <1>1, <1>2 DEF Init, LineInv
<1>5. StageInv
  BY DEF Init, StageInv
<1> QED
  BY <1>3, <1>4, <1>5 DEF IInv

\* A byte changed on the line keeps it.
LEMMA DamageKeeps ==
  ASSUME IInv, NEW i \in DOMAIN line, NEW b \in Noise, Damage(i, b)
  PROVE  IInv'
<1>1. b \in Byte
  BY FramingAssumption
<1>2. line \in Seq(Byte) /\ line' = [line EXCEPT ![i] = b]
  BY DEF IInv, LineInv, Damage
<1>3. line' \in Seq(Byte) /\ Len(line') = Len(line)
  BY <1>1, <1>2
<1>4. TypeOK'
  <2>1. damage' \in 0..MaxNoise
    BY FramingAssumption DEF IInv, TypeOK, Damage
  <2> QED
    BY <1>3, <2>1 DEF IInv, TypeOK, Damage
<1>5. Frame' = Frame
  BY DEF Damage, Frame
<1>6. LineInv'
  <2>1. damage' # 0 /\ (damage' = 1 => damage = 0)
    BY DEF IInv, TypeOK, Damage
  <2>2. ASSUME damage' = 1
        PROVE  i \in DOMAIN Frame /\ Frame[i] # b /\ line' = [Frame EXCEPT ![i] = b]
    BY <1>2, <2>1, <2>2 DEF IInv, LineInv, Damage
  <2>3. damage' = 1 => \E j \in DOMAIN Frame, c \in Byte :
                          Frame[j] # c /\ line' = [Frame EXCEPT ![j] = c]
    BY <1>1, <2>2
  <2> QED
    BY <1>3, <1>5, <2>1, <2>3 DEF IInv, LineInv
<1>7. StageInv'
  BY DEF Damage, StageInv
<1> QED
  BY <1>4, <1>6, <1>7 DEF IInv

\* read_length keeps it.
LEMMA LengthKeeps ==
  ASSUME IInv, read_length
  PROVE  IInv'
<1>1. line \in Seq(Byte) /\ Len(line) >= 6 /\ line' = line
  BY FrameIsBytes DEF IInv, TypeOK, LineInv, read_length
<1>2. line[1] \in Byte /\ line[2] \in Byte /\ line[4] \in Byte /\ line[5] \in Byte
  BY <1>1
<1>3. FromLowHigh(line[1], line[2]) \in Word /\ FromLowHigh(line[4], line[5]) \in Word
  BY <1>2, WordFromBytes
<1>4. TypeOK'
  BY <1>3 DEF IInv, TypeOK, read_length
<1>5. LineInv'
  BY DEF IInv, LineInv, Frame, read_length
<1>6. LengthTest' <=> LengthTest
  BY <1>1 DEF LengthTest
<1>7. StageInv'
  BY <1>1, <1>6 DEF StageInv, LengthTest, read_length
<1> QED
  BY <1>4, <1>5, <1>7 DEF IInv

\* read_body keeps it.
LEMMA BodyKeeps ==
  ASSUME IInv, read_body
  PROVE  IInv'
<1>1. line' = line /\ Body' = Body
  BY DEF read_body, Body
<1>2. TypeOK'
  BY DEF IInv, TypeOK, read_body
<1>3. LineInv'
  BY DEF IInv, LineInv, Frame, read_body
<1>4. (LengthTest' <=> LengthTest) /\ (BodyTest' <=> BodyTest)
  BY <1>1 DEF LengthTest, BodyTest, Checksum
<1>5. topic_id = FromLowHigh(line[4], line[5])
  BY DEF IInv, StageInv, read_body
<1>6. stage' = IF BodyTest THEN "accepted" ELSE "rejected"
  BY <1>5 DEF read_body, BodyTest, Checksum
<1>7. StageInv'
  BY <1>1, <1>4, <1>6 DEF IInv, StageInv, read_body
<1> QED
  BY <1>2, <1>3, <1>7 DEF IInv

\* Every step keeps it.
LEMMA StepInvariant == IInv /\ [Next]_vars => IInv'
<1> SUFFICES ASSUME IInv, [Next]_vars PROVE IInv'
  OBVIOUS
<1>1. CASE UNCHANGED vars
  BY <1>1 DEF vars, IInv, TypeOK, LineInv, StageInv, Frame, LengthTest, BodyTest, Body, Checksum
<1>2. ASSUME NEW i \in DOMAIN line, NEW b \in Noise, Damage(i, b)
      PROVE  IInv'
  BY <1>2, DamageKeeps
<1>3. CASE read_length
  BY <1>3, LengthKeeps
<1>4. CASE read_body
  BY <1>4, BodyKeeps
<1> QED
  BY <1>1, <1>2, <1>3, <1>4 DEF Next

\* The invariant holds in every state of every behaviour.
THEOREM Invariance == Spec => []IInv
  BY InitInvariant, StepInvariant, PTL DEF Spec

\* No value leaves its type, whatever the payload, the topic id and the noise are.
THEOREM TypesHold == Spec => []TypeOK
<1>1. IInv => TypeOK
  BY DEF IInv
<1> QED
  BY <1>1, Invariance, PTL

\* Whatever the payload, packaging_msg sends a frame and nothing after it.
THEOREM VectorExact == Spec => []VectorIsFrame
<1>1. IInv => VectorIsFrame
  <2> SUFFICES ASSUME IInv PROVE VectorIsFrame
    OBVIOUS
  <2>1. payload \in Payload
    BY FrameIsBytes DEF IInv, TypeOK
  <2>2. PICK d \in Word : d = Size(Carried(payload))
    BY <2>1, CarriedFits
  <2>3. FrameVector(d) = [written |-> 8 + d, size |-> 8 + d]
    BY VectorOfFrame DEF Vector
  <2> QED
    BY <2>2, <2>3 DEF VectorIsFrame
<1> QED
  BY <1>1, Invariance, PTL

----------------------------------------------------------------------------
\* What the line still says of the frame

\* The bytes of the frame, one by one.
LEMMA FrameBytes ==
  ASSUME IInv, NEW body, body = Carried(payload).bytes,
         NEW data_len, data_len = Size(Carried(payload))
  PROVE  /\ body \in Seq(Byte) /\ data_len \in Word /\ topic \in Word
         /\ Frame \in Seq(Byte) /\ Len(Frame) = 6 + Len(body)
         /\ Frame[1] = data_len % 256 /\ Frame[2] = data_len \div 256
         /\ Frame[3] = LengthCheck(data_len)
         /\ Frame[4] = topic % 256 /\ Frame[5] = topic \div 256
         /\ \A i \in 1..Len(body) : Frame[5 + i] = body[i]
         /\ Frame[Len(Frame)] = MessageCheck(DatasumBytes(body), DatasumU16(topic))
<1>1. topic \in Word /\ payload \in Payload
  BY FrameIsBytes DEF IInv, TypeOK
<1> QED
  BY <1>1, FrameLayout DEF Frame

\* The bytes of the body are those between the topic id and the checksum.
LEMMA BodyElements ==
  ASSUME IInv
  PROVE  /\ Body \in Seq(Byte) /\ Len(Body) = Len(line) - 6
         /\ \A i \in 1..(Len(line) - 6) : Body[i] = line[5 + i]
<1>1. line \in Seq(Byte) /\ Len(line) \in Nat /\ Len(line) >= 6
  BY FrameIsBytes DEF IInv, TypeOK, LineInv
<1>2. PICK s, n : s = line /\ n = Len(line)
  OBVIOUS
<1>3. /\ SubSeq(s, 6, n - 1) \in Seq(Byte) /\ Len(SubSeq(s, 6, n - 1)) = n - 6
      /\ \A i \in 1..(n - 6) : SubSeq(s, 6, n - 1)[i] = s[5 + i]
  BY <1>1, <1>2
<1> QED
  BY <1>2, <1>3 DEF Body

\* The body on an intact line is the body that was sent.
LEMMA BodyOfFrame ==
  ASSUME IInv, NEW body, body = Carried(payload).bytes,
         \A i \in 1..Len(body) : line[5 + i] = Frame[5 + i]
  PROVE  Body = body
<1>1. /\ body \in Seq(Byte) /\ Len(line) = 6 + Len(body)
      /\ \A i \in 1..Len(body) : Frame[5 + i] = body[i]
  BY FrameBytes DEF IInv, LineInv
<1>2. Len(body) \in Nat /\ Len(line) - 6 = Len(body)
  BY <1>1
<1>3. Body \in Seq(Byte) /\ Len(Body) = Len(body) /\ \A i \in 1..Len(body) : Body[i] = line[5 + i]
  BY <1>2, BodyElements
<1>4. \A i \in 1..Len(body) : Body[i] = body[i]
  BY <1>1, <1>3
<1> QED
  BY <1>1, <1>3, <1>4

\* On an undamaged line both tests see what packaging_msg wrote.
LEMMA IntactLine ==
  ASSUME IInv, line = Frame
  PROVE  /\ FromLowHigh(line[1], line[2]) = Size(Carried(payload))
         /\ FromLowHigh(line[4], line[5]) = topic
         /\ Body = Carried(payload).bytes
         /\ LengthTest
         /\ BodyTest <=> DatasumBytes(Carried(payload).bytes) + DatasumU16(topic) <= 255
<1>1. PICK body, data_len : body = Carried(payload).bytes /\ data_len = Size(Carried(payload))
  OBVIOUS
<1>2. /\ body \in Seq(Byte) /\ data_len \in Word /\ topic \in Word
      /\ line[1] = data_len % 256 /\ line[2] = data_len \div 256
      /\ line[3] = LengthCheck(data_len)
      /\ line[4] = topic % 256 /\ line[5] = topic \div 256
      /\ Checksum = MessageCheck(DatasumBytes(body), DatasumU16(topic))
  BY <1>1, FrameBytes DEF Checksum
<1>3. FromLowHigh(line[1], line[2]) = data_len /\ FromLowHigh(line[4], line[5]) = topic
  BY <1>2, WordBytes
<1>4. Body = body
  BY <1>1, BodyOfFrame
<1>5. LengthTest
  BY <1>2, <1>3, OwnLengthVerifies DEF LengthTest
<1>6. DatasumBytes(body) \in Byte /\ DatasumU16(topic) \in Byte
  BY <1>2, DatasumBytesIsByte, DatasumIsByte
<1>7. BodyTest <=> DatasumBytes(body) + DatasumU16(topic) <= 255
  BY <1>2, <1>3, <1>4, <1>6, OwnBodyVerdict DEF BodyTest
<1> QED
  BY <1>1, <1>3, <1>4, <1>5, <1>7

\* One changed byte, wherever it is, makes one of the tests fail.
LEMMA DamagedLine ==
  ASSUME IInv, NEW i \in DOMAIN Frame, NEW b \in Byte,
         Frame[i] # b, line = [Frame EXCEPT ![i] = b]
  PROVE  ~LengthTest \/ ~BodyTest
<1>1. PICK body, data_len : body = Carried(payload).bytes /\ data_len = Size(Carried(payload))
  OBVIOUS
<1>2. /\ body \in Seq(Byte) /\ data_len \in Word /\ topic \in Word
      /\ Frame \in Seq(Byte) /\ Len(Frame) = 6 + Len(body)
      /\ Frame[1] = data_len % 256 /\ Frame[2] = data_len \div 256
      /\ Frame[3] = LengthCheck(data_len)
      /\ Frame[4] = topic % 256 /\ Frame[5] = topic \div 256
      /\ \A k \in 1..Len(body) : Frame[5 + k] = body[k]
      /\ Frame[Len(Frame)] = MessageCheck(DatasumBytes(body), DatasumU16(topic))
  BY <1>1, FrameBytes
<1>3. PICK n \in Nat : n = Len(body) /\ Len(line) = 6 + n /\ i \in 1..(6 + n)
  <2>1. Len(body) \in Nat
    BY <1>2
  <2>2. Len(line) = Len(Frame)
    BY DEF IInv, LineInv
  <2>3. i \in 1..Len(Frame)
    BY <1>2
  <2> QED
    BY <1>2, <2>1, <2>2, <2>3
<1>4. line[i] = b /\ \A k \in 1..(6 + n) : k # i => line[k] = Frame[k]
  BY <1>2, <1>3
<1>5. /\ data_len % 256 \in Byte /\ data_len \div 256 \in Byte
      /\ FromLowHigh(data_len % 256, data_len \div 256) = data_len
      /\ topic % 256 \in Byte /\ topic \div 256 \in Byte
      /\ FromLowHigh(topic % 256, topic \div 256) = topic
  BY <1>2, WordBytes
<1>6. /\ DatasumBytes(body) \in Byte /\ DatasumU16(topic) \in Byte
      /\ Checksum = line[6 + n]
  BY <1>2, <1>3, DatasumBytesIsByte, DatasumIsByte DEF Checksum
<1>7. CASE i \in {1, 2}
  <2>1. line[3] = LengthCheck(data_len)
    BY <1>2, <1>4, <1>7
  <2>2. PICK read \in Word : read = FromLowHigh(line[1], line[2])
                           /\ DatasumU16(read) # DatasumU16(data_len)
    <3>1. CASE i = 1
      <4>1. line[1] = b /\ line[2] = data_len \div 256 /\ b # data_len % 256
        BY <1>2, <1>4, <3>1
      <4> QED
        BY <1>5, <4>1, OneByteChangesWord, WordFromBytes
    <3>2. CASE i = 2
      <4>1. line[1] = data_len % 256 /\ line[2] = b /\ b # data_len \div 256
        BY <1>2, <1>4, <3>2
      <4> QED
        BY <1>5, <4>1, OneByteChangesWord, WordFromBytes
    <3> QED
      BY <1>7, <3>1, <3>2
  <2>3. ~LengthTest
    BY <1>2, <2>1, <2>2, DamagedLengthRejected DEF LengthTest
  <2> QED
    BY <2>3
<1>8. CASE i = 3
  <2>1. FromLowHigh(line[1], line[2]) = data_len /\ line[3] = b /\ b # LengthCheck(data_len)
    BY <1>2, <1>4, <1>5, <1>8
  <2> QED
    BY <1>2, <2>1, VerdictFixesLength DEF LengthTest
<1>9. ASSUME i \notin 6..(5 + n)
      PROVE  Body = body
  <2>1. \A k \in 1..n : line[5 + k] = Frame[5 + k]
    BY <1>3, <1>4, <1>9
  <2> QED
    BY <1>1, <1>3, <2>1, BodyOfFrame
<1>10. CASE i \in {4, 5}
  <2>1. Body = body /\ Checksum = MessageCheck(DatasumBytes(body), DatasumU16(topic))
    BY <1>2, <1>3, <1>4, <1>6, <1>9, <1>10
  <2>2. PICK read \in Word : read = FromLowHigh(line[4], line[5])
                           /\ DatasumU16(read) # DatasumU16(topic)
    <3>1. CASE i = 4
      <4>1. line[4] = b /\ line[5] = topic \div 256 /\ b # topic % 256
        BY <1>2, <1>4, <3>1
      <4> QED
        BY <1>5, <4>1, OneByteChangesWord, WordFromBytes
    <3>2. CASE i = 5
      <4>1. line[4] = topic % 256 /\ line[5] = b /\ b # topic \div 256
        BY <1>2, <1>4, <3>2
      <4> QED
        BY <1>5, <4>1, OneByteChangesWord, WordFromBytes
    <3> QED
      BY <1>10, <3>1, <3>2
  <2>3. DatasumU16(read) \in Byte
    BY DatasumIsByte
  <2> QED
    BY <1>6, <2>1, <2>2, <2>3, VerdictFixesSums DEF BodyTest
<1>11. CASE i = 6 + n
  <2>1. Body = body /\ Checksum = b /\ FromLowHigh(line[4], line[5]) = topic
    BY <1>2, <1>3, <1>4, <1>5, <1>6, <1>9, <1>11
  <2>2. b # MessageCheck(DatasumBytes(body), DatasumU16(topic))
    BY <1>2, <1>3, <1>11
  <2> QED
    BY <1>6, <2>1, <2>2, VerdictFixesSums DEF BodyTest
<1>12. CASE i \in 6..(5 + n)
  <2>1. /\ FromLowHigh(line[4], line[5]) = topic
        /\ Checksum = MessageCheck(DatasumBytes(body), DatasumU16(topic))
    BY <1>2, <1>3, <1>4, <1>5, <1>6, <1>12
  <2>2. PICK j \in 1..n : j = i - 5 /\ body[j] # b
    BY <1>2, <1>3, <1>12, SMTT(30)
  <2>3. /\ Body \in Seq(Byte) /\ Len(Body) = n
        /\ \A k \in 1..n : Body[k] = line[5 + k]
    BY <1>3, BodyElements
  <2>4. ASSUME NEW k \in 1..n
        PROVE  Body[k] = IF k = j THEN b ELSE body[k]
    <3>1. 5 + k \in 1..(6 + n) /\ (5 + k = i <=> k = j)
      BY <1>3, <2>2
    <3> QED
      BY <1>2, <1>3, <1>4, <2>3, <3>1
  <2>5. Body = [body EXCEPT ![j] = b]
    BY <1>2, <1>3, <2>3, <2>4
  <2>6. DatasumBytes(Body) # DatasumBytes(body)
    <3>1. body \in Seq(Byte) /\ j \in DOMAIN body /\ body[j] # b
      BY <1>2, <1>3, <2>2
    <3> QED
      BY <2>5, <3>1, OneByteChangesDatasum
  <2>7. DatasumBytes(Body) \in Byte
    BY <2>3, DatasumBytesIsByte
  <2> QED
    BY <1>6, <2>1, <2>6, <2>7, VerdictFixesSums DEF BodyTest
<1> QED
  BY <1>3, <1>7, <1>8, <1>10, <1>11, <1>12

----------------------------------------------------------------------------
\* A frame of which the line changed one byte is never accepted, whichever byte it is
\* and whatever takes its place: read_length or read_body notices.
OneByteNoticed == damage = 1 => stage # "accepted"

THEOREM SingleDamageRejected == Spec => []OneByteNoticed
<1>1. IInv => OneByteNoticed
  <2> SUFFICES ASSUME IInv, damage = 1, stage = "accepted" PROVE FALSE
    BY DEF OneByteNoticed
  <2>1. LengthTest /\ BodyTest
    BY DEF IInv, StageInv
  <2>2. PICK i \in DOMAIN Frame, b \in Byte : Frame[i] # b /\ line = [Frame EXCEPT ![i] = b]
    BY DEF IInv, LineInv
  <2> QED
    BY <2>1, <2>2, DamagedLine
<1> QED
  BY <1>1, Invariance, PTL

\* What packaging_msg carries is the payload, if its size has a 16-bit length; otherwise
\* it has the size modulo 65536.
LEMMA CarriedWhole ==
  ASSUME payload \in Payload
  PROVE  /\ Size(payload) \in Word =>
              Size(Carried(payload)) = Size(payload) /\ Carried(payload).bytes = payload.bytes
         /\ Size(Carried(payload)) = U16(Size(payload))
<1>1. PICK b, z, d : b = payload.bytes /\ z = payload.zeros /\ d = U16(Size(payload))
  OBVIOUS
<1>2. b \in Seq(Byte) /\ z \in Nat /\ Len(b) \in Nat /\ Size(payload) = Len(b) + z
  BY <1>1 DEF Payload, Size
<1>3. d \in Nat
  BY <1>1, <1>2 DEF U16
<1>4. PICK n : n = IF d < Len(b) THEN d ELSE Len(b)
  OBVIOUS
<1>5. Carried(payload) = [bytes |-> SubSeq(b, 1, n), zeros |-> d - n]
  BY <1>1, <1>4 DEF Carried
<1>6. n \in 0..Len(b)
  BY <1>2, <1>3, <1>4
<1>7. Len(SubSeq(b, 1, n)) = n
  BY <1>2, <1>6
<1>8. Size(Carried(payload)) = d
  BY <1>3, <1>5, <1>6, <1>7 DEF Size
<1>9. ASSUME Size(payload) \in Word
      PROVE  d = Size(payload) /\ n = Len(b)
  <2>1. PICK w \in Nat : w = Size(payload) /\ w <= 65535
    BY <1>9, WordFacts
  <2>2. w % 65536 = w
    BY <2>1
  <2> QED
    BY <1>1, <1>2, <1>4, <2>1, <2>2 DEF U16
<1>10. SubSeq(b, 1, Len(b)) = b
  BY <1>2
<1> QED
  BY <1>1, <1>5, <1>8, <1>9, <1>10

\* With at most one byte damaged, what a handler is given is what was sent: topic id,
\* length and, up to the greatest length, the whole payload.
THEOREM OnlySentAccepted == Spec => []AcceptedAsSent
<1>1. IInv => AcceptedAsSent
  <2> SUFFICES ASSUME IInv, stage = "accepted", damage <= 1
               PROVE  /\ topic_id = topic
                      /\ Size(payload) \in Word => length = Size(payload) /\ Body = payload.bytes
                      /\ Size(payload) \notin Word =>
                           length = U16(Size(payload)) /\ Body = Carried(payload).bytes
    BY DEF AcceptedAsSent
  <2>1. LengthTest /\ BodyTest
    BY DEF IInv, StageInv
  <2>2. damage = 0 \/ damage = 1
    BY FramingAssumption DEF IInv, TypeOK
  <2>3. damage # 1
    <3> SUFFICES ASSUME damage = 1 PROVE FALSE
      OBVIOUS
    <3>1. PICK i \in DOMAIN Frame, b \in Byte : Frame[i] # b /\ line = [Frame EXCEPT ![i] = b]
      BY DEF IInv, LineInv
    <3> QED
      BY <2>1, <3>1, DamagedLine
  <2>4. line = Frame
    BY <2>2, <2>3 DEF IInv, LineInv
  <2>5. /\ topic_id = topic /\ length = Size(Carried(payload))
        /\ Body = Carried(payload).bytes
    BY <2>4, IntactLine DEF IInv, StageInv
  <2>6. payload \in Payload
    BY FrameIsBytes DEF IInv, TypeOK
  <2> QED
    BY <2>5, <2>6, CarriedWhole
<1> QED
  BY <1>1, Invariance, PTL

\* An intact frame is rejected for one reason only: read_body adds the two datasums as
\* int, and their sum carries.
THEOREM CarryIsOnlyReason == Spec => []IntactRejectedOnlyOnCarry
<1>1. IInv => IntactRejectedOnlyOnCarry
  <2> SUFFICES ASSUME IInv, stage = "rejected", damage = 0
               PROVE  DatasumBytes(Carried(payload).bytes) + DatasumU16(topic) > 255
    BY DEF IntactRejectedOnlyOnCarry
  <2>1. line = Frame
    BY DEF IInv, LineInv
  <2>2. ~BodyTest
    BY <2>1, IntactLine DEF IInv, StageInv
  <2>3. PICK s, d \in Byte : s = DatasumBytes(Carried(payload).bytes) /\ d = DatasumU16(topic)
    BY FrameBytes, DatasumBytesIsByte, DatasumIsByte
  <2>4. ~(s + d <= 255)
    BY <2>1, <2>2, <2>3, IntactLine
  <2> QED
    BY <2>3, <2>4 DEF Byte
<1> QED
  BY <1>1, Invariance, PTL

\* The verdict of read_body, where it is positive, is that of the sniffer, which adds
\* topic id and payload before it reduces the sum to eight bits.
THEOREM SnifferAgrees == Spec => []AcceptedMeansSnifferAgrees
<1>1. IInv => AcceptedMeansSnifferAgrees
  <2> SUFFICES ASSUME IInv, stage = "accepted" PROVE SnifferVerifies
    BY DEF AcceptedMeansSnifferAgrees
  <2>1. BodyTest
    BY DEF IInv, StageInv
  <2>2. line \in Seq(Byte) /\ Len(line) \in Nat /\ Len(line) >= 6
    BY FrameIsBytes DEF IInv, TypeOK, LineInv
  <2>3. PICK low, high, check \in Byte : low = line[4] /\ high = line[5] /\ check = Checksum
    BY <2>2 DEF Checksum
  <2>4. PICK s \in Byte : s = DatasumBytes(Body)
    BY BodyElements, DatasumBytesIsByte
  <2>5. PICK d \in Byte : d = U8(low + high)
    BY ByteSumIsByte
  <2>6. s + d + check = 255
    BY <2>1, <2>3, <2>4, <2>5, WordFromBytes DEF BodyTest, BodyVerifies
  <2>7. U8(low + high + s) = d + s
    <3>1. d = IF low + high < 256 THEN low + high ELSE low + high - 256
      BY <2>5, ByteSum
    <3>2. d + s <= 255
      BY <2>6 DEF Byte
    <3> QED
      BY <3>1, <3>2 DEF U8, Byte
  <2>8. U8(255 - (d + s)) = check
    <3>1. d + s \in Byte /\ 255 - (d + s) = check
      BY <2>6 DEF Byte
    <3>2. U8(255 - (d + s)) = 255 - (d + s)
      BY <3>1, ComplementIsByte
    <3> QED
      BY <3>1, <3>2
  <2> QED
    BY <2>3, <2>4, <2>7, <2>8 DEF SnifferVerifies, Checksum
<1> QED
  BY <1>1, Invariance, PTL
=============================================================================
