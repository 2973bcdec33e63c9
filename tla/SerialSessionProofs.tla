--------------------------- MODULE SerialSessionProofs ---------------------------
(***************************************************************************)
(* What holds of the session for every set of frames, every capacity and   *)
(* every kind of damage.  ChainInv says which bytes a handler has when it  *)
(* is due; RoutingInv relates the tables to the accepted frames; CleanInv  *)
(* says that on a clean line the session stands in one of the frames sent, *)
(* having accepted the sound ones before it.                               *)
(***************************************************************************)
EXTENDS SerialSession, RosserialFrameProofs

\* The first byte of the outstanding read, or of the bytes a handler is due for, and
\* how many bytes that is.
Start == taken - Len(chunk)
Pending == IF asked # 0 THEN asked ELSE Len(chunk)

ReaderTypes ==
  /\ stream \in Seq(Byte)
  /\ mode \in {"fresh", "open", "closed"}
  /\ asked \in 0..Capacity
  /\ chunk \in Seq(Nat)
  /\ taken \in 0..Len(stream)
  /\ stage \in {"none", "first", "second", "length", "body", "refused", "failed"}

\* The bytes of a chunk are consecutive, and the stage says how far the session is.
ReaderInv ==
  /\ Len(chunk) <= taken
  /\ \A i \in 1..Len(chunk) : chunk[i] = Start + i - 1
  /\ stage = "none" <=> mode = "fresh"
  /\ stage \in {"refused", "failed"} <=> mode = "closed"
  /\ mode # "open" => asked = 0 /\ chunk = <<>>
  /\ mode = "open" => (asked # 0 <=> chunk = <<>>)
  /\ mode = "fresh" => taken = 0

\* A handler has behind it the bytes that were read to get there.
StageInv ==
  /\ stage \in {"first", "second"} => Pending = 1
  /\ stage = "length" => Pending = 5
  /\ stage = "second" => Start >= 1
  /\ stage = "length" => Start >= 2
  /\ stage = "body" => Start >= 7

Stages == {"first", "second", "length", "body"}

Asks(n, callback) ==
  /\ mode' = "open" /\ stage' = callback
  /\ Pending' = n /\ Start' = taken

Stops == mode' = "closed" /\ stage' = "refused" /\ taken' = taken

LEMMA ReadOutcome ==
  ASSUME ReaderTypes, ReaderInv, stream' = stream,
         NEW n \in Nat \ {0}, NEW callback \in Stages, read(n, callback)
  PROVE  /\ ReaderTypes' /\ ReaderInv' /\ node' = node
         /\ Asks(n, callback) \/ Stops
<1>1. Capacity \in Nat
  BY SessionAssumption
<1>2. taken \in Nat /\ Len(stream) \in Nat /\ taken <= Len(stream) /\ stream \in Seq(Byte)
  BY DEF ReaderTypes
<1>3. CASE Reader!Refuse(n) /\ stage' = "refused"
  <2>1. mode' = "closed" /\ asked' = 0 /\ chunk' = <<>> /\ taken' = taken
    BY <1>3 DEF Reader!Refuse, Reader!Wait
  <2>2. ReaderTypes'
    BY <1>1, <1>2, <1>3, <2>1 DEF ReaderTypes
  <2>3. ReaderInv'
    BY <1>2, <1>3, <2>1 DEF ReaderInv, Start
  <2> QED
    BY <1>3, <2>1, <2>2, <2>3 DEF Stops, read
<1>4. CASE Reader!Request(n) /\ taken' <= Len(stream) /\ stage' = callback
  <2>1. mode' = "open" /\ n \in 1..Capacity
    BY <1>4 DEF Reader!Request
  <2>2. CASE Reader!Wait(n)
    <3>1. asked' = n /\ chunk' = <<>> /\ taken' = taken
      BY <2>2 DEF Reader!Wait
    <3>2. ReaderTypes'
      BY <1>1, <1>2, <1>4, <2>1, <3>1 DEF ReaderTypes, Stages
    <3>3. ReaderInv'
      BY <1>2, <1>4, <2>1, <3>1 DEF ReaderInv, Start, Stages
    <3>4. Asks(n, callback)
      BY <1>2, <1>4, <2>1, <3>1 DEF Asks, Pending, Start
    <3> QED
      BY <3>2, <3>3, <3>4 DEF read
  <2>3. CASE Reader!HandOut(n)
    <3>1. asked' = 0 /\ chunk' = [i \in 1..n |-> taken + i - 1] /\ taken' = taken + n
      BY <2>3 DEF Reader!HandOut, Reader!NextBytes
    <3>2. \A i \in 1..n : taken + i - 1 \in Nat
      BY <1>2
    <3>3. chunk' \in Seq(Nat) /\ Len(chunk') = n /\ \A i \in 1..n : chunk'[i] = taken + i - 1
      BY <3>1, <3>2
    <3>4. chunk' # <<>>
      BY <3>3
    <3>5. ReaderTypes'
      BY <1>1, <1>2, <1>4, <2>1, <3>1, <3>3 DEF ReaderTypes, Stages
    <3>6. ReaderInv'
      <4>1. Start' = taken /\ Len(chunk') <= taken'
        BY <1>2, <3>1, <3>3 DEF Start
      <4>2. \A i \in 1..Len(chunk') : chunk'[i] = Start' + i - 1
        BY <3>3, <4>1
      <4>3. stage' \in Stages /\ asked' = 0
        BY <1>4, <3>1
      <4> QED
        BY <2>1, <3>4, <4>1, <4>2, <4>3 DEF ReaderInv, Stages
    <3>7. Asks(n, callback)
      BY <1>2, <1>4, <2>1, <3>1, <3>3 DEF Asks, Pending, Start
    <3> QED
      BY <3>5, <3>6, <3>7 DEF read
  <2> QED
    BY <1>4, <2>2, <2>3 DEF Reader!Request
<1> QED
  BY <1>3, <1>4 DEF read

\* What a handler finds when it is due.
LEMMA DueFacts ==
  ASSUME ReaderTypes, ReaderInv, NEW callback, Due(callback)
  PROVE  /\ mode = "open" /\ asked = 0 /\ Pending = Len(chunk)
         /\ Len(chunk) \in Nat \ {0} /\ Start \in Nat /\ taken = Start + Len(chunk)
         /\ taken <= Len(stream)
         /\ \A i \in 1..Len(chunk) : In(i) = stream[Start + i] /\ In(i) \in Byte
<1>1. /\ stream \in Seq(Byte) /\ Len(stream) \in Nat
      /\ taken \in Nat /\ taken <= Len(stream) /\ chunk \in Seq(Nat) /\ asked \in Nat
  BY SessionAssumption DEF ReaderTypes
<1>2. chunk # <<>> /\ mode = "open" /\ asked = 0
  BY DEF Due, ReaderInv, ReaderTypes
<1>3. Len(chunk) \in Nat \ {0}
  BY <1>1, <1>2
<1>4. Start \in Nat /\ taken = Start + Len(chunk)
  BY <1>1, <1>3 DEF ReaderInv, Start
<1>5. ASSUME NEW i \in 1..Len(chunk)
      PROVE  In(i) = stream[Start + i] /\ In(i) \in Byte
  <2>1. chunk[i] = Start + i - 1
    BY DEF ReaderInv
  <2>2. chunk[i] + 1 = Start + i /\ Start + i \in 1..Len(stream)
    BY <1>1, <1>3, <1>4, <2>1
  <2> QED
    BY <1>1, <2>2 DEF In
<1> QED
  BY <1>1, <1>2, <1>3, <1>4, <1>5 DEF Pending

----------------------------------------------------------------------------
\* The bytes of a frame, and of a damaged one

LEMMA EncodeLayout ==
  ASSUME NEW f, f.topic \in Word, f.body \in Seq(Byte), Len(f.body) \in Word
  PROVE  IsEncoded(Encode(f), f.topic, f.body)
<1>1. PICK topic, body : topic = f.topic /\ body = f.body
  OBVIOUS
<1>2. IsEncoded(Synced(topic, body), topic, body)
  BY <1>1, SyncedLayout
<1>3. Encode(f) = Synced(topic, body)
  BY <1>1 DEF Encode, Synced
<1> QED
  BY <1>1, <1>2, <1>3

LEMMA FramesAreEncoded ==
  ASSUME NEW f \in Frames
  PROVE  f.topic \in Word /\ f.body \in Seq(Byte) /\ IsEncoded(Encode(f), f.topic, f.body)
<1>1. Frames \subseteq [topic : Word, body : Seq(Byte)]
      /\ \A g \in Frames : Len(g.body) \in Word
  BY SessionAssumption, Zenon
<1>2. f \in [topic : Word, body : Seq(Byte)] /\ Len(f.body) \in Word
  BY <1>1, Zenon
<1>3. f.topic \in Word /\ f.body \in Seq(Byte)
  BY <1>2
<1> QED
  BY <1>2, <1>3, EncodeLayout

LEMMA NoiseIsBytes == NoiseBytes \subseteq Byte
  BY SessionAssumption, Zenon

\* Bytes are overwritten with bytes.
LEMMA OverwrittenIsBytes ==
  ASSUME NEW s \in Seq(Byte), NEW n \in Nat, NEW b \in Overwritten(s, n)
  PROVE  b \in Seq(Byte)
<1>1. PICK i \in 0..(Len(s) - n), w \in [1..n -> NoiseBytes] : b = Over(s, i, w)
  BY DEF Overwritten
<1>2. w \in Seq(Byte)
  <2>1. \A j \in 1..n : w[j] \in Byte
    BY <1>1, NoiseIsBytes
  <2>2. w = [j \in 1..n |-> w[j]]
    BY <1>1
  <2> QED
    BY <2>1, <2>2
<1>3. PICK x, y : x = SubSeq(s, 1, i) /\ y = SubSeq(s, i + Len(w) + 1, Len(s))
  OBVIOUS
<1>4. x \in Seq(Byte) /\ y \in Seq(Byte)
  <2>1. Len(s) \in Nat /\ i \in Nat /\ i <= Len(s) /\ Len(w) \in Nat
    BY <1>1, <1>2
  <2> QED
    BY <1>3, <2>1
<1>5. b = x \o w \o y
  BY <1>1, <1>3 DEF Over
<1> QED
  BY <1>2, <1>4, <1>5, ThreeParts

LEMMA ShiftedIsBytes ==
  ASSUME NEW s \in Seq(Byte), NEW b \in Shifted(s)
  PROVE  b \in Seq(Byte)
<1>1. CASE \E i \in DOMAIN s : b = RemoveAt(s, i)
  <2>1. PICK i \in 1..Len(s) : b = RemoveAt(s, i)
    BY <1>1
  <2>2. PICK x, y : x = SubSeq(s, 1, i - 1) /\ y = SubSeq(s, i + 1, Len(s))
    OBVIOUS
  <2>3. x \in Seq(Byte) /\ y \in Seq(Byte)
    BY <2>2
  <2>4. b = x \o y
    BY <2>1, <2>2 DEF RemoveAt
  <2> QED
    BY <2>3, <2>4
<1>2. CASE \E i \in DOMAIN s, c \in NoiseBytes : b = InsertAt(s, i, c)
  <2>1. PICK i \in 1..Len(s), c \in Byte : b = InsertAt(s, i, c)
    BY <1>2, NoiseIsBytes
  <2>2. PICK x, y, z : x = SubSeq(s, 1, i - 1) /\ y = <<c>> /\ z = SubSeq(s, i, Len(s))
    OBVIOUS
  <2>3. x \in Seq(Byte) /\ y \in Seq(Byte) /\ z \in Seq(Byte)
    BY <2>2
  <2>4. b = x \o y \o z
    BY <2>1, <2>2 DEF InsertAt
  <2> QED
    BY <2>3, <2>4, ThreeParts
<1> QED
  BY <1>1, <1>2 DEF Shifted

LEMMA DamagedIsBytes ==
  ASSUME NEW s \in Seq(Byte), NEW n \in Nat, NEW b \in Damaged(s, n)
  PROVE  b \in Seq(Byte)
<1>1. b \in Overwritten(s, n) \/ b \in Shifted(s)
  BY DEF Damaged
<1> QED
  BY <1>1, OverwrittenIsBytes, ShiftedIsBytes
----------------------------------------------------------------------------
\* The shape of the reader and of the chain of handlers

Shape == ReaderTypes /\ ReaderInv /\ StageInv

\* A read for the next stage, made when enough bytes have been taken for it.
LEMMA ReadKeepsShape ==
  ASSUME Shape, stream' = stream,
         NEW n \in Nat \ {0}, NEW callback \in Stages, read(n, callback),
         callback \in {"first", "second"} => n = 1,
         callback = "length" => n = 5,
         callback = "second" => taken >= 1,
         callback = "length" => taken >= 2,
         callback = "body" => taken >= 7
  PROVE  Shape' /\ node' = node
<1>1. ReaderTypes' /\ ReaderInv' /\ node' = node
  BY ReadOutcome DEF Shape
<1>2. Asks(n, callback) \/ Stops
  BY ReadOutcome DEF Shape
<1>3. CASE Asks(n, callback)
  <2>1. stage' = callback /\ Pending' = n /\ Start' = taken
    BY <1>3 DEF Asks
  <2> QED
    BY <1>1, <2>1 DEF Shape, StageInv
<1>4. CASE Stops
  <2>1. stage' = "refused"
    BY <1>4 DEF Stops
  <2> QED
    BY <1>1, <2>1 DEF Shape, StageInv
<1> QED
  BY <1>2, <1>3, <1>4

LEMMA HeadReadKeepsShape ==
  ASSUME Shape, stream' = stream, read_async_head
  PROVE  Shape' /\ node' = node
<1>1. read(1, "first") /\ "first" \in Stages
  BY DEF read_async_head, Stages
<1> QED
  BY <1>1, ReadKeepsShape

LEMMA ThrowKeepsShape ==
  ASSUME Shape, stream' = stream, Throw
  PROVE  Shape'
<1>1. mode' = mode /\ asked' = asked /\ chunk' = chunk /\ taken' = taken /\ stage' = stage
  BY DEF Throw, readerVars
<1>2. ReaderTypes'
  BY <1>1 DEF Shape, ReaderTypes
<1>3. ReaderInv' /\ StageInv'
  BY <1>1 DEF Shape, ReaderInv, StageInv, Start, Pending
<1> QED
  BY <1>2, <1>3 DEF Shape

\* The bytes a handler is due for, by its stage.
LEMMA StageFacts ==
  ASSUME Shape, NEW callback, Due(callback)
  PROVE  /\ Start \in Nat /\ taken = Start + Len(chunk) /\ taken <= Len(stream)
         /\ Len(chunk) \in Nat \ {0}
         /\ callback \in {"first", "second"} => Len(chunk) = 1
         /\ callback = "length" => Len(chunk) = 5
         /\ callback = "second" => taken >= 2
         /\ callback = "length" => taken >= 7
         /\ callback = "body" => taken >= 8 /\ Start >= 7
         /\ \A i \in 1..Len(chunk) : In(i) = stream[Start + i] /\ In(i) \in Byte
<1>1. ReaderTypes /\ ReaderInv /\ StageInv
  BY DEF Shape
<1>2. stage = callback
  BY DEF Due
<1>3. /\ Pending = Len(chunk) /\ Len(chunk) \in Nat \ {0} /\ Start \in Nat
      /\ taken = Start + Len(chunk) /\ taken <= Len(stream)
  BY <1>1, DueFacts
<1>4. \A i \in 1..Len(chunk) : In(i) = stream[Start + i] /\ In(i) \in Byte
  BY <1>1, DueFacts
<1> QED
  BY <1>1, <1>2, <1>3, <1>4 DEF StageInv

LEMMA FirstKeepsShape == ASSUME Shape, read_async_first PROVE Shape'
<1>1. Due("first") /\ stream' = stream
  BY DEF read_async_first, lineVars
<1>2. taken \in Nat /\ taken >= 1
  BY <1>1, StageFacts
<1>3. read(1, "second") \/ read_async_head
  BY DEF read_async_first
<1>4. CASE read(1, "second")
  <2>1. "second" \in Stages
    BY DEF Stages
  <2> QED
    BY <1>1, <1>2, <1>4, <2>1, ReadKeepsShape
<1> QED
  BY <1>1, <1>3, <1>4, HeadReadKeepsShape

LEMMA SecondKeepsShape == ASSUME Shape, read_async_second PROVE Shape'
<1>1. Due("second") /\ stream' = stream
  BY DEF read_async_second, lineVars
<1>2. taken \in Nat /\ taken >= 2
  BY <1>1, StageFacts
<1>3. read(5, "length") \/ Throw \/ read_async_head
  BY DEF read_async_second
<1>4. CASE read(5, "length")
  <2>1. "length" \in Stages
    BY DEF Stages
  <2> QED
    BY <1>1, <1>2, <1>4, <2>1, ReadKeepsShape
<1> QED
  BY <1>1, <1>3, <1>4, HeadReadKeepsShape, ThrowKeepsShape

LEMMA LengthKeepsShape == ASSUME Shape, read_length PROVE Shape'
<1> DEFINE length == FromLowHigh(In(1), In(2))
<1>1. Due("length") /\ stream' = stream
  BY DEF read_length, lineVars
<1>2. taken \in Nat /\ taken >= 7 /\ In(1) \in Byte /\ In(2) \in Byte
  <2>1. taken \in Nat /\ taken >= 7 /\ Len(chunk) = 5
    BY <1>1, StageFacts
  <2>2. \A i \in 1..Len(chunk) : In(i) \in Byte
    BY <1>1, StageFacts
  <2> QED
    BY <2>1, <2>2
<1>3. length \in Word
  BY <1>2, WordFromBytes
<1>4. length + 1 \in Nat \ {0}
  BY <1>3, WordFacts
<1> HIDE DEF length
<1>5. read(length + 1, "body") \/ read_async_head
  BY DEF read_length, length
<1>6. CASE read(length + 1, "body")
  <2>1. "body" \in Stages
    BY DEF Stages
  <2> QED
    BY <1>1, <1>2, <1>4, <1>6, <2>1, ReadKeepsShape
<1> QED
  BY <1>1, <1>5, <1>6, HeadReadKeepsShape

LEMMA AcceptKeepsShape ==
  ASSUME Shape, NEW outcome, NEW pub, Accept(outcome, pub)
  PROVE  Shape'
<1>1. stream' = stream /\ (Throw \/ read_async_head)
  BY DEF Accept, lineVars
<1> QED
  BY <1>1, HeadReadKeepsShape, ThrowKeepsShape

Accepts ==
  NoCallback \/ RegistrationSkipped \/ RegistrationThrows \/ create_publisher
    \/ create_subscriber \/ handle

LEMMA AcceptsAccept ==
  ASSUME Accepts
  PROVE  \E outcome, pub : Accept(outcome, pub)
<1>1. CASE NoCallback
  BY <1>1, Zenon DEF NoCallback
<1>2. CASE RegistrationSkipped
  BY <1>2, Zenon DEF RegistrationSkipped
<1>3. CASE RegistrationThrows
  BY <1>3, Zenon DEF RegistrationThrows
<1>4. CASE create_publisher
  BY <1>4, Zenon DEF create_publisher
<1>5. CASE create_subscriber
  BY <1>5, Zenon DEF create_subscriber
<1>6. CASE handle
  BY <1>6, Zenon DEF handle
<1> QED
  BY <1>1, <1>2, <1>3, <1>4, <1>5, <1>6 DEF Accepts

LEMMA ArrivalKeepsShape == ASSUME Shape, BytesArrive \/ PortFails PROVE Shape'
<1>1. /\ stream \in Seq(Byte) /\ Len(stream) \in Nat /\ stream' = stream
      /\ taken \in Nat /\ taken <= Len(stream) /\ Capacity \in Nat /\ asked \in Nat
  BY SessionAssumption DEF Shape, ReaderTypes, BytesArrive, PortFails, lineVars
<1>2. ReaderTypes /\ ReaderInv /\ StageInv
  BY DEF Shape
<1>3. CASE BytesArrive
  <2>1. /\ mode = "open" /\ asked # 0 /\ mode' = mode /\ stage' = stage
        /\ asked' = 0 /\ chunk' = [i \in 1..asked |-> taken + i - 1]
        /\ taken' = taken + asked /\ taken + asked <= Len(stream)
    BY <1>3 DEF BytesArrive, Reader!Answer, Reader!HandOut, Reader!NextBytes
  <2>2. \A i \in 1..asked : taken + i - 1 \in Nat
    BY <1>1
  <2>3. /\ chunk' \in Seq(Nat) /\ Len(chunk') = asked /\ chunk' # <<>>
        /\ \A i \in 1..asked : chunk'[i] = taken + i - 1
    BY <1>1, <2>1, <2>2
  <2>4. chunk = <<>> /\ Len(chunk) = 0
    BY <1>2, <2>1 DEF ReaderInv
  <2>5. Start' = taken /\ Start = taken /\ Pending' = asked /\ Pending = asked
    BY <1>1, <2>1, <2>3, <2>4 DEF Start, Pending
  <2>6. ReaderTypes'
    BY <1>1, <1>2, <2>1, <2>3 DEF ReaderTypes
  <2>7. ReaderInv'
    <3>1. Len(chunk') <= taken'
      BY <1>1, <2>1, <2>3
    <3>2. \A i \in 1..Len(chunk') : chunk'[i] = Start' + i - 1
      BY <2>3, <2>5
    <3> QED
      BY <1>2, <2>1, <2>3, <3>1, <3>2 DEF ReaderInv
  <2>8. StageInv'
    BY <1>2, <2>1, <2>5 DEF StageInv
  <2> QED
    BY <2>6, <2>7, <2>8 DEF Shape
<1>4. CASE PortFails
  <2>1. /\ mode' = "closed" /\ stage' = "failed" /\ asked' = 0
        /\ chunk' = <<>> /\ taken' = taken
    BY <1>4 DEF PortFails, Reader!Fail, Reader!Wait
  <2>2. ReaderTypes'
    BY <1>1, <2>1 DEF ReaderTypes
  <2>3. ReaderInv'
    BY <1>1, <2>1 DEF ReaderInv, Start
  <2> QED
    BY <2>1, <2>2, <2>3 DEF Shape, StageInv
<1> QED
  BY <1>3, <1>4

LEMMA StartKeepsShape == ASSUME Shape, start_read PROVE Shape'
<1>1. stream' = stream /\ read_async_head
  BY DEF start_read, lineVars
<1> QED
  BY <1>1, HeadReadKeepsShape

LEMMA TransmitKeepsShape ==
  ASSUME Shape, NEW f, NEW bytes \in Seq(Byte), NEW damage, Transmit(f, bytes, damage)
  PROVE  Shape' /\ Len(stream') = Len(stream) + Len(bytes)
<1>1. /\ stream' = stream \o bytes /\ mode' = mode /\ asked' = asked /\ chunk' = chunk
      /\ taken' = taken /\ stage' = stage
  BY DEF Transmit, readerVars
<1>2. stream \in Seq(Byte) /\ taken \in 0..Len(stream)
  BY DEF Shape, ReaderTypes
<1>3. stream' \in Seq(Byte) /\ Len(stream') = Len(stream) + Len(bytes) /\ taken \in 0..Len(stream')
  BY <1>1, <1>2
<1>4. ReaderTypes'
  BY <1>1, <1>3 DEF Shape, ReaderTypes
<1>5. ReaderInv' /\ StageInv'
  BY <1>1 DEF Shape, ReaderInv, StageInv, Start, Pending
<1> QED
  BY <1>3, <1>4, <1>5 DEF Shape

Sends == (\E f \in Frames : SendFrame(f)) \/ (\E f \in Frames, n \in 1..Burst : SendDamaged(f, n))

LEMMA SendsTransmit ==
  ASSUME Sends
  PROVE  \E f \in Frames, bytes \in Seq(Byte), damage \in 0..Burst :
           /\ Transmit(f, bytes, damage)
           /\ IF damage = 0 THEN bytes = Encode(f) /\ noise' = noise
                            ELSE noise < MaxNoise /\ noise' = noise + 1
<1>0. Burst \in Nat
  BY SessionAssumption
<1>1. CASE \E f \in Frames : SendFrame(f)
  <2>1. PICK f \in Frames : SendFrame(f)
    BY <1>1
  <2>2. Transmit(f, Encode(f), 0) /\ noise' = noise
    BY <2>1 DEF SendFrame
  <2>3. Encode(f) \in Seq(Byte)
    BY FramesAreEncoded DEF IsEncoded
  <2>4. 0 \in 0..Burst
    BY <1>0
  <2> QED
    BY <2>2, <2>3, <2>4
<1>2. CASE \E f \in Frames, n \in 1..Burst : SendDamaged(f, n)
  <2>1. PICK f \in Frames, n \in 1..Burst : SendDamaged(f, n)
    BY <1>2
  <2>2. PICK bytes \in Damaged(Encode(f), n) : Transmit(f, bytes, n)
    BY <2>1 DEF SendDamaged
  <2>3. noise < MaxNoise /\ noise' = noise + 1
    BY <2>1 DEF SendDamaged
  <2>4. Encode(f) \in Seq(Byte)
    BY FramesAreEncoded DEF IsEncoded
  <2>5. n \in Nat /\ n # 0 /\ n \in 0..Burst
    BY <1>0
  <2>6. bytes \in Seq(Byte)
    BY <2>4, <2>5, DamagedIsBytes
  <2> QED
    BY <2>2, <2>3, <2>5, <2>6
<1> QED
  BY <1>1, <1>2 DEF Sends

\* The steps of the session, grouped by what they do to the reader.
LEMMA NextSteps ==
  ASSUME Next
  PROVE  \/ Sends \/ BytesArrive \/ PortFails \/ start_read \/ read_async_first
         \/ read_async_second \/ read_length \/ BodyRejected \/ Accepts
  BY DEF Next, Handlers, Sends, Accepts

LEMMA NextKeepsShape == ASSUME Shape, [Next]_vars PROVE Shape'
<1>1. CASE Sends
  <2>1. PICK f \in Frames, bytes \in Seq(Byte), damage \in 0..Burst : Transmit(f, bytes, damage)
    BY <1>1, SendsTransmit
  <2> QED
    BY <2>1, TransmitKeepsShape
<1>2. CASE BodyRejected
  <2>1. stream' = stream /\ read_async_head
    BY <1>2 DEF BodyRejected, lineVars
  <2> QED
    BY <2>1, HeadReadKeepsShape
<1>3. CASE Accepts
  BY <1>3, AcceptsAccept, AcceptKeepsShape
<1>4. CASE UNCHANGED vars
  <2>1. /\ stream' = stream /\ mode' = mode /\ asked' = asked /\ chunk' = chunk
        /\ taken' = taken /\ stage' = stage
    BY <1>4 DEF vars, lineVars, readerVars
  <2> QED
    BY <2>1 DEF Shape, ReaderTypes, ReaderInv, StageInv, Start, Pending
<1>5. \/ Sends \/ BytesArrive \/ PortFails \/ start_read \/ read_async_first
      \/ read_async_second \/ read_length \/ BodyRejected \/ Accepts \/ UNCHANGED vars
  BY NextSteps
<1> QED
  BY <1>1, <1>2, <1>3, <1>4, <1>5, ArrivalKeepsShape, StartKeepsShape, FirstKeepsShape,
     SecondKeepsShape, LengthKeepsShape
----------------------------------------------------------------------------
\* Type correctness of the rest

SentFrame ==
  [topic : Word, body : Seq(Byte), from : Nat, until : Nat, damage : 0..Burst]
Outcomes == {"ignored", "exception", "publisher", "subscriber", "published"}
AcceptedFrame == [at : Nat, topic : Word, body : Seq(Byte), pub : Nat, outcome : Outcomes]
Handler == [does : {"create_publisher", "create_subscriber", "handle"}, pub : Nat]

LineTypes == sent \in Seq(SentFrame) /\ noise \in 0..MaxNoise

TableTypes ==
  /\ DOMAIN callback_ \subseteq Word
  /\ \A id \in DOMAIN callback_ : callback_[id] \in Handler
  /\ DOMAIN publisher_ \subseteq Word /\ DOMAIN subscriber_ \subseteq Word

SessionTypes ==
  /\ topic_id \in Word
  /\ node \in {"up", "terminated"}
  /\ accepted \in Seq(AcceptedFrame)

LEMMA TypesByPart == TypeOK <=> ReaderTypes /\ LineTypes /\ TableTypes /\ SessionTypes
<1>1. TypeOK => ReaderTypes
  BY DEF TypeOK, ReaderTypes
<1>2. TypeOK => LineTypes
  BY DEF TypeOK, LineTypes, SentFrame
<1>3. TypeOK => TableTypes
  BY DEF TypeOK, TableTypes, Handler
<1>4. TypeOK => SessionTypes
  BY DEF TypeOK, SessionTypes, AcceptedFrame, Outcomes
<1>5. ReaderTypes /\ LineTypes /\ TableTypes /\ SessionTypes => TypeOK
  BY DEF TypeOK, ReaderTypes, LineTypes, SentFrame, TableTypes, Handler, SessionTypes,
         AcceptedFrame, Outcomes
<1> QED
  BY <1>1, <1>2, <1>3, <1>4, <1>5

LEMMA TransmitAppends ==
  ASSUME Shape, LineTypes, NEW f \in Frames, NEW bytes \in Seq(Byte), NEW damage \in 0..Burst,
         Transmit(f, bytes, damage)
  PROVE  /\ sent' \in Seq(SentFrame) /\ Len(sent') = Len(sent) + 1
         /\ \A i \in 1..Len(sent) : sent'[i] = sent[i]
         /\ sent'[Len(sent) + 1] =
              [topic |-> f.topic, body |-> f.body, from |-> Len(stream),
               until |-> Len(stream) + Len(bytes), damage |-> damage]
<1>1. PICK g : g = [topic |-> f.topic, body |-> f.body, from |-> Len(stream),
                    until |-> Len(stream) + Len(bytes), damage |-> damage]
  OBVIOUS
<1>2. sent' = Append(sent, g)
  BY <1>1 DEF Transmit
<1>3. f.topic \in Word /\ f.body \in Seq(Byte)
  BY FramesAreEncoded
<1>4. Len(stream) \in Nat /\ Len(bytes) \in Nat
  BY DEF Shape, ReaderTypes
<1>5. g \in SentFrame
  BY <1>1, <1>3, <1>4 DEF SentFrame
<1>6. sent \in Seq(SentFrame)
  BY DEF LineTypes
<1>7. /\ sent' \in Seq(SentFrame) /\ Len(sent') = Len(sent) + 1
      /\ \A i \in 1..Len(sent) : sent'[i] = sent[i]
      /\ sent'[Len(sent) + 1] = g
  BY <1>2, <1>5, <1>6
<1> QED
  BY <1>1, <1>7

\* The body read_body tests, and where the frame it belongs to starts.
LEMMA BodyFacts ==
  ASSUME Shape, Due("body")
  PROVE  /\ body_stream \in Seq(Byte) /\ Len(body_stream) = Len(chunk) - 1
         /\ \A i \in 1..Len(body_stream) : body_stream[i] = stream[Start + i]
         /\ chunk[1] - 7 = Start - 7 /\ Start - 7 \in Nat
<1>1. /\ Start \in Nat /\ Start >= 7 /\ taken = Start + Len(chunk)
      /\ Len(chunk) \in Nat \ {0}
  BY StageFacts
<1>2. \A i \in 1..Len(chunk) : In(i) = stream[Start + i] /\ In(i) \in Byte
  BY StageFacts
<1>3. PICK m \in Nat : m = Len(chunk) - 1
  BY <1>1
<1>4. \A i \in 1..m : i \in 1..Len(chunk)
  BY <1>1, <1>3
<1>5. body_stream = [i \in 1..m |-> In(i)]
  BY <1>3 DEF body_stream
<1>6. \A i \in 1..m : In(i) \in Byte /\ In(i) = stream[Start + i]
  BY <1>2, <1>4
<1>7. body_stream \in Seq(Byte) /\ Len(body_stream) = m
  BY <1>5, <1>6
<1>8. \A i \in 1..m : body_stream[i] = stream[Start + i]
  BY <1>5, <1>6
<1>9. chunk[1] = Start + 1 - 1
  BY <1>1 DEF Shape, ReaderInv
<1> QED
  BY <1>1, <1>3, <1>7, <1>8, <1>9

LEMMA AcceptAppends ==
  ASSUME Shape, SessionTypes, NEW outcome \in Outcomes, NEW pub \in Nat, Accept(outcome, pub)
  PROVE  /\ accepted' \in Seq(AcceptedFrame) /\ Len(accepted') = Len(accepted) + 1
         /\ \A k \in 1..Len(accepted) : accepted'[k] = accepted[k]
         /\ accepted'[Len(accepted) + 1] =
              [at |-> Start - 7, topic |-> topic_id, body |-> body_stream,
               outcome |-> outcome, pub |-> pub]
         /\ SessionTypes'
<1>1. PICK a : a = [at |-> chunk[1] - 7, topic |-> topic_id, body |-> body_stream,
                    outcome |-> outcome, pub |-> pub]
  OBVIOUS
<1>2. accepted' = Append(accepted, a)
  BY <1>1 DEF Accept
<1>3. Due("body")
  BY DEF Accept
<1>4. body_stream \in Seq(Byte) /\ chunk[1] - 7 = Start - 7 /\ Start - 7 \in Nat
  BY <1>3, BodyFacts
<1>5. topic_id \in Word /\ accepted \in Seq(AcceptedFrame)
  BY DEF SessionTypes
<1>6. a \in AcceptedFrame
  BY <1>1, <1>4, <1>5 DEF AcceptedFrame
<1>7. /\ accepted' \in Seq(AcceptedFrame) /\ Len(accepted') = Len(accepted) + 1
      /\ \A k \in 1..Len(accepted) : accepted'[k] = accepted[k]
      /\ accepted'[Len(accepted) + 1] = a
  BY <1>2, <1>5, <1>6
<1>8. topic_id' = topic_id
  BY DEF Accept
<1>9. node' \in {"up", "terminated"}
  <2>1. Throw \/ read_async_head
    BY DEF Accept
  <2> QED
    BY <2>1 DEF Throw, read_async_head, read, SessionTypes
<1> QED
  BY <1>1, <1>4, <1>5, <1>7, <1>8, <1>9 DEF SessionTypes

LEMMA PutFacts ==
  ASSUME NEW table, NEW id, NEW value
  PROVE  /\ DOMAIN Put(table, id, value) = DOMAIN table \cup {id}
         /\ Put(table, id, value)[id] = value
         /\ \A k \in DOMAIN table : k # id => Put(table, id, value)[k] = table[k]
  BY DEF Put

\* The registration handlers name a topic id that is a byte of the body.
LEMMA RegisteredId ==
  ASSUME Shape, Due("body"), Registers(body_stream)
  PROVE  body_stream[1] \in Word
<1>1. body_stream \in Seq(Byte) /\ Len(body_stream) >= 5
  BY BodyFacts DEF Registers, TopicInfoRead
<1>2. body_stream[1] \in Byte
  BY <1>1
<1> QED
  BY <1>2, WordFacts DEF Byte

LEMMA ThisFrameIsNumber == ASSUME SessionTypes PROVE ThisFrame \in Nat \ {0}
  BY DEF SessionTypes, ThisFrame

\* How each kind of frame changes the tables.
LEMMA AcceptsTypes ==
  ASSUME Shape, SessionTypes, TableTypes, Accepts
  PROVE  SessionTypes' /\ TableTypes'
<1>0. ThisFrame \in Nat /\ 0 \in Nat
  BY ThisFrameIsNumber
<1>1. CASE NoCallback \/ RegistrationSkipped \/ RegistrationThrows
  <2>1. PICK outcome \in Outcomes : Accept(outcome, 0) /\ UNCHANGED tableVars
    BY <1>1, Zenon DEF NoCallback, RegistrationSkipped, RegistrationThrows, Outcomes
  <2>2. SessionTypes'
    BY <1>0, <2>1, AcceptAppends
  <2> QED
    BY <2>1, <2>2 DEF TableTypes, tableVars
<1>2. CASE create_publisher
  <2>1. Accept("publisher", ThisFrame) /\ "publisher" \in Outcomes
    BY <1>2 DEF create_publisher, Outcomes
  <2>2. SessionTypes'
    BY <1>0, <2>1, AcceptAppends
  <2>3. PICK id : id = body_stream[1]
    OBVIOUS
  <2>4. id \in Word
    BY <1>2, <2>1, <2>3, RegisteredId DEF create_publisher, Accept
  <2>5. PICK h : h = [does |-> "handle", pub |-> ThisFrame]
    OBVIOUS
  <2>6. /\ publisher_' = Put(publisher_, id, ThisFrame) /\ subscriber_' = subscriber_
        /\ callback_' = Put(callback_, id, h)
    BY <1>2, <2>3, <2>5 DEF create_publisher, Bind
  <2>7. h \in Handler
    BY <1>0, <2>5 DEF Handler
  <2>8. TableTypes'
    <3>1. DOMAIN publisher_' = DOMAIN publisher_ \cup {id}
      BY <2>6, PutFacts, Zenon
    <3>2. /\ DOMAIN callback_' = DOMAIN callback_ \cup {id} /\ callback_'[id] = h
          /\ \A k \in DOMAIN callback_ : k # id => callback_'[k] = callback_[k]
      BY <2>6 DEF Put
    <3> QED
      BY <2>4, <2>6, <2>7, <3>1, <3>2 DEF TableTypes
  <2> QED
    BY <2>2, <2>8
<1>3. CASE create_subscriber
  <2>1. Accept("subscriber", ThisFrame) /\ "subscriber" \in Outcomes
    BY <1>3 DEF create_subscriber, Outcomes
  <2>2. SessionTypes'
    BY <1>0, <2>1, AcceptAppends
  <2>3. PICK id : id = body_stream[1]
    OBVIOUS
  <2>4. id \in Word
    BY <1>3, <2>1, <2>3, RegisteredId DEF create_subscriber, Accept
  <2>5. /\ subscriber_' = Put(subscriber_, id, ThisFrame)
        /\ callback_' = callback_ /\ publisher_' = publisher_
    BY <1>3, <2>3 DEF create_subscriber
  <2>6. TableTypes'
    <3>1. DOMAIN subscriber_' = DOMAIN subscriber_ \cup {id}
      BY <2>5, PutFacts, Zenon
    <3> QED
      BY <2>4, <2>5, <3>1 DEF TableTypes
  <2> QED
    BY <2>2, <2>6
<1>4. CASE handle
  <2>1. PICK outcome \in Outcomes : Accept(outcome, callback_[topic_id].pub)
    BY <1>4 DEF handle, Outcomes
  <2>2. callback_[topic_id] \in Handler
    BY <1>4 DEF handle, RoutedTo, TableTypes
  <2>3. callback_[topic_id].pub \in Nat
    BY <2>2 DEF Handler
  <2>4. SessionTypes'
    BY <2>1, <2>3, AcceptAppends
  <2> QED
    BY <1>4, <2>4 DEF handle, TableTypes, tableVars
<1> QED
  BY <1>1, <1>2, <1>3, <1>4 DEF Accepts

\* Every other step leaves the tables and the accepted frames alone, but for
\* start_read, which registers the two handlers.
LEMMA OtherStepsTypes ==
  ASSUME Shape, SessionTypes, TableTypes,
         Sends \/ BytesArrive \/ PortFails \/ start_read \/ read_async_first
           \/ read_async_second \/ read_length \/ BodyRejected
  PROVE  SessionTypes' /\ TableTypes' /\ accepted' = accepted
<1>1. CASE Sends
  <2>1. PICK f, bytes, damage : Transmit(f, bytes, damage)
    BY <1>1, SendsTransmit, Zenon
  <2> QED
    BY <2>1 DEF Transmit, SessionTypes, TableTypes, tableVars
<1>2. CASE BytesArrive \/ PortFails
  BY <1>2 DEF BytesArrive, PortFails, SessionTypes, TableTypes, tableVars
<1>3. CASE start_read
  <2>1. /\ topic_id' = topic_id /\ accepted' = accepted
        /\ publisher_' = publisher_ /\ subscriber_' = subscriber_ /\ node' = node
    BY <1>3 DEF start_read, read_async_head, read
  <2>2. /\ DOMAIN callback_' = {0, 1}
        /\ callback_'[0] = [does |-> "create_publisher", pub |-> 0]
        /\ callback_'[1] = [does |-> "create_subscriber", pub |-> 0]
    BY <1>3 DEF start_read, ID_PUBLISHER, ID_SUBSCRIBER
  <2>3. callback_'[0] \in Handler /\ callback_'[1] \in Handler
    BY <2>2 DEF Handler
  <2>4. 0 \in Word /\ 1 \in Word
    BY WordFacts
  <2> QED
    BY <2>1, <2>2, <2>3, <2>4 DEF SessionTypes, TableTypes
<1>4. CASE read_async_first \/ read_async_second \/ BodyRejected
  <2>1. topic_id' = topic_id /\ accepted' = accepted /\ UNCHANGED tableVars
    BY <1>4 DEF read_async_first, read_async_second, BodyRejected
  <2>2. node' = node \/ node' = "terminated"
    BY <1>4 DEF read_async_first, read_async_second, BodyRejected, read_async_head, read, Throw
  <2> QED
    BY <2>1, <2>2 DEF SessionTypes, TableTypes, tableVars
<1>5. CASE read_length
  <2>1. accepted' = accepted /\ UNCHANGED tableVars
    BY <1>5 DEF read_length
  <2>2. node' = node
    BY <1>5 DEF read_length, read_async_head, read
  <2>3. topic_id' = topic_id \/ topic_id' = FromLowHigh(In(4), In(5))
    BY <1>5 DEF read_length
  <2>4. Len(chunk) = 5 /\ \A i \in 1..Len(chunk) : In(i) \in Byte
    BY <1>5, StageFacts DEF read_length
  <2>5. In(4) \in Byte /\ In(5) \in Byte
    BY <2>4
  <2>6. FromLowHigh(In(4), In(5)) \in Word
    BY <2>5, WordFromBytes
  <2>7. topic_id' \in Word
    BY <2>3, <2>6 DEF SessionTypes
  <2> QED
    BY <2>1, <2>2, <2>7 DEF SessionTypes, TableTypes, tableVars
<1> QED
  BY <1>1, <1>2, <1>3, <1>4, <1>5

LEMMA LineTypesKept ==
  ASSUME Shape, LineTypes, [Next]_vars
  PROVE  LineTypes'
<1>0. MaxNoise \in Nat
  BY SessionAssumption
<1>1. CASE Sends
  <2>1. PICK f \in Frames, bytes \in Seq(Byte), damage \in 0..Burst :
          /\ Transmit(f, bytes, damage)
          /\ IF damage = 0 THEN bytes = Encode(f) /\ noise' = noise
                            ELSE noise < MaxNoise /\ noise' = noise + 1
    BY <1>1, SendsTransmit
  <2>2. noise' \in 0..MaxNoise
    BY <1>0, <2>1 DEF LineTypes
  <2>3. sent' \in Seq(SentFrame)
    BY <2>1, TransmitAppends
  <2> QED
    BY <2>2, <2>3 DEF LineTypes
<1>2. CASE ~Sends
  <2>1. UNCHANGED lineVars
    <3>1. CASE Accepts
      <4>1. PICK outcome, pub : Accept(outcome, pub)
        BY <3>1, AcceptsAccept
      <4> QED
        BY <4>1 DEF Accept
    <3>2. CASE UNCHANGED vars
      BY <3>2 DEF vars
    <3>3. CASE ~Accepts /\ ~(UNCHANGED vars)
      <4>1. BytesArrive \/ PortFails \/ start_read \/ read_async_first
              \/ read_async_second \/ read_length \/ BodyRejected
        BY <1>2, <3>3, NextSteps
      <4> QED
        BY <4>1 DEF BytesArrive, PortFails, start_read, read_async_first, read_async_second,
                    read_length, BodyRejected
    <3> QED
      BY <3>1, <3>2, <3>3
  <2> QED
    BY <2>1 DEF lineVars, LineTypes
<1> QED
  BY <1>1, <1>2
----------------------------------------------------------------------------
\* The chain of handlers

ChainInv == Shape /\ LineTypes /\ TableTypes /\ SessionTypes

LEMMA InitChain == Init => ChainInv
<1> SUFFICES ASSUME Init PROVE ChainInv
  OBVIOUS
<1>1. /\ stream = <<>> /\ sent = <<>> /\ noise = 0 /\ mode = "fresh" /\ asked = 0
      /\ chunk = <<>> /\ taken = 0 /\ stage = "none" /\ topic_id = 0 /\ callback_ = <<>>
      /\ publisher_ = <<>> /\ subscriber_ = <<>> /\ node = "up" /\ accepted = <<>>
  BY DEF Init, Reader!Init
<1>2. MaxNoise \in Nat /\ Capacity \in Nat
  BY SessionAssumption
<1>3. ReaderTypes
  BY <1>1, <1>2 DEF ReaderTypes
<1>4. ReaderInv /\ StageInv
  BY <1>1 DEF ReaderInv, StageInv, Start
<1>5. LineTypes
  BY <1>1, <1>2 DEF LineTypes
<1>6. TableTypes
  BY <1>1 DEF TableTypes
<1>7. SessionTypes
  <2>1. 0 \in Word
    BY WordFacts
  <2> QED
    BY <1>1, <2>1 DEF SessionTypes
<1> QED
  BY <1>3, <1>4, <1>5, <1>6, <1>7 DEF Shape, ChainInv

LEMMA NextChain == ChainInv /\ [Next]_vars => ChainInv'
<1> SUFFICES ASSUME ChainInv, [Next]_vars PROVE ChainInv'
  OBVIOUS
<1>1. Shape /\ LineTypes /\ TableTypes /\ SessionTypes
  BY DEF ChainInv
<1>2. Shape' /\ LineTypes'
  BY <1>1, NextKeepsShape, LineTypesKept
<1>3. TableTypes' /\ SessionTypes'
  <2>1. CASE Accepts
    BY <1>1, <2>1, AcceptsTypes
  <2>2. CASE UNCHANGED vars
    BY <1>1, <2>2 DEF vars, tableVars, TableTypes, SessionTypes
  <2>3. CASE ~Accepts /\ ~(UNCHANGED vars)
    <3>1. Sends \/ BytesArrive \/ PortFails \/ start_read \/ read_async_first
            \/ read_async_second \/ read_length \/ BodyRejected
      BY <2>3, NextSteps
    <3> QED
      BY <1>1, <3>1, OtherStepsTypes
  <2> QED
    BY <2>1, <2>2, <2>3
<1> QED
  BY <1>2, <1>3 DEF ChainInv

THEOREM ChainInvariance == Spec => []ChainInv
<1> QED
  BY InitChain, NextChain, PTL DEF Spec

\* Type correctness of the session: in particular every handler finds the bytes it
\* indexes in its chunk, and no frame starts before the stream does.
THEOREM TypesHold == Spec => []TypeOK
<1>1. ChainInv => TypeOK
  BY TypesByPart DEF ChainInv, Shape
<1> QED
  BY <1>1, ChainInvariance, PTL
----------------------------------------------------------------------------
\* Routing: the tables and the frames that were accepted

\* A handler that is bound to a publisher has one, and there is nothing to serve before
\* start_read.
TableInv ==
  /\ mode = "fresh" => /\ accepted = <<>> /\ publisher_ = <<>> /\ subscriber_ = <<>>
                        /\ node = "up"
  /\ \A id \in DOMAIN callback_ : callback_[id].does = "handle" => id \in DOMAIN publisher_
  /\ \A id \in DOMAIN publisher_ :
       id \in DOMAIN callback_ /\ callback_[id] = [does |-> "handle", pub |-> publisher_[id]]

\* The three parts of LatestRegistrationServes.
PublishedByLatest ==
  \A n \in DOMAIN accepted :
    accepted[n].outcome = "published" =>
      IsLatest(accepted[n].pub, Registrations("publisher", accepted[n].topic, n))
PublisherIsLatest ==
  \A id \in DOMAIN publisher_ :
    IsLatest(publisher_[id], Registrations("publisher", id, ThisFrame))
SubscriberIsLatest ==
  \A id \in DOMAIN subscriber_ :
    IsLatest(subscriber_[id], Registrations("subscriber", id, ThisFrame))

RoutingInv == TableInv /\ PublishedByLatest /\ PublisherIsLatest /\ SubscriberIsLatest

LEMMA RoutingIsLatest == RoutingInv => LatestRegistrationServes
  BY DEF RoutingInv, TableInv, PublishedByLatest, PublisherIsLatest, SubscriberIsLatest,
         LatestRegistrationServes

\* One more frame was accepted.
Appended(outcome, pub) ==
  /\ accepted \in Seq(AcceptedFrame) /\ accepted' \in Seq(AcceptedFrame)
  /\ Len(accepted') = Len(accepted) + 1
  /\ \A k \in 1..Len(accepted) : accepted'[k] = accepted[k]
  /\ accepted'[Len(accepted) + 1] =
       [at |-> Start - 7, topic |-> topic_id, body |-> body_stream,
        outcome |-> outcome, pub |-> pub]

LEMMA AcceptIsAppended ==
  ASSUME Shape, SessionTypes, NEW outcome \in Outcomes, NEW pub \in Nat, Accept(outcome, pub)
  PROVE  Appended(outcome, pub)
  BY AcceptAppends DEF Appended, SessionTypes

\* Up to the frames there were, the registrations are the same.
LEMMA OldRegistrations ==
  ASSUME NEW outcome, NEW pub, Appended(outcome, pub),
         NEW o, NEW id, NEW n \in 1..(Len(accepted) + 1)
  PROVE  Registrations(o, id, n)' = Registrations(o, id, n)
<1>1. Len(accepted) \in Nat
  BY DEF Appended
<1>2. \A k \in 1..(n - 1) : accepted'[k] = accepted[k]
  BY <1>1 DEF Appended
<1> QED
  BY <1>2 DEF Registrations

LEMMA NewRegistrations ==
  ASSUME NEW outcome, NEW pub, Appended(outcome, pub), NEW o, NEW id
  PROVE  Registrations(o, id, ThisFrame)' =
           IF outcome = o /\ body_stream[1] = id
             THEN Registrations(o, id, ThisFrame) \cup {ThisFrame}
             ELSE Registrations(o, id, ThisFrame)
<1>1. PICK m \in Nat : m = Len(accepted)
  BY DEF Appended
<1>2. ThisFrame = m + 1 /\ ThisFrame' = m + 2
  BY <1>1 DEF ThisFrame, Appended
<1>3. Registrations(o, id, ThisFrame) =
        {k \in 1..m : accepted[k].outcome = o /\ accepted[k].body[1] = id}
  BY <1>2 DEF Registrations
<1>4. Registrations(o, id, ThisFrame)' =
        {k \in 1..(m + 1) : accepted'[k].outcome = o /\ accepted'[k].body[1] = id}
  BY <1>2 DEF Registrations
<1>5. \A k \in 1..m : accepted'[k] = accepted[k]
  BY <1>1 DEF Appended
<1>6. accepted'[m + 1].outcome = outcome /\ accepted'[m + 1].body = body_stream
  BY <1>1 DEF Appended
<1>7. \A k : k \in 1..(m + 1) <=> k \in 1..m \/ k = m + 1
  BY <1>1
<1>8. PICK R, S : R = Registrations(o, id, ThisFrame) /\ S = Registrations(o, id, ThisFrame)'
  OBVIOUS
<1>9. \A k : k \in R <=> k \in 1..m /\ accepted[k].outcome = o /\ accepted[k].body[1] = id
  BY <1>3, <1>8
<1>10. \A k : k \in S <=> /\ k \in 1..(m + 1)
                         /\ accepted'[k].outcome = o /\ accepted'[k].body[1] = id
  BY <1>4, <1>8
<1>11. \A k : k \in 1..m => (k \in S <=> k \in R)
  BY <1>5, <1>7, <1>9, <1>10
<1>12. m + 1 \in S <=> outcome = o /\ body_stream[1] = id
  BY <1>6, <1>7, <1>10
<1>13. \A k : k \in S => k \in 1..m \/ k = m + 1
  BY <1>7, <1>10
<1>14. \A k \in R : k \in 1..m
  BY <1>9
<1>15. m + 1 \in S => S = R \cup {m + 1}
  BY <1>11, <1>13, <1>14
<1>16. m + 1 \notin S => S = R
  BY <1>11, <1>13, <1>14
<1> QED
  BY <1>2, <1>8, <1>12, <1>15, <1>16

LEMMA RegistrationsBefore ==
  ASSUME SessionTypes, NEW o, NEW id, NEW k \in Registrations(o, id, ThisFrame)
  PROVE  k \in Nat /\ k < ThisFrame
<1>1. Len(accepted) \in Nat /\ ThisFrame = Len(accepted) + 1
  BY DEF SessionTypes, ThisFrame
<1>2. k \in 1..(ThisFrame - 1)
  BY DEF Registrations
<1> QED
  BY <1>1, <1>2

\* A frame that registers nothing for id leaves its latest registration what it was;
\* one that does is the latest.
LEMMA LatestStays ==
  ASSUME NEW outcome, NEW pub, Appended(outcome, pub), NEW o, NEW id, NEW v,
         ~(outcome = o /\ body_stream[1] = id),
         IsLatest(v, Registrations(o, id, ThisFrame))
  PROVE  IsLatest(v, Registrations(o, id, ThisFrame)')
<1>1. Registrations(o, id, ThisFrame)' = Registrations(o, id, ThisFrame)
  BY NewRegistrations
<1> QED
  BY <1>1

LEMMA NewIsLatest ==
  ASSUME SessionTypes, NEW outcome, NEW pub, Appended(outcome, pub), NEW id,
         body_stream[1] = id
  PROVE  IsLatest(ThisFrame, Registrations(outcome, id, ThisFrame)')
<1>1. Registrations(outcome, id, ThisFrame)' = Registrations(outcome, id, ThisFrame) \cup {ThisFrame}
  BY NewRegistrations
<1>2. \A k \in Registrations(outcome, id, ThisFrame) : k \in Nat /\ k < ThisFrame
  BY RegistrationsBefore
<1>3. ThisFrame \in Nat
  BY ThisFrameIsNumber
<1> QED
  BY <1>1, <1>2, <1>3 DEF IsLatest

\* The frames that were there are published by whom they were.
LEMMA PublishedKept ==
  ASSUME PublishedByLatest, NEW outcome, NEW pub, Appended(outcome, pub),
         outcome = "published" => IsLatest(pub, Registrations("publisher", topic_id, ThisFrame))
  PROVE  PublishedByLatest'
<1>1. PICK m \in Nat : m = Len(accepted)
  BY DEF Appended
<1>2. DOMAIN accepted = 1..m /\ DOMAIN accepted' = 1..(m + 1)
  BY <1>1 DEF Appended
<1>3. ASSUME NEW n \in 1..(m + 1), accepted'[n].outcome = "published"
      PROVE  IsLatest(accepted'[n].pub,
                      {k \in 1..(n - 1) : /\ accepted'[k].outcome = "publisher"
                                          /\ accepted'[k].body[1] = accepted'[n].topic})
  <2>1. PICK t : t = accepted'[n].topic
    OBVIOUS
  <2>2. Registrations("publisher", t, n)' = Registrations("publisher", t, n)
    BY <1>1, OldRegistrations
  <2>3. IsLatest(accepted'[n].pub, Registrations("publisher", t, n))
    <3>1. CASE n \in 1..m
      <4>1. accepted'[n] = accepted[n]
        BY <1>1, <3>1 DEF Appended
      <4> QED
        BY <1>2, <1>3, <2>1, <3>1, <4>1 DEF PublishedByLatest
    <3>2. CASE n = m + 1
      <4>1. /\ accepted'[n].outcome = outcome /\ accepted'[n].topic = topic_id
            /\ accepted'[n].pub = pub /\ n = ThisFrame
        BY <1>1, <3>2 DEF Appended, ThisFrame
      <4> QED
        BY <1>3, <2>1, <4>1
    <3> QED
      BY <1>1, <3>1, <3>2
  <2>4. Registrations("publisher", t, n)' =
          {k \in 1..(n - 1) : accepted'[k].outcome = "publisher" /\ accepted'[k].body[1] = t}
    BY DEF Registrations
  <2> QED
    BY <2>1, <2>2, <2>3, <2>4
<1> QED
  BY <1>2, <1>3 DEF PublishedByLatest, Registrations
LEMMA ReadIsNotFresh == ASSUME NEW n, NEW callback, read(n, callback) PROVE mode' # "fresh"
  BY DEF read, Reader!Request, Reader!Refuse

LEMMA AcceptIsNotFresh ==
  ASSUME Shape, NEW outcome, NEW pub, Accept(outcome, pub)
  PROVE  mode' # "fresh"
<1>1. mode = "open"
  BY DueFacts DEF Accept, Shape
<1>2. read_async_head \/ Throw
  BY DEF Accept
<1> QED
  BY <1>1, <1>2, ReadIsNotFresh DEF read_async_head, Throw, readerVars

\* A frame that registers nothing.
LEMMA PlainKeepsRouting ==
  ASSUME Shape, SessionTypes, RoutingInv, NEW outcome \in Outcomes \ {"publisher", "subscriber"},
         NEW pub \in Nat, Accept(outcome, pub), UNCHANGED tableVars,
         outcome = "published" => IsLatest(pub, Registrations("publisher", topic_id, ThisFrame))
  PROVE  RoutingInv'
<1>1. Appended(outcome, pub)
  BY AcceptIsAppended
<1>2. mode' # "fresh"
  BY AcceptIsNotFresh
<1>3. TableInv /\ PublishedByLatest /\ PublisherIsLatest /\ SubscriberIsLatest
  BY DEF RoutingInv
<1>4. callback_' = callback_ /\ publisher_' = publisher_ /\ subscriber_' = subscriber_
  BY DEF tableVars
<1>5. TableInv'
  BY <1>2, <1>3, <1>4 DEF TableInv
<1>6. PublishedByLatest'
  BY <1>1, <1>3, PublishedKept
<1>7. ASSUME NEW id \in DOMAIN publisher_
      PROVE  IsLatest(publisher_[id], Registrations("publisher", id, ThisFrame)')
  <2>1. PICK v : v = publisher_[id]
    OBVIOUS
  <2>2. IsLatest(v, Registrations("publisher", id, ThisFrame))
    BY <1>3, <2>1 DEF PublisherIsLatest
  <2>3. IsLatest(v, Registrations("publisher", id, ThisFrame)')
    BY <1>1, <2>2, LatestStays
  <2> QED
    BY <2>1, <2>3
<1>8. ASSUME NEW id \in DOMAIN subscriber_
      PROVE  IsLatest(subscriber_[id], Registrations("subscriber", id, ThisFrame)')
  <2>1. PICK v : v = subscriber_[id]
    OBVIOUS
  <2>2. IsLatest(v, Registrations("subscriber", id, ThisFrame))
    BY <1>3, <2>1 DEF SubscriberIsLatest
  <2>3. IsLatest(v, Registrations("subscriber", id, ThisFrame)')
    BY <1>1, <2>2, LatestStays
  <2> QED
    BY <2>1, <2>3
<1>9. PublisherIsLatest'
  BY <1>4, <1>7 DEF PublisherIsLatest
<1>10. SubscriberIsLatest'
  BY <1>4, <1>8 DEF SubscriberIsLatest
<1> QED
  BY <1>5, <1>6, <1>9, <1>10 DEF RoutingInv

\* handle publishes on the publisher of the topic id, which is the latest.
LEMMA HandleKeepsRouting ==
  ASSUME Shape, SessionTypes, TableTypes, RoutingInv, handle
  PROVE  RoutingInv'
<1>0. PICK pub : pub = callback_[topic_id].pub
  OBVIOUS
<1>1. PICK outcome \in {"exception", "published"} : Accept(outcome, pub)
  BY <1>0 DEF handle
<1>2. topic_id \in DOMAIN callback_ /\ callback_[topic_id].does = "handle"
  BY DEF handle, RoutedTo
<1>3. callback_[topic_id] \in Handler
  BY <1>2 DEF TableTypes
<1>4. pub \in Nat
  BY <1>0, <1>3 DEF Handler
<1>5. topic_id \in DOMAIN publisher_ /\ pub = publisher_[topic_id]
  <2>1. topic_id \in DOMAIN publisher_
    BY <1>2 DEF RoutingInv, TableInv
  <2>2. callback_[topic_id] = [does |-> "handle", pub |-> publisher_[topic_id]]
    BY <2>1 DEF RoutingInv, TableInv
  <2> QED
    BY <1>0, <2>1, <2>2
<1>6. IsLatest(pub, Registrations("publisher", topic_id, ThisFrame))
  BY <1>5 DEF RoutingInv, PublisherIsLatest
<1>7. UNCHANGED tableVars /\ outcome \in Outcomes \ {"publisher", "subscriber"}
  BY <1>1 DEF handle, Outcomes
<1> QED
  BY <1>1, <1>4, <1>6, <1>7, PlainKeepsRouting

LEMMA PublisherKeepsRouting ==
  ASSUME Shape, SessionTypes, RoutingInv, create_publisher
  PROVE  RoutingInv'
<1>0. ThisFrame \in Nat
  BY ThisFrameIsNumber
<1>1. Accept("publisher", ThisFrame) /\ "publisher" \in Outcomes
  BY DEF create_publisher, Outcomes
<1>2. Appended("publisher", ThisFrame)
  BY <1>0, <1>1, AcceptIsAppended
<1>3. mode' # "fresh"
  BY <1>1, AcceptIsNotFresh
<1>4. PICK id, h : id = body_stream[1] /\ h = [does |-> "handle", pub |-> ThisFrame]
  OBVIOUS
<1>5. /\ publisher_' = Put(publisher_, id, ThisFrame) /\ subscriber_' = subscriber_
      /\ callback_' = Put(callback_, id, h)
  BY <1>4 DEF create_publisher, Bind
<1>6. TableInv /\ PublishedByLatest /\ PublisherIsLatest /\ SubscriberIsLatest
  BY DEF RoutingInv
<1>7. /\ DOMAIN publisher_' = DOMAIN publisher_ \cup {id} /\ publisher_'[id] = ThisFrame
      /\ \A k \in DOMAIN publisher_ : k # id => publisher_'[k] = publisher_[k]
  BY <1>5 DEF Put
<1>8. /\ DOMAIN callback_' = DOMAIN callback_ \cup {id} /\ callback_'[id] = h
      /\ \A k \in DOMAIN callback_ : k # id => callback_'[k] = callback_[k]
  BY <1>5 DEF Put
<1>9. TableInv'
  BY <1>3, <1>4, <1>6, <1>7, <1>8 DEF TableInv
<1>10. PublishedByLatest'
  BY <1>2, <1>6, PublishedKept
<1>11. ASSUME NEW k \in DOMAIN publisher_'
       PROVE  IsLatest(publisher_'[k], Registrations("publisher", k, ThisFrame)')
  <2>1. CASE k = id
    <3>1. publisher_'[k] = ThisFrame /\ body_stream[1] = k
      BY <1>4, <1>7, <2>1
    <3>2. IsLatest(ThisFrame, Registrations("publisher", k, ThisFrame)')
      BY <1>2, <3>1, NewIsLatest
    <3> QED
      BY <3>1, <3>2
  <2>2. CASE k # id
    <3>1. PICK v : v = publisher_[k]
      OBVIOUS
    <3>2. k \in DOMAIN publisher_ /\ publisher_'[k] = v /\ body_stream[1] # k
      BY <1>4, <1>7, <2>2, <3>1
    <3>3. IsLatest(v, Registrations("publisher", k, ThisFrame))
      BY <1>6, <3>1, <3>2 DEF PublisherIsLatest
    <3>4. IsLatest(v, Registrations("publisher", k, ThisFrame)')
      BY <1>2, <3>2, <3>3, LatestStays
    <3> QED
      BY <3>2, <3>4
  <2> QED
    BY <2>1, <2>2
<1>12. ASSUME NEW k \in DOMAIN subscriber_
       PROVE  IsLatest(subscriber_[k], Registrations("subscriber", k, ThisFrame)')
  <2>1. PICK v : v = subscriber_[k]
    OBVIOUS
  <2>2. IsLatest(v, Registrations("subscriber", k, ThisFrame))
    BY <1>6, <2>1 DEF SubscriberIsLatest
  <2>3. IsLatest(v, Registrations("subscriber", k, ThisFrame)')
    BY <1>2, <2>2, LatestStays
  <2> QED
    BY <2>1, <2>3
<1>13. PublisherIsLatest'
  BY <1>11 DEF PublisherIsLatest
<1>14. SubscriberIsLatest'
  BY <1>5, <1>12 DEF SubscriberIsLatest
<1> QED
  BY <1>9, <1>10, <1>13, <1>14 DEF RoutingInv

LEMMA SubscriberKeepsRouting ==
  ASSUME Shape, SessionTypes, RoutingInv, create_subscriber
  PROVE  RoutingInv'
<1>0. ThisFrame \in Nat
  BY ThisFrameIsNumber
<1>1. Accept("subscriber", ThisFrame) /\ "subscriber" \in Outcomes
  BY DEF create_subscriber, Outcomes
<1>2. Appended("subscriber", ThisFrame)
  BY <1>0, <1>1, AcceptIsAppended
<1>3. mode' # "fresh"
  BY <1>1, AcceptIsNotFresh
<1>4. PICK id : id = body_stream[1]
  OBVIOUS
<1>5. /\ subscriber_' = Put(subscriber_, id, ThisFrame)
      /\ publisher_' = publisher_ /\ callback_' = callback_
  BY <1>4 DEF create_subscriber
<1>6. TableInv /\ PublishedByLatest /\ PublisherIsLatest /\ SubscriberIsLatest
  BY DEF RoutingInv
<1>7. /\ DOMAIN subscriber_' = DOMAIN subscriber_ \cup {id} /\ subscriber_'[id] = ThisFrame
      /\ \A k \in DOMAIN subscriber_ : k # id => subscriber_'[k] = subscriber_[k]
  BY <1>5 DEF Put
<1>8. TableInv'
  BY <1>3, <1>5, <1>6 DEF TableInv
<1>9. PublishedByLatest'
  BY <1>2, <1>6, PublishedKept
<1>10. ASSUME NEW k \in DOMAIN publisher_
       PROVE  IsLatest(publisher_[k], Registrations("publisher", k, ThisFrame)')
  <2>1. PICK v : v = publisher_[k]
    OBVIOUS
  <2>2. IsLatest(v, Registrations("publisher", k, ThisFrame))
    BY <1>6, <2>1 DEF PublisherIsLatest
  <2>3. IsLatest(v, Registrations("publisher", k, ThisFrame)')
    BY <1>2, <2>2, LatestStays
  <2> QED
    BY <2>1, <2>3
<1>11. ASSUME NEW k \in DOMAIN subscriber_'
       PROVE  IsLatest(subscriber_'[k], Registrations("subscriber", k, ThisFrame)')
  <2>1. CASE k = id
    <3>1. subscriber_'[k] = ThisFrame /\ body_stream[1] = k
      BY <1>4, <1>7, <2>1
    <3>2. IsLatest(ThisFrame, Registrations("subscriber", k, ThisFrame)')
      BY <1>2, <3>1, NewIsLatest
    <3> QED
      BY <3>1, <3>2
  <2>2. CASE k # id
    <3>1. PICK v : v = subscriber_[k]
      OBVIOUS
    <3>2. k \in DOMAIN subscriber_ /\ subscriber_'[k] = v /\ body_stream[1] # k
      BY <1>4, <1>7, <2>2, <3>1
    <3>3. IsLatest(v, Registrations("subscriber", k, ThisFrame))
      BY <1>6, <3>1, <3>2 DEF SubscriberIsLatest
    <3>4. IsLatest(v, Registrations("subscriber", k, ThisFrame)')
      BY <1>2, <3>2, <3>3, LatestStays
    <3> QED
      BY <3>2, <3>4
  <2> QED
    BY <2>1, <2>2
<1>12. PublisherIsLatest'
  BY <1>5, <1>10 DEF PublisherIsLatest
<1>13. SubscriberIsLatest'
  BY <1>11 DEF SubscriberIsLatest
<1> QED
  BY <1>8, <1>9, <1>12, <1>13 DEF RoutingInv

LEMMA AcceptsRouting ==
  ASSUME Shape, SessionTypes, TableTypes, RoutingInv, Accepts
  PROVE  RoutingInv'
<1>1. CASE NoCallback \/ RegistrationSkipped \/ RegistrationThrows
  <2>1. PICK outcome \in {"ignored", "exception"} : Accept(outcome, 0) /\ UNCHANGED tableVars
    BY <1>1, Zenon DEF NoCallback, RegistrationSkipped, RegistrationThrows
  <2>2. outcome \in Outcomes \ {"publisher", "subscriber"} /\ outcome # "published"
    BY <2>1 DEF Outcomes
  <2> QED
    BY <2>1, <2>2, PlainKeepsRouting
<1> QED
  BY <1>1, HandleKeepsRouting, PublisherKeepsRouting, SubscriberKeepsRouting DEF Accepts

\* Nothing else touches the tables or the accepted frames once they are in use.
LEMMA OtherStepsRouting ==
  ASSUME Shape, RoutingInv,
         \/ Sends \/ BytesArrive \/ PortFails \/ start_read \/ read_async_first
         \/ read_async_second \/ read_length \/ BodyRejected \/ UNCHANGED vars
  PROVE  RoutingInv'
<1>0. TableInv /\ PublishedByLatest /\ PublisherIsLatest /\ SubscriberIsLatest
  BY DEF RoutingInv
<1>1. CASE accepted' = accepted /\ (mode' = "fresh" => mode = "fresh" /\ node' = node)
             /\ UNCHANGED tableVars
  <2>1. TableInv'
    BY <1>0, <1>1 DEF TableInv, tableVars
  <2>2. PublishedByLatest' /\ PublisherIsLatest' /\ SubscriberIsLatest'
    BY <1>0, <1>1 DEF PublishedByLatest, PublisherIsLatest, SubscriberIsLatest, Registrations,
                      ThisFrame, tableVars
  <2> QED
    BY <2>1, <2>2 DEF RoutingInv
<1>2. CASE start_read
  <2>1. /\ mode = "fresh" /\ publisher_' = publisher_ /\ subscriber_' = subscriber_
        /\ accepted' = accepted /\ read_async_head
    BY <1>2 DEF start_read
  <2>2. accepted = <<>> /\ publisher_ = <<>> /\ subscriber_ = <<>>
    BY <1>0, <2>1 DEF TableInv
  <2>3. mode' # "fresh"
    BY <2>1, ReadIsNotFresh DEF read_async_head
  <2>4. \A id \in DOMAIN callback_' : callback_'[id].does # "handle"
    BY <1>2 DEF start_read
  <2>5. DOMAIN publisher_' = {} /\ DOMAIN subscriber_' = {} /\ DOMAIN accepted' = {}
    BY <2>1, <2>2
  <2> QED
    BY <2>3, <2>4, <2>5 DEF RoutingInv, TableInv, PublishedByLatest, PublisherIsLatest,
                            SubscriberIsLatest
<1>3. CASE Sends
  <2>1. PICK f, bytes, damage : Transmit(f, bytes, damage)
    BY <1>3, SendsTransmit, Zenon
  <2> QED
    BY <1>1, <2>1 DEF Transmit, readerVars
<1>4. CASE BytesArrive \/ PortFails
  <2>1. accepted' = accepted /\ UNCHANGED tableVars
    BY <1>4 DEF BytesArrive, PortFails
  <2>2. mode' # "fresh"
    BY <1>4 DEF BytesArrive, PortFails, Reader!Answer, Reader!Fail
  <2> QED
    BY <1>1, <2>1, <2>2
<1>5. CASE read_async_first \/ read_async_second \/ read_length \/ BodyRejected
  <2>1. accepted' = accepted /\ UNCHANGED tableVars
    BY <1>5 DEF read_async_first, read_async_second, read_length, BodyRejected
  <2>2. \/ read(1, "second") \/ read(5, "length")
        \/ read(FromLowHigh(In(1), In(2)) + 1, "body") \/ read(1, "first") \/ Throw
    BY <1>5 DEF read_async_first, read_async_second, read_length, BodyRejected,
                read_async_head
  <2>3. mode = "open"
    <3>1. \E callback : Due(callback)
      BY <1>5, Zenon DEF read_async_first, read_async_second, read_length, BodyRejected
    <3> QED
      BY <3>1, DueFacts DEF Shape
  <2>4. mode' # "fresh"
    BY <2>2, <2>3, ReadIsNotFresh DEF Throw, readerVars
  <2> QED
    BY <1>1, <2>1, <2>4
<1>6. CASE UNCHANGED vars
  BY <1>1, <1>6 DEF vars, readerVars
<1> QED
  BY <1>2, <1>3, <1>4, <1>5, <1>6

LEMMA InitRouting == Init => RoutingInv
<1> SUFFICES ASSUME Init PROVE RoutingInv
  OBVIOUS
<1>1. callback_ = <<>> /\ publisher_ = <<>> /\ subscriber_ = <<>> /\ accepted = <<>>
      /\ node = "up"
  BY DEF Init
<1>2. DOMAIN callback_ = {} /\ DOMAIN publisher_ = {} /\ DOMAIN subscriber_ = {}
      /\ DOMAIN accepted = {}
  BY <1>1
<1> QED
  BY <1>1, <1>2 DEF RoutingInv, TableInv, PublishedByLatest, PublisherIsLatest,
                    SubscriberIsLatest

LEMMA NextRouting == ChainInv /\ RoutingInv /\ [Next]_vars => RoutingInv'
<1> SUFFICES ASSUME ChainInv, RoutingInv, [Next]_vars PROVE RoutingInv'
  OBVIOUS
<1>1. Shape /\ TableTypes /\ SessionTypes
  BY DEF ChainInv
<1>2. \/ Sends \/ BytesArrive \/ PortFails \/ start_read \/ read_async_first
      \/ read_async_second \/ read_length \/ BodyRejected \/ Accepts \/ UNCHANGED vars
  BY NextSteps
<1>3. CASE Accepts
  BY <1>1, <1>3, AcceptsRouting
<1> QED
  BY <1>1, <1>2, <1>3, OtherStepsRouting

\* Data goes to the publisher its topic id was last registered for, and the handler and
\* the kept object never part: whatever the frames, their number and the damage done to
\* them, also when the ids of the registrations themselves are registered.
THEOREM LatestServes == Spec => []LatestRegistrationServes
<1>1. RoutingInv => LatestRegistrationServes
  BY RoutingIsLatest
<1>2. Init => RoutingInv
  BY InitRouting
<1>3. ChainInv /\ RoutingInv /\ [Next]_vars => RoutingInv'
  BY NextRouting
<1> QED
  BY <1>1, <1>2, <1>3, ChainInvariance, PTL DEF Spec
----------------------------------------------------------------------------
\* A clean line: where in which frame the session is

Boundary(i) == IF i \in DOMAIN sent THEN sent[i].from ELSE Len(stream)

\* The bytes of the sent frame f are where it says.
InPlace(f) ==
  /\ Len(f.body) \in Word
  /\ f.until = f.from + Len(Encode(f)) /\ f.until <= Len(stream)
  /\ \A j \in 1..Len(Encode(f)) : stream[f.from + j] = Encode(f)[j]

\* The stream is the frames that were sent, one after the other.
LineLayout ==
  /\ \A i \in DOMAIN sent : InPlace(sent[i])
  /\ \A i, j \in DOMAIN sent : i < j => sent[i].until <= sent[j].from
  /\ \A i \in DOMAIN sent : sent[i].until = Boundary(i + 1)
  /\ Boundary(1) = 0

\* Of the frames before the one numbered cur exactly those that do not carry were
\* accepted, in order.
IsFrame(a, f) == a.at = f.from /\ a.topic = f.topic /\ a.body = f.body /\ ~Carries(f)

AcceptedAreSent(cur) ==
  \A k \in DOMAIN accepted : \E i \in 1..(cur - 1) : IsFrame(accepted[k], sent[i])
AcceptedInOrder ==
  \A k \in DOMAIN accepted : \A j \in 1..(k - 1) : accepted[j].at < accepted[k].at
SoundAreAccepted(cur) ==
  \A i \in 1..(cur - 1) :
    ~Carries(sent[i]) => \E k \in DOMAIN accepted : Matches(accepted[k], sent[i])

AcceptedBefore(cur) == AcceptedAreSent(cur) /\ AcceptedInOrder /\ SoundAreAccepted(cur)

\* No frame from cur on has been read past.
ReadUpTo(cur) == \A i \in cur..Len(sent) : taken <= sent[i].until

\* The outstanding read, or the handler that is due, is for the bytes of cur that the
\* stage stands for.
Reading(cur) ==
  /\ stage \in {"none", "first"} => Start = Boundary(cur)
  /\ stage \in {"second", "length", "body"} => cur \in DOMAIN sent
  /\ stage = "second" => Start = sent[cur].from + 1
  /\ stage = "length" => Start = sent[cur].from + 2
  /\ stage = "body" => /\ Start = sent[cur].from + 7
                       /\ Pending = Len(sent[cur].body) + 1
                       /\ topic_id = sent[cur].topic

At(cur) ==
  /\ cur \in 1..(Len(sent) + 1)
  /\ AcceptedBefore(cur) /\ ReadUpTo(cur)
  /\ node = "up" /\ mode # "closed" => Reading(cur)

CleanInv == noise = 0 => LineLayout /\ \E cur \in Nat : At(cur)

\* What the bytes of a sent frame are.
Extends(f, n) ==
  /\ f \in SentFrame /\ f.topic \in Word /\ f.body \in Seq(Byte)
  /\ n = Len(f.body) /\ n \in Nat /\ n \in Word
  /\ f.from \in Nat /\ f.until \in Nat /\ f.until = f.from + 8 + n
  /\ f.until <= Len(stream) /\ Len(Encode(f)) = 8 + n

Reads(f, n) ==
  /\ stream[f.from + 1] = 255 /\ stream[f.from + 2] = 254
  /\ stream[f.from + 3] = n % 256 /\ stream[f.from + 4] = n \div 256
  /\ stream[f.from + 5] = LengthCheck(n)
  /\ stream[f.from + 6] = f.topic % 256 /\ stream[f.from + 7] = f.topic \div 256
  /\ \A j \in 1..n : stream[f.from + 7 + j] = f.body[j]
  /\ stream[f.from + 8 + n] = MessageCheck(DatasumBytes(f.body), DatasumU16(f.topic))

LEMMA FrameBytes ==
  ASSUME Shape, LineTypes, LineLayout, NEW i \in DOMAIN sent, NEW f, f = sent[i]
  PROVE  Extends(f, Len(f.body)) /\ Reads(f, Len(f.body))
<1>0. PICK n : n = Len(f.body)
  OBVIOUS
<1>1. f \in SentFrame /\ InPlace(f)
  BY DEF LineTypes, LineLayout
<1>2. f.topic \in Word /\ f.body \in Seq(Byte) /\ f.from \in Nat
  BY <1>1 DEF SentFrame
<1>3. n \in Nat /\ n \in Word
  BY <1>0, <1>1, <1>2 DEF InPlace
<1>4. PICK e : e = Encode(f)
  OBVIOUS
<1>5. IsEncoded(e, f.topic, f.body)
  BY <1>0, <1>2, <1>3, <1>4, EncodeLayout
<1>6. PICK b, from : b = f.body /\ from = f.from
  OBVIOUS
<1>7. Len(e) = 8 + n
  BY <1>0, <1>5 DEF IsEncoded
<1>8. f.until = from + (8 + n) /\ f.until <= Len(stream)
  BY <1>1, <1>4, <1>6, <1>7 DEF InPlace
<1>9. \A j \in 1..(8 + n) : stream[from + j] = e[j]
  BY <1>1, <1>4, <1>6, <1>7 DEF InPlace
<1>10. \A j \in 1..7 : j \in 1..(8 + n)
  BY <1>3
<1>11. /\ stream[from + 1] = e[1] /\ stream[from + 2] = e[2] /\ stream[from + 3] = e[3]
       /\ stream[from + 4] = e[4] /\ stream[from + 5] = e[5] /\ stream[from + 6] = e[6]
       /\ stream[from + 7] = e[7]
  BY <1>9, <1>10
<1>12. ASSUME NEW j \in 1..n
       PROVE  stream[from + 7 + j] = b[j]
  <2>1. 7 + j \in 1..(8 + n) /\ from + (7 + j) = from + 7 + j
    <3>1. from \in Nat /\ j \in Nat /\ j <= n
      BY <1>2, <1>3, <1>6
    <3> QED
      BY <1>3, <3>1
  <2>2. stream[from + (7 + j)] = e[7 + j]
    BY <1>9, <2>1
  <2>3. e[7 + j] = b[j]
    BY <1>0, <1>5, <1>6 DEF IsEncoded
  <2> QED
    BY <2>1, <2>2, <2>3
<1>13. stream[from + 8 + n] = e[8 + n]
  <2>1. 8 + n \in 1..(8 + n) /\ from + (8 + n) = from + 8 + n
    BY <1>2, <1>3, <1>6
  <2> QED
    BY <1>9, <2>1
<1>14. f.until = from + 8 + n
  BY <1>2, <1>3, <1>6, <1>8
<1>15. /\ e[1] = 255 /\ e[2] = 254 /\ e[3] = n % 256 /\ e[4] = n \div 256
       /\ e[5] = LengthCheck(n) /\ e[6] = f.topic % 256 /\ e[7] = f.topic \div 256
       /\ e[8 + n] = MessageCheck(DatasumBytes(f.body), DatasumU16(f.topic))
  BY <1>0, <1>5 DEF IsEncoded
<1>16. Reads(f, n)
  BY <1>6, <1>11, <1>12, <1>13, <1>15 DEF Reads
<1>17. f.until \in Nat
  BY <1>2, <1>3, <1>6, <1>14
<1>18. Extends(f, n)
  BY <1>0, <1>1, <1>2, <1>3, <1>4, <1>6, <1>7, <1>8, <1>14, <1>17 DEF Extends
<1> QED
  BY <1>0, <1>16, <1>18

\* The frames are consecutive, so what is not past cur is not past any later one.
LEMMA UntilIsOrdered ==
  ASSUME Shape, LineTypes, LineLayout, NEW i \in DOMAIN sent, NEW j \in DOMAIN sent, i <= j
  PROVE  /\ sent[i].until \in Nat /\ sent[j].until \in Nat
         /\ sent[i].until <= sent[j].until
<1>1. PICK f, g, m, n : f = sent[i] /\ g = sent[j] /\ m = Len(f.body) /\ n = Len(g.body)
  OBVIOUS
<1>2. f.until = f.from + 8 + m /\ f.from \in Nat /\ m \in Nat /\ f.until \in Nat
  BY <1>1, FrameBytes DEF Extends
<1>3. g.until = g.from + 8 + n /\ g.from \in Nat /\ n \in Nat /\ g.until \in Nat
  BY <1>1, FrameBytes DEF Extends
<1>4. \A p, q \in DOMAIN sent : p < q => sent[p].until <= sent[q].from
  BY DEF LineLayout
<1>5. i \in Nat /\ j \in Nat
  BY DEF LineTypes
<1>6. CASE i = j
  BY <1>1, <1>2, <1>6
<1>7. CASE i < j
  <2>1. sent[i].until <= sent[j].from
    BY <1>4, <1>7, Zenon
  <2>2. PICK a, b, c : a = f.until /\ b = g.from /\ c = g.until
    OBVIOUS
  <2>3. a \in Nat /\ b \in Nat /\ c = b + 8 + n /\ c \in Nat /\ a <= b
    BY <1>1, <1>2, <1>3, <2>1, <2>2
  <2>4. a <= c
    BY <1>3, <2>3
  <2> QED
    BY <1>1, <2>2, <2>3, <2>4
<1> QED
  BY <1>5, <1>6, <1>7
\* The n bytes asked for are those of cur that the stage callback stands for.
Fits(cur, n, callback) ==
  /\ callback = "first" => n = 1 /\ taken = Boundary(cur)
  /\ callback # "first" => cur \in DOMAIN sent /\ taken + n <= sent[cur].until
  /\ callback = "second" => taken = sent[cur].from + 1
  /\ callback = "length" => taken = sent[cur].from + 2
  /\ callback = "body" => /\ taken = sent[cur].from + 7
                          /\ n = Len(sent[cur].body) + 1
                          /\ topic_id' = sent[cur].topic

\* A read for bytes of the frame numbered cur leaves the session in that frame.
LEMMA ReadOn ==
  ASSUME Shape, LineTypes, LineLayout, sent' = sent, stream' = stream,
         NEW cur \in 1..(Len(sent) + 1), AcceptedBefore(cur)', ReadUpTo(cur),
         NEW n \in Nat \ {0}, NEW callback \in Stages, read(n, callback),
         Fits(cur, n, callback)
  PROVE  At(cur)'
<1>0. taken \in Nat /\ Len(sent) \in Nat /\ DOMAIN sent = 1..Len(sent)
  BY DEF Shape, ReaderTypes, LineTypes
<1>f. /\ callback = "first" => n = 1 /\ taken = Boundary(cur)
      /\ callback # "first" => cur \in DOMAIN sent /\ taken + n <= sent[cur].until
  BY DEF Fits
<1>1. ReaderTypes' /\ ReaderInv' /\ (Asks(n, callback) \/ Stops)
  BY ReadOutcome DEF Shape
<1>2. CASE Stops
  <2>1. mode' = "closed" /\ taken' = taken
    BY <1>2 DEF Stops
  <2>2. ReadUpTo(cur)'
    BY <2>1 DEF ReadUpTo
  <2> QED
    BY <2>1, <2>2 DEF At
<1>3. CASE Asks(n, callback)
  <2>1. mode' = "open" /\ stage' = callback /\ Pending' = n /\ Start' = taken
    BY <1>3 DEF Asks
  <2>2. taken' \in Nat /\ taken' <= taken + n
    <3>1. taken' \in Nat /\ Len(chunk') \in Nat /\ taken' - Len(chunk') = taken
      BY <1>1, <2>1 DEF ReaderTypes, Start
    <3>2. Len(chunk') = 0 \/ Len(chunk') = n
      BY <1>1, <2>1 DEF Pending, ReaderInv
    <3> QED
      BY <1>0, <3>1, <3>2
  <2>3. cur \in DOMAIN sent => taken + n <= sent[cur].until
    <3>1. CASE callback = "first" /\ cur \in DOMAIN sent
      <4>1. PICK f : f = sent[cur]
        OBVIOUS
      <4>2. taken = f.from /\ n = 1
        BY <1>f, <3>1, <4>1 DEF Boundary
      <4>3. f.from \in Nat /\ Len(f.body) \in Nat /\ f.until = f.from + 8 + Len(f.body)
        BY <3>1, <4>1, FrameBytes DEF Extends
      <4> QED
        BY <4>1, <4>2, <4>3
    <3> QED
      BY <1>f, <3>1
  <2>4. ASSUME NEW i \in cur..Len(sent)
        PROVE  taken' <= sent[i].until
    <3>1. cur \in DOMAIN sent /\ i \in DOMAIN sent /\ cur <= i
      BY <1>0
    <3>2. PICK a, b : a = sent[cur].until /\ b = sent[i].until
      OBVIOUS
    <3>3. a \in Nat /\ b \in Nat /\ a <= b
      BY <3>1, <3>2, UntilIsOrdered
    <3>4. taken + n <= a
      BY <2>3, <3>1, <3>2
    <3> QED
      BY <1>0, <2>2, <3>2, <3>3, <3>4
  <2>5. ReadUpTo(cur)'
    BY <2>4 DEF ReadUpTo
  <2>6. Reading(cur)'
    BY <2>1 DEF Reading, Stages, Boundary, Fits
  <2> QED
    BY <2>5, <2>6 DEF At
<1> QED
  BY <1>1, <1>2, <1>3

\* What holds where a handler is due.
Here(cur) ==
  /\ Shape /\ LineTypes /\ SessionTypes /\ LineLayout
  /\ cur \in 1..(Len(sent) + 1) /\ AcceptedBefore(cur) /\ ReadUpTo(cur) /\ Reading(cur)

LEMMA AcceptedStays ==
  ASSUME NEW cur, AcceptedBefore(cur), sent' = sent, accepted' = accepted
  PROVE  AcceptedBefore(cur)'
  BY DEF AcceptedBefore, AcceptedAreSent, AcceptedInOrder, SoundAreAccepted, Matches, Carries, Encode

LEMMA FirstStaysInFrame ==
  ASSUME NEW cur, Here(cur), read_async_first
  PROVE  At(cur)'
<1>1. /\ Shape /\ LineTypes /\ LineLayout /\ cur \in 1..(Len(sent) + 1)
      /\ AcceptedBefore(cur) /\ ReadUpTo(cur) /\ Reading(cur)
  BY DEF Here
<1>2. Due("first") /\ stage = "first" /\ sent' = sent /\ stream' = stream /\ accepted' = accepted
  BY DEF read_async_first, Due, lineVars
<1>3. Start \in Nat /\ taken = Start + 1 /\ taken <= Len(stream) /\ Len(chunk) = 1
  BY <1>1, <1>2, StageFacts
<1>4. In(1) = stream[Start + 1]
  <2>1. \A i \in 1..Len(chunk) : In(i) = stream[Start + i]
    BY <1>1, <1>2, StageFacts
  <2> QED
    BY <1>3, <2>1
<1>5. Start = Boundary(cur)
  BY <1>1, <1>2 DEF Reading
<1>6. cur \in DOMAIN sent /\ Start = sent[cur].from
  <2>1. Len(stream) \in Nat
    BY <1>1 DEF Shape, ReaderTypes
  <2> QED
    BY <1>3, <1>5, <2>1 DEF Boundary
<1>7. PICK f : f = sent[cur]
  OBVIOUS
<1>8. Extends(f, Len(f.body)) /\ Reads(f, Len(f.body))
  BY <1>1, <1>6, <1>7, FrameBytes
<1>9. In(1) = 255
  BY <1>4, <1>6, <1>7, <1>8 DEF Reads
<1>10. read(1, "second") /\ "second" \in Stages
  BY <1>9 DEF read_async_first, Stages
<1>11. taken + 1 <= f.until /\ taken = f.from + 1
  <2>1. PICK a, u, n : a = f.from /\ u = f.until /\ n = Len(f.body)
    OBVIOUS
  <2>2. a \in Nat /\ n \in Nat /\ u = a + 8 + n
    BY <1>8, <2>1 DEF Extends
  <2>3. taken = a + 1
    BY <1>3, <1>6, <1>7, <2>1
  <2> QED
    BY <2>1, <2>2, <2>3
<1>12. AcceptedBefore(cur)'
  BY <1>1, <1>2, AcceptedStays
<1>13. Fits(cur, 1, "second")
  BY <1>6, <1>7, <1>11 DEF Fits
<1> QED
  BY <1>1, <1>2, <1>10, <1>12, <1>13, ReadOn

LEMMA SecondStaysInFrame ==
  ASSUME NEW cur, Here(cur), read_async_second
  PROVE  At(cur)'
<1>1. /\ Shape /\ LineTypes /\ LineLayout /\ cur \in 1..(Len(sent) + 1)
      /\ AcceptedBefore(cur) /\ ReadUpTo(cur) /\ Reading(cur)
  BY DEF Here
<1>2. Due("second") /\ stage = "second" /\ sent' = sent /\ stream' = stream /\ accepted' = accepted
  BY DEF read_async_second, Due, lineVars
<1>3. Start \in Nat /\ taken = Start + 1 /\ Len(chunk) = 1
  BY <1>1, <1>2, StageFacts
<1>4. In(1) = stream[Start + 1]
  <2>1. \A i \in 1..Len(chunk) : In(i) = stream[Start + i]
    BY <1>1, <1>2, StageFacts
  <2> QED
    BY <1>3, <2>1
<1>5. PICK f : f = sent[cur]
  OBVIOUS
<1>6. cur \in DOMAIN sent /\ Start = f.from + 1
  BY <1>1, <1>2, <1>5 DEF Reading
<1>7. Extends(f, Len(f.body)) /\ Reads(f, Len(f.body))
  BY <1>1, <1>5, <1>6, FrameBytes
<1>8. f.from \in Nat /\ Start + 1 = f.from + 2
  BY <1>6, <1>7 DEF Extends
<1>9. In(1) = 254
  BY <1>4, <1>7, <1>8 DEF Reads
<1>10. read(5, "length") /\ "length" \in Stages
  BY <1>9 DEF read_async_second, Stages
<1>11. taken + 5 <= f.until /\ taken = f.from + 2
  BY <1>3, <1>7, <1>8, SMTT(30) DEF Extends
<1>12. AcceptedBefore(cur)'
  BY <1>1, <1>2, AcceptedStays
<1>13. Fits(cur, 5, "length")
  BY <1>5, <1>6, <1>11 DEF Fits
<1> QED
  BY <1>1, <1>2, <1>10, <1>12, <1>13, ReadOn

LEMMA LengthStaysInFrame ==
  ASSUME NEW cur, Here(cur), read_length
  PROVE  At(cur)'
<1>1. /\ Shape /\ LineTypes /\ LineLayout /\ cur \in 1..(Len(sent) + 1)
      /\ AcceptedBefore(cur) /\ ReadUpTo(cur) /\ Reading(cur)
  BY DEF Here
<1>2. Due("length") /\ stage = "length" /\ sent' = sent /\ stream' = stream /\ accepted' = accepted
  BY DEF read_length, Due, lineVars
<1>3. Start \in Nat /\ taken = Start + 5 /\ Len(chunk) = 5
  BY <1>1, <1>2, StageFacts
<1>4. \A i \in 1..Len(chunk) : In(i) = stream[Start + i]
  BY <1>1, <1>2, StageFacts
<1>5. PICK f, n : f = sent[cur] /\ n = Len(f.body)
  OBVIOUS
<1>6. cur \in DOMAIN sent /\ Start = f.from + 2
  BY <1>1, <1>2, <1>5 DEF Reading
<1>7. Extends(f, n) /\ Reads(f, n)
  BY <1>1, <1>5, <1>6, FrameBytes
<1>8. PICK a, b : a = f.from /\ b = f.until
  OBVIOUS
<1>a. a \in Nat /\ n \in Nat /\ b = a + 8 + n
  BY <1>7, <1>8 DEF Extends
<1>b. /\ Start + 1 = a + 3 /\ Start + 2 = a + 4 /\ Start + 3 = a + 5
      /\ Start + 4 = a + 6 /\ Start + 5 = a + 7
  BY <1>6, <1>8, <1>a
<1>9. /\ In(1) = stream[Start + 1] /\ In(2) = stream[Start + 2] /\ In(3) = stream[Start + 3]
      /\ In(4) = stream[Start + 4] /\ In(5) = stream[Start + 5]
  BY <1>3, <1>4
<1>10. /\ In(1) = n % 256 /\ In(2) = n \div 256 /\ In(3) = LengthCheck(n)
       /\ In(4) = f.topic % 256 /\ In(5) = f.topic \div 256
  BY <1>7, <1>8, <1>9, <1>b DEF Reads
<1>11. n \in Word /\ f.topic \in Word /\ n \in Nat
  BY <1>7 DEF Extends
<1>12. FromLowHigh(In(1), In(2)) = n /\ FromLowHigh(In(4), In(5)) = f.topic
  <2>1. FromLowHigh(n % 256, n \div 256) = n
    BY <1>11, WordBytes
  <2>2. FromLowHigh(f.topic % 256, f.topic \div 256) = f.topic
    BY <1>11, WordBytes
  <2> QED
    BY <1>10, <2>1, <2>2
<1>13. LengthVerifies(n, In(3))
  BY <1>10, <1>11, OwnLengthVerifies
<1>14. topic_id' = f.topic /\ read(n + 1, "body")
  BY <1>12, <1>13 DEF read_length
<1>15. taken + (n + 1) <= f.until /\ taken = f.from + 7
  <2>1. taken = a + 7 /\ taken + (n + 1) <= b
    BY <1>3, <1>a, <1>b
  <2> QED
    BY <1>8, <2>1
<1>16. AcceptedBefore(cur)'
  BY <1>1, <1>2, AcceptedStays
<1>17. "body" \in Stages /\ n + 1 \in Nat \ {0}
  BY <1>11 DEF Stages
<1>18. Fits(cur, n + 1, "body")
  BY <1>5, <1>6, <1>14, <1>15 DEF Fits
<1> QED
  BY <1>1, <1>2, <1>14, <1>16, <1>17, <1>18, ReadOn
\* What read_body finds of the frame numbered cur, and its verdict on it.
BodyIs(cur, f) ==
  /\ cur \in DOMAIN sent /\ f = sent[cur]
  /\ body_stream = f.body /\ topic_id = f.topic
  /\ Start - 7 = f.from /\ taken = f.until
  /\ Verified <=> ~Carries(f)

LEMMA BodyVerdict ==
  ASSUME NEW cur, Here(cur), Due("body"), NEW f, f = sent[cur]
  PROVE  BodyIs(cur, f)
<1>1. /\ Shape /\ LineTypes /\ LineLayout /\ cur \in 1..(Len(sent) + 1) /\ Reading(cur)
  BY DEF Here
<1>2. stage = "body"
  BY DEF Due
<1>3. /\ Start \in Nat /\ taken = Start + Len(chunk) /\ Len(chunk) \in Nat \ {0}
      /\ Pending = Len(chunk)
  <2>1. Pending = Len(chunk)
    BY <1>1, DueFacts DEF Shape
  <2> QED
    BY <1>1, <2>1, StageFacts
<1>4. \A i \in 1..Len(chunk) : In(i) = stream[Start + i]
  BY <1>1, StageFacts
<1>5. PICK n : n = Len(f.body)
  OBVIOUS
<1>6. cur \in DOMAIN sent /\ Start = f.from + 7 /\ Len(chunk) = n + 1 /\ topic_id = f.topic
  BY <1>1, <1>2, <1>3, <1>5 DEF Reading
<1>7. Extends(f, n) /\ Reads(f, n)
  BY <1>1, <1>5, <1>6, FrameBytes
<1>8. PICK a, b, c, t : a = f.from /\ b = f.until /\ c = f.body /\ t = f.topic
  OBVIOUS
<1>9. /\ a \in Nat /\ n \in Nat /\ b = a + 8 + n /\ c \in Seq(Byte) /\ Len(c) = n
      /\ t \in Word
  BY <1>5, <1>7, <1>8 DEF Extends
<1>10. Start = a + 7 /\ Start - 7 = a /\ taken = b
  BY <1>3, <1>6, <1>8, <1>9, SMTT(30)
<1>11. body_stream = c
  <2>1. /\ body_stream \in Seq(Byte) /\ Len(body_stream) = Len(chunk) - 1
        /\ \A i \in 1..Len(body_stream) : body_stream[i] = stream[Start + i]
    BY <1>1, BodyFacts
  <2>2. Len(body_stream) = n
    BY <1>6, <1>9, <2>1
  <2>3. \A j \in 1..n : stream[a + 7 + j] = c[j]
    BY <1>7, <1>8 DEF Reads
  <2>4. \A i \in 1..n : body_stream[i] = c[i]
    BY <1>10, <2>1, <2>2, <2>3
  <2> QED
    BY <1>9, <2>1, <2>2, <2>4
<1>12. In(Len(chunk)) = MessageCheck(DatasumBytes(c), DatasumU16(t))
  <2>1. In(Len(chunk)) = stream[Start + Len(chunk)]
    BY <1>3, <1>4
  <2>2. Start + Len(chunk) = a + 8 + n
    BY <1>6, <1>9, <1>10
  <2>3. stream[a + 8 + n] = MessageCheck(DatasumBytes(c), DatasumU16(t))
    BY <1>7, <1>8 DEF Reads
  <2> QED
    BY <2>1, <2>2, <2>3
<1>13. PICK x, y : x = DatasumBytes(c) /\ y = DatasumU16(t)
  OBVIOUS
<1>14. x \in Byte /\ y \in Byte
  BY <1>9, <1>13, DatasumBytesIsByte, DatasumIsByte
<1>15. Verified <=> BodyVerifies(x, y, MessageCheck(x, y))
  BY <1>6, <1>8, <1>11, <1>12, <1>13 DEF Verified
<1>16. Verified <=> x + y <= 255
  BY <1>14, <1>15, OwnBodyVerdict
<1>17. Carries(f) <=> x + y > 255
  BY <1>8, <1>13 DEF Carries
<1>18. Verified <=> ~Carries(f)
  BY <1>14, <1>16, <1>17 DEF Byte
<1> QED
  BY <1>6, <1>8, <1>10, <1>11, <1>18 DEF BodyIs

\* Behind the body of cur the next frame starts.
LEMMA NextFrame ==
  ASSUME NEW cur, Here(cur), NEW f, BodyIs(cur, f)
  PROVE  /\ cur + 1 \in 1..(Len(sent) + 1) /\ ReadUpTo(cur + 1)
         /\ taken = Boundary(cur + 1)
<1>1. /\ Shape /\ LineTypes /\ LineLayout /\ cur \in DOMAIN sent /\ f = sent[cur]
      /\ taken = f.until
  BY DEF Here, BodyIs
<1>2. Len(sent) \in Nat /\ DOMAIN sent = 1..Len(sent)
  BY <1>1 DEF LineTypes
<1>3. ASSUME NEW i \in (cur + 1)..Len(sent)
      PROVE  taken <= sent[i].until
  <2>1. i \in DOMAIN sent /\ cur <= i
    BY <1>1, <1>2
  <2> QED
    BY <1>1, <2>1, UntilIsOrdered
<1>4. sent[cur].until = Boundary(cur + 1)
  BY <1>1 DEF LineLayout
<1> QED
  BY <1>1, <1>2, <1>3, <1>4 DEF ReadUpTo

LEMMA HeadReadMovesOn ==
  ASSUME NEW cur, Here(cur), NEW f, BodyIs(cur, f), read_async_head,
         sent' = sent, stream' = stream, AcceptedBefore(cur + 1)'
  PROVE  At(cur + 1)'
<1>1. PICK next : next = cur + 1
  OBVIOUS
<1>2. next \in 1..(Len(sent) + 1) /\ ReadUpTo(next) /\ taken = Boundary(next)
  BY <1>1, NextFrame
<1>3. read(1, "first") /\ "first" \in Stages
  BY DEF read_async_head, Stages
<1>4. Fits(next, 1, "first")
  BY <1>2 DEF Fits
<1>5. Shape /\ LineTypes /\ LineLayout
  BY DEF Here
<1>6. AcceptedBefore(next)'
  BY <1>1
<1>7. At(next)'
  BY <1>2, <1>3, <1>4, <1>5, <1>6, ReadOn
<1> QED
  BY <1>1, <1>7

LEMMA RejectedMovesOn ==
  ASSUME NEW cur, Here(cur), BodyRejected
  PROVE  At(cur + 1)'
<1>1. /\ Due("body") /\ ~Verified /\ read_async_head
      /\ sent' = sent /\ stream' = stream /\ accepted' = accepted
  BY DEF BodyRejected, lineVars
<1>2. PICK f : f = sent[cur]
  OBVIOUS
<1>3. BodyIs(cur, f)
  BY <1>1, <1>2, BodyVerdict
<1>4. Carries(sent[cur]) /\ cur \in Nat
  BY <1>1, <1>3 DEF BodyIs, Here, LineTypes
<1>5. AcceptedBefore(cur)
  BY DEF Here
<1>6. \A i : i \in 1..(cur + 1 - 1) <=> i \in 1..(cur - 1) \/ (i = cur /\ cur >= 1)
  BY <1>4
<1>7. AcceptedBefore(cur + 1)
  BY <1>4, <1>5, <1>6 DEF AcceptedBefore, AcceptedAreSent, AcceptedInOrder, SoundAreAccepted
<1>8. AcceptedBefore(cur + 1)'
  BY <1>1, <1>7, AcceptedStays
<1> QED
  BY <1>1, <1>3, <1>8, HeadReadMovesOn
LEMMA AcceptedAreSentNext ==
  ASSUME NEW next, sent' = sent,
         \A k \in DOMAIN accepted' : \E i \in 1..(next - 1) : IsFrame(accepted'[k], sent[i])
  PROVE  AcceptedAreSent(next)'
BY DEF AcceptedAreSent

LEMMA SoundAreAcceptedNext ==
  ASSUME NEW next, sent' = sent,
         \A i \in 1..(next - 1) :
           ~Carries(sent[i]) => \E k \in DOMAIN accepted' : Matches(accepted'[k], sent[i])
  PROVE  SoundAreAccepted(next)'
BY DEF SoundAreAccepted

\* What is accepted is the frame numbered cur.
LEMMA AcceptedMovesOn ==
  ASSUME NEW cur, Here(cur), NEW outcome \in Outcomes, NEW pub \in Nat, Accept(outcome, pub)
  PROVE  At(cur + 1)'
<1>0. PICK next : next = cur + 1
  OBVIOUS
<1>1. /\ Due("body") /\ Verified /\ sent' = sent /\ stream' = stream
      /\ read_async_head \/ Throw
  BY DEF Accept, lineVars
<1>2. PICK f : f = sent[cur]
  OBVIOUS
<1>3. BodyIs(cur, f)
  BY <1>1, <1>2, BodyVerdict
<1>4. /\ cur \in DOMAIN sent /\ Start - 7 = f.from /\ ~Carries(f)
      /\ body_stream = f.body /\ topic_id = f.topic /\ taken = f.until
  BY <1>1, <1>3 DEF BodyIs
<1>5. Shape /\ LineTypes /\ SessionTypes /\ LineLayout /\ AcceptedBefore(cur)
  BY DEF Here
<1>6. PICK m : m = Len(accepted)
  OBVIOUS
<1>7. PICK a : a = accepted'[m + 1]
  OBVIOUS
<1>8. /\ accepted \in Seq(AcceptedFrame) /\ accepted' \in Seq(AcceptedFrame)
      /\ Len(accepted') = m + 1
      /\ \A k \in 1..m : accepted'[k] = accepted[k]
      /\ a = [at |-> Start - 7, topic |-> topic_id, body |-> body_stream,
              outcome |-> outcome, pub |-> pub]
  BY <1>5, <1>6, <1>7, AcceptIsAppended DEF Appended
<1>9. m \in Nat /\ DOMAIN accepted = 1..m /\ DOMAIN accepted' = 1..(m + 1)
  BY <1>6, <1>8
<1>10. a.at = f.from /\ a.topic = f.topic /\ a.body = f.body
  BY <1>4, <1>8
<1>11. cur \in Nat /\ cur >= 1
  BY <1>4, <1>5 DEF LineTypes
<1>12. \A i : i \in 1..(next - 1) <=> i \in 1..(cur - 1) \/ i = cur
  BY <1>0, <1>11
<1>13. ASSUME NEW k \in DOMAIN accepted'
       PROVE  \E i \in 1..(next - 1) : IsFrame(accepted'[k], sent[i])
  <2>1. CASE k \in 1..m
    <3>1. PICK i \in 1..(cur - 1) : IsFrame(accepted[k], sent[i])
      BY <1>5, <1>9, <2>1 DEF AcceptedBefore, AcceptedAreSent
    <3>2. accepted'[k] = accepted[k] /\ i \in 1..(next - 1)
      BY <1>8, <1>12, <2>1, <3>1
    <3> QED
      BY <3>1, <3>2
  <2>2. CASE k = m + 1
    <3>1. cur \in 1..(next - 1)
      BY <1>12
    <3> QED
      BY <1>2, <1>4, <1>7, <1>10, <2>2, <3>1 DEF IsFrame
  <2> QED
    BY <1>9, <2>1, <2>2
<1>14. ASSUME NEW k \in DOMAIN accepted', NEW j \in 1..(k - 1)
       PROVE  accepted'[j].at < accepted'[k].at
  <2>1. j \in 1..m /\ accepted'[j] = accepted[j] /\ j \in DOMAIN accepted
    BY <1>8, <1>9
  <2>2. CASE k \in 1..m
    <3>1. accepted'[k] = accepted[k] /\ k \in DOMAIN accepted
      BY <1>8, <1>9, <2>2
    <3>2. accepted[j].at < accepted[k].at
      BY <1>5, <3>1 DEF AcceptedBefore, AcceptedInOrder
    <3> QED
      BY <2>1, <3>1, <3>2
  <2>3. CASE k = m + 1
    <3>1. PICK i \in 1..(cur - 1) : accepted[j].at = sent[i].from
      BY <1>5, <2>1 DEF AcceptedBefore, AcceptedAreSent, IsFrame
    <3>2. i \in DOMAIN sent /\ i < cur
      BY <1>4, <1>5, <1>11 DEF LineTypes
    <3>3. PICK g, u, v, n : g = sent[i] /\ u = g.from /\ v = g.until /\ n = Len(g.body)
      OBVIOUS
    <3>4. u \in Nat /\ n \in Nat /\ v = u + 8 + n
      BY <1>5, <3>2, <3>3, FrameBytes DEF Extends
    <3>5. sent[i].until <= sent[cur].from
      BY <1>4, <1>5, <3>2 DEF LineLayout
    <3>6. PICK w : w = f.from
      OBVIOUS
    <3>7. v <= w
      BY <1>2, <3>3, <3>5, <3>6
    <3>8. w \in Nat
      BY <1>2, <1>4, <1>5, <3>6, FrameBytes DEF Extends
    <3>9. u < w
      BY <3>4, <3>7, <3>8
    <3> QED
      BY <1>7, <1>10, <2>1, <2>3, <3>1, <3>3, <3>6, <3>9
  <2> QED
    BY <1>9, <2>2, <2>3
<1>15. ASSUME NEW i \in 1..(next - 1), ~Carries(sent[i])
       PROVE  \E k \in DOMAIN accepted' : Matches(accepted'[k], sent[i])
  <2>1. CASE i \in 1..(cur - 1)
    <3>1. PICK k \in DOMAIN accepted : Matches(accepted[k], sent[i])
      BY <1>5, <1>15, <2>1 DEF AcceptedBefore, SoundAreAccepted
    <3>2. k \in DOMAIN accepted' /\ accepted'[k] = accepted[k]
      BY <1>8, <1>9
    <3> QED
      BY <3>1, <3>2
  <2>2. CASE i = cur
    <3>1. PICK u, v, n, e : u = f.from /\ v = f.until /\ n = Len(f.body) /\ e = Len(Encode(f))
      OBVIOUS
    <3>2. u \in Nat /\ n \in Nat /\ v = u + 8 + n /\ e = 8 + n
      BY <1>2, <1>4, <1>5, <3>1, FrameBytes DEF Extends
    <3>3. u <= u /\ u + e <= v
      BY <3>2
    <3>4. Matches(a, f)
      BY <1>10, <3>1, <3>3 DEF Matches
    <3>5. m + 1 \in DOMAIN accepted'
      BY <1>9
    <3> QED
      BY <1>2, <1>7, <2>2, <3>4, <3>5
  <2> QED
    BY <1>12, <2>1, <2>2
<1>16. AcceptedBefore(cur + 1)'
  <2>1. AcceptedAreSent(next)'
    BY <1>1, <1>13, AcceptedAreSentNext
  <2>2. AcceptedInOrder'
    BY <1>14 DEF AcceptedInOrder
  <2>3. SoundAreAccepted(next)'
    BY <1>1, <1>15, SoundAreAcceptedNext
  <2>4. AcceptedBefore(next)'
    BY <2>1, <2>2, <2>3 DEF AcceptedBefore
  <2> QED
    BY <1>0, <2>4
<1>17. CASE read_async_head
  BY <1>1, <1>3, <1>16, <1>17, HeadReadMovesOn
<1>18. CASE Throw
  <2>1. node' = "terminated" /\ taken' = taken
    BY <1>18 DEF Throw, readerVars
  <2>2. cur + 1 \in 1..(Len(sent) + 1) /\ ReadUpTo(cur + 1)
    BY <1>3, NextFrame
  <2>3. ReadUpTo(cur + 1)'
    BY <1>1, <2>1, <2>2 DEF ReadUpTo
  <2> QED
    BY <1>1, <1>16, <2>1, <2>2, <2>3 DEF At
<1> QED
  BY <1>1, <1>17, <1>18

\* The outstanding read ends within the frame.
LEMMA PendingFits ==
  ASSUME NEW cur, Here(cur), stage \in Stages, cur \in DOMAIN sent
  PROVE  Start + Pending <= sent[cur].until
<1>1. Shape /\ LineTypes /\ LineLayout /\ Reading(cur)
  BY DEF Here
<1>2. PICK f, a, b, n : f = sent[cur] /\ a = f.from /\ b = f.until /\ n = Len(f.body)
  OBVIOUS
<1>3. a \in Nat /\ n \in Nat /\ b = a + 8 + n
  BY <1>1, <1>2, FrameBytes DEF Extends
<1>4. CASE stage = "first"
  <2>1. Start = a /\ Pending = 1
    BY <1>1, <1>2, <1>4 DEF Reading, Boundary, Shape, StageInv
  <2> QED
    BY <1>2, <1>3, <2>1
<1>5. CASE stage = "second"
  <2>1. Start = a + 1 /\ Pending = 1
    BY <1>1, <1>2, <1>5 DEF Reading, Shape, StageInv
  <2> QED
    BY <1>2, <1>3, <2>1
<1>6. CASE stage = "length"
  <2>1. Start = a + 2 /\ Pending = 5
    BY <1>1, <1>2, <1>6 DEF Reading, Shape, StageInv
  <2> QED
    BY <1>2, <1>3, <2>1
<1>7. CASE stage = "body"
  <2>1. Start = a + 7 /\ Pending = n + 1
    BY <1>1, <1>2, <1>7 DEF Reading
  <2> QED
    BY <1>2, <1>3, <2>1
<1> QED
  BY <1>4, <1>5, <1>6, <1>7 DEF Stages

LEMMA ArrivalStaysInFrame ==
  ASSUME NEW cur, Here(cur), BytesArrive
  PROVE  At(cur)'
<1>1. /\ Shape /\ LineTypes /\ LineLayout /\ cur \in 1..(Len(sent) + 1)
      /\ AcceptedBefore(cur) /\ ReadUpTo(cur) /\ Reading(cur)
  BY DEF Here
<1>2. /\ sent' = sent /\ stream' = stream /\ accepted' = accepted /\ stage' = stage
      /\ topic_id' = topic_id
  BY DEF BytesArrive, lineVars
<1>3. /\ mode = "open" /\ asked # 0 /\ asked' = 0
      /\ chunk' = [i \in 1..asked |-> taken + i - 1] /\ taken' = taken + asked
  BY DEF BytesArrive, Reader!Answer, Reader!HandOut, Reader!NextBytes
<1>4. /\ asked \in Nat /\ taken \in Nat /\ Len(sent) \in Nat /\ DOMAIN sent = 1..Len(sent)
  BY <1>1, SessionAssumption DEF Shape, ReaderTypes, LineTypes
<1>5. chunk = <<>> /\ stage \in Stages
  BY <1>1, <1>3 DEF Shape, ReaderTypes, ReaderInv, Stages
<1>6. Len(chunk') = asked /\ Len(chunk) = 0
  BY <1>3, <1>4, <1>5
<1>7. Start = taken /\ Start' = taken /\ Pending = asked /\ Pending' = asked
  BY <1>3, <1>4, <1>6 DEF Start, Pending
<1>8. Reading(cur)'
  BY <1>1, <1>2, <1>7 DEF Reading, Boundary
<1>9. ASSUME NEW i \in cur..Len(sent)
      PROVE  taken' <= sent[i].until
  <2>1. cur \in DOMAIN sent /\ i \in DOMAIN sent /\ cur <= i
    BY <1>1, <1>4
  <2>2. PICK a, b : a = sent[cur].until /\ b = sent[i].until
    OBVIOUS
  <2>3. a \in Nat /\ b \in Nat /\ a <= b
    BY <1>1, <2>1, <2>2, UntilIsOrdered
  <2>4. Start + Pending <= a
    BY <1>5, <2>1, <2>2, PendingFits
  <2> QED
    BY <1>3, <1>4, <1>7, <2>2, <2>3, <2>4
<1>10. ReadUpTo(cur)'
  BY <1>2, <1>9 DEF ReadUpTo
<1>11. AcceptedBefore(cur)'
  BY <1>1, <1>2, AcceptedStays
<1> QED
  BY <1>1, <1>2, <1>8, <1>10, <1>11 DEF At

LEMMA FailureStaysInFrame ==
  ASSUME NEW cur, Here(cur), PortFails
  PROVE  At(cur)'
<1>1. cur \in 1..(Len(sent) + 1) /\ AcceptedBefore(cur) /\ ReadUpTo(cur)
  BY DEF Here
<1>2. sent' = sent /\ accepted' = accepted /\ mode' = "closed" /\ taken' = taken
  BY DEF PortFails, lineVars, Reader!Fail, Reader!Wait
<1>3. AcceptedBefore(cur)'
  BY <1>1, <1>2, AcceptedStays
<1>4. ReadUpTo(cur)'
  BY <1>1, <1>2 DEF ReadUpTo
<1> QED
  BY <1>1, <1>2, <1>3, <1>4 DEF At

LEMMA StartStaysInFrame ==
  ASSUME NEW cur, Here(cur), start_read
  PROVE  At(cur)'
<1>1. /\ Shape /\ LineTypes /\ LineLayout /\ cur \in 1..(Len(sent) + 1)
      /\ AcceptedBefore(cur) /\ ReadUpTo(cur) /\ Reading(cur)
  BY DEF Here
<1>2. /\ mode = "fresh" /\ sent' = sent /\ stream' = stream /\ accepted' = accepted
      /\ read(1, "first") /\ "first" \in Stages
  BY DEF start_read, lineVars, read_async_head, Stages
<1>3. stage = "none" /\ chunk = <<>> /\ taken \in Nat
  BY <1>1, <1>2 DEF Shape, ReaderTypes, ReaderInv
<1>4. taken = Start
  BY <1>3 DEF Start
<1>5. Fits(cur, 1, "first")
  BY <1>1, <1>3, <1>4 DEF Fits, Reading
<1>6. AcceptedBefore(cur)'
  BY <1>1, <1>2, AcceptedStays
<1> QED
  BY <1>1, <1>2, <1>5, <1>6, ReadOn
----------------------------------------------------------------------------
\* A frame sent over a clean line lengthens the stream

LEMMA InPlaceStays ==
  ASSUME NEW g, InPlace(g), NEW n, Extends(g, n), NEW bytes \in Seq(Byte),
         stream \in Seq(Byte), stream' = stream \o bytes
  PROVE  InPlace(g)'
<1>1. PICK e, a : e = Len(Encode(g)) /\ a = g.from
  OBVIOUS
<1>2. a \in Nat /\ e \in Nat /\ a + e <= Len(stream)
  BY <1>1, SMTT(30) DEF Extends
<1>3. Len(stream') = Len(stream) + Len(bytes) /\ \A k \in 1..Len(stream) : stream'[k] = stream[k]
  OBVIOUS
<1>4. ASSUME NEW j \in 1..e
      PROVE  stream'[a + j] = Encode(g)[j]
  <2>1. a + j \in 1..Len(stream)
    BY <1>2
  <2>2. stream[a + j] = Encode(g)[j]
    BY <1>1 DEF InPlace
  <2> QED
    BY <1>3, <2>1, <2>2
<1>5. g.until \in Nat /\ g.until <= Len(stream)
  BY DEF Extends
<1>6. g.until <= Len(stream')
  BY <1>3, <1>5
<1>7. Len(g.body) \in Word /\ g.until = g.from + Len(Encode(g))
  BY DEF InPlace
<1> QED
  BY <1>1, <1>4, <1>6, <1>7 DEF InPlace

LEMMA NewInPlace ==
  ASSUME NEW f \in Frames, stream \in Seq(Byte), stream' = stream \o Encode(f), NEW g,
         g.topic = f.topic, g.body = f.body, g.from = Len(stream),
         g.until = Len(stream) + Len(Encode(f))
  PROVE  InPlace(g)'
<1>1. PICK e : e = Encode(f)
  OBVIOUS
<1>2. e \in Seq(Byte) /\ Len(f.body) \in Word
  <2>1. IsEncoded(e, f.topic, f.body)
    BY <1>1, FramesAreEncoded
  <2>2. \A h \in Frames : Len(h.body) \in Word
    BY SessionAssumption, Zenon
  <2> QED
    BY <2>1, <2>2 DEF IsEncoded
<1>3. Encode(g) = e
  BY <1>1 DEF Encode
<1>4. /\ Len(stream') = Len(stream) + Len(e)
      /\ \A j \in 1..Len(e) : stream'[Len(stream) + j] = e[j]
  BY <1>1, <1>2, SMTT(30)
<1> QED
  BY <1>1, <1>2, <1>3, <1>4 DEF InPlace

\* What Transmit does to the frames sent, put so that it can be used frame by frame.
Lengthened(g, bytes) ==
  /\ stream' = stream \o bytes /\ bytes \in Seq(Byte)
  /\ Len(sent') = Len(sent) + 1 /\ DOMAIN sent' = 1..(Len(sent) + 1)
  /\ \A i \in 1..Len(sent) : sent'[i] = sent[i]
  /\ sent'[Len(sent) + 1] = g
  /\ g.from = Len(stream) /\ g.until = Len(stream) + Len(bytes)
  /\ Len(stream') = Len(stream) + Len(bytes)

LEMMA BoundaryStays ==
  ASSUME Shape, LineTypes, NEW g, NEW bytes, Lengthened(g, bytes)
  PROVE  \A i \in 1..(Len(sent) + 1) : Boundary(i)' = Boundary(i)
<1>1. Len(sent) \in Nat /\ DOMAIN sent = 1..Len(sent)
  BY DEF LineTypes
<1>2. ASSUME NEW i \in 1..(Len(sent) + 1)
      PROVE  Boundary(i)' = Boundary(i)
  <2>1. CASE i \in 1..Len(sent)
    BY <1>1, <2>1 DEF Lengthened, Boundary
  <2>2. CASE i = Len(sent) + 1
    BY <1>1, <2>2 DEF Lengthened, Boundary
  <2> QED
    BY <1>1, <2>1, <2>2
<1> QED
  BY <1>2

LEMMA LayoutStays ==
  ASSUME Shape, LineTypes, LineLayout, NEW g, NEW bytes, Lengthened(g, bytes), InPlace(g)'
  PROVE  LineLayout'
<1>1. PICK m : m = Len(sent)
  OBVIOUS
<1>2. /\ m \in Nat /\ DOMAIN sent = 1..m /\ DOMAIN sent' = 1..(m + 1) /\ Len(sent') = m + 1
      /\ \A i \in 1..m : sent'[i] = sent[i]
      /\ sent'[m + 1] = g /\ g.from = Len(stream)
  BY <1>1 DEF LineTypes, Lengthened
<1>3. stream \in Seq(Byte) /\ stream' = stream \o bytes /\ bytes \in Seq(Byte)
  BY DEF Shape, ReaderTypes, Lengthened
<1>4. \A i \in 1..m : sent[i].until \in Nat /\ sent[i].until <= Len(stream)
  BY <1>2, FrameBytes DEF Extends
<1>5. ASSUME NEW i \in DOMAIN sent'
      PROVE  InPlace(sent[i])'
  <2>1. CASE i \in 1..m
    <3>1. PICK h : h = sent[i]
      OBVIOUS
    <3>2. InPlace(h) /\ Extends(h, Len(h.body))
      BY <1>2, <2>1, <3>1, FrameBytes DEF LineLayout
    <3>3. InPlace(h)'
      BY <1>3, <3>2, InPlaceStays
    <3> QED
      BY <1>2, <2>1, <3>1, <3>3 DEF InPlace
  <2>2. CASE i = m + 1
    BY <1>2, <2>2 DEF InPlace
  <2> QED
    BY <1>2, <2>1, <2>2
<1>6. ASSUME NEW i \in DOMAIN sent', NEW j \in DOMAIN sent', i < j
      PROVE  sent'[i].until <= sent'[j].from
  <2>1. i \in 1..m /\ sent'[i] = sent[i]
    BY <1>2, <1>6
  <2>2. CASE j \in 1..m
    <3>1. sent[i].until <= sent[j].from
      BY <1>2, <1>6, <2>1, <2>2 DEF LineLayout
    <3> QED
      BY <1>2, <2>1, <2>2, <3>1
  <2>3. CASE j = m + 1
    BY <1>2, <1>4, <2>1, <2>3
  <2> QED
    BY <1>2, <2>2, <2>3
<1>7. ASSUME NEW i \in DOMAIN sent'
      PROVE  sent'[i].until = Boundary(i + 1)'
  <2>1. CASE i \in 1..m
    <3>1. sent[i].until = Boundary(i + 1)
      BY <1>2, <2>1 DEF LineLayout
    <3>2. i + 1 \in 1..(Len(sent) + 1)
      BY <1>1, <1>2, <2>1
    <3>3. Boundary(i + 1)' = Boundary(i + 1)
      BY <3>2, BoundaryStays
    <3> QED
      BY <1>2, <2>1, <3>1, <3>3
  <2>2. CASE i = m + 1
    <3>1. i + 1 \notin DOMAIN sent' /\ Boundary(i + 1)' = Len(stream')
      BY <1>2, <2>2 DEF Boundary
    <3> QED
      BY <1>2, <2>2, <3>1 DEF Lengthened
  <2> QED
    BY <1>2, <2>1, <2>2
<1>8. Boundary(1)' = 0
  <2>1. 1 \in 1..(Len(sent) + 1)
    BY <1>1, <1>2
  <2>2. Boundary(1)' = Boundary(1)
    BY <2>1, BoundaryStays
  <2> QED
    BY <2>2 DEF LineLayout
<1> QED
  BY <1>5, <1>6, <1>7, <1>8 DEF LineLayout

\* A frame that is added behind the others leaves the session where it is.
LEMMA SendStaysInFrame ==
  ASSUME NEW cur, Here(cur), NEW g, NEW bytes, Lengthened(g, bytes),
         UNCHANGED <<mode, asked, chunk, taken, stage, topic_id, accepted>>
  PROVE  At(cur)'
<1>1. PICK m : m = Len(sent)
  OBVIOUS
<1>2. /\ Shape /\ LineTypes /\ LineLayout /\ cur \in 1..(m + 1)
      /\ AcceptedBefore(cur) /\ ReadUpTo(cur) /\ Reading(cur)
  BY <1>1 DEF Here
<1>3. /\ m \in Nat /\ DOMAIN sent = 1..m /\ DOMAIN sent' = 1..(m + 1) /\ Len(sent') = m + 1
      /\ \A i \in 1..m : sent'[i] = sent[i]
      /\ sent'[m + 1] = g /\ g.until = Len(stream) + Len(bytes)
  BY <1>1, <1>2 DEF LineTypes, Lengthened
<1>4. \A i \in 1..(cur - 1) : i \in 1..m /\ sent'[i] = sent[i]
  BY <1>2, <1>3
<1>5. AcceptedAreSent(cur)'
  BY <1>2, <1>4 DEF AcceptedBefore, AcceptedAreSent
<1>6. SoundAreAccepted(cur)'
  BY <1>2, <1>4 DEF AcceptedBefore, SoundAreAccepted
<1>7. AcceptedInOrder'
  BY <1>2 DEF AcceptedBefore, AcceptedInOrder
<1>8. ASSUME NEW i \in cur..(m + 1)
      PROVE  taken <= sent'[i].until
  <2>1. CASE i = m + 1
    <3>1. taken \in Nat /\ taken <= Len(stream) /\ Len(stream) \in Nat /\ Len(bytes) \in Nat
      BY <1>2 DEF Shape, ReaderTypes, Lengthened
    <3> QED
      BY <1>3, <2>1, <3>1
  <2>2. CASE i # m + 1
    <3>1. i \in cur..m /\ i \in 1..m
      BY <1>2, <1>3, <2>2
    <3> QED
      BY <1>1, <1>2, <1>3, <3>1 DEF ReadUpTo
  <2> QED
    BY <2>1, <2>2
<1>9. ReadUpTo(cur)'
  BY <1>3, <1>8 DEF ReadUpTo
<1>10. Reading(cur)'
  <2>1. Start' = Start /\ Pending' = Pending /\ stage' = stage /\ topic_id' = topic_id
    BY DEF Start, Pending
  <2>2. Boundary(cur)' = Boundary(cur)
    BY <1>1, <1>2, BoundaryStays
  <2>3. cur \in DOMAIN sent => cur \in DOMAIN sent' /\ sent'[cur] = sent[cur]
    BY <1>3
  <2> QED
    BY <1>2, <2>1, <2>2, <2>3 DEF Reading
<1>11. cur \in 1..(Len(sent') + 1)
  BY <1>2, <1>3
<1>12. AcceptedBefore(cur)'
  BY <1>5, <1>6, <1>7 DEF AcceptedBefore
<1> QED
  BY <1>9, <1>10, <1>11, <1>12 DEF At

----------------------------------------------------------------------------
\* The clean line invariant

LEMMA IsHere ==
  ASSUME ChainInv, LineLayout, NEW cur, At(cur), node = "up", mode # "closed"
  PROVE  Here(cur)
BY DEF Here, At, ChainInv

\* Whoever takes a step has a reader that is open and a node that is up.
LEMMA StepIsUp ==
  ASSUME ChainInv, RoutingInv, Next
  PROVE  node = "up" /\ mode # "closed"
<1>1. Shape /\ ReaderInv /\ TableInv
  BY DEF ChainInv, Shape, RoutingInv
<1>2. CASE Sends
  <2>1. PICK f, bytes, damage : Transmit(f, bytes, damage)
    BY <1>2, SendsTransmit, Zenon
  <2> QED
    BY <1>1, <2>1 DEF Transmit, Waiting, ReaderInv
<1>3. CASE BytesArrive \/ PortFails
  BY <1>3 DEF BytesArrive, PortFails, Reader!Answer, Reader!Fail
<1>4. CASE start_read
  BY <1>1, <1>4 DEF start_read, TableInv
<1>5. CASE \E callback : Due(callback)
  <2>1. PICK callback : Due(callback)
    BY <1>5
  <2> QED
    BY <1>1, <2>1 DEF Due, ReaderInv
<1>6. read_async_first \/ read_async_second \/ read_length \/ BodyRejected \/ Accepts
        => \E callback : Due(callback)
  <2>1. Accepts => \E outcome, pub : Accept(outcome, pub)
    BY AcceptsAccept, Zenon
  <2> QED
    BY <2>1, Zenon DEF read_async_first, read_async_second, read_length, BodyRejected, Accept
<1> QED
  BY <1>2, <1>3, <1>4, <1>5, <1>6, NextSteps

LEMMA SendKeepsClean ==
  ASSUME NEW cur, Here(cur), Sends, noise' = 0
  PROVE  LineLayout' /\ At(cur)'
<1>1. PICK f \in Frames, bytes \in Seq(Byte), damage \in 0..Burst :
        /\ Transmit(f, bytes, damage)
        /\ IF damage = 0 THEN bytes = Encode(f) /\ noise' = noise
                         ELSE noise < MaxNoise /\ noise' = noise + 1
  BY SendsTransmit
<1>2. Shape /\ LineTypes /\ LineLayout
  BY DEF Here
<1>3. noise \in Nat
  BY <1>2, SessionAssumption DEF LineTypes
<1>4. bytes = Encode(f)
  BY <1>1, <1>3
<1>5. PICK g : g = sent'[Len(sent) + 1]
  OBVIOUS
<1>6. /\ stream' = stream \o bytes
      /\ UNCHANGED <<mode, asked, chunk, taken, stage, topic_id, accepted>>
  BY <1>1 DEF Transmit, readerVars
<1>7. /\ sent' \in Seq(SentFrame) /\ Len(sent') = Len(sent) + 1
      /\ \A i \in 1..Len(sent) : sent'[i] = sent[i]
      /\ g = [topic |-> f.topic, body |-> f.body, from |-> Len(stream),
              until |-> Len(stream) + Len(bytes), damage |-> damage]
  BY <1>1, <1>2, <1>5, TransmitAppends
<1>8. DOMAIN sent' = 1..(Len(sent) + 1)
  BY <1>7
<1>9. Len(stream') = Len(stream) + Len(bytes)
  BY <1>1, <1>2, TransmitKeepsShape
<1>10. /\ g.topic = f.topic /\ g.body = f.body /\ g.from = Len(stream)
       /\ g.until = Len(stream) + Len(bytes)
  BY <1>7
<1>11. Lengthened(g, bytes)
  BY <1>1, <1>5, <1>6, <1>7, <1>8, <1>9, <1>10 DEF Lengthened
<1>12. InPlace(g)'
  BY <1>2, <1>4, <1>6, <1>10, NewInPlace DEF Shape, ReaderTypes
<1> QED
  BY <1>2, <1>6, <1>11, <1>12, LayoutStays, SendStaysInFrame

LEMMA LineStays ==
  ASSUME LineLayout, UNCHANGED <<stream, sent>>
  PROVE  LineLayout'
BY DEF LineLayout, InPlace, Boundary

LEMMA AcceptsOutcome ==
  ASSUME SessionTypes, TableTypes, Accepts
  PROVE  \E outcome \in Outcomes, pub \in Nat : Accept(outcome, pub)
<1>0. 0 \in Nat /\ ThisFrame \in Nat
  BY ThisFrameIsNumber
<1>1. CASE NoCallback \/ RegistrationSkipped \/ RegistrationThrows
  <2>1. Accept("ignored", 0) \/ Accept("exception", 0)
    BY <1>1, Zenon DEF NoCallback, RegistrationSkipped, RegistrationThrows
  <2>2. "ignored" \in Outcomes /\ "exception" \in Outcomes
    BY DEF Outcomes
  <2> QED
    BY <1>0, <2>1, <2>2, Zenon
<1>2. CASE create_publisher \/ create_subscriber
  <2>1. Accept("publisher", ThisFrame) \/ Accept("subscriber", ThisFrame)
    BY <1>2, Zenon DEF create_publisher, create_subscriber
  <2>2. "publisher" \in Outcomes /\ "subscriber" \in Outcomes
    BY DEF Outcomes
  <2> QED
    BY <1>0, <2>1, <2>2, Zenon
<1>3. CASE handle
  <2>1. PICK pub : pub = callback_[topic_id].pub
    OBVIOUS
  <2>2. pub \in Nat
    BY <1>3, <2>1 DEF handle, RoutedTo, TableTypes, Handler
  <2>3. Accept("exception", pub) \/ Accept("published", pub)
    <3>1. CASE Len(body_stream) < MessageLen
      BY <1>3, <2>1, <3>1, Zenon DEF handle
    <3>2. CASE ~(Len(body_stream) < MessageLen)
      BY <1>3, <2>1, <3>2, Zenon DEF handle
    <3> QED
      BY <3>1, <3>2
  <2>4. "exception" \in Outcomes /\ "published" \in Outcomes
    BY DEF Outcomes
  <2> QED
    BY <2>2, <2>3, <2>4, Zenon
<1> QED
  BY <1>1, <1>2, <1>3 DEF Accepts

LEMMA StepKeepsClean ==
  ASSUME TableTypes, NEW cur \in Nat, Here(cur),
         BytesArrive \/ PortFails \/ start_read \/ read_async_first
           \/ read_async_second \/ read_length \/ BodyRejected \/ Accepts
  PROVE  LineLayout' /\ \E c \in Nat : At(c)'
<1>1. cur + 1 \in Nat
  OBVIOUS
<1>2. CASE Accepts
  <2>1. PICK outcome \in Outcomes, pub \in Nat : Accept(outcome, pub)
    BY <1>2, AcceptsOutcome DEF Here
  <2>2. At(cur + 1)'
    BY <2>1, AcceptedMovesOn
  <2>3. UNCHANGED <<stream, sent>>
    BY <2>1 DEF Accept, lineVars
  <2> QED
    BY <1>1, <2>2, <2>3, LineStays DEF Here
<1>3. CASE ~Accepts
  <2>1. UNCHANGED <<stream, sent>>
    BY <1>3 DEF BytesArrive, PortFails, start_read, read_async_first, read_async_second,
                read_length, BodyRejected, lineVars
  <2>2. At(cur)' \/ At(cur + 1)'
    BY <1>3, ArrivalStaysInFrame, FailureStaysInFrame, StartStaysInFrame, FirstStaysInFrame,
       SecondStaysInFrame, LengthStaysInFrame, RejectedMovesOn
  <2> QED
    BY <1>1, <2>1, <2>2, LineStays DEF Here
<1> QED
  BY <1>2, <1>3

LEMMA InitClean == Init => CleanInv
<1> SUFFICES ASSUME Init PROVE CleanInv
  OBVIOUS
<1>1. /\ stream = <<>> /\ sent = <<>> /\ chunk = <<>> /\ taken = 0 /\ stage = "none"
      /\ accepted = <<>>
  BY DEF Init, Reader!Init
<1>2. DOMAIN sent = {} /\ Len(sent) = 0 /\ DOMAIN accepted = {} /\ Len(stream) = 0
      /\ Len(chunk) = 0
  BY <1>1
<1>3. LineLayout
  BY <1>2 DEF LineLayout, Boundary
<1>4. AcceptedBefore(1)
  <2>1. 1..(1 - 1) = {}
    OBVIOUS
  <2> QED
    BY <1>2, <2>1 DEF AcceptedBefore, AcceptedAreSent, AcceptedInOrder, SoundAreAccepted
<1>5. ReadUpTo(1)
  BY <1>2 DEF ReadUpTo
<1>6. Reading(1)
  <2>1. taken - Len(chunk) = 0
    <3>1. taken = 0 /\ Len(chunk) = 0
      BY <1>1, <1>2
    <3> QED
      BY <3>1
  <2>2. Boundary(1) = 0
    BY <1>2 DEF Boundary
  <2> QED
    BY <1>1, <2>1, <2>2 DEF Reading, Start
<1>7. At(1)
  BY <1>2, <1>4, <1>5, <1>6 DEF At
<1> QED
  BY <1>3, <1>7 DEF CleanInv

LEMMA NextClean == ChainInv /\ RoutingInv /\ CleanInv /\ [Next]_vars => CleanInv'
<1> SUFFICES ASSUME ChainInv, RoutingInv, CleanInv, [Next]_vars, noise' = 0
             PROVE  LineLayout' /\ \E c \in Nat : At(c)'
  BY DEF CleanInv
<1>1. noise \in Nat
  BY SessionAssumption DEF ChainInv, LineTypes
<1>2. CASE Sends
  <2>1. noise' = noise \/ noise' = noise + 1
    BY <1>2, SendsTransmit
  <2>2. noise = 0
    BY <1>1, <2>1
  <2>3. LineLayout /\ \E cur \in Nat : At(cur)
    BY <2>2 DEF CleanInv
  <2>4. PICK cur \in Nat : At(cur)
    BY <2>3
  <2>5. Next
    BY <1>2 DEF Next, Sends
  <2>6. Here(cur)
    BY <2>3, <2>4, <2>5, IsHere, StepIsUp
  <2> QED
    BY <1>2, <2>4, <2>6, SendKeepsClean
<1>3. CASE BytesArrive \/ PortFails \/ start_read \/ read_async_first
             \/ read_async_second \/ read_length \/ BodyRejected \/ Accepts
  <2>1. noise' = noise
    <3>1. Accepts => noise' = noise
      BY AcceptsAccept DEF Accept, lineVars
    <3> QED
      BY <1>3, <3>1 DEF BytesArrive, PortFails, start_read, read_async_first, read_async_second,
                        read_length, BodyRejected, lineVars
  <2>2. LineLayout /\ \E cur \in Nat : At(cur)
    BY <2>1 DEF CleanInv
  <2>3. PICK cur \in Nat : At(cur)
    BY <2>2
  <2>4. Next
    BY <1>3 DEF Next, Handlers, Accepts
  <2>5. Here(cur)
    BY <2>2, <2>3, <2>4, IsHere, StepIsUp
  <2> QED
    BY <1>3, <2>5, StepKeepsClean DEF ChainInv
<1>4. CASE UNCHANGED vars
  <2>1. /\ UNCHANGED <<stream, sent, noise, mode, asked, chunk, taken, stage, topic_id>>
        /\ UNCHANGED <<node, accepted>>
    BY <1>4 DEF vars, lineVars, readerVars
  <2>2. LineLayout /\ \E cur \in Nat : At(cur)
    BY <2>1 DEF CleanInv
  <2>3. PICK cur \in Nat : At(cur)
    BY <2>2
  <2>4. AcceptedBefore(cur)'
    BY <2>1, <2>3, AcceptedStays DEF At
  <2>5. ReadUpTo(cur)'
    BY <2>1, <2>3 DEF At, ReadUpTo
  <2>6. Reading(cur) => Reading(cur)'
    BY <2>1 DEF Reading, Start, Pending, Boundary
  <2>7. At(cur)'
    BY <2>1, <2>3, <2>4, <2>5, <2>6 DEF At
  <2> QED
    BY <2>1, <2>2, <2>7, LineStays
<1> QED
  BY <1>2, <1>3, <1>4, NextSteps

LEMMA CleanIsLossless == ChainInv /\ CleanInv => CleanLineLossless
<1> SUFFICES ASSUME ChainInv, CleanInv, noise = 0
             PROVE  /\ \A k \in DOMAIN accepted :
                         \E i \in DOMAIN sent : ~Carries(sent[i]) /\ Matches(accepted[k], sent[i])
                    /\ AcceptedInOrder
                    /\ \A i \in DOMAIN sent :
                         ~Carries(sent[i]) /\ sent[i].until < taken =>
                           \E k \in DOMAIN accepted : Matches(accepted[k], sent[i])
  BY DEF CleanLineLossless, AcceptedInOrder
<1>1. Shape /\ LineTypes /\ LineLayout
  BY DEF ChainInv, CleanInv
<1>2. PICK cur : At(cur)
  BY DEF CleanInv
<1>3. /\ cur \in 1..(Len(sent) + 1) /\ AcceptedAreSent(cur) /\ AcceptedInOrder
      /\ SoundAreAccepted(cur) /\ ReadUpTo(cur)
  BY <1>2 DEF At, AcceptedBefore
<1>4. Len(sent) \in Nat /\ DOMAIN sent = 1..Len(sent)
  BY <1>1 DEF LineTypes
<1>5. ASSUME NEW k \in DOMAIN accepted
      PROVE  \E i \in DOMAIN sent : ~Carries(sent[i]) /\ Matches(accepted[k], sent[i])
  <2>1. PICK i \in 1..(cur - 1) : IsFrame(accepted[k], sent[i])
    BY <1>3 DEF AcceptedAreSent
  <2>2. i \in DOMAIN sent
    BY <1>3, <1>4
  <2>3. PICK f, a, u, v, n, e : /\ f = sent[i] /\ a = accepted[k] /\ u = f.from /\ v = f.until
                                /\ n = Len(f.body) /\ e = Len(Encode(f))
    OBVIOUS
  <2>4. u \in Nat /\ n \in Nat /\ v = u + 8 + n /\ e = 8 + n
    BY <1>1, <2>2, <2>3, FrameBytes DEF Extends
  <2>5. u <= u /\ u + e <= v
    BY <2>4
  <2>6. Matches(a, f) /\ ~Carries(f)
    BY <2>1, <2>3, <2>5 DEF Matches, IsFrame
  <2> QED
    BY <2>2, <2>3, <2>6
<1>6. ASSUME NEW i \in DOMAIN sent, ~Carries(sent[i]), sent[i].until < taken
      PROVE  \E k \in DOMAIN accepted : Matches(accepted[k], sent[i])
  <2>1. i \notin cur..Len(sent)
    <3>1. sent[i].until \in Nat /\ taken \in Nat
      BY <1>1, FrameBytes DEF Extends, Shape, ReaderTypes
    <3>2. ~(taken <= sent[i].until)
      BY <1>6, <3>1
    <3> QED
      BY <1>3, <3>2 DEF ReadUpTo
  <2>2. i \in 1..(cur - 1)
    BY <1>3, <1>4, <2>1
  <2> QED
    BY <1>3, <1>6, <2>2 DEF SoundAreAccepted
<1> QED
  BY <1>3, <1>5, <1>6

\* On a clean line the session accepts exactly the frames whose checksums do not carry,
\* once each and in the order they were sent: for every set of frames, whatever their
\* bodies hold, every capacity and every way the bytes are cut into reads.
THEOREM CleanLineExact == Spec => []CleanLineLossless
<1>1. Init => CleanInv
  BY InitClean
<1>2. ChainInv /\ RoutingInv /\ CleanInv /\ [Next]_vars => CleanInv'
  BY NextClean
<1>3. ChainInv /\ CleanInv => CleanLineLossless
  BY CleanIsLossless
<1>4. Spec => []RoutingInv
  BY InitRouting, NextRouting, ChainInvariance, PTL DEF Spec
<1> QED
  BY <1>1, <1>2, <1>3, <1>4, ChainInvariance, PTL DEF Spec
=============================================================================
