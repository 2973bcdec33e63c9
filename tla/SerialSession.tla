------------------------------ MODULE SerialSession ------------------------------
(***************************************************************************)
(* SerialDrive as a protocol session (session/serial_session.hpp): the     *)
(* chain of read handlers from read_async_first to read_body, the          *)
(* registration handlers and the routing of data frames by topic id, fed   *)
(* by a device whose frames cross a noisy line.                            *)
(*                                                                         *)
(* The reader below it is ByteReader, which AsyncReadBuffer implements; a  *)
(* byte of the reader is a position in stream.  All handlers run on the    *)
(* thread that polls the io_context, each one as a single step.            *)
(***************************************************************************)
EXTENDS RosserialFrame, SequencesExt

CONSTANTS
  Capacity,     \* size of the read buffer, 512 in open_serial
  MaxString,    \* the longest string get_topic_info reads, 400 in the code
  ValidNames,   \* the topic names (their string tokens) that rclcpp accepts
  KnownTypes,   \* the message types (their string tokens) that are installed
  MessageLen,   \* the bytes a message of those types needs
  Frames,       \* what the device sends: records with a topic and a body
  NoiseBytes,   \* the values of bytes damaged or inserted by the line
  MaxFrames,    \* bound: how many frames the device sends
  MaxNoise,     \* bound: how many of them the line damages
  Burst         \* bound: the longest row of bytes it overwrites in a frame

ASSUME SessionAssumption ==
  /\ Capacity \in Nat \ {0}
  /\ {MaxString, MessageLen, MaxFrames, MaxNoise, Burst} \subseteq Nat
  /\ Frames \subseteq [topic : Word, body : Seq(Byte)]
  /\ \A f \in Frames : Len(f.body) \in Word   \* the length field of a frame
  /\ NoiseBytes \subseteq Byte

VARIABLES
  stream,       \* history: the bytes the line delivered
  sent,         \* history: the frames sent, with their place in stream
  noise,        \* how many of them were damaged
  mode, asked, chunk, taken,  \* the reader: see ByteReader
  stage,        \* the handler the outstanding read is for
  topic_id,     \* the topic id bound into read_body
  callback_,    \* topic id -> handler of its frames
  publisher_,   \* topic id -> publisher, named by the frame that registered it
  subscriber_,  \* topic id -> subscriber, named likewise
  node,         \* "up", or "terminated" by an exception nobody catches
  accepted      \* history: the frames that passed read_body's test

lineVars == <<stream, sent, noise>>
readerVars == <<mode, asked, chunk, taken>>
tableVars == <<callback_, publisher_, subscriber_>>
vars == <<lineVars, readerVars, stage, topic_id, tableVars, node, accepted>>

Reader == INSTANCE ByteReader WITH Requests <- 1..Capacity

ID_PUBLISHER == 0
ID_SUBSCRIBER == 1

Init ==
  /\ stream = <<>> /\ sent = <<>> /\ noise = 0
  /\ Reader!Init
  /\ stage = "none"
  /\ topic_id = 0
  /\ callback_ = <<>> /\ publisher_ = <<>> /\ subscriber_ = <<>>
  /\ node = "up"
  /\ accepted = <<>>

----------------------------------------------------------------------------
\* The line

Encode(f) == <<255, 254>> \o packaging_msg([bytes |-> f.body, zeros |-> 0], f.topic)

\* A burst overwrites n bytes in a row; a single byte may also be lost or inserted.
Over(s, i, w) == SubSeq(s, 1, i) \o w \o SubSeq(s, i + Len(w) + 1, Len(s))
Overwritten(s, n) == {Over(s, i, w) : i \in 0..(Len(s) - n), w \in [1..n -> NoiseBytes]}

Shifted(s) ==
  {RemoveAt(s, i) : i \in DOMAIN s}
    \cup {InsertAt(s, i, b) : i \in DOMAIN s, b \in NoiseBytes}

Damaged(s, n) == (Overwritten(s, n) \cup IF n = 1 THEN Shifted(s) ELSE {}) \ {s}

\* The device speaks while the session waits for bytes: when bytes arrive does not
\* change what the handlers do with them.
Waiting == node = "up" /\ asked # 0 /\ taken + asked > Len(stream)

Transmit(f, bytes, damage) ==
  /\ Waiting
  /\ Len(sent) < MaxFrames
  /\ stream' = stream \o bytes
  /\ sent' = Append(sent, [topic |-> f.topic, body |-> f.body, from |-> Len(stream),
                           until |-> Len(stream) + Len(bytes), damage |-> damage])
  /\ UNCHANGED <<readerVars, stage, topic_id, tableVars, node, accepted>>

SendFrame(f) ==
  /\ Transmit(f, Encode(f), 0)
  /\ UNCHANGED noise

SendDamaged(f, n) ==
  /\ noise < MaxNoise
  /\ \E bytes \in Damaged(Encode(f), n) : Transmit(f, bytes, n)
  /\ noise' = noise + 1

----------------------------------------------------------------------------
\* The chain of read handlers

\* async_reader_->read(n, callback): answered at once when the bytes are buffered.
read(n, callback) ==
  /\ \/ Reader!Request(n) /\ taken' <= Len(stream) /\ stage' = callback
     \/ Reader!Refuse(n) /\ stage' = "refused"
  /\ UNCHANGED node

read_async_head == read(1, "first")

\* An exception leaves the handler, poll_one, the timer, spin and main.
Throw ==
  /\ node' = "terminated"
  /\ UNCHANGED <<readerVars, stage>>

\* The handler callback is due; In(i) is the i-th byte of its Ros_Stream.
Due(callback) == node = "up" /\ stage = callback /\ chunk # <<>>
In(i) == stream[chunk[i] + 1]

\* The answer to a read that had to wait, and the failure of its port read.
BytesArrive ==
  /\ node = "up"
  /\ taken + asked <= Len(stream)
  /\ Reader!Answer
  /\ UNCHANGED <<lineVars, stage, topic_id, tableVars, node, accepted>>

PortFails ==
  /\ node = "up"
  /\ Reader!Fail
  /\ stage' = "failed"
  /\ UNCHANGED <<lineVars, topic_id, tableVars, node, accepted>>

start_read ==
  /\ mode = "fresh"
  /\ callback_' = [id \in {ID_PUBLISHER, ID_SUBSCRIBER} |->
                     [does |-> IF id = ID_PUBLISHER THEN "create_publisher"
                                                    ELSE "create_subscriber",
                      pub |-> 0]]
  /\ read_async_head
  /\ UNCHANGED <<lineVars, topic_id, publisher_, subscriber_, accepted>>

read_async_first ==
  /\ Due("first")
  /\ IF In(1) = 255 THEN read(1, "second") ELSE read_async_head
  /\ UNCHANGED <<lineVars, topic_id, tableVars, accepted>>

\* Wrong variant: one header byte too many is asked for.
SecondAsksForSix ==
  /\ Due("second")
  /\ CASE In(1) = 254 -> read(6, "length")
       [] In(1) = 255 -> Throw
       [] OTHER -> read_async_head
  /\ UNCHANGED <<lineVars, topic_id, tableVars, accepted>>

read_async_second ==
  /\ Due("second")
  /\ CASE In(1) = 254 -> read(5, "length")
       [] In(1) = 255 -> Throw
       [] OTHER -> read_async_head
  /\ UNCHANGED <<lineVars, topic_id, tableVars, accepted>>

\* Wrong variants: the checksum byte is left out of the body; after a bad length the
\* handler tries the next five bytes instead of looking for a header again.
LengthWithoutChecksum ==
  /\ Due("length")
  /\ LET length == FromLowHigh(In(1), In(2)) IN
       IF LengthVerifies(length, In(3))
         THEN topic_id' = FromLowHigh(In(4), In(5)) /\ read(length, "body")
         ELSE UNCHANGED topic_id /\ read_async_head
  /\ UNCHANGED <<lineVars, tableVars, accepted>>

LengthTriesAgain ==
  /\ Due("length")
  /\ LET length == FromLowHigh(In(1), In(2)) IN
       IF LengthVerifies(length, In(3))
         THEN topic_id' = FromLowHigh(In(4), In(5)) /\ read(length + 1, "body")
         ELSE UNCHANGED topic_id /\ read(5, "length")
  /\ UNCHANGED <<lineVars, tableVars, accepted>>

read_length ==
  /\ Due("length")
  /\ LET length == FromLowHigh(In(1), In(2)) IN
       IF LengthVerifies(length, In(3))
         THEN topic_id' = FromLowHigh(In(4), In(5)) /\ read(length + 1, "body")
         ELSE UNCHANGED topic_id /\ read_async_head
  /\ UNCHANGED <<lineVars, tableVars, accepted>>

----------------------------------------------------------------------------
\* read_body: verification, then the handler registered for the topic id

body_stream == [i \in 1..(Len(chunk) - 1) |-> In(i)]

\* Wrong variant: the checksum byte is read and not tested.
NotVerified == TRUE

Verified == BodyVerifies(DatasumBytes(body_stream), DatasumU16(topic_id), In(Len(chunk)))

BodyRejected ==
  /\ Due("body")
  /\ ~Verified
  /\ read_async_head
  /\ UNCHANGED <<lineVars, topic_id, tableVars, accepted>>

\* Wrong variant: the frame is taken to start eight bytes before its body.
AcceptOffByOne(outcome, pub) ==
  /\ Due("body")
  /\ Verified
  /\ accepted' = Append(accepted, [at |-> chunk[1] - 8, topic |-> topic_id,
                                   body |-> body_stream, outcome |-> outcome, pub |-> pub])
  /\ IF outcome = "exception" THEN Throw ELSE read_async_head
  /\ UNCHANGED <<lineVars, topic_id>>

\* The frame starts with the seven bytes before its body.  One whose handler throws
\* takes the node with it; any other is followed by the next read.
Accept(outcome, pub) ==
  /\ Due("body")
  /\ Verified
  /\ accepted' = Append(accepted, [at |-> chunk[1] - 7, topic |-> topic_id,
                                   body |-> body_stream, outcome |-> outcome, pub |-> pub])
  /\ IF outcome = "exception" THEN Throw ELSE read_async_head
  /\ UNCHANGED <<lineVars, topic_id>>

\* What this frame creates is named by its number.
ThisFrame == Len(accepted) + 1

RoutedTo(handler) == topic_id \in DOMAIN callback_ /\ callback_[topic_id].does = handler

NoCallback ==
  /\ topic_id \notin DOMAIN callback_
  /\ Accept("ignored", 0)
  /\ UNCHANGED tableVars

\* get_topic_info.  A TopicInfo is its topic id, a token for each of topic_name,
\* message_type and md5sum that is the length of the string, and buffer_size.  The
\* first string that is too long ends the parse quietly; one that is empty or beyond
\* the end of the body throws.
ReadsString(msg, i) == i <= Len(msg) /\ msg[i] \in 1..MaxString

TopicInfoSkipped(msg) ==
  \E i \in 2..4 : /\ i <= Len(msg)
                  /\ msg[i] > MaxString
                  /\ \A j \in 2..(i - 1) : ReadsString(msg, j)

TopicInfoRead(msg) == Len(msg) >= 5 /\ \A i \in 2..4 : ReadsString(msg, i)

\* Constructing the generic publisher or subscription throws for a topic name that is
\* not valid and for an unknown type.
Registers(msg) == TopicInfoRead(msg) /\ msg[2] \in ValidNames /\ msg[3] \in KnownTypes

Registration == RoutedTo("create_publisher") \/ RoutedTo("create_subscriber")

RegistrationSkipped ==
  /\ Registration
  /\ TopicInfoSkipped(body_stream)
  /\ Accept("ignored", 0)
  /\ UNCHANGED tableVars

RegistrationThrows ==
  /\ Registration
  /\ ~TopicInfoSkipped(body_stream)
  /\ ~Registers(body_stream)
  /\ Accept("exception", 0)
  /\ UNCHANGED tableVars

Put(table, id, value) ==
  [k \in DOMAIN table \cup {id} |-> IF k = id THEN value ELSE table[k]]

\* Wrong variant: a handler that is already there is kept (map::insert).
PutIfAbsent(table, id, value) == IF id \in DOMAIN table THEN table ELSE Put(table, id, value)

Bind(table, id, value) == Put(table, id, value)

create_publisher ==
  /\ RoutedTo("create_publisher")
  /\ Registers(body_stream)
  /\ LET id == body_stream[1] IN
       /\ publisher_' = Put(publisher_, id, ThisFrame)
       /\ callback_' = Bind(callback_, id, [does |-> "handle", pub |-> ThisFrame])
  /\ UNCHANGED subscriber_
  /\ Accept("publisher", ThisFrame)

create_subscriber ==
  /\ RoutedTo("create_subscriber")
  /\ Registers(body_stream)
  /\ subscriber_' = Put(subscriber_, body_stream[1], ThisFrame)
  /\ UNCHANGED <<callback_, publisher_>>
  /\ Accept("subscriber", ThisFrame)

\* Serial_Publisher::handle: a body too short for the message type throws; bytes
\* beyond it are not looked at.
handle ==
  /\ RoutedTo("handle")
  /\ Accept(IF Len(body_stream) < MessageLen THEN "exception" ELSE "published",
            callback_[topic_id].pub)
  /\ UNCHANGED tableVars

Handlers ==
  \/ start_read
  \/ read_async_first
  \/ read_async_second
  \/ read_length
  \/ BodyRejected
  \/ NoCallback
  \/ RegistrationSkipped
  \/ RegistrationThrows
  \/ create_publisher
  \/ create_subscriber
  \/ handle

Next ==
  \/ \E f \in Frames : SendFrame(f)
  \/ \E f \in Frames, n \in 1..Burst : SendDamaged(f, n)
  \/ BytesArrive
  \/ PortFails
  \/ Handlers

Spec == Init /\ [][Next]_vars

\* The 10 ms timer keeps polling, so a handler that is due runs and buffered bytes
\* are handed over; nothing obliges the device to send, nor the port to fail.
FairSpec == Spec /\ WF_vars(Handlers) /\ WF_vars(BytesArrive)

----------------------------------------------------------------------------
TypeOK ==
  /\ stream \in Seq(Byte)
  /\ sent \in Seq([topic : Word, body : Seq(Byte), from : Nat, until : Nat,
                   damage : 0..Burst])
  /\ noise \in 0..MaxNoise
  /\ mode \in {"fresh", "open", "closed"}
  /\ asked \in 0..Capacity
  /\ chunk \in Seq(Nat)
  /\ taken \in 0..Len(stream)
  /\ stage \in {"none", "first", "second", "length", "body", "refused", "failed"}
  /\ topic_id \in Word
  /\ DOMAIN callback_ \subseteq Word
  /\ \A id \in DOMAIN callback_ :
       callback_[id] \in [does : {"create_publisher", "create_subscriber", "handle"}, pub : Nat]
  /\ DOMAIN publisher_ \cup DOMAIN subscriber_ \subseteq Word
  /\ node \in {"up", "terminated"}
  /\ accepted \in Seq([at : Nat, topic : Word, body : Seq(Byte), pub : Nat,
                       outcome : {"ignored", "exception", "publisher", "subscriber", "published"}])

\* read_body's int sum rejects a frame, although intact, when its checksums carry.
Carries(f) == DatasumBytes(f.body) + DatasumU16(f.topic) > 255

\* The accepted frame a is the frame f, read where f is in the stream.
Matches(a, f) ==
  /\ a.topic = f.topic /\ a.body = f.body
  /\ f.from <= a.at /\ a.at + Len(Encode(f)) <= f.until

\* On a clean line every frame accepted is one that was sent and does not carry, none
\* is accepted twice or out of order, and every one that was read past is accepted:
\* however the bytes were cut into reads, no frame is skipped, repeated or put together
\* from the bytes of two.
CleanLineLossless ==
  noise = 0 =>
    /\ \A k \in DOMAIN accepted :
         \E i \in DOMAIN sent : ~Carries(sent[i]) /\ Matches(accepted[k], sent[i])
    /\ \A k \in DOMAIN accepted : \A j \in 1..(k - 1) : accepted[j].at < accepted[k].at
    /\ \A i \in DOMAIN sent :
         ~Carries(sent[i]) /\ sent[i].until < taken =>
           \E k \in DOMAIN accepted : Matches(accepted[k], sent[i])

\* While the line changes, loses or inserts a single byte of a frame, every frame
\* accepted is one that was sent, at its place and unchanged, and none is accepted
\* twice: looking for a header from the middle of a damaged frame never puts together
\* one the device did not send.
AcceptedWasSent ==
  (\A i \in DOMAIN sent : sent[i].damage <= 1) => \A k \in DOMAIN accepted :
    /\ \E i \in DOMAIN sent : Matches(accepted[k], sent[i])
    /\ \A j \in 1..(k - 1) : accepted[j].at < accepted[k].at

\* Damage costs no frame beyond the reach of one read: an intact frame that was read
\* past without being accepted starts within a header and a buffer of a damaged one.
LossNearDamage ==
  \A i \in DOMAIN sent :
    LET f == sent[i] IN
      f.damage = 0 /\ ~Carries(f) /\ f.until < taken =>
        \/ \E k \in DOMAIN accepted : Matches(accepted[k], f)
        \/ \E j \in 1..(i - 1) : sent[j].damage > 0 /\ f.from < sent[j].from + 7 + Capacity

\* The newest accepted frame before n with this outcome that registered topic id.
Registrations(outcome, id, n) ==
  {k \in 1..(n - 1) : accepted[k].outcome = outcome /\ accepted[k].body[1] = id}

IsLatest(k, S) == k \in S /\ \A j \in S : j <= k

\* Data is published by the publisher its topic id was last registered for, also
\* after the device registers again with another type, and both maps name the
\* newest registration of each id: the handler and the kept object never part.
LatestRegistrationServes ==
  /\ \A n \in DOMAIN accepted :
       accepted[n].outcome = "published" =>
         IsLatest(accepted[n].pub, Registrations("publisher", accepted[n].topic, n))
  /\ \A id \in DOMAIN publisher_ :
       /\ callback_[id] = [does |-> "handle", pub |-> publisher_[id]]
       /\ IsLatest(publisher_[id], Registrations("publisher", id, ThisFrame))
  /\ \A id \in DOMAIN subscriber_ :
       IsLatest(subscriber_[id], Registrations("subscriber", id, ThisFrame))

Stopped == node = "terminated" \/ mode = "closed"

\* A frame sent over a clean line is accepted without the device having to send
\* anything more, unless the port fails or a handler's exception ends the node.
CleanFrameAccepted ==
  \A i \in 1..MaxFrames :
    (noise = 0 /\ i \in DOMAIN sent /\ ~Carries(sent[i]))
       ~> (Stopped \/ \E k \in DOMAIN accepted :
                          i \in DOMAIN sent /\ Matches(accepted[k], sent[i]))

\* Readme.md:162-168: the staged parser handles a misaligned packet header
\* (166) and failed length and data checks (167).  So no noise
\* on the line ends the node while the device sends well-formed frames only.
MisalignedHeaderSurvived == node = "up"

\* Readme.md:126: an exceptional packet is not to spread to the data that follows.
\* So reading never stops for good because of what the line delivered.
ReadingGoesOn == stage # "refused"
=============================================================================
