# rosserial_ros2 in TLA+

Models, model checks and proofs for the serial server in `src/src/rosserial_server`
(ROS 2 node, Boost.Asio, header-only). Line numbers are those of the repository.

## 1. The system

A device speaks rosserial over a serial line. `SerialNode` (`serial_node.cpp`) owns a
`SerialDrive`, declares the parameters `port` and `baud`, and polls the drive's
io_context from a 10 ms timer. `SerialDrive` reads frames, creates ROS publishers and
subscriptions for the topics the device registers, routes data frames by topic id, and
writes what the subscriptions receive back to the line.

| Component | State it keeps | Operations | Module |
|---|---|---|---|
| `AsyncReadBuffer` (`async_transport.hpp:29-166`) | `mem_`, two indices, the size asked for, the callback | `read`, `read_callback`, `callSussessCallback`, `reset` | `AsyncReadBuffer`, promise: `ByteReader` |
| `AsyncWriteBuffer` (`:169-261`) | queue of frames, mutex | `write_to_serial`, `do_write`, `write_ec_callback` | `AsyncWriteBuffer`, promise: `FrameSender` |
| Framing (`:197-225`, `message_serialization.hpp`) | none | `packaging_msg`, `datasum_for_check`, `Write_Buffer::buffer_write` | `RosserialFrame`, `Framing` |
| Protocol session (`serial_session.hpp:175-324`) | stage of the frame being read, maps topic id -> callback, publisher, subscriber | `start_read` ... `read_body`, `create_publisher`, `create_subscriber`, `Serial_Publisher::handle` | `SerialSession` |
| Port and parameters (`serial_session.hpp:49-173, 327-388`, `serial_node.cpp`) | port, `serial_config_`, `async_reader_`, io_context | constructor, `open_serial`, `reload_hardware`, `parameter_callback`, `run_io_contect`, destructor | `SerialDrive` |
| `Ros_Stream`, `get_topic_info` (`serial_stream.hpp`) | a cursor | bounds-tested reads | `SerialSession` (registrations), `MessageCodec` |
| `Stream_Deserialization` (`ros_message_adapter.hpp`) | type description, type supports | `init`, `load_type_support`, `publish`, `subscribe`, the two conversions | `MessageCodec`, `TopicAdapter` |
| `Serial_Publisher`, `Serial_Subscriber` (`topic_handle.hpp`) | one adapter, one ROS end | constructors, `handle`, `callback` | `TopicAdapter`, `MessageFlow` |
| Sniffer (`rosserial_stream_sniffer.py`) | a byte buffer | `parse_rosserial_frames`, checksums, the loop over `os.read` | `StreamSniffer`, `MessageFlow` |

How they interact. The session asks the reader for n bytes and gives it a callback; the
reader answers from its buffer or starts an `async_read`, and posts the callback with a
pointer into its buffer; every callback issues the next read. This chain is the only
thing that keeps reading alive. Subscription callbacks call the writer; its completion
handler writes the next queued frame. All handlers run inside `run_io_contect`, on the
executor's thread, at most 51 to a batch. A parameter callback closes and reopens the
port: that aborts operations whose handlers are still to run, and replaces the reader.

What is hard: the read buffer's index arithmetic and the pointer held by a queued
callback; two kinds of threads around one queue; a checksum split over three integer
widths; resynchronising in the middle of a damaged frame; the order of aborted handlers,
reloads and batches; conversions that stop halfway, after which the message is published or sent
all the same; exceptions, which leave through `poll_one`, `spin` and `main`. The
full list, line by line, is under `hazards` in `PROJECT.json`.

## 2. The modules

Every module starts with what it models and what it leaves out. Definitions have the
names of the functions they model. Operators introduced by "Wrong variant" are plausible
mistakes: no specification uses them, they show that a property can fail.

**ByteReader, AsyncReadBuffer.** A byte is named by its position in the stream, so losing,
repeating or overwriting one is visible. `read` is three actions (`ReadRefused`,
`ReadFromPort`, `ReadFromBuffer`), `read_callback` two (`ReadCallback`, `ReadError`),
`Transfer` is the kernel filling the buffer in pieces of any size. A handler is one step:
they all run on the polling thread. `ByteReader` says what remains for the client: each
request is answered with exactly the next bytes, or the reader closes.

**FrameSender, AsyncWriteBuffer.** The Readme (section 6, line 205) wants callbacks on
several threads to be able to write; so each access to the queue is a step, and the mutex
is modelled. `WriteSome` takes any number of pieces of a frame, `WriteFails` is an error or
an abort at any point. `FrameSender` is an ordered queue of whole frames.

**RosserialFrame, Framing.** `packaging_msg` and its checksums as functions on bytes, with
`uint8_t` modulo 256 and `uint16_t` modulo 65536; `int` is wide enough not to wrap. Payloads
are a few bytes and any number of zeros. `Framing` sends one frame over a line that may
change bytes, through `read_length` and `read_body`.

**SerialSession.** The whole chain of handlers above `ByteReader` (instantiated; its actions
are the session's reads), with the tables. The device sends frames while the session waits
(when bytes come does not matter to the handlers), the line overwrites a burst, loses or
inserts a byte. A `TopicInfo` body is five tokens: the id, the lengths of three strings, the
buffer size. A length also stands for its string: `KnownTypes` are the type names that are
installed, `ValidNames` the topic names rclcpp accepts; with any other name it throws, and an
exception that leaves a handler makes `node = "terminated"`. The bodies a device sends fit the 16-bit
length field (`SessionAssumption`): a longer one is no frame.

**SerialDrive.** The port's life. `open_serial`, `reload_hardware` and `parameter_callback` are
functions on the state a reload touches, composed as in the code, with the outcome of every
open chosen freely; `SetParameters` is the executor calling them. Reading is reduced to the one
chain (`reading -> completed -> posted -> reading`) with the number of the reader each handler
is bound to, writing to the queue. `PollOne` runs the first handler of the io_context's queue. A session
callback may throw or have its next read refused. A write of which the port took a piece is
resumed by asio on whatever port is open then (`ResumeWrite`). A `baud` is 64 bits wide
and cut to an int (`AsInt`); the width is a constant, `IntValues`. What the node is launched with
is taken as it comes (`serial_node.cpp:13` checks nothing): any string, any number, of which
the configuration gets what an int keeps (`InForce`). The history `launched` remembers it. A port
without a name never opens; a baud of 0 does. A request is any sequence of `Settings`, also with
the same name twice, an empty port or a baud of any size; `Bauds`, the positive ints, are what
`parameter_callback` lets pass, whether the driver knows them or not. So what is in force is one
of those or what was launched (`KnownPorts`, `KnownBauds`).

**MessageCodec.** `deserialize_ros1_to_struct` and `serialized_struct_to_ros1` as recursive
functions over a type description, an introspection tree with names, types and array kinds. A
call of theirs (`Calls`) is a type, the member its loop has come to and a place in the input;
`read_member` and `write_member` are the bodies of the two loops, `Then` is what follows a step that
went well. A message is the sequence of its leaves. A conversion carries its place in the input, its output
and its result: `"true"`, `"false"`, `"throws"` (caught nowhere) or `"undefined"`. The reference is
`Ros1`, the packed form by the rules of ROS 1: the pieces a type consists of on the wire (`Layout`, from
the type alone) with the leaves put in their places. `CodecAssumption` gives every type a `Depth`, a bound
on the members met on any way down its nested types; it exists because no ROS message contains itself,
as nothing could lay it out in memory otherwise. `Conventional`,
`Sendable` and `Receivable` are the types whose headers the code can tell, and those each direction
has code for. A sequence of messages without a bound is `Sendable` in a restricted sense: the code writes
nothing for it, neither a count nor the elements (`ros_message_adapter.hpp:390-401`), and says nothing.
`Ros1Omitting` is the wire form without those pieces.

**TopicAdapter.** One registered topic. The constructors of publisher and subscriber load the
type support in their two different orders, with whatever parts are installed; a topic name rclcpp does
not accept throws at the place where the publisher or subscription is created (`RclcppTakes`). `handle` converts
a body, which the line may have cut or which may be of another type, since the `md5sum` is compared
with nothing; `publish` goes on after a failed conversion, as the code does. `callback` sends what
was converted, complete or not. The messages of a type are the values the type has in memory (`IsMessage`): as
many leaves as its layout has, those of scalars and of arrays of scalars with their size. Where the code's behaviour is undefined (`members_` never
assigned, an object finalised twice, a bounded sequence read as an array) every outcome is allowed.

**StreamSniffer, MessageFlow.** The sniffer's parser, and its loop as `ReadChunk`, with chunks of
any size up to `ChunkSize`; `missed` is how much of the line had gone by when it was opened.
`MessageFlow` composes a topic, the frames `packaging_msg` makes of what it sends, and the sniffer.

Composition: `AsyncReadBuffer` implements `ByteReader` (checked and proved), and
`SerialSession` is built on `ByteReader`; `Framing`, `SerialSession`, `MessageCodec`
and `StreamSniffer` use `RosserialFrame`; `MessageFlow` composes `TopicAdapter` and `StreamSniffer`.

## 3. The runs

| Run | Instance | Shows |
|---|---|---|
| `read_buffer` | capacity 5, requests of 1, 2, 3, 5 and 6 (refused), 11 bytes | index arithmetic, queued views, no short or late answers, `ByteReader` |
| `write_buffer` | 4 calls, frames of 2 pieces | one write at a time, order, frames unbroken, nothing lost silently, everything settles, `FrameSender` |
| `framing` | 6 topic ids and 5 byte values at the boundaries, payload sizes around 2^16, one damaged byte | a frame is accepted with its own topic id and, up to 65535 bytes, its whole payload, or rejected; which intact ones are rejected |
| `session_routing` | 9 frames (an unreadable type name, a type not installed, a topic name not accepted, data too short), 4 sent, clean line | nothing is skipped, repeated or merged; the newest registration serves; progress |
| `session_noise` | 2 frames, 4 sent, one burst of up to 3 bytes or one lost or inserted byte | nothing accepted that was not sent; losses stay near the damage |
| `drive` | 2 ports, launched with a baud cut to 0, one the driver refuses, one cut to -1, or no port name; 9 requests of which 2 are made, 2 frames, batches of 2 | the open port runs with the configuration; the configuration and the parameters ROS shows part only by the first settings of a rejected request; no starvation |
| `message_flow` | 18 types, 2 messages, one of them cut or foreign, strings up to 2, chunks up to 9 bytes | conversions are the ROS 1 form (without sequences of messages), nothing is read past or shifted, sound traffic arrives, the sniffer shows every frame |

Bounds. In `read_buffer` a capacity of 5 with requests up to 5 makes every relation of
indices, tail and request happen, among them compaction with 0 to 4 unread bytes; 11 bytes let
the buffer wrap twice. In `write_buffer` four calls are one writing, one queued and two racing for the
mutex. In `session_noise` the capacity is 12, so that a false length can be both served and
refused, and the damage can swallow following frames; the byte values are those a header,
a length and a checksum are made of. `LossNearDamage` states its bound as 7 + Capacity bytes: with
one byte less TLC finds a counterexample already at this size (a bound of 18 fails, 19 holds). It bounds what is lost,
not how long the session waits for the bytes of a false length. In `drive` the limit
of a batch is 1 instead of 50: two handlers make it, and reaching the limit is the ordinary case.
In `message_flow` the types are
small copies of those of std_msgs, geometry_msgs and sensor_msgs: every scalar, array kind and
nesting, a header by convention, two headers in one message, one under another name, one in an array, a custom one, and four
types with an incomplete installation. A body is cut at every byte. Data holds sync flags. Two
messages are enough for order and for a frame behind another, for a conversion keeps nothing
between two calls. `MaxString` is 2 instead of 400: strings of 0 to 3 bytes are at, below and above
it. The int of `drive` is scaled to 18 bits, just wide enough for its bauds.
Deadlock is not checked: every system here may legitimately stop (the device falls silent, the
node ends).

Five runs look for a counterexample and find one; each refutes what a document or a comment says.

| Run | Property | What happens |
|---|---|---|
| `framing_checksum` | `SnifferAgreesMeansAccepted` | `read_body` (274) adds as int: an intact frame whose two datasums exceed 255 together is rejected |
| `session_misaligned` | `MisalignedHeaderSurvived` | FF FF throws (236) and nobody catches it |
| `session_oversize` | `ReadingGoesOn` | one lost byte can verify as a length over 511; the read is refused and reading never resumes |
| `drive_deaf` | `ReloadedPortIsRead` | after a reload nobody calls `start_read` on the new reader |
| `drive_view` | `QueuedViewAlive` | a reload frees the buffer a queued callback points into |

Fairness. The timer fires for ever and a batch runs its handlers, so ready handlers, the
continuation of a call and of a batch are weakly fair. The port takes bytes offered to it (flow
control is off, `serial_session.hpp:359`). In `read_buffer` the bytes the device has sent
arrive. The sniffer loops over
`os.read`. Nothing obliges the device to send, a client to ask or a port to fail. In `drive` the
parameter callback is strongly fair: it competes with the timer for one thread, and the
executor serves every callback that was ready before it collects new ones.

## 4. The proofs

For every value of the constants, with the assumptions named in the modules. An invariant that
a run checks is seldom inductive alone: each proof module first states what has to be added,
proves that conjunction with one lemma per action, and takes the invariants from it.

*AsyncReadBufferProofs.* `IInv` is the conjunction of the type invariant and the five
safety invariants the run checks; each alone is not inductive. That the port writes only free
space needs that a read in progress asks for exactly what is missing
(`CompletionCoversRequest`); that the buffer holds the next bytes needs both; that a queued
view is intact needs that no read is in progress under it. `Refinement` shows that each step of
the buffer is a step of `ByteReader` or a stutter. `FallbackUnreachable` tells that the
`async_read_some` branch (131-136) is never taken.

*AsyncWriteBufferProofs.* `IInv` relates who holds the mutex to where every call is, and
states the link between queue and write in progress for the moments at which the mutex is
held too (between the push and `do_write`, between the pop and the next write). From it follow
`OneWriter`, `BufferAlive`, `QueueTellsBusy`, and `Refinement` to `FrameSender`, for any set of
callers. `HInv` adds what the histories have to do with the queue: the queue is the tail of
what was accepted, and accepted once; what is no longer in it was sent to its end or dropped;
the line holds pieces of started frames only, the last of which is the last one of the write in
progress, if it has taken any. From both follow `TypesHold`, `LineUnbroken`, `EveryFrameAccounted` and
`OrderKept`.

*RosserialFrameProofs.* First what the proofs of all modules rest on. The induction theorems of the library
have a predicate as a parameter, which no installed prover instantiates. Here induction is over a set,
`{i \in Nat : ...}`, and follows from the well-foundedness of `<`: `InductionUpTo` goes up to a number,
`InductionFromEnd` from the end of a buffer to its beginning, `RankInduction` along a measure.
`RecursionSolved` says that a function that recurses over any set of calls exists and has the value
its equation gives, if a rank falls with every call. Then the facts about sequences and `FlattenSeq`.
Last, what the checksums and the layout of a frame do, for all lengths, sums and
payloads: a datasum is a `uint8_t` (`DatasumBytesIsByte`) and changes with any one byte
(`OneByteChangesDatasum`); `OwnLengthVerifies`, `DamagedLengthRejected`, `OwnBodyVerdict` (accepted exactly when the
datasums do not carry), `DamagedSumRejected`; and where in a frame each byte stands.

*FramingProofs.* `IInv` adds that the line is the frame but for at most one byte (`LineInv`) and
what the handlers have tested at each stage (`StageInv`). `SingleDamageRejected` distinguishes
the places the byte can be: in the length or its checksum `read_length` fails, in the topic id, the body or
the last checksum `read_body` does, since one byte changes exactly one side of a sum. `CarriedWhole`: the
frame has the payload itself, if its size has a 16-bit length. From both follow `OnlySentAccepted` and
`CarryIsOnlyReason`; `VectorExact` and `SnifferAgrees` hold whatever
the line does.

*SerialDriveProofs.* A reload is described by what it leaves of the record it works on, for every
outcome of an open; `parameter_callback` runs through its settings, and an induction over them carries
this to requests of any length. `IInv` adds to `PortFollowsConfig` that nothing is open before
the constructor ran (`NotBuilt`) and that the writer is busy exactly while a frame is queued
(`WriterBusy`). `TypesHold` assumes nothing of the launch parameters but that they are a string and a
number. `RequestTakesEffect` and `AcceptedTakesEffect` are properties of steps: a request of any length, whichever
of its reloads fail, leaves the drive with its settings up to the first that failed, and ROS with all of it
or nothing of it; what ROS comes to show is in force.

*SerialSessionProofs.* Three invariants, each on the ones before. `ChainInv` says which bytes a handler
that is due has behind it and before it, so that none indexes beyond them (`TypesHold`).
`RoutingInv` relates the three maps to the frames accepted so far, on any line (`LatestServes`). `CleanInv` is for a
line without damage: the session stands in one of the frames that were sent, as far in as its stage says,
and has accepted the sound ones before it (`CleanLineExact`). The bodies may hold
sync flags: a session that starts in step stays in step.

*TopicAdapterProofs.* The conversions, for every set of message definitions that `CodecAssumption` allows,
every nesting and every stream. Both are calls of a recursion whose rank is the members still to be
met, so each has the value its equation gives (`RecursionSolved`). `ConversionWritesRos1`: by
induction on the rank, a call writes the pieces of the wire form from its member on, or, when it stops,
a beginning of them and nothing else; where the type has a sequence of messages, a call writes nothing and goes
on. `ConversionReadsRos1`: a call that returns `"true"` has read from its
place on exactly the wire form of the leaves it returns, for some value of each seq that stands in the
stream; and on the wire form of a message of a receivable type whose strings pass it returns that
message. `AdapterInv` then explains every entry of the histories by the conversion that made it.

*MessageFlowProofs.* The sniffer's parser recurses towards the end of its buffer. `ParsedInPieces`: what it finds
in a buffer and then in the rest of it followed by a chunk is what it finds in both together.
`FrameShown`: at a frame of `packaging_msg` it shows that frame, both checksums right, and goes on behind
it. `FlowInv`, the inductive invariant, is `AdapterInv`, from which every payload is bytes, so
that the line is the concatenation of frames and only grows, and `SnifferInv`: the sniffer has shown what
one look at all it heard shows, and its buffer is exactly what that look leaves (not in
`SnifferShowsLine`, and needed for the next chunk). That it shows `ToShow` when it was opened in step is
no induction over steps but over frames: the look passes the bytes before the first whole frame, which hold
no sync flags, and then goes from frame to frame. From `FlowInv` follow `FlowTypeCorrect`,
`EverySentIsRos1`, `EveryParsedIsInBody` and `SnifferShowsTheLine`; `EverySoundMessageArrives` is inductive next to
it. These are all the invariants the run checks.

These proofs changed the model where it could not be reasoned about: a recursion over types is
now a function of calls with an assumption that it ends; the wire form is computed from a layout and
no longer by a second recursion over messages; and the set of messages of a type is assumed to hold only values
the type has.

Only model-checked:

- `AcceptedWasSent` and `LossNearDamage` of the session. They are true of the frames of the run, not of all: a
  body may hold a whole frame, which a receiver that lost step accepts. What holds of all frames on a clean
  line is proved (`CleanLineExact`), and of one damaged frame too (`SingleDamageRejected`).
- All liveness: `AnsweredWhenBytesArrive`, `EveryCallReturns`, `EveryFrameSettles`, `CleanFrameAccepted`,
  `WriterNeverStuck`, `ParametersServed`, `EveryFrameShown`. The prover has neither fairness nor ENABLED.

## 5. Not modelled

- rmw and rosidl below their calls: `rmw_serialize` is taken to succeed for an intact object,
  `rmw_deserialize` may reject what was received. Numbers are their bytes; the ROS 2 ends of a topic
  are histories.
- The spelling of type names, library paths and symbols; several topics at once in `TopicAdapter`
  (they share nothing but the writer; routing is in `SerialSession`).
- asio below its handlers, but for the resumed write. Parameters other than `port` and `baud`, which the
  callback ignores.
- Reloads in `SerialSession`: what a reload leaves of the chain of reads is in `SerialDrive`.
- Logging, printing, the sniffer's command line, capture file and exit after `--max-bytes`, and the only test, which refers to a header and
  a class the repository does not contain.

Modelled, but without a property that would call it right or wrong:

- Half a frame on the line after a failed write, a message published from a half-filled object, and
  what the code does with pointers that were never assigned. The code promises nothing there; the model allows every
  outcome, and the properties say what they except.
- The wait for the bytes of a false length: it lasts until the device has sent that many, with no bound in time.

## 6. Plan

1. Done: the two buffers with their abstract specifications and proofs; framing; session; drive;
   message conversion, topics and the sniffer.
2. Done: the proofs of section 4, for every component.
3. The bound of `LossNearDamage` from the reader's capacity, for frames whose bodies hold no flags.
