------------------------------ MODULE MessageCodec ------------------------------
(***************************************************************************)
(* The two conversions of Stream_Deserialization between a ROS 2 message   *)
(* in memory and the packed bytes of ROS 1                                 *)
(* (ros_adapter/ros_message_adapter.hpp), with the reads of Ros_Stream     *)
(* (protocol/serial_stream.hpp) and the writes of Write_Buffer             *)
(* (protocol/message_serialization.hpp) they are made of.                  *)
(*                                                                         *)
(* A message is the sequence of its leaves, in the order of its members:   *)
(* the bytes of a scalar, of a fixed array of scalars or of a string, or   *)
(* the ROS 1 bytes of a sequence, which no conversion looks into.          *)
(* A byte that is no bool is copied as it is.                              *)
(* The conversions recurse over the type description: a call of theirs is  *)
(* a type, a member from which on its members are converted, and a place   *)
(* in the input, and what follows a step is a function of the place where  *)
(* the step ends.                                                          *)
(***************************************************************************)
EXTENDS RosserialFrame, SequencesExt

CONSTANTS
  Definitions,  \* type name -> its members, the introspection MessageMembers
  Depth,        \* type name -> a bound on the members met on any way down its nested types
  StdHeader,    \* the name of std_msgs/Header, which has a seq in ROS 1 only
  MaxString     \* the longest string that is parsed, 400 in the code

Types == DOMAIN Definitions

Width == [BOOL |-> 1, BYTE |-> 1, INT32 |-> 4, UINT32 |-> 4, FLOAT |-> 4, DOUBLE |-> 8]
Scalars == DOMAIN Width

\* A member is declared as T, T[n], T[] or T[<=n]; array_size is 0 for T and T[].
Members ==
  [name : STRING, type_id : Scalars \cup {"STRING", "MESSAGE", "OTHER"},
   is_array : BOOLEAN, array_size : Nat, is_upper_bound : BOOLEAN, sub : Types \cup {""}]

\* No message contains itself, so the bound exists.
ASSUME CodecAssumption ==
  /\ Depth \in [Types -> Nat]
  /\ \A t \in Types :
       /\ Definitions[t] \in Seq(Members)
       /\ Len(Definitions[t]) <= Depth[t]
       /\ \A i \in DOMAIN Definitions[t] :
            LET m == Definitions[t][i]
            IN  /\ ~m.is_array => m.array_size = 0
                /\ m.type_id = "MESSAGE" =>
                     m.sub \in Types /\ Len(Definitions[t]) + Depth[m.sub] <= Depth[t]
  /\ MaxString \in Word

IsSequence(m) == m.is_array /\ (m.is_upper_bound \/ m.array_size = 0)
Count(m) == IF m.is_array THEN m.array_size ELSE 1

\* How both conversions recognise std_msgs/Header: by the name of the member, and a
\* member of its own that is called stamp.
IsStdHeader(m) ==
  m.name = "header" /\ \E h \in DOMAIN Definitions[m.sub] : Definitions[m.sub][h].name = "stamp"

----------------------------------------------------------------------------
\* A conversion that has gone well so far: its place in the input, and its output.

Going(at, out) == [result |-> "true", at |-> at, out |-> out]
Stop(c, result) == [c EXCEPT !.result = result]

Then(this, rest) ==
  IF this.result # "true" THEN this
  ELSE [rest[this.at] EXCEPT !.out = this.out \o @]

\* A loop over the elements of an array.
Repeat(each, n, at) ==
  LET upTo[k \in 0..n] == IF k = 0 THEN Going(at, <<>>) ELSE Then(upTo[k - 1], each)
  IN  upTo[n]

Calls == Types \X (Nat \ {0}) \X Nat
From(struct, t, i) == [at \in Nat |-> struct[<<t, i, at>>]]

----------------------------------------------------------------------------
\* From ROS 1 to ROS 2

\* Ros_Stream: what does not fit throws.
Skip(stream, at, n) ==
  IF at + n <= Len(stream) THEN Going(at + n, <<>>) ELSE Stop(Going(at, <<>>), "throws")

Read(stream, at, n) ==
  LET c == Skip(stream, at, n)
  IN  IF c.result = "true" THEN [c EXCEPT !.out = <<SubSeq(stream, at + 1, at + n)>>] ELSE c

\* Wrong variant: a string of the greatest length is refused.
TooLongOrGreatest(len) == len.high > 0 \/ len.low >= MaxString
TooLong(len) == len.high > 0 \/ len.low > MaxString

\* A 32-bit length is kept in two halves; Ros_Stream throws for an empty string.
ReadString(stream, at) ==
  LET prefix == Read(stream, at, 4)
      b == prefix.out[1]
      len == [low |-> b[1] + 256 * b[2], high |-> b[3] + 256 * b[4]]
  IN  CASE prefix.result # "true" -> prefix
        [] prefix.result = "true" /\ TooLong(len) -> Stop(Going(at + 4, <<>>), "false")
        [] prefix.result = "true" /\ len.high + len.low = 0 -> Stop(Going(at + 4, <<>>), "throws")
        [] OTHER -> Read(stream, at + 4, len.low)

\* Wrong variant: the seq of a ROS 1 header is taken for the first bytes of its stamp.
SkipsNoSeq(m) == FALSE
SkipsSeq(m) == IsStdHeader(m)

\* A member of a nested type goes on with nested.
read_member(stream, m, at, nested) ==
  IF m.is_array /\ (IsSequence(m) \/ m.type_id # "DOUBLE") THEN Stop(Going(at, <<>>), "false")
  ELSE CASE m.type_id \in Scalars -> Read(stream, at, Count(m) * Width[m.type_id])
         [] m.type_id = "STRING" -> ReadString(stream, at)
         [] m.type_id = "MESSAGE" -> Then(Skip(stream, at, IF SkipsSeq(m) THEN 4 ELSE 0), nested)
         [] OTHER -> Stop(Going(at, <<>>), "false")

deserialize_ros1_to_struct(stream, type) ==
  LET struct[call \in Calls] ==
        LET t == call[1]
            i == call[2]
            m == Definitions[t][i]
        IN  IF i > Len(Definitions[t]) THEN Going(call[3], <<>>)
            ELSE Then(read_member(stream, m, call[3], From(struct, m.sub, 1)),
                      From(struct, t, i + 1))
  IN  struct[<<type, 1, 0>>]

----------------------------------------------------------------------------
\* From ROS 2 to ROS 1

LE32(n) == <<n % 256, n \div 256 % 256, n \div 65536 % 256, n \div 16777216 % 256>>

\* Wrong variant: no seq is written.
WritesNoSeq(m) == FALSE
WritesSeq(m) == m.array_size = 0 /\ IsStdHeader(m)

Leaf(msg, k) == IF k \in DOMAIN msg THEN msg[k] ELSE <<>>

\* The elements of a sequence of messages are not written, and a bounded one is read as
\* if it was a fixed array: what that finds in memory is undefined.
write_member(msg, m, at, nested) ==
  LET string == [p \in Nat |-> Going(p + 1, LE32(Len(Leaf(msg, p + 1))) \o Leaf(msg, p + 1))]
      elements == [p \in Nat |->
        CASE ~IsSequence(m) -> Repeat(nested, Count(m), p)
          [] IsSequence(m) /\ m.is_upper_bound -> Stop(Going(p, <<>>), "undefined")
          [] IsSequence(m) /\ ~m.is_upper_bound -> Going(p + 1, <<>>)]
  IN  CASE m.type_id = "MESSAGE" ->
             Then(Going(at, IF WritesSeq(m) THEN LE32(0) ELSE <<>>), elements)
        [] m.type_id = "OTHER" -> Stop(Going(at, <<>>), "false")
        [] m.type_id \in Scalars \cup {"STRING"} /\ IsSequence(m) -> Stop(Going(at, <<>>), "throws")
        [] m.type_id \in Scalars /\ ~IsSequence(m) -> Going(at + 1, Leaf(msg, at + 1))
        [] m.type_id = "STRING" /\ ~IsSequence(m) -> Repeat(string, Count(m), at)

serialized_struct_to_ros1(msg, type) ==
  LET struct[call \in Calls] ==
        LET t == call[1]
            i == call[2]
            m == Definitions[t][i]
        IN  IF i > Len(Definitions[t]) THEN Going(call[3], <<>>)
            ELSE Then(write_member(msg, m, call[3], From(struct, m.sub, 1)),
                      From(struct, t, i + 1))
  IN  struct[<<type, 1, 0>>]

----------------------------------------------------------------------------
\* The ROS 1 form of a message, from its type alone: the reference for both.

\* A piece of a message on the wire: a "seq", a "string", a "scalar" of a certain size or
\* array of such, a sequence of "messages", or "other".
Piece(kind, size) == [kind |-> kind, size |-> size]

Pieces(m, nested) ==
  IF IsSequence(m) THEN <<Piece(IF m.type_id = "MESSAGE" THEN "messages" ELSE "other", 0)>>
  ELSE CASE m.type_id = "MESSAGE" -> FlattenSeq([k \in 1..Count(m) |-> nested])
         [] m.type_id = "STRING" -> [k \in 1..Count(m) |-> Piece("string", 0)]
         [] m.type_id \in Scalars -> <<Piece("scalar", Count(m) * Width[m.type_id])>>
         [] m.type_id = "OTHER" -> <<Piece("other", 0)>>

Layout ==
  LET layout[t \in Types] ==
        (IF t = StdHeader THEN <<Piece("seq", 4)>> ELSE <<>>)
          \o FlattenSeq([i \in DOMAIN Definitions[t] |->
                           Pieces(Definitions[t][i], layout[Definitions[t][i].sub])])
  IN  [t \in Types |-> layout[t]]

\* How many of the first n pieces are a seq, and how many a leaf of the ROS 2 message.
Seqs(layout, n) == Cardinality({j \in 1..n : layout[j].kind = "seq"})
Leaves(layout, n) == n - Seqs(layout, n)

\* The values of a type in memory, and those its headers' seqs can have on the wire.
IsMessage(msg, type) ==
  LET layout == Layout[type]
  IN  /\ msg \in Seq(Seq(Byte))
      /\ Len(msg) = Leaves(layout, Len(layout))
      /\ \A j \in DOMAIN layout :
           layout[j].kind = "scalar" => Len(msg[Leaves(layout, j)]) = layout[j].size

SeqChoices(type, values) == [1..Seqs(Layout[type], Len(Layout[type])) -> values]

Wire(layout, msg, seqs) ==
  FlattenSeq([j \in DOMAIN layout |->
    LET leaf == msg[Leaves(layout, j)]
    IN  CASE layout[j].kind = "seq" -> seqs[Seqs(layout, j)]
          [] layout[j].kind = "string" -> LE32(Len(leaf)) \o leaf
          [] layout[j].kind = "omitted" -> <<>>
          [] OTHER -> leaf])

Ros1(msg, type, seqs) == Wire(Layout[type], msg, seqs)

\* The same without its sequences of messages, their lengths included.
Omitting(layout) ==
  [j \in DOMAIN layout |-> IF layout[j].kind = "messages" THEN Piece("omitted", 0) ELSE layout[j]]

Ros1Omitting(msg, type, seqs) == Wire(Omitting(Layout[type]), msg, seqs)

\* The members of a type and of all the types it contains.
AllMembers ==
  LET all[t \in Types] ==
        LET own == {Definitions[t][i] : i \in DOMAIN Definitions[t]}
        IN  own \cup UNION {all[m.sub] : m \in {n \in own : n.type_id = "MESSAGE"}}
  IN  [t \in Types |-> all[t]]

\* The types that contain std_msgs/Header under the name header, alone, and nothing else
\* that has a stamp under that name.
Conventional ==
  {t \in Types \ {StdHeader} :
     \A m \in AllMembers[t] :
       m.type_id = "MESSAGE" => (m.sub = StdHeader <=> IsStdHeader(m)) /\ (IsStdHeader(m) => ~m.is_array)}

\* The types each conversion has code for: the one to ROS 1 passes over the unbounded
\* sequences of messages.
Sendable ==
  {t \in Types :
     \A m \in AllMembers[t] :
       /\ m.type_id # "OTHER"
       /\ IsSequence(m) => m.type_id = "MESSAGE" /\ ~m.is_upper_bound}

Receivable ==
  {t \in Sendable : \A m \in AllMembers[t] : m.is_array => m.type_id = "DOUBLE"}

\* Strings that Ros_Stream and the limit let pass.
StringsPass(msg, type) ==
  LET layout == Layout[type]
  IN  \A j \in DOMAIN layout :
        layout[j].kind = "string" => Len(msg[Leaves(layout, j)]) \in 1..MaxString
=============================================================================
