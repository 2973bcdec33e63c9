------------------------------- MODULE TopicAdapter -------------------------------
(***************************************************************************)
(* One registered topic: Serial_Publisher or Serial_Subscriber             *)
(* (ros_adapter/topic_handle.hpp) with its Stream_Deserialization          *)
(* (ros_adapter/ros_message_adapter.hpp), from the type support it loads   *)
(* when it is created to the messages it converts.  Topics share nothing   *)
(* but the node and the writer, so one stands for all.                     *)
(*                                                                         *)
(* SerialSession decides which body reaches handle(); here a body is any   *)
(* that passed its checks.  rmw_serialize is taken to succeed for an       *)
(* intact object; what happens to one already finalised is undefined.      *)
(***************************************************************************)
EXTENDS MessageCodec

CONSTANTS
  Messages,     \* type name -> messages of that type, as sequences of leaves
  Installed,    \* type name -> what of its type support is installed
  TopicId,      \* the topic id of the registration
  SeqValues,    \* the seq values a device puts in its headers
  Garbage,      \* what a conversion may send whose behaviour is undefined
  MaxMessages,  \* bound: how many messages pass in either direction
  MaxBroken     \* bound: how many of the device's are cut or of another type

ASSUME AdapterAssumption ==
  /\ DOMAIN Messages = Types
  /\ \A t \in Types : \A msg \in Messages[t] : IsMessage(msg, t)
  /\ Installed \in [Types -> [introspection : {"library", "symbol", "missing"}, cpp : BOOLEAN]]
  /\ TopicId \in Word
  /\ SeqValues \subseteq [1..4 -> Byte] /\ Garbage \subseteq Seq(Byte)
  /\ {MaxMessages, MaxBroken} \subseteq Nat

VARIABLES
  node,        \* "up", "terminated" by an exception, or "crashed"
  role, type,  \* the kind and the message type of the registration
  support,     \* members_ of its Stream_Deserialization: "loaded" or never assigned
  bodies,      \* history: the bodies the device sent
  published,   \* history: what was published for them
  sent         \* history: the payloads the node wrote to the line

adapterVars == <<node, role, type, support, bodies, published, sent>>

AdapterInit ==
  /\ node = "up"
  /\ role = "none" /\ type = "" /\ support = "none"
  /\ bodies = <<>> /\ published = <<>> /\ sent = <<>>

----------------------------------------------------------------------------
\* Registration

\* load_type_support: without the package or its introspection library init returns
\* false and its result is ignored; without the symbol a null pointer is called; the
\* library of the CDR support is the one generic publishers and subscriptions need.
load_type_support(t) ==
  CASE Installed[t].introspection = "missing" -> "unassigned"
    [] Installed[t].introspection = "library" -> "crash"
    [] Installed[t].introspection = "symbol" -> "loaded"

Created(kind, t) ==
  /\ role' = kind
  /\ type' = t
  /\ support' = load_type_support(t)
  /\ UNCHANGED <<node, bodies, published, sent>>

NotCreated(outcome) ==
  /\ node' = outcome
  /\ UNCHANGED <<role, type, support, bodies, published, sent>>

Registering == node = "up" /\ role = "none"

\* rclcpp throws for a type without its CDR library and for a topic name that is not
\* valid; the name comes from the device and nothing looks at it before.
RclcppTakes(t, validName) == Installed[t].cpp /\ validName

\* create_generic_publisher comes before the type support.
Serial_Publisher(t, validName) ==
  /\ Registering
  /\ \/ ~RclcppTakes(t, validName) /\ NotCreated("terminated")
     \/ /\ RclcppTakes(t, validName)
        /\ \/ load_type_support(t) = "crash" /\ NotCreated("crashed")
           \/ load_type_support(t) # "crash" /\ Created("publisher", t)

\* create_generic_subscription comes after it.
Serial_Subscriber(t, validName) ==
  /\ Registering
  /\ \/ load_type_support(t) = "crash" /\ NotCreated("crashed")
     \/ /\ load_type_support(t) # "crash"
        /\ \/ ~RclcppTakes(t, validName) /\ NotCreated("terminated")
           \/ RclcppTakes(t, validName) /\ Created("subscriber", t)

----------------------------------------------------------------------------
\* publish(): a body of the device becomes a ROS 2 message

Dies(outcome) == node' = outcome /\ UNCHANGED published

Publishes(parsed, copy) ==
  /\ published' = Append(published, [parsed |-> parsed, copy |-> copy, body |-> Len(bodies')])
  /\ UNCHANGED node

\* Nothing is known of what is published: its copy stays empty.
Unknown == Publishes(FALSE, <<>>)

\* A message with a string or a sequence owns memory that fini_function gives back.
OwnsMemory == \E m \in AllMembers[type] : m.type_id = "STRING" \/ IsSequence(m)

\* members_ was never assigned: the test for null reads whatever is there.
PublishUnassigned ==
  /\ support = "unassigned"
  /\ UNCHANGED <<node, published>> \/ Unknown \/ Dies("crashed")

\* After a failed parse the object is finalised, and then serialised, published and
\* finalised again: for a plain object that publishes what was parsed so far.
PublishFinalised(c) ==
  /\ c.result = "false"
  /\ IF OwnsMemory THEN UNCHANGED <<node, published>> \/ Unknown \/ Dies("crashed")
                   ELSE Publishes(FALSE, c.out)

publish(body) ==
  LET c == deserialize_ros1_to_struct(body, type) IN
    \/ PublishUnassigned
    \/ /\ support = "loaded"
       /\ \/ c.result = "true" /\ Publishes(TRUE, c.out)
          \/ c.result = "throws" /\ Dies("terminated")
          \/ PublishFinalised(c)

\* A body arrives and is handled: the first n bytes of a message of type t.  The md5sum
\* of the registration is compared with nothing, so t may be another type than the
\* topic's, and the line may have cut a longer body.
handle(t, msg, seqs, n) ==
  LET wire == Ros1(msg, t, seqs)
      whole == t = type /\ n = Len(wire)
      broken == {i \in DOMAIN bodies : ~bodies[i].whole}
  IN  /\ node = "up" /\ role = "publisher"
      /\ Len(bodies) < MaxMessages
      /\ n \in 0..Len(wire)
      /\ whole \/ Cardinality(broken) < MaxBroken
      /\ bodies' = Append(bodies, [bytes |-> SubSeq(wire, 1, n), whole |-> whole,
                                   msg |-> IF whole THEN msg ELSE <<>>])
      /\ publish(SubSeq(wire, 1, n))
      /\ UNCHANGED <<role, type, support, sent>>

----------------------------------------------------------------------------
\* Serial_Subscriber::callback: a ROS 2 message becomes a frame

Writes(known, msg, payload) ==
  /\ sent' = Append(sent, [known |-> known, msg |-> msg, payload |-> payload])
  /\ UNCHANGED node

WritesUnknown ==
  \/ \E payload \in Garbage : Writes(FALSE, <<>>, payload)
  \/ node' = "crashed" /\ UNCHANGED sent

Subscribed ==
  /\ node = "up" /\ role = "subscriber"
  /\ Len(sent) < MaxMessages
  /\ UNCHANGED <<role, type, support, bodies, published>>

\* Whatever the conversion returns, the bytes it has written so far are sent.
callback(msg) ==
  LET c == serialized_struct_to_ros1(msg, type) IN
    /\ Subscribed
    /\ IF support = "unassigned" THEN WritesUnknown
       ELSE CASE c.result = "throws" -> node' = "terminated" /\ UNCHANGED sent
              [] c.result = "undefined" -> WritesUnknown
              [] OTHER -> Writes(TRUE, msg, c.out)

\* rmw_deserialize rejects what was received: the buffer is sent as it was made, empty.
CallbackUndecodable ==
  /\ Subscribed
  /\ support = "loaded"
  /\ Writes(FALSE, <<>>, <<>>)

AdapterNext ==
  \/ \E t \in Types, validName \in BOOLEAN : Serial_Publisher(t, validName)
  \/ \E t \in Types, validName \in BOOLEAN : Serial_Subscriber(t, validName)
  \/ /\ role = "publisher"
     /\ \E t \in Types : \E msg \in Messages[t], seqs \in SeqChoices(t, SeqValues) :
          \E n \in 0..Len(Ros1(msg, t, seqs)) : handle(t, msg, seqs, n)
  \/ role = "subscriber" /\ \E msg \in Messages[type] : callback(msg)
  \/ CallbackUndecodable

----------------------------------------------------------------------------
\* Every frame the node writes is the ROS 1 form of the message it received, header
\* seq included and its sequences of messages left out, which the code passes over
\* without a word; one that a member without a conversion has stopped is the beginning
\* of it and no other bytes.  Excepted are types whose headers the code cannot tell.
SentIsRos1 ==
  type \in Conventional =>
    \A k \in DOMAIN sent :
      sent[k].known =>
        \A zeros \in SeqChoices(type, {LE32(0)}) :
          LET whole == Ros1Omitting(sent[k].msg, type, zeros)
          IN  IF type \in Sendable THEN sent[k].payload = whole
              ELSE IsPrefix(sent[k].payload, whole)

\* A message published as parsed is one the device's bytes spell, member by member,
\* from the first byte on: nothing is read past the end of a body that is cut, and
\* nothing shifted when the body is of another type.
ParsedIsInBody ==
  type \in Conventional =>
    \A k \in DOMAIN published :
      LET p == published[k]
          bytes == bodies[p.body].bytes
      IN  p.parsed =>
            \E seqs \in SeqChoices(type, {SubSeq(bytes, j, j + 3) : j \in 1..(Len(bytes) - 3)}) :
              IsPrefix(Ros1(p.copy, type, seqs), bytes)

\* With its type support installed, and whole messages of the registered type whose
\* strings pass, the topic works: the node lives, and every message of the device is
\* published once, in order and with the values the device gave it.
SoundTrafficArrives ==
  role # "none" /\ support = "loaded" /\ type \in Conventional =>
    /\ role = "subscriber" /\ type \in Sendable => node = "up"
    /\ (/\ role = "publisher"
        /\ type \in Receivable
        /\ \A i \in DOMAIN bodies : bodies[i].whole /\ StringsPass(bodies[i].msg, type))
          => /\ node = "up"
             /\ published = [i \in DOMAIN bodies |->
                               [parsed |-> TRUE, copy |-> bodies[i].msg, body |-> i]]

AdapterTypeOK ==
  /\ node \in {"up", "terminated", "crashed"}
  /\ role \in {"none", "publisher", "subscriber"}
  /\ type \in Types \cup {""}
  /\ support \in {"none", "loaded", "unassigned"}
  /\ bodies \in Seq([bytes : Seq(Byte), whole : BOOLEAN, msg : Seq(Seq(Byte))])
  /\ published \in Seq([parsed : BOOLEAN, copy : Seq(Seq(Byte)), body : DOMAIN bodies])
  /\ sent \in Seq([known : BOOLEAN, msg : Seq(Seq(Byte)), payload : Seq(Byte)])
=============================================================================
