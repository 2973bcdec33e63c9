----------------------------- MODULE MCSerialSession -----------------------------
(***************************************************************************)
(* Instances of SerialSession: a device that registers topics and sends    *)
(* data (routing), and one whose plain frames cross a noisy line.          *)
(***************************************************************************)
EXTENDS SerialSession

Frame(topic, body) == [topic |-> topic, body |-> body]

\* TopicInfo bodies: topic id, the three strings, buffer_size.
RoutingFrames ==
  { Frame(ID_PUBLISHER, <<5, 1, 1, 1, 0>>),   \* registers topic id 5
    Frame(ID_SUBSCRIBER, <<5, 1, 1, 1, 0>>),
    Frame(ID_PUBLISHER, <<0, 1, 1, 1, 0>>),   \* takes over the registration id itself
    Frame(ID_PUBLISHER, <<5, 1, 9, 1, 0>>),   \* a type name too long to read
    Frame(ID_SUBSCRIBER, <<6, 1, 2, 1, 0>>),  \* a type that is not installed
    Frame(ID_PUBLISHER, <<6, 2, 1, 1, 0>>),   \* a topic name that is not valid
    Frame(5, <<7, 7>>),                       \* data
    Frame(5, <<>>),                           \* data, too short for its type
    Frame(255, <<1>>) }                       \* the two checksums carry

NoiseFrames == { Frame(5, <<7>>), Frame(3, <<1, 2, 0>>) }
=============================================================================
