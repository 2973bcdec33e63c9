------------------------------- MODULE MessageFlow -------------------------------
(***************************************************************************)
(* A registered topic, the frames it writes to the line, and the sniffer   *)
(* of the repository that watches the line.                                *)
(***************************************************************************)
EXTENDS TopicAdapter, StreamSniffer

vars == <<adapterVars, snifferVars>>

\* A payload as packaging_msg sends it, and the line after the first k payloads.
Frame(payload) == <<255, 254>> \o packaging_msg([bytes |-> payload, zeros |-> 0], TopicId)

Line(k) ==
  LET upTo[i \in 0..k] == IF i = 0 THEN <<>> ELSE upTo[i - 1] \o Frame(sent[i].payload)
  IN  upTo[k]
line == Line(Len(sent))

Init == AdapterInit /\ SnifferInit

Sniff == UNCHANGED adapterVars /\ \E bytes \in {line} : ReadChunk(bytes)

Next ==
  \/ AdapterNext /\ UNCHANGED snifferVars
  \/ OpenDevice(line) /\ UNCHANGED adapterVars
  \/ Sniff

Spec == Init /\ [][Next]_vars

\* The sniffer loops over os.read for ever; nothing obliges anybody to send.
FairSpec == Spec /\ WF_vars(Sniff)

----------------------------------------------------------------------------
\* What the variables hold; the sniffer's buffer is the end of what it heard.
TypeOK ==
  /\ AdapterTypeOK
  /\ sniffing \in BOOLEAN
  /\ missed \in 0..heard
  /\ heard \in 0..Len(line)
  /\ Len(frame_buf) <= heard - missed
  /\ frame_buf = SubSeq(line, heard - Len(frame_buf) + 1, heard)
  /\ shown \in Seq([topic_id : Word, payload : Seq(Byte),
                    len_checksum_ok : BOOLEAN, msg_checksum_ok : BOOLEAN])

\* The frames that begin after the sniffer was opened: all from the first on.
Whole == {k \in DOMAIN sent : Len(Line(k - 1)) >= missed}
FirstWhole == Min(Whole \cup {Len(sent) + 1})

\* What they look like: of a longer payload a frame carries only the first bytes.
ToShow ==
  LET shows(payload) ==
        [topic_id |-> TopicId, payload |-> Carried([bytes |-> payload, zeros |-> 0]).bytes,
         len_checksum_ok |-> TRUE, msg_checksum_ok |-> TRUE]
  IN  SubSeq([k \in DOMAIN sent |-> shows(sent[k].payload)], FirstWhole, Len(sent))

\* The part of a frame that the sniffer hears first holds no sync flags of its own.
InStep ==
  LET bytes == line
  IN  \A i \in (missed + 1)..(Len(bytes) - 1) :
        bytes[i] = 255 /\ bytes[i + 1] = 254 => \E k \in Whole : i > Len(Line(k - 1))

\* However the line is cut into chunks, the sniffer shows what one look at all of the
\* bytes would find; and if it was not opened in the middle of a frame that hides sync
\* flags in its data, that is every frame the node wrote since, whole and verified.
SnifferShowsLine ==
  /\ shown = parse_rosserial_frames(SubSeq(line, missed + 1, heard)).frames
  /\ InStep => IsPrefix(shown, ToShow)

\* And it shows each of them without waiting for the node to write another.
EveryFrameShown ==
  \A n \in 1..MaxMessages :
    (sniffing /\ Len(ToShow) >= n /\ InStep) ~> Len(shown) >= n
=============================================================================
