------------------------------ MODULE StreamSniffer ------------------------------
(***************************************************************************)
(* rosserial_stream_sniffer.py with --frame: it watches what the node      *)
(* writes to the line, in chunks of any size, and shows the frames it      *)
(* finds.  The line is a parameter: the bytes written so far.              *)
(***************************************************************************)
EXTENDS RosserialFrame

CONSTANT ChunkSize    \* the most os.read returns, 4096 by default

ASSUME SnifferAssumption == ChunkSize \in Nat \ {0}

VARIABLES
  sniffing,   \* is the device open?
  missed,     \* how many bytes had gone by when it was opened
  heard,      \* how many bytes went by so far
  frame_buf,  \* those not consumed yet
  shown       \* the frames it has shown

snifferVars == <<sniffing, missed, heard, frame_buf, shown>>

SnifferInit ==
  /\ sniffing = FALSE
  /\ missed = 0 /\ heard = 0
  /\ frame_buf = <<>> /\ shown = <<>>

calc_len_checksum(length_l, length_h) == (255 - ((length_l + length_h) % 256)) % 256

calc_msg_checksum(topic_id_l, topic_id_h, payload) ==
  (255 - ((topic_id_l + topic_id_h + DatasumBytes(payload)) % 256)) % 256

\* A complete frame: only its sync flags and its length have been looked at.
Shown(frame) ==
  LET payload == SubSeq(frame, 8, Len(frame) - 1)
  IN  [topic_id |-> FromLowHigh(frame[6], frame[7]), payload |-> payload,
       len_checksum_ok |-> frame[5] = calc_len_checksum(frame[3], frame[4]),
       msg_checksum_ok |-> frame[Len(frame)] = calc_msg_checksum(frame[6], frame[7], payload)]

\* Wrong variant: a frame of eight bytes at the end of the buffer is not looked at.
MoreThanHeaderLeft(i, buffer) == i < Len(buffer) - 8
HeaderLeft(i, buffer) == i <= Len(buffer) - 8

\* The frames of a buffer from its i-th byte on, and how many bytes they used up.
parse_rosserial_frames(buffer) ==
  LET from[i \in Nat] ==
        IF ~HeaderLeft(i, buffer) THEN [frames |-> <<>>, consumed |-> i]
        ELSE IF buffer[i + 1] # 255 \/ buffer[i + 2] # 254 THEN from[i + 1]
        ELSE LET total_len == 8 + FromLowHigh(buffer[i + 3], buffer[i + 4])
             IN  IF i + total_len > Len(buffer) THEN [frames |-> <<>>, consumed |-> i]
                 ELSE LET rest == from[i + total_len]
                      IN  [rest EXCEPT !.frames = <<Shown(SubSeq(buffer, i + 1, i + total_len))>> \o @]
  IN  from[0]

\* The device is opened; of what was written before, the kernel may still hold a part.
OpenDevice(line) ==
  /\ ~sniffing
  /\ sniffing' = TRUE
  /\ missed' \in 0..Len(line)
  /\ heard' = missed'
  /\ UNCHANGED <<frame_buf, shown>>

\* os.read returns what is there, up to a chunk.
Available(line) == 1..(IF Len(line) - heard < ChunkSize THEN Len(line) - heard ELSE ChunkSize)

\* Wrong variants: the whole buffer is dropped once it was looked at; its beginning is kept.
DropAll(buffer, consumed) == <<>>
KeepFront(buffer, consumed) == SubSeq(buffer, 1, Len(buffer) - consumed)
Keep(buffer, consumed) == SubSeq(buffer, consumed + 1, Len(buffer))

ReadChunk(line) ==
  /\ sniffing
  /\ \E n \in Available(line) :
       /\ heard' = heard + n
       /\ \E buffer \in {frame_buf \o SubSeq(line, heard + 1, heard + n)} :
            \E parsed \in {parse_rosserial_frames(buffer)} :
              /\ shown' = shown \o parsed.frames
              /\ frame_buf' = Keep(buffer, parsed.consumed)
  /\ UNCHANGED <<sniffing, missed>>
=============================================================================
