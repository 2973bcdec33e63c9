------------------------------- MODULE FrameSender -------------------------------
(***************************************************************************)
(* What the write side promises the ROS callbacks that share the serial    *)
(* port: the frames they hand over leave one at a time, whole and in the   *)
(* order they were accepted.  A failed write abandons the frame it stopped *)
(* in and every frame accepted behind it.                                  *)
(***************************************************************************)
EXTENDS Naturals, Sequences

CONSTANTS Frames,     \* the frames that may be handed over
          FrameLen    \* how many pieces the port can cut a frame into

VARIABLES queue,   \* accepted frames that have not left, in order
          sent,    \* pieces of the first of them already on the line
          line     \* the pieces sent so far: <<frame, number>>

senderVars == <<queue, sent, line>>

Init == queue = <<>> /\ sent = 0 /\ line = <<>>

Accept(f) ==
  /\ queue' = Append(queue, f)
  /\ UNCHANGED <<sent, line>>

Pieces(f, from, to) == [i \in 1..(to - from) |-> <<f, from + i>>]

Send(k) ==
  /\ queue # <<>>
  /\ sent + k <= FrameLen
  /\ sent' = sent + k
  /\ line' = line \o Pieces(Head(queue), sent, sent + k)
  /\ UNCHANGED queue

Retire ==
  /\ queue # <<>>
  /\ sent = FrameLen
  /\ queue' = Tail(queue)
  /\ sent' = 0
  /\ UNCHANGED line

Abandon ==
  /\ queue # <<>>
  /\ sent < FrameLen
  /\ queue' = <<>>
  /\ sent' = 0
  /\ UNCHANGED line

Next ==
  \/ \E f \in Frames : Accept(f)
  \/ \E k \in 1..FrameLen : Send(k)
  \/ Retire
  \/ Abandon

Spec == Init /\ [][Next]_senderVars
=============================================================================
