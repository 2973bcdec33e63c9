----------------------------- MODULE AsyncWriteBuffer -----------------------------
(***************************************************************************)
(* AsyncWriteBuffer<serial_port> (transport/async_transport.hpp): the      *)
(* queue through which the subscription callbacks share the serial port.   *)
(*                                                                         *)
(* write_to_serial may be called by several ROS callbacks at a time; the   *)
(* completion handler write_ec_callback runs on the thread that polls the  *)
(* io_context.  Both take write_mtx_.  Every read or write of the queue    *)
(* under the mutex is a step of its own, so that a step of another thread  *)
(* can fall between any two of them where the mutex does not forbid it.    *)
(*                                                                         *)
(* A frame is one call's packet; its bytes are FrameLen numbered pieces.   *)
(***************************************************************************)
EXTENDS Naturals, Sequences

CONSTANTS Frames,     \* the calls of write_to_serial, each with its frame
          FrameLen    \* pieces the port may cut a frame into

ASSUME WriteBufferAssumption ==
  /\ FrameLen \in Nat \ {0}
  /\ "free" \notin Frames
  /\ "io" \notin Frames

VARIABLES
  send_bufs,   \* send_bufs_
  write_mtx,   \* who holds write_mtx_: "free", a call or "io"
  pc,          \* where each call of write_to_serial is
  need_write,  \* its local of that name
  ops,         \* the async_writes whose completion has not been handled
  io,          \* where the polling thread is, and the operation it handles
  wire,        \* history: the pieces the port took, <<frame, number>>
  accepted,    \* history: the frames in the order they entered the queue
  dropped      \* history: the frames a failed write discarded

vars == <<send_bufs, write_mtx, pc, need_write, ops, io, wire, accepted, dropped>>

Elements(s) == {s[i] : i \in DOMAIN s}

\* An async_write of frame, started by a call or by the handler.
Op(by, frame, sent, failed) == [by |-> by, frame |-> frame, sent |-> sent, failed |-> failed]
Ops == [by : Frames \cup {"io"}, frame : Frames, sent : 0..FrameLen, failed : BOOLEAN]

Completed(o) == o.failed \/ o.sent = FrameLen
Polling == [at |-> "poll"]

Init ==
  /\ send_bufs = <<>>
  /\ write_mtx = "free"
  /\ pc = [f \in Frames |-> "idle"]
  /\ need_write = [f \in Frames |-> FALSE]
  /\ ops = {}
  /\ io = Polling
  /\ wire = <<>>
  /\ accepted = <<>>
  /\ dropped = {}

\* Wrong variant: nobody waits for the mutex.
MutexIgnored == TRUE
MutexFree == write_mtx = "free"

\* Wrong variant: write the frame just queued.
WriteBack(by) ==
  ops' = ops \cup {Op(by, send_bufs[Len(send_bufs)], 0, FALSE)}

do_write(by) == ops' = ops \cup {Op(by, Head(send_bufs), 0, FALSE)}

----------------------------------------------------------------------------
\* write_to_serial

Goto(f, label) == pc' = [pc EXCEPT ![f] = label]

\* A callback calls it; packaging_msg builds the frame from locals only.
Call(f) ==
  /\ pc[f] = "idle"
  /\ Goto(f, "packaged")
  /\ UNCHANGED <<send_bufs, write_mtx, need_write, ops, io, wire, accepted, dropped>>

Lock(f) ==
  /\ pc[f] = "packaged"
  /\ MutexFree
  /\ write_mtx' = f
  /\ Goto(f, "locked")
  /\ UNCHANGED <<send_bufs, need_write, ops, io, wire, accepted, dropped>>

\* Wrong variant: every call starts a write.
QueueIgnored == TRUE
QueueEmpty == send_bufs = <<>>

TestQueue(f) ==
  /\ pc[f] = "locked"
  /\ need_write' = [need_write EXCEPT ![f] = QueueEmpty]
  /\ Goto(f, "tested")
  /\ UNCHANGED <<send_bufs, write_mtx, ops, io, wire, accepted, dropped>>

\* Wrong variants: the sync flags are queued apart from the rest of the frame; the
\* new frame overtakes those that wait.
PushInTwo(f) == send_bufs' = send_bufs \o <<"sync", f>>
PushFront(f) == send_bufs' = <<f>> \o send_bufs
PushBack(f) == send_bufs' = Append(send_bufs, f)

Push(f) ==
  /\ pc[f] = "tested"
  /\ PushBack(f)
  /\ accepted' = Append(accepted, f)
  /\ Goto(f, "pushed")
  /\ UNCHANGED <<write_mtx, need_write, ops, io, wire, dropped>>

\* Wrong variant: the function returns with the mutex held.
KeepMutex == UNCHANGED write_mtx
Unlock == write_mtx' = "free"

\* do_write() if nobody else is writing; the mutex is released on return.
Return(f) ==
  /\ pc[f] = "pushed"
  /\ IF need_write[f] THEN do_write(f) ELSE UNCHANGED ops
  /\ Unlock
  /\ Goto(f, "done")
  /\ UNCHANGED <<send_bufs, need_write, io, wire, accepted, dropped>>

----------------------------------------------------------------------------
\* The port and the operations asio runs on it

\* The port takes k more pieces of the frame.
WriteSome(o, k) ==
  /\ ~Completed(o)
  /\ o.sent + k <= FrameLen
  /\ ops' = (ops \ {o}) \cup {[o EXCEPT !.sent = @ + k]}
  /\ wire' = wire \o [i \in 1..k |-> <<o.frame, o.sent + i>>]
  /\ UNCHANGED <<send_bufs, write_mtx, pc, need_write, io, accepted, dropped>>

\* The write fails, or is aborted because the port is closed.
WriteFails(o) ==
  /\ ~Completed(o)
  /\ ops' = (ops \ {o}) \cup {[o EXCEPT !.failed = TRUE]}
  /\ UNCHANGED <<send_bufs, write_mtx, pc, need_write, io, wire, accepted, dropped>>

----------------------------------------------------------------------------
\* write_ec_callback

HandlerLocks(o) ==
  /\ io = Polling
  /\ Completed(o)
  /\ MutexFree
  /\ write_mtx' = "io"
  /\ io' = [at |-> "locked", op |-> o]
  /\ UNCHANGED <<send_bufs, pc, need_write, ops, wire, accepted, dropped>>

\* Wrong variant: only the frame that failed is discarded.
ClearFront ==
  /\ send_bufs' = Tail(send_bufs)
  /\ dropped' = dropped \cup {Head(send_bufs)}

Clear ==
  /\ send_bufs' = <<>>
  /\ dropped' = dropped \cup Elements(send_bufs)

HandlerClears ==
  /\ io.at = "locked"
  /\ io.op.failed
  /\ Clear
  /\ ops' = ops \ {io.op}
  /\ io' = Polling
  /\ Unlock
  /\ UNCHANGED <<pc, need_write, wire, accepted>>

\* Wrong variant: the frames that wait go with the one that was sent.
PopAll == send_bufs' = <<>>
PopFront == send_bufs' = Tail(send_bufs)

HandlerPops ==
  /\ io.at = "locked"
  /\ ~io.op.failed
  /\ PopFront
  /\ ops' = ops \ {io.op}
  /\ io' = [at |-> "popped"]
  /\ UNCHANGED <<write_mtx, pc, need_write, wire, accepted, dropped>>

\* Wrong variant: the handler leaves the next frame to the next call.
HandlerStops == UNCHANGED ops

WriteNext == IF send_bufs # <<>> THEN do_write("io") ELSE UNCHANGED ops

HandlerReturns ==
  /\ io.at = "popped"
  /\ WriteNext
  /\ io' = Polling
  /\ Unlock
  /\ UNCHANGED <<send_bufs, pc, need_write, wire, accepted, dropped>>

----------------------------------------------------------------------------
CallStep(f) == Lock(f) \/ TestQueue(f) \/ Push(f) \/ Return(f)
PortTakes == \E o \in ops, k \in 1..FrameLen : WriteSome(o, k)
HandlerStep ==
  (\E o \in ops : HandlerLocks(o)) \/ HandlerClears \/ HandlerPops \/ HandlerReturns

Next ==
  \/ \E f \in Frames : Call(f)
  \/ \E f \in Frames : Lock(f)
  \/ \E f \in Frames : TestQueue(f)
  \/ \E f \in Frames : Push(f)
  \/ \E f \in Frames : Return(f)
  \/ \E o \in ops, k \in 1..FrameLen : WriteSome(o, k)
  \/ \E o \in ops : WriteFails(o)
  \/ \E o \in ops : HandlerLocks(o)
  \/ HandlerClears
  \/ HandlerPops
  \/ HandlerReturns

Spec == Init /\ [][Next]_vars

\* A thread inside write_to_serial keeps running, the timer keeps polling the
\* io_context, and the port (no flow control) keeps taking bytes.
FairSpec ==
  /\ Spec
  /\ \A f \in Frames : WF_vars(CallStep(f))
  /\ WF_vars(PortTakes)
  /\ WF_vars(HandlerStep)

----------------------------------------------------------------------------
TypeOK ==
  /\ send_bufs \in Seq(Frames)
  /\ write_mtx \in Frames \cup {"free", "io"}
  /\ pc \in [Frames -> {"idle", "packaged", "locked", "tested", "pushed", "done"}]
  /\ need_write \in [Frames -> BOOLEAN]
  /\ ops \subseteq Ops
  /\ io \in {Polling, [at |-> "popped"]} \cup [at : {"locked"}, op : Ops]
  /\ wire \in Seq(Frames \X (1..FrameLen))
  /\ accepted \in Seq(Frames)
  /\ dropped \subseteq Frames

\* Readme, 6: only one write is in progress on the port at any time, whoever
\* starts it.
OneWriteInFlight == \A o, p \in ops : o = p

\* The bytes asio is writing belong to the frame at the front of the queue: no
\* pop_front() or clear() frees the vector under a write that may still run.
WrittenFrameIsQueued == \A o \in ops : send_bufs # <<>> /\ o.frame = Head(send_bufs)

\* The comments in write_to_serial: whether the queue is empty tells whether a
\* write is in progress, for everyone who can look, that is, under the mutex.
BusyIffQueued == write_mtx = "free" => (send_bufs # <<>> <=> ops # {})

\* Readme, 6: frames do not interleave.  A piece that is not the first of its
\* frame follows the one before it, and the frame cut short by the start of
\* another is one that a failed write discarded.
FramesUnbroken ==
  \A i \in DOMAIN wire :
    LET f == wire[i][1]
        n == wire[i][2]
    IN  IF n = 1
          THEN i > 1 => \/ wire[i - 1][2] = FrameLen
                        \/ wire[i - 1][1] \in dropped
          ELSE i > 1 /\ wire[i - 1] = <<f, n - 1>>

OnWire(f) == <<f, FrameLen>> \in Elements(wire)

\* A frame leaves the queue only whole, or because a write failed, and is then
\* neither sent later nor queued again.
NothingVanishes ==
  \A f \in Elements(accepted) :
    \/ f \in Elements(send_bufs) /\ f \notin dropped
    \/ f \in dropped /\ ~OnWire(f) /\ f \notin Elements(send_bufs)
    \/ OnWire(f) /\ f \notin dropped /\ f \notin Elements(send_bufs)

\* Frames reach the port in the order the queue accepted them.
SentInAcceptanceOrder ==
  \A i, j \in DOMAIN accepted :
    i < j /\ (\E p \in Elements(wire) : p[1] = accepted[j])
      => OnWire(accepted[i]) \/ accepted[i] \in dropped

\* No call of write_to_serial blocks for ever on the mutex.
EveryCallReturns == \A f \in Frames : pc[f] = "packaged" ~> pc[f] = "done"

\* Every accepted frame is written to its end or discarded with a failed write,
\* even when its call found a write in progress and only queued it.
EveryFrameSettles ==
  \A f \in Frames : pc[f] = "done" ~> (OnWire(f) \/ f \in dropped)

\* Refinement: to its callers the buffer is the abstract sender.
Sent == IF ops = {} THEN 0 ELSE (CHOOSE o \in ops : TRUE).sent

Sender == INSTANCE FrameSender WITH queue <- send_bufs, sent <- Sent, line <- wire

\* Whichever threads call it, and wherever a write fails, the bytes on the line
\* are those FrameSender allows.
ImplementsFrameSender == Sender!Spec
=============================================================================
