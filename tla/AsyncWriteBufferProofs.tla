------------------------- MODULE AsyncWriteBufferProofs -------------------------
(***************************************************************************)
(* Proofs about AsyncWriteBuffer, for any number of concurrent calls of    *)
(* write_to_serial and frames of any length: one write at a time, of the   *)
(* frame at the front of the queue; the implementation of FrameSender; and *)
(* from the histories, that frames reach the port unbroken, in order, and  *)
(* that none vanishes.                                                     *)
(*                                                                         *)
(* BusyIffQueued, the comment the code relies on, is not inductive: it     *)
(* holds only while the mutex is free.  Busy says what replaces it at each *)
(* point of the two critical sections.                                     *)
(***************************************************************************)
EXTENDS AsyncWriteBuffer, Integers, TLAPS

\* The mutex is held exactly by the one that is inside a critical section.
Holding == {"locked", "tested", "pushed"}

MutexOwner ==
  /\ \A f \in Frames : pc[f] \in Holding <=> write_mtx = f
  /\ io.at \in {"locked", "popped"} <=> write_mtx = "io"

\* The operation being handled is one that completed and still counts as in
\* progress; an operation fails before its last piece is taken.
HandledIsCompleted == io.at = "locked" => io.op \in ops /\ Completed(io.op)
FailedIsUnfinished == \A o \in ops : o.failed => o.sent < FrameLen

BusyMeansQueued == send_bufs # <<>> <=> ops # {}

Busy ==
  /\ write_mtx = "free" => BusyMeansQueued
  /\ io.at = "locked" => BusyMeansQueued
  /\ io.at = "popped" => ops = {}
  /\ \A f \in Frames :
       /\ pc[f] = "locked" => BusyMeansQueued
       /\ pc[f] = "tested" => BusyMeansQueued /\ (need_write[f] <=> send_bufs = <<>>)
       /\ pc[f] = "pushed" => send_bufs # <<>> /\ (need_write[f] <=> ops = {})

CoreTypeOK ==
  /\ send_bufs \in Seq(Frames)
  /\ write_mtx \in Frames \cup {"free", "io"}
  /\ pc \in [Frames -> {"idle", "packaged", "locked", "tested", "pushed", "done"}]
  /\ need_write \in [Frames -> BOOLEAN]
  /\ ops \subseteq Ops
  /\ io \in {Polling, [at |-> "popped"]} \cup [at : {"locked"}, op : Ops]

IInv ==
  /\ CoreTypeOK
  /\ MutexOwner
  /\ HandledIsCompleted
  /\ FailedIsUnfinished
  /\ OneWriteInFlight
  /\ WrittenFrameIsQueued
  /\ Busy

LEMMA InitInvariant == Init => IInv
<1> SUFFICES ASSUME Init PROVE IInv
  OBVIOUS
<1> USE WriteBufferAssumption DEF Init, Polling
<1>1. CoreTypeOK
  BY DEF CoreTypeOK
<1>2. MutexOwner
  BY DEF MutexOwner, Holding
<1>3. HandledIsCompleted /\ FailedIsUnfinished /\ OneWriteInFlight /\ WrittenFrameIsQueued
  BY DEF HandledIsCompleted, FailedIsUnfinished, OneWriteInFlight, WrittenFrameIsQueued
<1>4. Busy
  BY DEF Busy, BusyMeansQueued
<1> QED
  BY <1>1, <1>2, <1>3, <1>4 DEF IInv

----------------------------------------------------------------------------
\* The steps of write_to_serial

LEMMA CallKeeps ==
  ASSUME IInv, NEW f \in Frames, Call(f)
  PROVE  IInv'
<1> USE WriteBufferAssumption DEF Call, Goto, IInv, CoreTypeOK
<1>1. CoreTypeOK'
  OBVIOUS
<1>2. MutexOwner'
  BY DEF MutexOwner, Holding
<1>3. HandledIsCompleted' /\ FailedIsUnfinished'
  BY DEF HandledIsCompleted, FailedIsUnfinished, Completed
<1>4. OneWriteInFlight' /\ WrittenFrameIsQueued'
  BY DEF OneWriteInFlight, WrittenFrameIsQueued
<1>5. Busy'
  BY DEF Busy, BusyMeansQueued
<1> QED
  BY <1>1, <1>2, <1>3, <1>4, <1>5

LEMMA LockKeeps ==
  ASSUME IInv, NEW f \in Frames, Lock(f)
  PROVE  IInv'
<1> USE WriteBufferAssumption DEF Lock, MutexFree, Goto, IInv, CoreTypeOK
<1>1. CoreTypeOK'
  OBVIOUS
<1>2. MutexOwner'
  BY DEF MutexOwner, Holding
<1>3. HandledIsCompleted' /\ FailedIsUnfinished'
  BY DEF HandledIsCompleted, FailedIsUnfinished, Completed
<1>4. OneWriteInFlight' /\ WrittenFrameIsQueued'
  BY DEF OneWriteInFlight, WrittenFrameIsQueued
<1>5. Busy'
  BY DEF Busy, BusyMeansQueued
<1> QED
  BY <1>1, <1>2, <1>3, <1>4, <1>5

LEMMA TestQueueKeeps ==
  ASSUME IInv, NEW f \in Frames, TestQueue(f)
  PROVE  IInv'
<1> USE WriteBufferAssumption DEF TestQueue, QueueEmpty, Goto, IInv, CoreTypeOK
<1>1. CoreTypeOK'
  OBVIOUS
<1>2. MutexOwner'
  BY DEF MutexOwner, Holding
<1>3. HandledIsCompleted' /\ FailedIsUnfinished'
  BY DEF HandledIsCompleted, FailedIsUnfinished, Completed
<1>4. OneWriteInFlight' /\ WrittenFrameIsQueued'
  BY DEF OneWriteInFlight, WrittenFrameIsQueued
<1>5. Busy'
  BY DEF Busy, BusyMeansQueued
<1> QED
  BY <1>1, <1>2, <1>3, <1>4, <1>5

\* Whoever is between the lock and the unlock is alone there.
LEMMA OnlyOneHolds ==
  ASSUME IInv, NEW f \in Frames, pc[f] \in Holding
  PROVE  /\ write_mtx = f
         /\ io = Polling
         /\ \A g \in Frames : g # f => pc[g] \notin Holding
<1>1. write_mtx = f /\ write_mtx # "io"
  BY WriteBufferAssumption DEF IInv, MutexOwner
<1>2. io.at \notin {"locked", "popped"}
  BY <1>1 DEF IInv, MutexOwner
<1>3. io = Polling
  BY <1>2 DEF IInv, CoreTypeOK
<1> QED
  BY <1>1, <1>3 DEF IInv, MutexOwner

LEMMA PushKeeps ==
  ASSUME IInv, NEW f \in Frames, Push(f)
  PROVE  IInv'
<1> USE WriteBufferAssumption DEF Push, PushBack, Goto, IInv, CoreTypeOK
<1>1. /\ write_mtx = f /\ io = Polling
      /\ \A g \in Frames : g # f => pc[g] \notin Holding
  BY OnlyOneHolds DEF Holding
<1>2. CoreTypeOK'
  OBVIOUS
<1>3. MutexOwner'
  BY DEF MutexOwner, Holding
<1>4. HandledIsCompleted' /\ FailedIsUnfinished'
  BY DEF HandledIsCompleted, FailedIsUnfinished, Completed
<1>5. /\ send_bufs' # <<>>
      /\ send_bufs # <<>> => Head(send_bufs') = Head(send_bufs)
  OBVIOUS
<1>6. OneWriteInFlight' /\ WrittenFrameIsQueued'
  BY <1>5 DEF OneWriteInFlight, WrittenFrameIsQueued
<1>7. Busy'
  BY <1>1, <1>5 DEF Busy, BusyMeansQueued, Holding, Polling
<1> QED
  BY <1>2, <1>3, <1>4, <1>6, <1>7

\* do_write() writes the front of a queue that is not empty, and is called only
\* when no write is in progress.
LEMMA DoWriteStarts ==
  ASSUME IInv, ops = {}, send_bufs # <<>>,
         NEW by \in Frames \cup {"io"}, do_write(by)
  PROVE  /\ ops' = {Op(by, Head(send_bufs), 0, FALSE)}
         /\ Op(by, Head(send_bufs), 0, FALSE) \in Ops
<1>1. Head(send_bufs) \in Frames
  BY DEF IInv, CoreTypeOK
<1> QED
  BY <1>1, WriteBufferAssumption DEF do_write, Op, Ops

LEMMA ReturnKeeps ==
  ASSUME IInv, NEW f \in Frames, Return(f)
  PROVE  IInv'
<1> USE WriteBufferAssumption DEF Return, Unlock, Goto, IInv
<1>1. /\ write_mtx = f /\ io = Polling
      /\ \A g \in Frames : g # f => pc[g] \notin Holding
  BY OnlyOneHolds DEF Holding
<1>2. send_bufs # <<>> /\ (need_write[f] <=> ops = {}) /\ need_write[f] \in BOOLEAN
  BY DEF Busy, CoreTypeOK
<1>3. MutexOwner'
  BY <1>1 DEF CoreTypeOK, MutexOwner, Holding, Polling
<1>4. CASE need_write[f]
  <2>1. /\ ops' = {Op(f, Head(send_bufs), 0, FALSE)}
        /\ Op(f, Head(send_bufs), 0, FALSE) \in Ops
    BY <1>2, <1>4, DoWriteStarts
  <2>2. CoreTypeOK'
    BY <2>1 DEF CoreTypeOK
  <2>3. HandledIsCompleted' /\ FailedIsUnfinished'
    BY <1>1, <2>1 DEF HandledIsCompleted, FailedIsUnfinished, Op, Polling
  <2>4. OneWriteInFlight' /\ WrittenFrameIsQueued'
    BY <1>2, <2>1 DEF OneWriteInFlight, WrittenFrameIsQueued, Op
  <2>5. Busy'
    BY <1>1, <1>2, <2>1 DEF Busy, BusyMeansQueued, Holding, Polling, CoreTypeOK
  <2> QED
    BY <1>3, <2>2, <2>3, <2>4, <2>5
<1>5. CASE ~need_write[f]
  <2>1. ops' = ops /\ ops # {}
    BY <1>2, <1>5
  <2>2. CoreTypeOK'
    BY <2>1 DEF CoreTypeOK
  <2>3. HandledIsCompleted' /\ FailedIsUnfinished'
    BY <1>1, <2>1 DEF HandledIsCompleted, FailedIsUnfinished, Polling
  <2>4. OneWriteInFlight' /\ WrittenFrameIsQueued'
    BY <2>1 DEF OneWriteInFlight, WrittenFrameIsQueued
  <2>5. Busy'
    BY <1>1, <1>2, <2>1 DEF Busy, BusyMeansQueued, Holding, Polling, CoreTypeOK
  <2> QED
    BY <1>3, <2>2, <2>3, <2>4, <2>5
<1> QED
  BY <1>2, <1>4, <1>5

----------------------------------------------------------------------------
\* The port

LEMMA WriteSomeKeeps ==
  ASSUME IInv, NEW o \in ops, NEW k \in 1..FrameLen, WriteSome(o, k)
  PROVE  IInv'
<1> DEFINE p == [o EXCEPT !.sent = @ + k]
<1> USE WriteBufferAssumption DEF WriteSome, IInv
<1>1. o \in Ops /\ ops = {o} /\ ~o.failed /\ o.sent + k <= FrameLen
  BY DEF CoreTypeOK, OneWriteInFlight, Completed
<1>2. ops' = {p}
  BY <1>1
<1>3. p \in Ops /\ p.frame = o.frame /\ ~p.failed
  <2>1. p = Op(o.by, o.frame, o.sent + k, o.failed)
    BY <1>1 DEF Ops, Op
  <2>2. o.sent + k \in 0..FrameLen
    BY <1>1 DEF Ops
  <2> QED
    BY <1>1, <2>1, <2>2 DEF Ops, Op
<1> HIDE DEF p
<1>4. CoreTypeOK'
  BY <1>2, <1>3 DEF CoreTypeOK
<1>5. MutexOwner'
  BY DEF MutexOwner
<1>6. HandledIsCompleted'
  BY <1>1 DEF HandledIsCompleted, OneWriteInFlight
<1>7. FailedIsUnfinished' /\ OneWriteInFlight' /\ WrittenFrameIsQueued'
  BY <1>2, <1>3 DEF FailedIsUnfinished, OneWriteInFlight, WrittenFrameIsQueued
<1>8. Busy'
  BY <1>1, <1>2 DEF Busy, BusyMeansQueued
<1> QED
  BY <1>4, <1>5, <1>6, <1>7, <1>8

LEMMA WriteFailsKeeps ==
  ASSUME IInv, NEW o \in ops, WriteFails(o)
  PROVE  IInv'
<1> DEFINE p == [o EXCEPT !.failed = TRUE]
<1> USE WriteBufferAssumption DEF WriteFails, IInv
<1>1. o \in Ops /\ ops = {o} /\ ~Completed(o)
  BY DEF CoreTypeOK, OneWriteInFlight
<1>2. ops' = {p}
  BY <1>1
<1>3. p \in Ops /\ p.frame = o.frame /\ p.sent < FrameLen
  <2>1. o \in Ops /\ o.sent < FrameLen
    BY <1>1 DEF Ops, Completed
  <2>2. p \in Ops
    BY <2>1, Zenon DEF Ops
  <2>3. p.frame = o.frame /\ p.sent = o.sent
    BY <2>1 DEF Ops
  <2> QED
    BY <2>1, <2>2, <2>3
<1> HIDE DEF p
<1>4. CoreTypeOK'
  BY <1>2, <1>3 DEF CoreTypeOK
<1>5. MutexOwner'
  BY DEF MutexOwner
<1>6. HandledIsCompleted'
  BY <1>1 DEF HandledIsCompleted, OneWriteInFlight
<1>7. FailedIsUnfinished' /\ OneWriteInFlight' /\ WrittenFrameIsQueued'
  BY <1>2, <1>3 DEF FailedIsUnfinished, OneWriteInFlight, WrittenFrameIsQueued
<1>8. Busy'
  BY <1>1, <1>2 DEF Busy, BusyMeansQueued
<1> QED
  BY <1>4, <1>5, <1>6, <1>7, <1>8

----------------------------------------------------------------------------
\* The steps of write_ec_callback

LEMMA HandlerLocksKeeps ==
  ASSUME IInv, NEW o \in ops, HandlerLocks(o)
  PROVE  IInv'
<1> USE WriteBufferAssumption DEF HandlerLocks, MutexFree, IInv
<1>1. CoreTypeOK'
  BY DEF CoreTypeOK
<1>2. MutexOwner'
  BY DEF MutexOwner, Holding
<1>3. HandledIsCompleted' /\ FailedIsUnfinished'
  BY DEF HandledIsCompleted, FailedIsUnfinished, Completed
<1>4. OneWriteInFlight' /\ WrittenFrameIsQueued'
  BY DEF OneWriteInFlight, WrittenFrameIsQueued
<1>5. Busy'
  BY DEF Busy, BusyMeansQueued
<1> QED
  BY <1>1, <1>2, <1>3, <1>4, <1>5

\* While the handler holds the mutex no call is in its critical section.
LEMMA HandlerHolds ==
  ASSUME IInv, io.at \in {"locked", "popped"}
  PROVE  write_mtx = "io" /\ \A f \in Frames : pc[f] \notin Holding
  BY WriteBufferAssumption DEF IInv, MutexOwner

LEMMA HandlerClearsKeeps ==
  ASSUME IInv, HandlerClears
  PROVE  IInv'
<1> USE WriteBufferAssumption DEF HandlerClears, Clear, Unlock, IInv
<1>1. \A f \in Frames : pc[f] \notin Holding
  BY HandlerHolds
<1>2. ops' = {} /\ send_bufs' = <<>> /\ io' = Polling /\ write_mtx' = "free"
  BY DEF HandledIsCompleted, OneWriteInFlight
<1>3. CoreTypeOK'
  BY <1>2 DEF CoreTypeOK
<1>4. MutexOwner'
  BY <1>1, <1>2 DEF MutexOwner, Polling
<1>5. HandledIsCompleted' /\ FailedIsUnfinished' /\ OneWriteInFlight' /\ WrittenFrameIsQueued'
  BY <1>2 DEF HandledIsCompleted, FailedIsUnfinished, OneWriteInFlight, WrittenFrameIsQueued, Polling
<1>6. Busy'
  BY <1>1, <1>2 DEF Busy, BusyMeansQueued, Polling, Holding
<1> QED
  BY <1>3, <1>4, <1>5, <1>6

LEMMA HandlerPopsKeeps ==
  ASSUME IInv, HandlerPops
  PROVE  IInv'
<1> USE WriteBufferAssumption DEF HandlerPops, PopFront, IInv
<1>1. write_mtx = "io" /\ \A f \in Frames : pc[f] \notin Holding
  BY HandlerHolds
<1>2. ops' = {} /\ io' = [at |-> "popped"] /\ io.op \in ops
  BY DEF HandledIsCompleted, OneWriteInFlight
<1>3. send_bufs' \in Seq(Frames)
  BY <1>2 DEF WrittenFrameIsQueued, CoreTypeOK
<1>4. CoreTypeOK'
  BY <1>2, <1>3 DEF CoreTypeOK
<1>5. MutexOwner'
  BY <1>1, <1>2 DEF MutexOwner, Holding
<1>6. HandledIsCompleted' /\ FailedIsUnfinished' /\ OneWriteInFlight' /\ WrittenFrameIsQueued'
  BY <1>2 DEF HandledIsCompleted, FailedIsUnfinished, OneWriteInFlight, WrittenFrameIsQueued
<1>7. Busy'
  BY <1>1, <1>2 DEF Busy, BusyMeansQueued, Holding
<1> QED
  BY <1>4, <1>5, <1>6, <1>7

LEMMA HandlerReturnsKeeps ==
  ASSUME IInv, HandlerReturns
  PROVE  IInv'
<1> USE WriteBufferAssumption DEF HandlerReturns, Unlock, IInv
<1>1. /\ \A f \in Frames : pc[f] \notin Holding
      /\ ops = {} /\ io' = Polling /\ write_mtx' = "free"
  BY HandlerHolds DEF Busy
<1>2. MutexOwner'
  BY <1>1 DEF MutexOwner, Polling
<1>3. CASE send_bufs # <<>>
  <2>1. /\ ops' = {Op("io", Head(send_bufs), 0, FALSE)}
        /\ Op("io", Head(send_bufs), 0, FALSE) \in Ops
    BY <1>1, <1>3, DoWriteStarts DEF WriteNext
  <2>2. CoreTypeOK'
    BY <1>1, <2>1 DEF CoreTypeOK
  <2>3. HandledIsCompleted' /\ FailedIsUnfinished' /\ OneWriteInFlight' /\ WrittenFrameIsQueued'
    BY <1>1, <1>3, <2>1
       DEF HandledIsCompleted, FailedIsUnfinished, OneWriteInFlight, WrittenFrameIsQueued, Op, Polling
  <2>4. Busy'
    <3>1. BusyMeansQueued' /\ \A f \in Frames : pc'[f] \notin Holding
      BY <1>1, <1>3, <2>1 DEF BusyMeansQueued
    <3> QED
      BY <1>1, <3>1 DEF Busy, Polling, Holding
  <2> QED
    BY <1>2, <2>2, <2>3, <2>4
<1>4. CASE send_bufs = <<>>
  <2>1. ops' = {}
    BY <1>1, <1>4 DEF WriteNext
  <2>2. CoreTypeOK'
    BY <1>1, <2>1 DEF CoreTypeOK
  <2>3. HandledIsCompleted' /\ FailedIsUnfinished' /\ OneWriteInFlight' /\ WrittenFrameIsQueued'
    BY <1>1, <2>1
       DEF HandledIsCompleted, FailedIsUnfinished, OneWriteInFlight, WrittenFrameIsQueued, Polling
  <2>4. Busy'
    BY <1>1, <1>4, <2>1 DEF Busy, BusyMeansQueued, Polling, Holding
  <2> QED
    BY <1>2, <2>2, <2>3, <2>4
<1> QED
  BY <1>3, <1>4

LEMMA StutterKeeps ==
  ASSUME IInv, UNCHANGED vars
  PROVE  IInv'
<1> USE DEF vars, IInv
<1>1. CoreTypeOK' /\ MutexOwner' /\ Busy'
  BY DEF CoreTypeOK, MutexOwner, Busy, BusyMeansQueued
<1>2. HandledIsCompleted' /\ FailedIsUnfinished' /\ OneWriteInFlight' /\ WrittenFrameIsQueued'
  BY DEF HandledIsCompleted, FailedIsUnfinished, OneWriteInFlight, WrittenFrameIsQueued
<1> QED
  BY <1>1, <1>2

----------------------------------------------------------------------------
\* Every reachable state satisfies the inductive invariant.
THEOREM Invariance == Spec => []IInv
<1>1. Init => IInv
  BY InitInvariant
<1>2. IInv /\ [Next]_vars => IInv'
  <2> SUFFICES ASSUME IInv, [Next]_vars PROVE IInv'
    OBVIOUS
  <2>1. CASE \E f \in Frames : Call(f)
    BY <2>1, CallKeeps
  <2>2. CASE \E f \in Frames : Lock(f)
    BY <2>2, LockKeeps
  <2>3. CASE \E f \in Frames : TestQueue(f)
    BY <2>3, TestQueueKeeps
  <2>4. CASE \E f \in Frames : Push(f)
    BY <2>4, PushKeeps
  <2>5. CASE \E f \in Frames : Return(f)
    BY <2>5, ReturnKeeps
  <2>6. CASE \E o \in ops, k \in 1..FrameLen : WriteSome(o, k)
    BY <2>6, WriteSomeKeeps
  <2>7. CASE \E o \in ops : WriteFails(o)
    BY <2>7, WriteFailsKeeps
  <2>8. CASE \E o \in ops : HandlerLocks(o)
    BY <2>8, HandlerLocksKeeps
  <2>9. CASE HandlerClears
    BY <2>9, HandlerClearsKeeps
  <2>10. CASE HandlerPops
    BY <2>10, HandlerPopsKeeps
  <2>11. CASE HandlerReturns
    BY <2>11, HandlerReturnsKeeps
  <2>12. CASE UNCHANGED vars
    BY <2>12, StutterKeeps
  <2> QED
    BY <2>1, <2>2, <2>3, <2>4, <2>5, <2>6, <2>7, <2>8, <2>9, <2>10, <2>11, <2>12 DEF Next
<1> QED
  BY <1>1, <1>2, PTL DEF Spec

\* Only one write is in progress, however many callbacks call write_to_serial.
THEOREM OneWriter == Spec => []OneWriteInFlight
  BY Invariance, PTL DEF IInv

\* The vector asio writes from is the front of the queue and is not freed under it.
THEOREM BufferAlive == Spec => []WrittenFrameIsQueued
  BY Invariance, PTL DEF IInv

\* For whoever holds or could take the mutex, a queue that is not empty means that
\* a write is in progress, and conversely.
THEOREM QueueTellsBusy == Spec => []BusyIffQueued
<1>1. IInv => BusyIffQueued
  BY DEF IInv, Busy, BusyMeansQueued, BusyIffQueued
<1> QED
  BY <1>1, Invariance, PTL

----------------------------------------------------------------------------
\* Refinement.  Sent is the progress of the one operation there may be.

LEMMA SentOfOne ==
  ASSUME NEW o, ops = {o}
  PROVE  Sent = o.sent
<1>1. (CHOOSE x \in ops : TRUE) = o
  OBVIOUS
<1> QED
  BY <1>1 DEF Sent

LEMMA SentOfOneNext ==
  ASSUME NEW o, ops' = {o}
  PROVE  Sent' = o.sent
<1>1. (CHOOSE x \in ops' : TRUE) = o
  OBVIOUS
<1> QED
  BY <1>1 DEF Sent

LEMMA PushIsAccept ==
  ASSUME NEW f \in Frames, Push(f)
  PROVE  Sender!Accept(f)
  BY DEF Push, PushBack, Sender!Accept, Sent

\* A write begins at the first piece: nothing of its frame has been sent.
LEMMA StartIsInvisible ==
  ASSUME IInv, ops = {}, send_bufs # <<>>, UNCHANGED <<send_bufs, wire>>,
         NEW by \in Frames \cup {"io"}, do_write(by)
  PROVE  UNCHANGED <<send_bufs, Sent, wire>>
<1> DEFINE o == Op(by, Head(send_bufs), 0, FALSE)
<1>1. ops' = {o} /\ o.sent = 0
  BY DoWriteStarts DEF Op
<1> HIDE DEF o
<1>2. Sent' = 0
  BY <1>1, SentOfOneNext
<1> QED
  BY <1>2 DEF Sent

LEMMA ReturnIsInvisible ==
  ASSUME IInv, NEW f \in Frames, Return(f)
  PROVE  UNCHANGED <<send_bufs, Sent, wire>>
<1>1. send_bufs # <<>> /\ (need_write[f] <=> ops = {}) /\ need_write[f] \in BOOLEAN
  BY DEF Return, IInv, Busy, CoreTypeOK
<1>2. CASE need_write[f]
  BY <1>1, <1>2, StartIsInvisible DEF Return
<1>3. CASE ~need_write[f]
  BY <1>3 DEF Return, Sent
<1> QED
  BY <1>1, <1>2, <1>3

LEMMA WriteSomeIsSend ==
  ASSUME IInv, NEW o \in ops, NEW k \in 1..FrameLen, WriteSome(o, k)
  PROVE  Sender!Send(k)
<1> DEFINE p == [o EXCEPT !.sent = @ + k]
<1> USE WriteBufferAssumption DEF WriteSome
<1>1. /\ o \in Ops /\ ops = {o} /\ o.sent + k <= FrameLen
      /\ send_bufs # <<>> /\ o.frame = Head(send_bufs)
  BY DEF IInv, CoreTypeOK, OneWriteInFlight, WrittenFrameIsQueued
<1>2. o.sent \in Nat /\ Sent = o.sent
  BY <1>1, SentOfOne DEF Ops
<1>3. Sent' = o.sent + k
  <2>1. ops' = {p} /\ p.sent = o.sent + k
    BY <1>1 DEF Ops
  <2> HIDE DEF p
  <2> QED
    BY <2>1, SentOfOneNext
<1>4. [i \in 1..k |-> <<o.frame, o.sent + i>>] = Sender!Pieces(Head(send_bufs), Sent, Sent + k)
  <2>1. (Sent + k) - Sent = k
    BY <1>2
  <2> QED
    BY <1>1, <1>2, <2>1 DEF Sender!Pieces
<1> QED
  BY <1>1, <1>2, <1>3, <1>4 DEF Sender!Send

LEMMA WriteFailsIsInvisible ==
  ASSUME IInv, NEW o \in ops, WriteFails(o)
  PROVE  UNCHANGED <<send_bufs, Sent, wire>>
<1> DEFINE p == [o EXCEPT !.failed = TRUE]
<1>1. o \in Ops /\ ops = {o}
  BY DEF IInv, CoreTypeOK, OneWriteInFlight
<1>2. ops' = {p} /\ p.sent = o.sent
  BY <1>1 DEF WriteFails, Ops
<1> HIDE DEF p
<1>3. Sent = o.sent /\ Sent' = p.sent
  BY <1>1, <1>2, SentOfOne, SentOfOneNext
<1> QED
  BY <1>2, <1>3 DEF WriteFails

\* The operation the handler looks at is the one in progress.
LEMMA HandledIsTheOne ==
  ASSUME IInv, io.at = "locked"
  PROVE  /\ ops = {io.op} /\ io.op \in Ops /\ Sent = io.op.sent
         /\ send_bufs # <<>>
<1>1. ops = {io.op} /\ io.op \in Ops
  BY DEF IInv, HandledIsCompleted, OneWriteInFlight, CoreTypeOK
<1> QED
  BY <1>1, SentOfOne DEF IInv, WrittenFrameIsQueued

LEMMA HandlerClearsIsAbandon ==
  ASSUME IInv, HandlerClears
  PROVE  Sender!Abandon
<1> USE DEF HandlerClears, Clear
<1>1. ops = {io.op} /\ Sent = io.op.sent /\ send_bufs # <<>>
  BY HandledIsTheOne
<1>2. Sent < FrameLen
  BY <1>1 DEF IInv, FailedIsUnfinished
<1>3. ops' = {}
  BY <1>1
<1>4. Sent' = 0
  BY <1>3 DEF Sent
<1> QED
  BY <1>1, <1>2, <1>4 DEF Sender!Abandon

LEMMA HandlerPopsIsRetire ==
  ASSUME IInv, HandlerPops
  PROVE  Sender!Retire
<1> USE DEF HandlerPops, PopFront
<1>1. ops = {io.op} /\ Sent = io.op.sent /\ send_bufs # <<>>
  BY HandledIsTheOne
<1>2. Sent = FrameLen
  BY <1>1 DEF IInv, HandledIsCompleted, Completed
<1>3. ops' = {}
  BY <1>1
<1>4. Sent' = 0
  BY <1>3 DEF Sent
<1> QED
  BY <1>1, <1>2, <1>4 DEF Sender!Retire

LEMMA HandlerReturnsIsInvisible ==
  ASSUME IInv, HandlerReturns
  PROVE  UNCHANGED <<send_bufs, Sent, wire>>
<1>1. ops = {}
  BY DEF HandlerReturns, IInv, Busy
<1>2. CASE send_bufs # <<>>
  BY <1>1, <1>2, StartIsInvisible DEF HandlerReturns, WriteNext
<1>3. CASE send_bufs = <<>>
  BY <1>1, <1>3 DEF HandlerReturns, WriteNext, Sent
<1> QED
  BY <1>2, <1>3

\* The queue, the mutex and the completion handler together implement FrameSender:
\* whole frames, one at a time, in the order they were accepted, until a failed
\* write abandons what is queued.
THEOREM Refinement == Spec => ImplementsFrameSender
<1>1. Init => Sender!Init
  BY DEF Init, Sender!Init, Sent
<1>2. IInv /\ [Next]_vars => [Sender!Next]_(Sender!senderVars)
  <2> SUFFICES ASSUME IInv, [Next]_vars PROVE [Sender!Next]_(Sender!senderVars)
    OBVIOUS
  <2> USE DEF Sender!Next, Sender!senderVars
  <2>1. CASE \E f \in Frames : Call(f) \/ Lock(f) \/ TestQueue(f)
    <3>1. ops' = ops /\ UNCHANGED <<send_bufs, wire>>
      BY <2>1 DEF Call, Lock, TestQueue
    <3> QED
      BY <3>1 DEF Sent
  <2>2. CASE \E f \in Frames : Push(f)
    BY <2>2, PushIsAccept
  <2>3. CASE \E f \in Frames : Return(f)
    BY <2>3, ReturnIsInvisible
  <2>4. CASE \E o \in ops, k \in 1..FrameLen : WriteSome(o, k)
    BY <2>4, WriteSomeIsSend
  <2>5. CASE \E o \in ops : WriteFails(o)
    BY <2>5, WriteFailsIsInvisible
  <2>6. CASE \E o \in ops : HandlerLocks(o)
    BY <2>6 DEF HandlerLocks, Sent
  <2>7. CASE HandlerClears
    BY <2>7, HandlerClearsIsAbandon
  <2>8. CASE HandlerPops
    BY <2>8, HandlerPopsIsRetire
  <2>9. CASE HandlerReturns
    BY <2>9, HandlerReturnsIsInvisible
  <2>10. CASE UNCHANGED vars
    <3>1. ops' = ops /\ UNCHANGED <<send_bufs, wire>>
      BY <2>10 DEF vars
    <3> QED
      BY <3>1 DEF Sent
  <2> QED
    BY <2>1, <2>2, <2>3, <2>4, <2>5, <2>6, <2>7, <2>8, <2>9, <2>10 DEF Next
<1> QED
  BY <1>1, <1>2, Invariance, PTL DEF Spec, ImplementsFrameSender, Sender!Spec
----------------------------------------------------------------------------
\* The histories: what the port took, what the queue accepted and what failed
\* writes dropped.  FramesUnbroken is not inductive on its own either: it needs
\* where the last piece left off, and the three relations between the histories and
\* the queue that NothingVanishes and SentInAcceptanceOrder only see the end of.

\* How many of the accepted frames have left the queue.
Gone == Len(accepted) - Len(send_bufs)

HistoryTypes ==
  /\ wire \in Seq(Frames \X (1..FrameLen))
  /\ accepted \in Seq(Frames)
  /\ dropped \subseteq Frames

AcceptedOnce ==
  /\ \A i, j \in 1..Len(accepted) : accepted[i] = accepted[j] => i = j
  /\ \A i \in 1..Len(accepted) : pc[accepted[i]] \in {"pushed", "done"}
  /\ \A f \in dropped : pc[f] \in {"pushed", "done"}

\* The queue is the end of what was accepted.
QueueIsTail ==
  /\ Gone >= 0
  /\ \A i \in 1..Len(send_bufs) : send_bufs[i] = accepted[Gone + i]

\* What left the queue was sent to its end or dropped, never both.
GoneIsSettled ==
  \A i \in 1..Len(accepted) :
    IF i <= Gone THEN accepted[i] \in dropped <=> ~OnWire(accepted[i])
                 ELSE accepted[i] \notin dropped

\* Pieces are only those of frames that left the queue and of its front, of which
\* no more went than Sent counts.
WireIsOfStarted ==
  \A i \in 1..Len(wire) :
    \E j \in 1..Len(accepted) :
      /\ accepted[j] = wire[i][1]
      /\ j <= Gone + 1
      /\ j = Gone + 1 => wire[i][2] <= Sent

\* Where the next piece joins the line.
LastPiece ==
  IF Sent > 0
    THEN wire # <<>> /\ wire[Len(wire)] = <<Head(send_bufs), Sent>>
    ELSE wire # <<>> => \/ wire[Len(wire)][2] = FrameLen
                        \/ wire[Len(wire)][1] \in dropped

HInv ==
  /\ HistoryTypes
  /\ AcceptedOnce
  /\ QueueIsTail
  /\ GoneIsSettled
  /\ WireIsOfStarted
  /\ LastPiece
  /\ FramesUnbroken

\* What the steps below need of the state they start in.
LEMMA SentBounds ==
  ASSUME IInv
  PROVE  /\ Sent \in 0..FrameLen
         /\ Sent > 0 => send_bufs # <<>>
<1>1. CASE ops = {}
  BY <1>1, WriteBufferAssumption DEF Sent
<1>2. CASE ops # {}
  <2>1. PICK o \in ops : TRUE
    BY <1>2
  <2>2. ops = {o} /\ o \in Ops /\ send_bufs # <<>>
    BY <2>1 DEF IInv, OneWriteInFlight, CoreTypeOK, WrittenFrameIsQueued
  <2> QED
    BY <2>2, SentOfOne, WriteBufferAssumption DEF Ops
<1> QED
  BY <1>1, <1>2

LEMMA ElementsByIndex ==
  ASSUME NEW S, NEW s \in Seq(S), NEW x
  PROVE  x \in Elements(s) <=> \E i \in 1..Len(s) : s[i] = x
  BY DEF Elements

LEMMA OnWireByIndex ==
  ASSUME HistoryTypes, NEW f
  PROVE  OnWire(f) <=> \E i \in 1..Len(wire) : wire[i] = <<f, FrameLen>>
<1>1. wire \in Seq(Frames \X (1..FrameLen))
  BY DEF HistoryTypes
<1> QED
  BY <1>1, ElementsByIndex DEF OnWire

LEMMA HistoryInit == Init => HInv
<1> SUFFICES ASSUME Init PROVE HInv
  OBVIOUS
<1> USE DEF Init
<1>1. HistoryTypes /\ FramesUnbroken
  BY DEF HistoryTypes, FramesUnbroken
<1>2. AcceptedOnce /\ QueueIsTail /\ GoneIsSettled /\ WireIsOfStarted
  BY DEF AcceptedOnce, QueueIsTail, GoneIsSettled, WireIsOfStarted, Gone
<1>3. LastPiece
  BY DEF LastPiece, Sent
<1> QED
  BY <1>1, <1>2, <1>3 DEF HInv

\* A step that only moves a call on.
LEMMA HistoryStays ==
  ASSUME HInv, UNCHANGED <<send_bufs, Sent, wire, accepted, dropped>>,
         \A f \in Frames : pc[f] \in {"pushed", "done"} => pc'[f] \in {"pushed", "done"}
  PROVE  HInv'
<1>1. HistoryTypes' /\ AcceptedOnce' /\ FramesUnbroken'
  BY DEF HInv, HistoryTypes, AcceptedOnce, FramesUnbroken
<1>2. QueueIsTail' /\ WireIsOfStarted' /\ LastPiece'
  BY DEF HInv, QueueIsTail, WireIsOfStarted, LastPiece, Gone
<1>3. GoneIsSettled'
  BY DEF HInv, GoneIsSettled, Gone, OnWire
<1> QED
  BY <1>1, <1>2, <1>3 DEF HInv

LEMMA PushKeepsHistory ==
  ASSUME IInv, HInv, NEW f \in Frames, Push(f)
  PROVE  HInv'
<1> USE DEF Push, PushBack, Goto
<1>1. /\ send_bufs \in Seq(Frames) /\ accepted \in Seq(Frames)
      /\ pc[f] = "tested" /\ pc \in [Frames -> {"idle", "packaged", "locked", "tested", "pushed", "done"}]
  BY DEF IInv, CoreTypeOK, HInv, HistoryTypes
<1>2. /\ Len(accepted') = Len(accepted) + 1
      /\ accepted'[Len(accepted) + 1] = f
      /\ \A i \in 1..Len(accepted) : accepted'[i] = accepted[i]
  BY <1>1
<1>3. /\ Len(send_bufs') = Len(send_bufs) + 1
      /\ send_bufs'[Len(send_bufs) + 1] = f
      /\ \A i \in 1..Len(send_bufs) : send_bufs'[i] = send_bufs[i]
  BY <1>1
<1>4. /\ Len(accepted) \in Nat /\ Len(send_bufs) \in Nat
      /\ send_bufs # <<>> => Head(send_bufs') = Head(send_bufs)
  BY <1>1
<1>5. Gone' = Gone /\ Gone \in Int /\ Gone <= Len(accepted)
  BY <1>2, <1>3, <1>4 DEF Gone
<1>6. Sent' = Sent /\ UNCHANGED <<wire, dropped>>
  BY DEF Sent
<1>7. \A i \in 1..Len(accepted) : accepted[i] # f
  BY <1>1 DEF HInv, AcceptedOnce
<1>8. HistoryTypes'
  BY <1>1, <1>6 DEF HInv, HistoryTypes
<1>9. AcceptedOnce'
  <2>1. pc'[f] = "pushed" /\ \A g \in Frames : g # f => pc'[g] = pc[g]
    BY <1>1
  <2>2. \A i \in 1..Len(accepted) : accepted[i] \in Frames
    BY <1>1
  <2> QED
    BY <1>2, <1>4, <1>6, <1>7, <2>1, <2>2 DEF HInv, HistoryTypes, AcceptedOnce
<1>10. QueueIsTail'
  <2>1. Gone + (Len(send_bufs) + 1) = Len(accepted) + 1
    BY <1>4 DEF Gone
  <2>2. ASSUME NEW i \in 1..(Len(send_bufs) + 1) PROVE send_bufs'[i] = accepted'[Gone + i]
    <3>1. CASE i = Len(send_bufs) + 1
      BY <1>2, <1>3, <2>1, <3>1
    <3>2. CASE i \in 1..Len(send_bufs)
      <4>1. Gone + i \in 1..Len(accepted)
        BY <3>2, <1>4 DEF HInv, QueueIsTail, Gone
      <4> QED
        BY <1>2, <1>3, <3>2, <4>1 DEF HInv, QueueIsTail
    <3>3. i = Len(send_bufs) + 1 \/ i \in 1..Len(send_bufs)
      BY <1>4
    <3> QED
      BY <3>1, <3>2, <3>3
  <2> QED
    BY <1>3, <1>5, <2>2 DEF HInv, QueueIsTail
<1>11. GoneIsSettled'
  <2>1. f \notin dropped
    BY <1>1 DEF HInv, AcceptedOnce
  <2> QED
    BY <1>2, <1>4, <1>5, <1>6, <2>1 DEF HInv, GoneIsSettled, OnWire
<1>12. WireIsOfStarted'
  BY <1>2, <1>4, <1>5, <1>6 DEF HInv, WireIsOfStarted
<1>13. LastPiece'
  BY <1>4, <1>6, SentBounds DEF HInv, LastPiece
<1>14. FramesUnbroken'
  BY <1>6 DEF HInv, FramesUnbroken
<1> QED
  BY <1>8, <1>9, <1>10, <1>11, <1>12, <1>13, <1>14 DEF HInv

\* Where the front of the queue stands in the order of acceptance.
LEMMA FrontIsNextToGo ==
  ASSUME IInv, HInv, send_bufs # <<>>
  PROVE  /\ Gone \in Nat /\ Gone + 1 \in 1..Len(accepted)
         /\ Head(send_bufs) = accepted[Gone + 1]
         /\ Head(send_bufs) \in Frames
         /\ Len(accepted) \in Nat
<1>1. send_bufs \in Seq(Frames) /\ accepted \in Seq(Frames)
  BY DEF IInv, CoreTypeOK, HInv, HistoryTypes
<1>2. Len(send_bufs) \in Nat /\ Len(accepted) \in Nat /\ Len(send_bufs) > 0
  BY <1>1
<1>3. Head(send_bufs) = send_bufs[1] /\ Head(send_bufs) \in Frames
  BY <1>1
<1>4. Gone \in Nat /\ Gone + 1 \in 1..Len(accepted)
  BY <1>2 DEF HInv, QueueIsTail, Gone
<1> QED
  BY <1>2, <1>3, <1>4 DEF HInv, QueueIsTail

\* The pieces k more of which the port takes.
LEMMA PiecesAppended ==
  ASSUME HInv, NEW f \in Frames, NEW n \in Nat, NEW k \in 1..FrameLen, n + k <= FrameLen,
         wire' = wire \o [i \in 1..k |-> <<f, n + i>>]
  PROVE  /\ wire' \in Seq(Frames \X (1..FrameLen))
         /\ Len(wire') = Len(wire) + k
         /\ Len(wire) \in Nat
         /\ \A i \in 1..Len(wire) : wire'[i] = wire[i]
         /\ \A i \in 1..k : wire'[Len(wire) + i] = <<f, n + i>>
<1> DEFINE new == [i \in 1..k |-> <<f, n + i>>]
<1>1. wire \in Seq(Frames \X (1..FrameLen)) /\ FrameLen \in Nat
  BY WriteBufferAssumption DEF HInv, HistoryTypes
<1>2. \A i \in 1..k : new[i] = <<f, n + i>> /\ new[i] \in Frames \X (1..FrameLen)
  BY <1>1
<1>3. new \in Seq(Frames \X (1..FrameLen)) /\ Len(new) = k
  <2>1. k \in Nat /\ DOMAIN new = 1..k
    BY <1>1
  <2>2. new \in [1..k -> Frames \X (1..FrameLen)]
    BY <1>2, Zenon
  <2> HIDE DEF new
  <2> QED
    BY <2>1, <2>2
<1> HIDE DEF new
<1>4. wire' = wire \o new
  BY DEF new
<1>5. Len(wire) \in Nat
  BY <1>1
<1> QED
  BY <1>1, <1>2, <1>3, <1>4, <1>5, SMTT(30)

LEMMA SendKeepsHistory ==
  ASSUME IInv, HInv, NEW o \in ops, NEW k \in 1..FrameLen, WriteSome(o, k)
  PROVE  HInv'
<1> DEFINE f == Head(send_bufs)
           n == Sent
<1>1. send_bufs # <<>> /\ o.frame = f /\ ops = {o} /\ o \in Ops /\ o.sent + k <= FrameLen
  BY DEF IInv, WrittenFrameIsQueued, OneWriteInFlight, CoreTypeOK, WriteSome
<1>2. n = o.sent /\ n \in Nat /\ FrameLen \in Nat /\ k \in Nat /\ k > 0
  BY <1>1, SentOfOne, WriteBufferAssumption DEF Ops
<1>3. /\ Gone \in Nat /\ Gone + 1 \in 1..Len(accepted)
      /\ f = accepted[Gone + 1] /\ f \in Frames /\ Len(accepted) \in Nat
  BY <1>1, FrontIsNextToGo
<1>4. Sent' = n + k
  BY WriteSomeIsSend DEF Sender!Send
<1>5. /\ wire' = wire \o [i \in 1..k |-> <<f, n + i>>]
      /\ UNCHANGED <<send_bufs, accepted, dropped, pc>>
  BY <1>1, <1>2 DEF WriteSome
<1>6. n + k <= FrameLen
  BY <1>1, <1>2
<1> HIDE DEF f, n
<1>7. /\ wire' \in Seq(Frames \X (1..FrameLen))
      /\ Len(wire') = Len(wire) + k
      /\ Len(wire) \in Nat
      /\ \A i \in 1..Len(wire) : wire'[i] = wire[i]
      /\ \A i \in 1..k : wire'[Len(wire) + i] = <<f, n + i>>
  BY <1>2, <1>3, <1>5, <1>6, PiecesAppended
<1>8. \A i \in 1..Len(wire') : i \in 1..Len(wire) \/ \E m \in 1..k : i = Len(wire) + m
  <2> TAKE i \in 1..Len(wire')
  <2>1. CASE i > Len(wire)
    <3>1. i - Len(wire) \in 1..k /\ i = Len(wire) + (i - Len(wire))
      BY <1>2, <1>7, <2>1
    <3> QED
      BY <3>1
  <2> QED
    BY <1>7, <2>1
<1>9. HistoryTypes'
  BY <1>5, <1>7 DEF HInv, HistoryTypes
<1>10. AcceptedOnce' /\ QueueIsTail'
  BY <1>5 DEF HInv, AcceptedOnce, QueueIsTail, Gone
<1>11. Gone' = Gone
  BY <1>5 DEF Gone
<1>12. ASSUME NEW i \in 1..Len(accepted), i <= Gone
       PROVE  OnWire(accepted[i])' <=> OnWire(accepted[i])
  <2>1. accepted[i] # f
    BY <1>2, <1>3, <1>12 DEF HInv, AcceptedOnce
  <2>2. OnWire(accepted[i]) <=> \E j \in 1..Len(wire) : wire[j] = <<accepted[i], FrameLen>>
    BY OnWireByIndex DEF HInv
  <2>3. OnWire(accepted[i])' <=> \E j \in 1..Len(wire') : wire'[j] = <<accepted[i], FrameLen>>
    <3>1. wire' \in Seq(Frames \X (1..FrameLen)) /\ accepted' = accepted
      BY <1>5, <1>7
    <3> QED
      BY <3>1, ElementsByIndex DEF OnWire
  <2>4. \A j \in 1..Len(wire) : j \in 1..Len(wire')
    BY <1>2, <1>7
  <2>5. ASSUME NEW j \in 1..Len(wire'), wire'[j] = <<accepted[i], FrameLen>>
        PROVE  j \in 1..Len(wire)
    <3>1. \A m \in 1..k : <<f, n + m>> # <<accepted[i], FrameLen>>
      BY <2>1
    <3> QED
      BY <1>7, <1>8, <2>5, <3>1
  <2> QED
    BY <1>7, <2>2, <2>3, <2>4, <2>5
<1>13. GoneIsSettled'
  BY <1>3, <1>5, <1>11, <1>12 DEF HInv, GoneIsSettled
<1>14. WireIsOfStarted'
  <2>1. ASSUME NEW i \in 1..Len(wire)
        PROVE  \E j \in 1..Len(accepted) :
                 /\ accepted[j] = wire[i][1] /\ j <= Gone + 1
                 /\ j = Gone + 1 => wire[i][2] <= n + k
    <3>1. PICK j \in 1..Len(accepted) :
            /\ accepted[j] = wire[i][1] /\ j <= Gone + 1
            /\ j = Gone + 1 => wire[i][2] <= n
      BY DEF HInv, WireIsOfStarted, n
    <3>2. wire[i] \in Frames \X (1..FrameLen)
      BY DEF HInv, HistoryTypes
    <3>3. wire[i][2] \in Nat
      BY <1>2, <3>2
    <3> QED
      BY <1>2, <3>1, <3>3
  <2>2. ASSUME NEW m \in 1..k
        PROVE  \E j \in 1..Len(accepted) :
                 /\ accepted[j] = <<f, n + m>>[1] /\ j <= Gone + 1
                 /\ j = Gone + 1 => <<f, n + m>>[2] <= n + k
    BY <1>2, <1>3
  <2>3. ASSUME NEW i \in 1..Len(wire')
        PROVE  \E j \in 1..Len(accepted) :
                 /\ accepted[j] = wire'[i][1] /\ j <= Gone + 1
                 /\ j = Gone + 1 => wire'[i][2] <= n + k
    <3>1. CASE i \in 1..Len(wire)
      BY <1>7, <2>1, <3>1
    <3>2. CASE \E m \in 1..k : i = Len(wire) + m
      <4>1. PICK m \in 1..k : i = Len(wire) + m
        BY <3>2
      <4>2. wire'[i] = <<f, n + m>>
        BY <1>7, <4>1
      <4> QED
        BY <2>2, <4>2
    <3> QED
      BY <1>8, <3>1, <3>2
  <2> QED
    BY <1>4, <1>5, <1>11, <2>3 DEF WireIsOfStarted
<1>15. LastPiece'
  <2>1. wire'[Len(wire')] = <<f, n + k>> /\ Len(wire') > 0
    BY <1>2, <1>7, SMTT(30)
  <2>2. n + k > 0 /\ wire' # <<>> /\ Head(send_bufs') = f
    <3>1. wire' # <<>>
      BY <2>1
    <3>2. Head(send_bufs') = f
      BY <1>5 DEF f
    <3> QED
      BY <1>2, <3>1, <3>2
  <2> QED
    BY <1>4, <2>1, <2>2 DEF LastPiece
<1>16. FramesUnbroken'
  <2>1. DOMAIN wire' = 1..Len(wire') /\ DOMAIN wire = 1..Len(wire)
    BY <1>7 DEF HInv, HistoryTypes
  <2>2. ASSUME NEW i \in 1..Len(wire')
        PROVE  IF wire'[i][2] = 1
                 THEN i > 1 => \/ wire'[i - 1][2] = FrameLen
                               \/ wire'[i - 1][1] \in dropped
                 ELSE i > 1 /\ wire'[i - 1] = <<wire'[i][1], wire'[i][2] - 1>>
    <3>1. CASE i \in 1..Len(wire)
      <4>1. i > 1 => i - 1 \in 1..Len(wire)
        BY <1>7, <3>1
      <4> QED
        BY <1>7, <2>1, <3>1, <4>1 DEF HInv, FramesUnbroken
    <3>2. CASE i = Len(wire) + 1
      <4>1. wire'[i] = <<f, n + 1>> /\ i - 1 = Len(wire)
        BY <1>2, <1>7, <3>2, SMTT(30)
      <4>2. CASE n > 0
        <5>1. wire # <<>> /\ wire[Len(wire)] = <<f, n>>
          BY <4>2 DEF HInv, LastPiece, n, f
        <5>2. Len(wire) > 0
          BY <5>1 DEF HInv, HistoryTypes
        <5>3. i > 1 /\ wire'[i - 1] = <<f, n>>
          <6>1. i > 1 /\ Len(wire) \in 1..Len(wire)
            BY <1>7, <3>2, <5>2
          <6>2. wire'[Len(wire)] = wire[Len(wire)]
            BY <1>7, <6>1
          <6> QED
            BY <4>1, <5>1, <6>1, <6>2
        <5>4. wire'[i][1] = f /\ wire'[i][2] = n + 1 /\ (n + 1) - 1 = n /\ n + 1 # 1
          BY <1>2, <4>1, <4>2
        <5> QED
          BY <5>3, <5>4
      <4>3. CASE n = 0
        <5>1. wire # <<>> => \/ wire[Len(wire)][2] = FrameLen
                             \/ wire[Len(wire)][1] \in dropped
          BY <4>3 DEF HInv, LastPiece, n
        <5>2. i > 1 => wire # <<>> /\ Len(wire) \in 1..Len(wire)
          BY <1>7, <3>2 DEF HInv, HistoryTypes
        <5>3. wire'[i][2] = 1
          BY <4>1, <4>3
        <5>4. i > 1 => wire'[i - 1] = wire[Len(wire)]
          BY <1>7, <4>1, <5>2
        <5> QED
          BY <5>1, <5>2, <5>3, <5>4
      <4> QED
        BY <1>2, <4>2, <4>3
    <3>3. CASE \E m \in 2..k : i = Len(wire) + m
      <4>1. PICK m \in 2..k : i = Len(wire) + m
        BY <3>3
      <4>2. m \in 1..k /\ m - 1 \in 1..k /\ i - 1 = Len(wire) + (m - 1)
        BY <1>2, <1>7, <4>1
      <4>3. wire'[i] = <<f, n + m>> /\ wire'[i - 1] = <<f, n + (m - 1)>>
        BY <1>7, <4>1, <4>2
      <4>4. /\ i > 1 /\ wire'[i][1] = f /\ wire'[i][2] = n + m
            /\ (n + m) - 1 = n + (m - 1) /\ n + m # 1
        <5>1. i > 1 /\ (n + m) - 1 = n + (m - 1) /\ n + m # 1
          <6>1. m \in Nat /\ m >= 2 /\ Len(wire) \in Nat
            BY <1>2, <1>7
          <6> QED
            BY <1>2, <4>1, <6>1
        <5> QED
          BY <4>3, <5>1
      <4> QED
        BY <4>3, <4>4
    <3>4. i \in 1..Len(wire) \/ i = Len(wire) + 1 \/ \E m \in 2..k : i = Len(wire) + m
      <4>1. \A m \in 1..k : m = 1 \/ m \in 2..k
        BY <1>2
      <4> QED
        BY <1>8, <4>1
    <3> QED
      BY <3>1, <3>2, <3>3, <3>4
  <2> QED
    BY <1>5, <2>1, <2>2 DEF FramesUnbroken
<1> QED
  BY <1>9, <1>10, <1>13, <1>14, <1>15, <1>16 DEF HInv

\* A frame sent to its end leaves the queue.
LEMMA PopKeepsHistory ==
  ASSUME IInv, HInv, HandlerPops
  PROVE  HInv'
<1> DEFINE f == Head(send_bufs)
<1>1. /\ send_bufs # <<>> /\ Sent = FrameLen /\ Sent' = 0
      /\ UNCHANGED <<wire, accepted, dropped, pc>> /\ send_bufs' = Tail(send_bufs)
  BY HandlerPopsIsRetire DEF Sender!Retire, HandlerPops, PopFront
<1>2. /\ Gone \in Nat /\ Gone + 1 \in 1..Len(accepted)
      /\ f = accepted[Gone + 1] /\ f \in Frames /\ Len(accepted) \in Nat
  BY <1>1, FrontIsNextToGo
<1>3. /\ send_bufs \in Seq(Frames) /\ Len(send_bufs) \in Nat
      /\ Len(send_bufs') = Len(send_bufs) - 1
      /\ \A i \in 1..(Len(send_bufs) - 1) : send_bufs'[i] = send_bufs[i + 1]
  BY <1>1 DEF IInv, CoreTypeOK
<1>4. Gone' = Gone + 1
  BY <1>1, <1>2, <1>3 DEF Gone
<1>5. /\ FrameLen > 0 /\ wire # <<>>
      /\ wire[Len(wire)] = <<f, FrameLen>>
  BY <1>1, WriteBufferAssumption DEF HInv, LastPiece
<1> HIDE DEF f
<1>6. Len(wire) \in 1..Len(wire)
  BY <1>5 DEF HInv, HistoryTypes
<1>7. OnWire(f)
  BY <1>5, <1>6, OnWireByIndex DEF HInv
<1>8. HistoryTypes' /\ AcceptedOnce' /\ FramesUnbroken'
  BY <1>1 DEF HInv, HistoryTypes, AcceptedOnce, FramesUnbroken
<1>9. QueueIsTail'
  <2>1. ASSUME NEW i \in 1..(Len(send_bufs) - 1)
        PROVE  send_bufs'[i] = accepted[Gone + 1 + i]
    <3>1. i + 1 \in 1..Len(send_bufs) /\ Gone + (i + 1) = Gone + 1 + i
      BY <1>2, <1>3
    <3> QED
      BY <1>3, <3>1 DEF HInv, QueueIsTail
  <2> QED
    BY <1>1, <1>2, <1>3, <1>4, <2>1 DEF QueueIsTail
<1>10. GoneIsSettled'
  <2>1. \A g : OnWire(g)' <=> OnWire(g)
    BY <1>1 DEF OnWire
  <2>2. ASSUME NEW i \in 1..Len(accepted)
        PROVE  IF i <= Gone + 1 THEN accepted[i] \in dropped <=> ~OnWire(accepted[i])
                                ELSE accepted[i] \notin dropped
    <3>1. CASE i = Gone + 1
      BY <1>2, <1>7, <3>1 DEF HInv, GoneIsSettled
    <3>2. CASE i <= Gone
      BY <1>2, <3>2 DEF HInv, GoneIsSettled
    <3>3. CASE i > Gone + 1
      BY <1>2, <3>3 DEF HInv, GoneIsSettled
    <3> QED
      BY <1>2, <3>1, <3>2, <3>3
  <2> QED
    BY <1>1, <1>4, <2>1, <2>2 DEF GoneIsSettled, OnWire
<1>11. WireIsOfStarted'
  <2>1. \A j \in 1..Len(accepted) : j <= Gone + 1 => j <= Gone + 1 + 1 /\ j # Gone + 1 + 1
    BY <1>2
  <2> QED
    BY <1>1, <1>4, <2>1 DEF HInv, WireIsOfStarted
<1>12. LastPiece'
  BY <1>1, <1>5 DEF LastPiece
<1> QED
  BY <1>8, <1>9, <1>10, <1>11, <1>12 DEF HInv

\* A failed write drops everything queued; its frame is short of its last piece.
LEMMA ClearKeepsHistory ==
  ASSUME IInv, HInv, HandlerClears
  PROVE  HInv'
<1>1. /\ send_bufs # <<>> /\ Sent < FrameLen /\ Sent' = 0
      /\ UNCHANGED <<wire, accepted, pc>> /\ send_bufs' = <<>>
      /\ dropped' = dropped \cup Elements(send_bufs)
  BY HandlerClearsIsAbandon DEF Sender!Abandon, HandlerClears, Clear
<1>2. /\ Gone \in Nat /\ Gone + 1 \in 1..Len(accepted)
      /\ Head(send_bufs) = accepted[Gone + 1] /\ Len(accepted) \in Nat
  BY <1>1, FrontIsNextToGo
<1>3. send_bufs \in Seq(Frames) /\ accepted \in Seq(Frames) /\ Len(send_bufs) \in Nat
  BY DEF IInv, CoreTypeOK, HInv, HistoryTypes
<1>4. Gone' = Len(accepted) /\ Len(send_bufs') = 0
  BY <1>1, <1>2 DEF Gone
<1>5. \A i \in 1..Len(accepted) : accepted[i] \in Elements(send_bufs) <=> i > Gone
  <2>1. \A m \in 1..Len(send_bufs) : Gone + m \in 1..Len(accepted) /\ Gone + m > Gone
    BY <1>2, <1>3 DEF Gone
  <2>2. ASSUME NEW i \in 1..Len(accepted), i > Gone PROVE accepted[i] \in Elements(send_bufs)
    <3>1. i - Gone \in 1..Len(send_bufs) /\ Gone + (i - Gone) = i
      BY <1>2, <1>3, <2>2 DEF Gone
    <3>2. send_bufs[i - Gone] = accepted[i]
      BY <3>1 DEF HInv, QueueIsTail
    <3> QED
      BY <1>3, <3>1, <3>2 DEF Elements
  <2>3. ASSUME NEW i \in 1..Len(accepted), accepted[i] \in Elements(send_bufs) PROVE i > Gone
    <3>1. PICK m \in 1..Len(send_bufs) : accepted[i] = send_bufs[m]
      BY <1>3, <2>3 DEF Elements
    <3>2. accepted[i] = accepted[Gone + m]
      BY <3>1 DEF HInv, QueueIsTail
    <3>3. i = Gone + m
      BY <2>1, <3>2 DEF HInv, AcceptedOnce
    <3> QED
      BY <2>1, <3>3
  <2> QED
    BY <2>2, <2>3
<1>6. ASSUME NEW i \in 1..Len(accepted), i > Gone PROVE ~OnWire(accepted[i])
  <2> SUFFICES ASSUME OnWire(accepted[i]) PROVE FALSE
    OBVIOUS
  <2>1. PICK m \in 1..Len(wire) : wire[m] = <<accepted[i], FrameLen>>
    BY OnWireByIndex DEF HInv
  <2>2. wire[m][1] = accepted[i] /\ wire[m][2] = FrameLen
    BY <2>1
  <2>3. PICK j \in 1..Len(accepted) :
          /\ accepted[j] = wire[m][1] /\ j <= Gone + 1
          /\ j = Gone + 1 => wire[m][2] <= Sent
    BY DEF HInv, WireIsOfStarted
  <2>4. j = i
    BY <2>2, <2>3 DEF HInv, AcceptedOnce
  <2>5. i = Gone + 1
    BY <1>2, <1>6, <2>3, <2>4
  <2>6. FrameLen <= Sent
    BY <2>2, <2>3, <2>4, <2>5
  <2> QED
    BY <1>1, <2>6, SentBounds, WriteBufferAssumption
<1>7. \A g \in Elements(send_bufs) : g \in Frames /\ \E i \in 1..Len(accepted) : g = accepted[i]
  <2>1. \A m \in 1..Len(send_bufs) : Gone + m \in 1..Len(accepted)
    BY <1>2, <1>3 DEF Gone
  <2>2. \A m \in 1..Len(send_bufs) : send_bufs[m] \in Frames /\ send_bufs[m] = accepted[Gone + m]
    BY <1>3 DEF HInv, QueueIsTail
  <2> QED
    BY <1>3, <2>1, <2>2 DEF Elements
<1>8. HistoryTypes'
  BY <1>1, <1>7 DEF HInv, HistoryTypes
<1>9. AcceptedOnce'
  BY <1>1, <1>7 DEF HInv, AcceptedOnce
<1>10. QueueIsTail'
  BY <1>2, <1>4 DEF QueueIsTail
<1>11. GoneIsSettled'
  <2>1. ASSUME NEW i \in 1..Len(accepted)
        PROVE  accepted[i] \in dropped' <=> ~OnWire(accepted[i])
    <3>1. CASE i <= Gone
      BY <1>1, <1>2, <1>5, <3>1 DEF HInv, GoneIsSettled
    <3>2. CASE i > Gone
      BY <1>1, <1>5, <1>6, <3>2
    <3> QED
      BY <1>2, <3>1, <3>2
  <2>2. \A i \in 1..Len(accepted) : i <= Gone'
    BY <1>2, <1>4
  <2> QED
    BY <1>1, <2>1, <2>2 DEF GoneIsSettled, OnWire
<1>12. WireIsOfStarted'
  <2>1. \A j \in 1..Len(accepted) : j <= Len(accepted) + 1 /\ j # Len(accepted) + 1
    BY <1>2
  <2> QED
    BY <1>1, <1>4, <2>1 DEF HInv, WireIsOfStarted
<1>13. LastPiece'
  <2>1. CASE Sent > 0
    <3>1. wire[Len(wire)] = <<Head(send_bufs), Sent>>
      BY <2>1 DEF HInv, LastPiece
    <3>2. wire[Len(wire)][1] = accepted[Gone + 1]
      BY <1>2, <3>1
    <3>3. Gone + 1 > Gone
      BY <1>2
    <3>4. wire[Len(wire)][1] \in dropped'
      BY <1>1, <1>2, <1>5, <3>2, <3>3
    <3> QED
      BY <1>1, <3>4 DEF LastPiece
  <2>2. CASE ~(Sent > 0)
    BY <1>1, <2>2 DEF HInv, LastPiece
  <2> QED
    BY <2>1, <2>2
<1>14. FramesUnbroken'
  BY <1>1 DEF HInv, FramesUnbroken
<1> QED
  BY <1>8, <1>9, <1>10, <1>11, <1>12, <1>13, <1>14 DEF HInv

\* What was sent, dropped and queued adds up at every step.
THEOREM HistoryInvariance == Spec => [](IInv /\ HInv)
<1>1. IInv /\ HInv /\ [Next]_vars => HInv'
  <2> SUFFICES ASSUME IInv, HInv, [Next]_vars PROVE HInv'
    OBVIOUS
  <2> DEFINE Quiet ==
        /\ UNCHANGED <<send_bufs, Sent, wire, accepted, dropped>>
        /\ \A f \in Frames : pc[f] \in {"pushed", "done"} => pc'[f] \in {"pushed", "done"}
  <2>0. pc \in [Frames -> {"idle", "packaged", "locked", "tested", "pushed", "done"}]
    BY DEF IInv, CoreTypeOK
  <2>1. CASE \E f \in Frames : Call(f) \/ Lock(f) \/ TestQueue(f)
    <3>1. ops' = ops /\ UNCHANGED <<send_bufs, wire, accepted, dropped>>
      BY <2>1 DEF Call, Lock, TestQueue
    <3>2. \A f \in Frames : pc[f] \in {"pushed", "done"} => pc'[f] = pc[f]
      BY <2>0, <2>1 DEF Call, Lock, TestQueue, Goto
    <3>3. Sent' = Sent
      BY <3>1 DEF Sent
    <3> QED
      BY <3>1, <3>2, <3>3, HistoryStays
  <2>2. CASE \E f \in Frames : Push(f)
    BY <2>2, PushKeepsHistory
  <2>3. CASE \E f \in Frames : Return(f)
    <3>1. PICK f \in Frames : Return(f)
      BY <2>3
    <3>2. Quiet
      BY <2>0, <3>1, ReturnIsInvisible DEF Return, Goto
    <3> QED
      BY <3>2, HistoryStays
  <2>4. CASE \E o \in ops, k \in 1..FrameLen : WriteSome(o, k)
    BY <2>4, SendKeepsHistory
  <2>5. CASE \E o \in ops : WriteFails(o)
    <3>1. Quiet
      BY <2>5, WriteFailsIsInvisible DEF WriteFails
    <3> QED
      BY <3>1, HistoryStays
  <2>6. CASE \E o \in ops : HandlerLocks(o)
    <3>1. Quiet
      BY <2>6 DEF HandlerLocks, Sent
    <3> QED
      BY <3>1, HistoryStays
  <2>7. CASE HandlerClears
    BY <2>7, ClearKeepsHistory
  <2>8. CASE HandlerPops
    BY <2>8, PopKeepsHistory
  <2>9. CASE HandlerReturns
    <3>1. Quiet
      BY <2>9, HandlerReturnsIsInvisible DEF HandlerReturns
    <3> QED
      BY <3>1, HistoryStays
  <2>10. CASE UNCHANGED vars
    <3>1. ops' = ops /\ UNCHANGED <<send_bufs, wire, accepted, dropped, pc>>
      BY <2>10 DEF vars
    <3>2. Quiet
      BY <3>1 DEF Sent
    <3> QED
      BY <3>2, HistoryStays
  <2> QED
    BY <2>1, <2>2, <2>3, <2>4, <2>5, <2>6, <2>7, <2>8, <2>9, <2>10 DEF Next
<1> QED
  BY <1>1, HistoryInit, Invariance, PTL DEF Spec

\* Every variable keeps its type, the histories with the rest.
THEOREM TypesHold == Spec => []TypeOK
<1>1. IInv /\ HInv => TypeOK
  BY DEF IInv, CoreTypeOK, HInv, HistoryTypes, TypeOK
<1> QED
  BY <1>1, HistoryInvariance, PTL

\* Frames do not interleave on the line, however the port cuts them and wherever a
\* write fails.
THEOREM LineUnbroken == Spec => []FramesUnbroken
<1>1. IInv /\ HInv => FramesUnbroken
  BY DEF HInv
<1> QED
  BY <1>1, HistoryInvariance, PTL

\* A frame write_to_serial queued is still queued, was sent to its end, or was
\* dropped with a failed write, and only one of these.
THEOREM EveryFrameAccounted == Spec => []NothingVanishes
<1>1. ASSUME IInv, HInv PROVE NothingVanishes
  <2>1. /\ send_bufs \in Seq(Frames) /\ accepted \in Seq(Frames)
        /\ Len(send_bufs) \in Nat /\ Len(accepted) \in Nat /\ Gone \in Nat
    <3>1. /\ send_bufs \in Seq(Frames) /\ accepted \in Seq(Frames)
      BY <1>1 DEF IInv, CoreTypeOK, HInv, HistoryTypes
    <3>2. Len(send_bufs) \in Nat /\ Len(accepted) \in Nat
      BY <3>1
    <3> QED
      BY <1>1, <3>1, <3>2 DEF HInv, QueueIsTail, Gone
  <2>2. \A m \in 1..Len(send_bufs) : Gone + m \in 1..Len(accepted) /\ Gone + m > Gone
    BY <2>1 DEF Gone
  <2>3. ASSUME NEW i \in 1..Len(accepted)
        PROVE  accepted[i] \in Elements(send_bufs) <=> i > Gone
    <3>1. ASSUME i > Gone PROVE accepted[i] \in Elements(send_bufs)
      <4>1. i - Gone \in 1..Len(send_bufs) /\ Gone + (i - Gone) = i
        BY <2>1, <3>1 DEF Gone
      <4>2. send_bufs[i - Gone] = accepted[i]
        BY <1>1, <4>1 DEF HInv, QueueIsTail
      <4> QED
        BY <2>1, <4>1, <4>2 DEF Elements
    <3>2. ASSUME accepted[i] \in Elements(send_bufs) PROVE i > Gone
      <4>1. PICK m \in 1..Len(send_bufs) : accepted[i] = send_bufs[m]
        BY <2>1, <3>2 DEF Elements
      <4>2. accepted[i] = accepted[Gone + m]
        BY <1>1, <4>1 DEF HInv, QueueIsTail
      <4>3. i = Gone + m
        BY <1>1, <2>2, <4>2 DEF HInv, AcceptedOnce
      <4> QED
        BY <2>2, <4>3
    <3> QED
      BY <3>1, <3>2
  <2>4. \A i \in 1..Len(accepted) :
          \/ accepted[i] \in Elements(send_bufs) /\ accepted[i] \notin dropped
          \/ /\ accepted[i] \in dropped /\ ~OnWire(accepted[i])
             /\ accepted[i] \notin Elements(send_bufs)
          \/ /\ OnWire(accepted[i]) /\ accepted[i] \notin dropped
             /\ accepted[i] \notin Elements(send_bufs)
    BY <1>1, <2>1, <2>3 DEF HInv, GoneIsSettled
  <2>5. \A f \in Elements(accepted) : \E i \in 1..Len(accepted) : f = accepted[i]
    BY <2>1 DEF Elements
  <2> QED
    BY <2>4, <2>5 DEF NothingVanishes
<1> QED
  BY <1>1, HistoryInvariance, PTL

\* The port sees frames in the order their calls queued them: none starts before
\* those queued earlier were sent to their end or dropped.
THEOREM OrderKept == Spec => []SentInAcceptanceOrder
<1>1. ASSUME IInv, HInv PROVE SentInAcceptanceOrder
  <2>1. accepted \in Seq(Frames) /\ wire \in Seq(Frames \X (1..FrameLen))
    BY <1>1 DEF HInv, HistoryTypes
  <2>2. Len(accepted) \in Nat /\ DOMAIN accepted = 1..Len(accepted)
    BY <2>1
  <2>3. Gone \in Int
    BY <1>1, <2>2 DEF IInv, CoreTypeOK, Gone
  <2> SUFFICES ASSUME NEW i \in 1..Len(accepted), NEW j \in 1..Len(accepted), i < j,
                      NEW p \in Elements(wire), p[1] = accepted[j]
               PROVE  OnWire(accepted[i]) \/ accepted[i] \in dropped
    BY <2>2 DEF SentInAcceptanceOrder
  <2>4. PICK m \in 1..Len(wire) : p = wire[m]
    BY <2>1 DEF Elements
  <2>5. PICK h \in 1..Len(accepted) : accepted[h] = wire[m][1] /\ h <= Gone + 1
    BY <1>1 DEF HInv, WireIsOfStarted
  <2>6. h = j
    BY <1>1, <2>4, <2>5 DEF HInv, AcceptedOnce
  <2>7. i <= Gone
    BY <2>2, <2>3, <2>5, <2>6
  <2> QED
    BY <1>1, <2>7 DEF HInv, GoneIsSettled
<1> QED
  BY <1>1, HistoryInvariance, PTL
=============================================================================
