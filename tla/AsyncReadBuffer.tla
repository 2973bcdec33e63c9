----------------------------- MODULE AsyncReadBuffer -----------------------------
(***************************************************************************)
(* AsyncReadBuffer<serial_port> (transport/async_transport.hpp): the       *)
(* buffer between the serial port and the protocol layer's fixed-length    *)
(* requests.  A cell of mem holds the position in the serial stream of the *)
(* byte it contains, so that losing, repeating or overwriting a byte shows.*)
(*                                                                         *)
(* All of it runs on the thread that polls the io_context: a handler is    *)
(* one step.  What happens between two handlers is Transfer (the kernel    *)
(* and asio's composed read filling mem) and a failing port.               *)
(***************************************************************************)
EXTENDS Naturals, Sequences

CONSTANTS Capacity,    \* mem_.size(), 512 in SerialDrive
          Requests,    \* the sizes the client asks for
          StreamLen    \* bound: how many bytes the device sends in all

ASSUME ReadBufferAssumption ==
  /\ Capacity \in Nat \ {0}
  /\ Requests \subseteq Nat
  /\ StreamLen \in Nat

VARIABLES
  mem,                   \* mem_
  write_index,           \* write_index_
  read_index,            \* read_index_
  read_requested_bytes,  \* read_requested_bytes_
  op,                    \* the async_read in progress on the port
  posted,                \* the view bound into the callback posted to the io_context
  started,               \* has the client issued its first read?
  handed,                \* history: bytes handed to callbacks so far
  received               \* history: bytes the port delivered so far

vars == <<mem, write_index, read_index, read_requested_bytes, op, posted,
          started, handed, received>>

Cells == 0..(Capacity - 1)

\* async_read(buffer(&mem_[at], size), transfer_at_least(least)), of which got
\* bytes have arrived.  The code always asks for at least one byte.
NoOp == [at |-> 0, size |-> 0, least |-> 0, got |-> 0]
Reading == op.least > 0

\* The Ros_Stream over mem_[from .. from + len - 1] given to the posted callback.
NoView == [from |-> 0, len |-> 0]
CallbackPosted == posted.len > 0

Already_bytes == write_index - read_index
Tail_Remain_bytes == Capacity - write_index

Init ==
  /\ mem = [i \in Cells |-> 0]
  /\ write_index = 0
  /\ read_index = 0
  /\ read_requested_bytes = 0
  /\ op = NoOp
  /\ posted = NoView
  /\ started = FALSE
  /\ handed = 0
  /\ received = 0

reset == read_index' = 0 /\ write_index' = 0

\* Wrong variants, used only to show that the properties can fail: the bytes just
\* read are not added to write_index_; what follows the request is thrown away.
CallbackForgetsTransfer(n, end) ==
  /\ posted' = [from |-> read_index, len |-> n]
  /\ handed' = handed + n
  /\ read_index' = read_index + n
  /\ write_index' = write_index

CallbackAlwaysResets(n, end) ==
  /\ posted' = [from |-> read_index, len |-> n]
  /\ handed' = handed + n
  /\ reset

\* callSussessCallback, with end the value of write_index_ it runs under.
callSussessCallback(n, end) ==
  /\ posted' = [from |-> read_index, len |-> n]
  /\ handed' = handed + n
  /\ IF read_index + n = end
       THEN reset
       ELSE read_index' = read_index + n /\ write_index' = end

\* Wrong variants: read_index_ is cleared before write_index_ is computed from it;
\* the indices move and the bytes do not.
MakeRoomIndicesSwapped ==
  IF read_index = write_index
    THEN reset /\ UNCHANGED mem
    ELSE /\ mem' = [i \in Cells |-> IF i < Already_bytes THEN mem[read_index + i]
                                                         ELSE mem[i]]
         /\ read_index' = 0
         /\ write_index' = write_index - read_index'

MakeRoomWithoutMove ==
  /\ write_index' = Already_bytes
  /\ read_index' = 0
  /\ UNCHANGED mem

\* The tail is too short for what is missing: restart an empty buffer, or move
\* the unread bytes to the front.  memmove(dst = mem_[0], src = mem_[read_index_]).
MakeRoom ==
  IF read_index = write_index
    THEN reset /\ UNCHANGED mem
    ELSE /\ mem' = [i \in Cells |-> IF i < Already_bytes THEN mem[read_index + i]
                                                         ELSE mem[i]]
         /\ write_index' = Already_bytes
         /\ read_index' = 0

\* Wrong variants: any single byte completes the read; only a full buffer does.
AsyncReadSome(at, diff_bytes) ==
  op' = [at |-> at, size |-> Capacity - at, least |-> 1, got |-> 0]

AsyncReadAll(at, diff_bytes) ==
  op' = [at |-> at, size |-> Capacity - at, least |-> Capacity - at, got |-> 0]

\* boost::asio::async_read into the tail, completing once diff_bytes have come.
AsyncRead(at, diff_bytes) ==
  op' = [at |-> at, size |-> Capacity - at, least |-> diff_bytes, got |-> 0]

----------------------------------------------------------------------------
\* read() is called once by the constructor and once by every callback.
ClientCalls(n) ==
  /\ started => CallbackPosted
  /\ started' = TRUE
  /\ read_requested_bytes' = n

\* The request does not fit the buffer: logged, and nothing is started.
ReadRefused(n) ==
  /\ ClientCalls(n)
  /\ n > Capacity \/ n = 0
  /\ posted' = NoView
  /\ UNCHANGED <<mem, write_index, read_index, op, handed, received>>

\* Not enough bytes buffered: read the rest from the port.
ReadFromPort(n) ==
  /\ ClientCalls(n)
  /\ n \in 1..Capacity
  /\ n > Already_bytes
  /\ LET diff_bytes == n - Already_bytes IN
       /\ IF diff_bytes > Tail_Remain_bytes
            THEN MakeRoom
            ELSE UNCHANGED <<mem, write_index, read_index>>
       /\ AsyncRead(write_index', diff_bytes)
  /\ posted' = NoView
  /\ UNCHANGED <<handed, received>>

\* Wrong variant: the callback is posted from read_callback alone.
ReadFromBufferIgnored(n) ==
  /\ ClientCalls(n)
  /\ n \in 1..Capacity
  /\ n <= Already_bytes
  /\ posted' = NoView
  /\ UNCHANGED <<mem, write_index, read_index, op, handed, received>>

\* Enough bytes buffered: the next callback is posted at once.
ReadFromBuffer(n) ==
  /\ ClientCalls(n)
  /\ n \in 1..Capacity
  /\ n <= Already_bytes
  /\ callSussessCallback(n, write_index)
  /\ UNCHANGED <<mem, op, received>>

\* The port delivers k more bytes of the stream into the operation's buffer.
Transfer(k) ==
  /\ Reading
  /\ op.got < op.least
  /\ k \in 1..(op.size - op.got)
  /\ received + k <= StreamLen
  /\ LET first == op.at + op.got IN
       mem' = [i \in Cells |-> IF i \in first..(first + k - 1)
                                 THEN received + (i - first)
                                 ELSE mem[i]]
  /\ op' = [op EXCEPT !.got = @ + k]
  /\ received' = received + k
  /\ UNCHANGED <<write_index, read_index, read_requested_bytes, posted, started, handed>>

\* read_callback without an error.
ReadCallback ==
  /\ Reading
  /\ op.got >= op.least
  /\ LET end == write_index + op.got IN
       IF read_requested_bytes <= end - read_index
         THEN /\ callSussessCallback(read_requested_bytes, end)
              /\ op' = NoOp
         ELSE /\ write_index' = end
              /\ AsyncRead(end, 1)
              /\ UNCHANGED <<read_index, posted, handed>>
  /\ UNCHANGED <<mem, read_requested_bytes, started, received>>

\* read_callback with an error: bytes already transferred are not accounted for.
ReadError ==
  /\ Reading
  /\ op.got < op.least
  /\ read_requested_bytes' = 0
  /\ op' = NoOp
  /\ UNCHANGED <<mem, write_index, read_index, posted, started, handed, received>>

ClientReads ==
  \E n \in Requests : ReadRefused(n) \/ ReadFromPort(n) \/ ReadFromBuffer(n)

PortDelivers == \E k \in 1..Capacity : Transfer(k)

Next ==
  \/ \E n \in Requests : ReadRefused(n)
  \/ \E n \in Requests : ReadFromPort(n)
  \/ \E n \in Requests : ReadFromBuffer(n)
  \/ \E k \in 1..Capacity : Transfer(k)
  \/ ReadCallback
  \/ ReadError

Spec == Init /\ [][Next]_vars

\* The 10 ms timer polls the io_context for ever, so a ready handler runs, every
\* callback calls read() before it returns, and the kernel hands over what the
\* device sent.
FairSpec == Spec /\ WF_vars(ClientReads) /\ WF_vars(PortDelivers) /\ WF_vars(ReadCallback)

----------------------------------------------------------------------------
TypeOK ==
  /\ mem \in [Cells -> Nat]
  /\ write_index \in Nat
  /\ read_index \in Nat
  /\ read_requested_bytes \in Nat
  /\ op \in [at : Nat, size : Nat, least : Nat, got : Nat]
  /\ posted \in [from : Nat, len : Nat]
  /\ started \in BOOLEAN
  /\ handed \in Nat
  /\ received \in Nat

\* The port writes only into free space: the region of the read in progress lies
\* inside mem_, starts where the unread bytes end, and is large enough for what
\* the client still misses, whatever compaction read() has just done.
PortWritesOnlyFreeSpace ==
  /\ read_index <= write_index
  /\ write_index <= Capacity
  /\ Reading => /\ op.at = write_index
                /\ op.at + op.size <= Capacity
                /\ op.least <= op.size
                /\ op.got <= op.size

\* The unread bytes, then those of the read in progress, are the bytes of the
\* stream that follow the last one handed to a callback: reset() and memmove()
\* neither lose, repeat nor reorder any.
BufferHoldsNextBytes ==
  ~started \/ Reading \/ CallbackPosted =>
    /\ received = handed + Already_bytes + op.got
    /\ \A i \in Cells :
         read_index <= i /\ i < write_index + op.got => mem[i] = handed + (i - read_index)

\* The comment above the post() in callSussessCallback: a pointer into the buffer
\* is safe because nothing is read until the callback has run.  While a callback
\* is queued no read is in progress and its view still holds the bytes asked for.
ViewHoldsRequestedBytes ==
  CallbackPosted =>
    /\ ~Reading
    /\ posted.len = read_requested_bytes
    /\ posted.from + posted.len <= Capacity
    /\ posted.len <= handed
    /\ \A i \in 0..(posted.len - 1) :
         mem[posted.from + i] = (handed - posted.len) + i

\* When the read in progress completes the request is covered, so that
\* read_callback never falls through to its async_read_some branch.
CompletionCoversRequest ==
  Reading => /\ read_requested_bytes \in 1..Capacity
             /\ read_requested_bytes = Already_bytes + op.least

\* The chain of reads, in which every callback issues the next, breaks only on a
\* request the buffer cannot hold or on a failed port read.
ChainBreaksOnlyOnRefusalOrError ==
  started /\ ~Reading /\ ~CallbackPosted => read_requested_bytes \notin 1..Capacity

\* A request is answered (or fails) once the device has sent the bytes it asks
\* for: it never waits for bytes beyond them, nor for the buffer to fill.
AnsweredWhenBytesArrive ==
  (Reading /\ handed + read_requested_bytes <= StreamLen)
     ~> (CallbackPosted \/ read_requested_bytes = 0)

\* Refinement: to its client the buffer is the abstract reader.
Mode == IF ~started THEN "fresh"
        ELSE IF Reading \/ CallbackPosted THEN "open" ELSE "closed"

Asked == IF Reading THEN read_requested_bytes ELSE 0

Chunk == [i \in 1..posted.len |-> mem[posted.from + i - 1]]

Reader == INSTANCE ByteReader WITH
            mode <- Mode, asked <- Asked, chunk <- Chunk, taken <- handed

\* Whatever the buffer does with its indices and its memory, a client can only see
\* what ByteReader allows: each answer is the next bytes of the stream.
ImplementsByteReader == Reader!Spec
=============================================================================
