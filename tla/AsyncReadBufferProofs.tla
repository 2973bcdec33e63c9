------------------------- MODULE AsyncReadBufferProofs -------------------------
(***************************************************************************)
(* Proofs about AsyncReadBuffer, for every buffer size, every set of       *)
(* requests and every length of the stream: its safety invariants hold,    *)
(* and it implements ByteReader.                                           *)
(*                                                                         *)
(* The invariants AsyncReadBuffer.tla states are inductive together once   *)
(* Quiescent is added: what the variables of an idle operation hold.       *)
(***************************************************************************)
EXTENDS AsyncReadBuffer, TLAPS

Quiescent ==
  /\ ~Reading => op = NoOp
  /\ ~CallbackPosted => posted = NoView
  /\ ~started => ~Reading /\ ~CallbackPosted

IInv ==
  /\ TypeOK
  /\ Quiescent
  /\ PortWritesOnlyFreeSpace
  /\ BufferHoldsNextBytes
  /\ ViewHoldsRequestedBytes
  /\ CompletionCoversRequest
  /\ ChainBreaksOnlyOnRefusalOrError

\* No byte is buffered, asked for or handed out at the start.
LEMMA InitInvariant == Init => IInv
<1> SUFFICES ASSUME Init PROVE IInv
  OBVIOUS
<1> USE ReadBufferAssumption DEF Init, Cells, NoOp, NoView, Reading, CallbackPosted
<1>1. TypeOK
  BY DEF TypeOK
<1>2. Quiescent /\ PortWritesOnlyFreeSpace
  BY DEF Quiescent, PortWritesOnlyFreeSpace
<1>3. BufferHoldsNextBytes /\ ViewHoldsRequestedBytes
  BY DEF BufferHoldsNextBytes, ViewHoldsRequestedBytes, Already_bytes
<1>4. CompletionCoversRequest /\ ChainBreaksOnlyOnRefusalOrError
  BY DEF CompletionCoversRequest, ChainBreaksOnlyOnRefusalOrError
<1> QED
  BY <1>1, <1>2, <1>3, <1>4 DEF IInv

\* A client about to call read() has no read in progress, and the buffer holds
\* the bytes that follow the last one it was handed.
LEMMA ClientCallState ==
  ASSUME IInv, started => CallbackPosted
  PROVE  /\ op = NoOp
         /\ ~Reading
         /\ received = handed + Already_bytes
         /\ \A i \in Cells :
              read_index <= i /\ i < write_index => mem[i] = handed + (i - read_index)
<1>1. ~Reading /\ op = NoOp
  BY DEF IInv, Quiescent, ViewHoldsRequestedBytes
<1>2. ~started \/ Reading \/ CallbackPosted
  OBVIOUS
<1>3. op.got = 0
  BY <1>1 DEF NoOp
<1> QED
  BY <1>1, <1>2, <1>3 DEF IInv, BufferHoldsNextBytes, TypeOK, Already_bytes

\* MakeRoom keeps the unread bytes, moves them to the front and frees the rest.
LEMMA MakeRoomKeepsUnread ==
  ASSUME TypeOK, read_index <= write_index, write_index <= Capacity, MakeRoom
  PROVE  /\ mem' \in [Cells -> Nat]
         /\ read_index' = 0
         /\ write_index' = Already_bytes
         /\ write_index' \in 0..Capacity
         /\ \A i \in 0..(Already_bytes - 1) : mem'[i] = mem[read_index + i]
<1> USE ReadBufferAssumption DEF ReadBufferAssumption, TypeOK, Cells, Already_bytes
<1>1. CASE read_index = write_index
  BY <1>1 DEF MakeRoom, reset
<1>2. CASE read_index # write_index
  <2>1. /\ mem' = [i \in Cells |-> IF i < Already_bytes THEN mem[read_index + i]
                                                       ELSE mem[i]]
        /\ write_index' = Already_bytes
        /\ read_index' = 0
    BY <1>2 DEF MakeRoom
  <2>2. \A i \in Cells : i < Already_bytes => read_index + i \in Cells
    OBVIOUS
  <2> QED
    BY <2>1, <2>2
<1> QED
  BY <1>1, <1>2

----------------------------------------------------------------------------
\* One lemma per action: each preserves the inductive invariant.

LEMMA ReadRefusedKeeps ==
  ASSUME IInv, NEW n \in Requests, ReadRefused(n)
  PROVE  IInv'
<1> USE ReadBufferAssumption DEF ReadRefused, ClientCalls
<1>1. ~Reading /\ op = NoOp
  BY ClientCallState
<1>2. ~Reading' /\ ~CallbackPosted' /\ started' /\ read_requested_bytes' \notin 1..Capacity
  BY <1>1 DEF Reading, CallbackPosted, NoView
<1>3. TypeOK' /\ Quiescent'
  BY <1>1, <1>2 DEF IInv, TypeOK, Quiescent, NoView, NoOp
<1>4. PortWritesOnlyFreeSpace'
  BY <1>2 DEF IInv, PortWritesOnlyFreeSpace
<1>5. BufferHoldsNextBytes' /\ ViewHoldsRequestedBytes'
  BY <1>2 DEF BufferHoldsNextBytes, ViewHoldsRequestedBytes
<1>6. CompletionCoversRequest' /\ ChainBreaksOnlyOnRefusalOrError'
  BY <1>2 DEF CompletionCoversRequest, ChainBreaksOnlyOnRefusalOrError
<1> QED
  BY <1>3, <1>4, <1>5, <1>6 DEF IInv

\* The values m, w and r of mem, write_index and read_index after room was made.
LEMMA ReadFromPortKeeps ==
  ASSUME IInv, NEW n \in Requests, ReadFromPort(n)
  PROVE  IInv'
<1> DEFINE diff == n - Already_bytes
<1> USE ReadBufferAssumption DEF TypeOK, Cells, Already_bytes
<1>1. /\ TypeOK
      /\ n \in 1..Capacity /\ n > Already_bytes
      /\ read_index <= write_index /\ write_index <= Capacity
      /\ Already_bytes \in Nat
  BY DEF IInv, ReadFromPort, PortWritesOnlyFreeSpace
<1>2. /\ op = NoOp
      /\ received = handed + Already_bytes
      /\ \A i \in Cells :
           read_index <= i /\ i < write_index => mem[i] = handed + (i - read_index)
  BY ClientCallState DEF ReadFromPort, ClientCalls
<1>3. \E m \in [Cells -> Nat], w, r \in 0..Capacity :
        /\ mem' = m /\ write_index' = w /\ read_index' = r
        /\ r <= w
        /\ w - r = Already_bytes
        /\ diff <= Capacity - w
        /\ \A i \in Cells : r <= i /\ i < w => m[i] = handed + (i - r)
  <2>1. CASE diff > Tail_Remain_bytes
    <3>1. MakeRoom
      BY <2>1 DEF ReadFromPort
    <3>2. /\ mem' \in [Cells -> Nat]
          /\ read_index' = 0
          /\ write_index' = Already_bytes
          /\ \A i \in 0..(Already_bytes - 1) : mem'[i] = mem[read_index + i]
      BY <3>1, <1>1, MakeRoomKeepsUnread
    <3>3. \A i \in 0..(Already_bytes - 1) : mem[read_index + i] = handed + i
      BY <1>1, <1>2
    <3>4. PICK m \in [Cells -> Nat] : mem' = m
      BY <3>2
    <3>5. \A i \in Cells : 0 <= i /\ i < Already_bytes => m[i] = handed + (i - 0)
      BY <3>2, <3>3, <3>4, <1>1
    <3>6. Already_bytes - 0 = Already_bytes /\ Already_bytes \in 0..Capacity
      BY <1>1
    <3>7. diff <= Capacity - Already_bytes
      BY <1>1
    <3>8. 0 \in 0..Capacity /\ 0 <= Already_bytes
      BY <1>1
    <3> USE <3>6, <3>8
    <3>9. WITNESS m \in [Cells -> Nat], Already_bytes \in 0..Capacity, 0 \in 0..Capacity
    <3> QED
      BY <3>2, <3>4, <3>5, <3>6, <3>7, <3>8
  <2>2. CASE ~(diff > Tail_Remain_bytes)
    <3>1. UNCHANGED <<mem, write_index, read_index>>
      BY <2>2 DEF ReadFromPort
    <3> QED
      BY <3>1, <2>2, <1>1, <1>2 DEF Tail_Remain_bytes
  <2> QED
    BY <2>1, <2>2
<1>4. PICK m \in [Cells -> Nat], w \in 0..Capacity, r \in 0..Capacity :
        /\ mem' = m /\ write_index' = w /\ read_index' = r
        /\ r <= w
        /\ w - r = Already_bytes
        /\ diff <= Capacity - w
        /\ \A i \in Cells : r <= i /\ i < w => m[i] = handed + (i - r)
  BY <1>3
<1>5. /\ op' = [at |-> w, size |-> Capacity - w, least |-> diff, got |-> 0]
      /\ posted' = NoView /\ started' = TRUE /\ read_requested_bytes' = n
      /\ handed' = handed /\ received' = received
  BY <1>4 DEF ReadFromPort, ClientCalls, AsyncRead
<1>6. diff \in Nat /\ diff > 0 /\ n = (w - r) + diff
  BY <1>1, <1>4
<1>7. Reading' /\ ~CallbackPosted'
  BY <1>5, <1>6 DEF Reading, CallbackPosted, NoView
<1> HIDE DEF diff
<1>8. TypeOK'
  BY <1>1, <1>4, <1>5, <1>6 DEF NoView
<1>9. Quiescent'
  BY <1>5, <1>7 DEF Quiescent
<1>10. PortWritesOnlyFreeSpace'
  BY <1>4, <1>5, <1>6 DEF PortWritesOnlyFreeSpace
<1>11. BufferHoldsNextBytes'
  BY <1>2, <1>4, <1>5 DEF BufferHoldsNextBytes
<1>12. ViewHoldsRequestedBytes' /\ ChainBreaksOnlyOnRefusalOrError'
  BY <1>7 DEF ViewHoldsRequestedBytes, ChainBreaksOnlyOnRefusalOrError
<1>13. CompletionCoversRequest'
  BY <1>1, <1>4, <1>5, <1>6 DEF CompletionCoversRequest
<1> QED
  BY <1>8, <1>9, <1>10, <1>11, <1>12, <1>13 DEF IInv

\* callSussessCallback, run under the value end of write_index_, hands out the next
\* n of the unread bytes and keeps the indices around the rest.
LEMMA CallbackHandsOutNext ==
  ASSUME TypeOK, NEW n \in 1..Capacity, NEW end \in 0..Capacity,
         read_index + n <= end,
         \A i \in Cells : read_index <= i /\ i < end => mem[i] = handed + (i - read_index),
         mem' = mem, received' = received, received = handed + (end - read_index),
         callSussessCallback(n, end)
  PROVE  \E w, r \in 0..Capacity :
           /\ write_index' = w /\ read_index' = r
           /\ r <= w
           /\ received' = handed' + (w - r)
           /\ \A i \in Cells : r <= i /\ i < w => mem[i] = handed' + (i - r)
           /\ posted' = [from |-> read_index, len |-> n]
           /\ handed' = handed + n
           /\ \A i \in 0..(n - 1) : mem[read_index + i] = handed + i
<1> USE ReadBufferAssumption DEF TypeOK, Cells
<1>1. /\ posted' = [from |-> read_index, len |-> n]
      /\ handed' = handed + n
      /\ \A i \in 0..(n - 1) : mem[read_index + i] = handed + i
  BY DEF callSussessCallback
<1>2. CASE read_index + n = end
  <2>1. write_index' = 0 /\ read_index' = 0 /\ received' = handed + n
    BY <1>2 DEF callSussessCallback, reset
  <2> QED
    BY <1>1, <2>1
<1>3. CASE read_index + n # end
  <2>1. write_index' = end /\ read_index' = read_index + n /\ read_index + n \in 0..Capacity
    BY <1>3 DEF callSussessCallback
  <2>2. received' = (handed + n) + (end - (read_index + n))
    OBVIOUS
  <2>3. \A i \in Cells : read_index + n <= i /\ i < end
                         => mem[i] = (handed + n) + (i - (read_index + n))
    OBVIOUS
  <2> QED
    BY <1>1, <2>1, <2>2, <2>3
<1> QED
  BY <1>2, <1>3

LEMMA ReadFromBufferKeeps ==
  ASSUME IInv, NEW n \in Requests, ReadFromBuffer(n)
  PROVE  IInv'
<1> USE ReadBufferAssumption DEF TypeOK, Cells
<1>1. /\ TypeOK
      /\ n \in 1..Capacity /\ write_index \in 0..Capacity
      /\ read_index + n <= write_index
  BY DEF IInv, ReadFromBuffer, PortWritesOnlyFreeSpace, Already_bytes
<1>2. /\ op = NoOp /\ ~Reading
      /\ received = handed + (write_index - read_index)
      /\ \A i \in Cells :
           read_index <= i /\ i < write_index => mem[i] = handed + (i - read_index)
  BY ClientCallState DEF ReadFromBuffer, ClientCalls, Already_bytes
<1>3. /\ mem' = mem /\ received' = received /\ op' = op
      /\ started' = TRUE /\ read_requested_bytes' = n
      /\ callSussessCallback(n, write_index)
  BY DEF ReadFromBuffer, ClientCalls
<1>4. PICK w \in 0..Capacity, r \in 0..Capacity :
           /\ write_index' = w /\ read_index' = r
           /\ r <= w
           /\ received' = handed' + (w - r)
           /\ \A i \in Cells : r <= i /\ i < w => mem[i] = handed' + (i - r)
           /\ posted' = [from |-> read_index, len |-> n]
           /\ handed' = handed + n
           /\ \A i \in 0..(n - 1) : mem[read_index + i] = handed + i
  BY <1>1, <1>2, <1>3, CallbackHandsOutNext
<1>5. op' = NoOp /\ ~Reading' /\ CallbackPosted'
  BY <1>1, <1>2, <1>3, <1>4 DEF Reading, CallbackPosted
<1>6. TypeOK'
  BY <1>1, <1>3, <1>4
<1>7. Quiescent'
  BY <1>3, <1>5 DEF Quiescent
<1>8. PortWritesOnlyFreeSpace'
  BY <1>4, <1>5 DEF PortWritesOnlyFreeSpace
<1>9. BufferHoldsNextBytes'
  BY <1>1, <1>3, <1>4, <1>5 DEF BufferHoldsNextBytes, Already_bytes, NoOp
<1>10. ViewHoldsRequestedBytes'
  BY <1>1, <1>3, <1>4, <1>5 DEF ViewHoldsRequestedBytes
<1>11. CompletionCoversRequest' /\ ChainBreaksOnlyOnRefusalOrError'
  BY <1>5 DEF CompletionCoversRequest, ChainBreaksOnlyOnRefusalOrError
<1> QED
  BY <1>6, <1>7, <1>8, <1>9, <1>10, <1>11 DEF IInv

LEMMA TransferKeeps ==
  ASSUME IInv, NEW k \in 1..Capacity, Transfer(k)
  PROVE  IInv'
<1> DEFINE first == op.at + op.got
<1> USE ReadBufferAssumption DEF TypeOK, Cells
<1>1. /\ TypeOK /\ Reading /\ ~CallbackPosted /\ started
      /\ k \in Nat /\ k > 0 /\ k <= op.size - op.got
      /\ read_index <= write_index /\ write_index <= Capacity
      /\ op.at = write_index /\ op.at + op.size <= Capacity
      /\ op.least <= op.size /\ op.got <= op.size
  <2>1. TypeOK /\ Reading
    BY DEF IInv, Transfer
  <2>2. ~CallbackPosted /\ started
    BY <2>1 DEF IInv, Quiescent, ViewHoldsRequestedBytes
  <2>3. /\ read_index <= write_index /\ write_index <= Capacity
        /\ op.at = write_index /\ op.at + op.size <= Capacity
        /\ op.least <= op.size /\ op.got <= op.size
    BY <2>1 DEF IInv, PortWritesOnlyFreeSpace
  <2>4. k \in Nat /\ k > 0 /\ k <= op.size - op.got
    BY DEF Transfer
  <2> QED
    BY <2>1, <2>2, <2>3, <2>4
<1>2. /\ received = handed + (write_index - read_index) + op.got
      /\ \A i \in Cells :
           read_index <= i /\ i < write_index + op.got => mem[i] = handed + (i - read_index)
  BY <1>1 DEF IInv, BufferHoldsNextBytes, Already_bytes
<1>3. /\ mem' = [i \in Cells |-> IF i \in first..(first + k - 1)
                                    THEN received + (i - first)
                                    ELSE mem[i]]
      /\ op' = [op EXCEPT !.got = @ + k]
      /\ received' = received + k
      /\ UNCHANGED <<write_index, read_index, read_requested_bytes, posted, started, handed>>
  BY DEF Transfer
<1>a. PICK at \in Nat, size \in Nat, least \in Nat, got \in Nat, c \in Nat :
        op = [at |-> at, size |-> size, least |-> least, got |-> got] /\ received = c
  BY <1>1
<1>4. /\ op' = [at |-> at, size |-> size, least |-> least, got |-> got + k]
      /\ received' = c + k
      /\ Reading' /\ ~CallbackPosted'
  BY <1>1, <1>3, <1>a DEF Reading, CallbackPosted
<1>5. TypeOK'
  <2>1. mem' \in [Cells -> Nat]
    <3>1. first = at + got
      BY <1>a
    <3>2. \A i \in (at + got)..(at + got + k - 1) : c + (i - (at + got)) \in Nat
      <4> SUFFICES ASSUME NEW i \in (at + got)..(at + got + k - 1)
                   PROVE  c + (i - (at + got)) \in Nat
        OBVIOUS
      <4> QED
        BY <1>1
    <3>3. mem' = [i \in Cells |-> IF i \in (at + got)..(at + got + k - 1)
                                    THEN c + (i - (at + got))
                                    ELSE mem[i]]
      BY <1>3, <1>a, <3>1
    <3> QED
      BY <1>1, <3>2, <3>3
  <2>2. got + k \in Nat /\ c + k \in Nat
    BY <1>1
  <2>3. op' \in [at : Nat, size : Nat, least : Nat, got : Nat] /\ received' \in Nat
    BY <1>4, <2>2
  <2> QED
    BY <1>1, <1>3, <2>1, <2>3
<1>6. Quiescent' /\ ViewHoldsRequestedBytes' /\ ChainBreaksOnlyOnRefusalOrError'
  BY <1>1, <1>3, <1>4
     DEF Quiescent, ViewHoldsRequestedBytes, ChainBreaksOnlyOnRefusalOrError, CallbackPosted, IInv
<1>7. PortWritesOnlyFreeSpace'
  <2>1. /\ at = write_index /\ at + size <= Capacity
        /\ least <= size /\ got + k <= size
    BY <1>1, <1>a
  <2>2. op'.at = at /\ op'.size = size /\ op'.least = least /\ op'.got = got + k
    BY <1>4
  <2>3. /\ read_index' <= write_index' /\ write_index' <= Capacity
        /\ write_index' = write_index
    BY <1>1, <1>3
  <2> QED
    BY <2>1, <2>2, <2>3 DEF PortWritesOnlyFreeSpace
<1>8. BufferHoldsNextBytes'
  <2>0. PICK h \in Nat, r \in Nat, w \in Nat :
          handed = h /\ read_index = r /\ write_index = w /\ at = w
    BY <1>1, <1>a
  <2>a. /\ c = h + (w - r) + got
        /\ \A i \in Cells : r <= i /\ i < w + got => mem[i] = h + (i - r)
    BY <1>2, <1>a, <2>0
  <2>b. mem' = [i \in Cells |-> IF i \in (w + got)..(w + got + k - 1)
                                  THEN c + (i - (w + got))
                                  ELSE mem[i]]
    BY <1>3, <1>a, <2>0
  <2>1. c + k = h + (w - r) + (got + k)
    BY <1>1, <2>a
  <2>2. ASSUME NEW i \in Cells, r <= i, i < w + (got + k)
        PROVE  mem'[i] = h + (i - r)
    <3>1. CASE i < w + got
      <4>1. i \notin (w + got)..(w + got + k - 1)
        BY <1>1, <3>1
      <4> QED
        BY <2>2, <2>a, <2>b, <3>1, <4>1
    <3>2. CASE ~(i < w + got)
      <4>1. i \in (w + got)..(w + got + k - 1)
        BY <1>1, <2>2, <3>2
      <4>2. mem'[i] = c + (i - (w + got))
        BY <2>b, <4>1
      <4>3. c + (i - (w + got)) = h + (i - r)
        BY <2>a, <3>2
      <4> QED
        BY <4>2, <4>3
    <3> QED
      BY <3>1, <3>2
  <2> QED
    BY <1>3, <1>4, <2>0, <2>1, <2>2 DEF BufferHoldsNextBytes, Already_bytes
<1>9. CompletionCoversRequest'
  BY <1>1, <1>3, <1>4 DEF CompletionCoversRequest, Already_bytes, IInv
<1> QED
  BY <1>5, <1>6, <1>7, <1>8, <1>9 DEF IInv

\* What ReadCallback does when the operation is over: it takes its first branch,
\* because the operation was asked for all that was missing.
LEMMA ReadCallbackAnswers ==
  ASSUME IInv, ReadCallback
  PROVE  LET n == read_requested_bytes
             end == write_index + op.got
         IN  /\ n \in 1..Capacity /\ end \in 0..Capacity /\ read_index + n <= end
             /\ ~CallbackPosted /\ started
             /\ received = handed + (end - read_index)
             /\ \A i \in Cells :
                  read_index <= i /\ i < end => mem[i] = handed + (i - read_index)
             /\ callSussessCallback(n, end)
             /\ op' = NoOp
             /\ UNCHANGED <<mem, read_requested_bytes, started, received>>
<1> DEFINE n == read_requested_bytes
           end == write_index + op.got
<1> USE ReadBufferAssumption DEF TypeOK
<1>1. /\ TypeOK /\ Reading /\ ~CallbackPosted /\ started /\ op.got >= op.least
      /\ op.at = write_index /\ op.at + op.size <= Capacity /\ op.got <= op.size
      /\ read_index <= write_index
  BY DEF IInv, ReadCallback, PortWritesOnlyFreeSpace, Quiescent, ViewHoldsRequestedBytes
<1>2. n \in 1..Capacity /\ n = (write_index - read_index) + op.least
  BY <1>1 DEF IInv, CompletionCoversRequest, Already_bytes
<1>3. end \in 0..Capacity /\ read_index + n <= end /\ n <= end - read_index
  BY <1>1, <1>2
<1>4. /\ received = handed + (end - read_index)
      /\ \A i \in Cells : read_index <= i /\ i < end => mem[i] = handed + (i - read_index)
  BY <1>1 DEF IInv, BufferHoldsNextBytes, Already_bytes
<1>5. /\ callSussessCallback(n, end)
      /\ op' = NoOp
      /\ UNCHANGED <<mem, read_requested_bytes, started, received>>
  BY <1>3 DEF ReadCallback
<1> QED
  BY <1>1, <1>2, <1>3, <1>4, <1>5

LEMMA ReadCallbackKeeps ==
  ASSUME IInv, ReadCallback
  PROVE  IInv'
<1> DEFINE n == read_requested_bytes
           end == write_index + op.got
<1> USE ReadBufferAssumption DEF TypeOK, Cells
<1>1. /\ TypeOK
      /\ n \in 1..Capacity /\ end \in 0..Capacity /\ read_index + n <= end
      /\ started
      /\ received = handed + (end - read_index)
      /\ \A i \in Cells : read_index <= i /\ i < end => mem[i] = handed + (i - read_index)
      /\ callSussessCallback(n, end)
      /\ op' = NoOp
      /\ UNCHANGED <<mem, read_requested_bytes, started, received>>
  BY ReadCallbackAnswers DEF IInv
<1> HIDE DEF end
<1>2. PICK w \in 0..Capacity, r \in 0..Capacity :
           /\ write_index' = w /\ read_index' = r
           /\ r <= w
           /\ received' = handed' + (w - r)
           /\ \A i \in Cells : r <= i /\ i < w => mem[i] = handed' + (i - r)
           /\ posted' = [from |-> read_index, len |-> n]
           /\ handed' = handed + n
           /\ \A i \in 0..(n - 1) : mem[read_index + i] = handed + i
  BY <1>1, CallbackHandsOutNext
<1>3. ~Reading' /\ CallbackPosted'
  BY <1>1, <1>2 DEF Reading, CallbackPosted, NoOp
<1>4. TypeOK'
  BY <1>1, <1>2 DEF NoOp
<1>5. Quiescent'
  BY <1>1, <1>3 DEF Quiescent
<1>6. PortWritesOnlyFreeSpace'
  BY <1>2, <1>3 DEF PortWritesOnlyFreeSpace
<1>7. BufferHoldsNextBytes'
  BY <1>1, <1>2, <1>3 DEF BufferHoldsNextBytes, Already_bytes, NoOp
<1>8. ViewHoldsRequestedBytes'
  BY <1>1, <1>2, <1>3 DEF ViewHoldsRequestedBytes
<1>9. CompletionCoversRequest' /\ ChainBreaksOnlyOnRefusalOrError'
  BY <1>3 DEF CompletionCoversRequest, ChainBreaksOnlyOnRefusalOrError
<1> QED
  BY <1>4, <1>5, <1>6, <1>7, <1>8, <1>9 DEF IInv

LEMMA ReadErrorKeeps ==
  ASSUME IInv, ReadError
  PROVE  IInv'
<1> USE DEF ReadError
<1>1. ~CallbackPosted /\ started
  BY DEF IInv, Quiescent, ViewHoldsRequestedBytes
<1>2. ~Reading' /\ ~CallbackPosted' /\ started' /\ read_requested_bytes' = 0
  BY <1>1 DEF Reading, CallbackPosted, NoOp
<1>3. TypeOK' /\ Quiescent'
  BY <1>1, <1>2 DEF IInv, TypeOK, Quiescent, NoOp, CallbackPosted
<1>4. PortWritesOnlyFreeSpace'
  BY <1>2 DEF IInv, PortWritesOnlyFreeSpace
<1>5. BufferHoldsNextBytes' /\ ViewHoldsRequestedBytes'
  BY <1>2 DEF BufferHoldsNextBytes, ViewHoldsRequestedBytes
<1>6. CompletionCoversRequest' /\ ChainBreaksOnlyOnRefusalOrError'
  BY <1>2 DEF CompletionCoversRequest, ChainBreaksOnlyOnRefusalOrError
<1> QED
  BY <1>3, <1>4, <1>5, <1>6 DEF IInv

LEMMA StutterKeeps ==
  ASSUME IInv, UNCHANGED vars
  PROVE  IInv'
<1> USE DEF vars, Reading, CallbackPosted, Already_bytes
<1>1. TypeOK' /\ Quiescent' /\ PortWritesOnlyFreeSpace'
  BY DEF IInv, TypeOK, Quiescent, PortWritesOnlyFreeSpace
<1>2. BufferHoldsNextBytes' /\ ViewHoldsRequestedBytes'
  BY DEF IInv, BufferHoldsNextBytes, ViewHoldsRequestedBytes
<1>3. CompletionCoversRequest' /\ ChainBreaksOnlyOnRefusalOrError'
  BY DEF IInv, CompletionCoversRequest, ChainBreaksOnlyOnRefusalOrError
<1> QED
  BY <1>1, <1>2, <1>3 DEF IInv

----------------------------------------------------------------------------
\* Every reachable state satisfies the invariants AsyncReadBuffer.tla states.
THEOREM Invariance == Spec => []IInv
<1>1. Init => IInv
  BY InitInvariant
<1>2. IInv /\ [Next]_vars => IInv'
  <2> SUFFICES ASSUME IInv, [Next]_vars PROVE IInv'
    OBVIOUS
  <2>1. CASE \E n \in Requests : ReadRefused(n)
    BY <2>1, ReadRefusedKeeps
  <2>2. CASE \E n \in Requests : ReadFromPort(n)
    BY <2>2, ReadFromPortKeeps
  <2>3. CASE \E n \in Requests : ReadFromBuffer(n)
    BY <2>3, ReadFromBufferKeeps
  <2>4. CASE \E k \in 1..Capacity : Transfer(k)
    BY <2>4, TransferKeeps
  <2>5. CASE ReadCallback
    BY <2>5, ReadCallbackKeeps
  <2>6. CASE ReadError
    BY <2>6, ReadErrorKeeps
  <2>7. CASE UNCHANGED vars
    BY <2>7, StutterKeeps
  <2> QED
    BY <2>1, <2>2, <2>3, <2>4, <2>5, <2>6, <2>7 DEF Next
<1> QED
  BY <1>1, <1>2, PTL DEF Spec

\* The variables keep their types.
THEOREM TypeCorrect == Spec => []TypeOK
  BY Invariance, PTL DEF IInv

\* The port never overwrites a byte the client has not been handed.
THEOREM FreeSpaceOnly == Spec => []PortWritesOnlyFreeSpace
  BY Invariance, PTL DEF IInv

\* No byte of the stream is lost, repeated or reordered inside the buffer.
THEOREM NothingLost == Spec => []BufferHoldsNextBytes
  BY Invariance, PTL DEF IInv

\* The pointer a queued callback holds still points at the bytes it asked for.
THEOREM ViewSafe == Spec => []ViewHoldsRequestedBytes
  BY Invariance, PTL DEF IInv

\* A completed read always covers the request, so that the fallback to
\* async_read_some in read_callback is never taken.
THEOREM FallbackUnreachable == Spec => []CompletionCoversRequest
  BY Invariance, PTL DEF IInv

\* Reading stops for good only after a request that does not fit or a failed read.
THEOREM ChainContinues == Spec => []ChainBreaksOnlyOnRefusalOrError
  BY Invariance, PTL DEF IInv

----------------------------------------------------------------------------
\* Refinement.  What the client sees of a state, and of a step.

LEMMA NothingToConsume ==
  ASSUME posted = NoView
  PROVE  Chunk = <<>>
  BY DEF Chunk, NoView

LEMMA SomethingToConsume ==
  ASSUME TypeOK, CallbackPosted
  PROVE  Chunk # <<>>
<1>1. 1 \in DOMAIN Chunk
  BY DEF Chunk, TypeOK, CallbackPosted
<1> QED
  BY <1>1

LEMMA ClientIsOnTurn ==
  ASSUME IInv, started => CallbackPosted
  PROVE  Reader!ClientTurn
<1>1. CASE ~started
  BY <1>1 DEF Reader!ClientTurn, Mode
<1>2. CASE started
  BY <1>2, SomethingToConsume DEF IInv, Reader!ClientTurn, Mode, TypeOK
<1> QED
  BY <1>1, <1>2

\* A posted callback over the next n bytes hands them out.
LEMMA CallbackIsHandOut ==
  ASSUME TypeOK, NEW n \in 1..Capacity,
         posted' = [from |-> read_index, len |-> n],
         handed' = handed + n, mem' = mem, op' = NoOp, started',
         \A i \in 0..(n - 1) : mem[read_index + i] = handed + i
  PROVE  Reader!HandOut(n) /\ Mode' = "open"
<1> USE ReadBufferAssumption DEF TypeOK
<1>1. Asked' = 0
  BY DEF Asked, Reading, NoOp
<1>2. Chunk' = [i \in 1..n |-> handed + i - 1]
  <2>1. Chunk' = [i \in 1..n |-> mem[read_index + i - 1]]
    BY DEF Chunk
  <2>2. \A i \in 1..n : mem[read_index + i - 1] = handed + i - 1
    <3> TAKE i \in 1..n
    <3>1. i - 1 \in 0..(n - 1) /\ read_index + i - 1 = read_index + (i - 1)
      OBVIOUS
    <3> QED
      BY <3>1
  <2> QED
    BY <2>1, <2>2
<1>3. Mode' = "open"
  BY DEF Mode, CallbackPosted
<1> QED
  BY <1>1, <1>2, <1>3 DEF Reader!HandOut, Reader!NextBytes

LEMMA ReadRefusedIsRefuse ==
  ASSUME IInv, NEW n \in Requests, ReadRefused(n)
  PROVE  Reader!Refuse(n)
<1> USE DEF ReadRefused, ClientCalls
<1>1. Reader!ClientTurn
  BY ClientIsOnTurn
<1>2. ~Reading /\ ~Reading' /\ ~CallbackPosted' /\ started'
  BY ClientCallState DEF Reading, CallbackPosted, NoView
<1>3. Mode' = "closed" /\ Asked' = 0
  BY <1>2 DEF Mode, Asked
<1>4. Chunk' = <<>>
  BY DEF Chunk, NoView
<1>5. n \notin 1..Capacity
  BY ReadBufferAssumption
<1> QED
  BY <1>1, <1>3, <1>4, <1>5 DEF Reader!Refuse, Reader!Wait

LEMMA ReadFromPortIsWait ==
  ASSUME IInv, NEW n \in Requests, ReadFromPort(n)
  PROVE  Reader!Request(n)
<1> USE DEF ReadFromPort, ClientCalls
<1>1. Reader!ClientTurn
  BY ClientIsOnTurn
<1>2. Reading' /\ started' /\ read_requested_bytes' = n
  <2>1. n - Already_bytes > 0
    BY ReadBufferAssumption DEF IInv, TypeOK, Already_bytes
  <2> QED
    BY <2>1 DEF Reading, AsyncRead
<1>3. Mode' = "open" /\ Asked' = n
  BY <1>2 DEF Mode, Asked
<1>4. Chunk' = <<>>
  BY DEF Chunk, NoView
<1> QED
  BY <1>1, <1>3, <1>4 DEF Reader!Request, Reader!Wait

LEMMA ReadFromBufferIsHandOut ==
  ASSUME IInv, NEW n \in Requests, ReadFromBuffer(n)
  PROVE  Reader!Request(n)
<1> USE ReadBufferAssumption DEF TypeOK, Cells
<1>1. Reader!ClientTurn
  BY ClientIsOnTurn DEF ReadFromBuffer, ClientCalls
<1>2. /\ TypeOK
      /\ n \in 1..Capacity /\ write_index \in 0..Capacity
      /\ read_index + n <= write_index
  BY DEF IInv, ReadFromBuffer, PortWritesOnlyFreeSpace, Already_bytes
<1>3. /\ op = NoOp
      /\ received = handed + (write_index - read_index)
      /\ \A i \in Cells :
           read_index <= i /\ i < write_index => mem[i] = handed + (i - read_index)
  BY ClientCallState DEF ReadFromBuffer, ClientCalls, Already_bytes
<1>4. /\ callSussessCallback(n, write_index)
      /\ mem' = mem /\ op' = op /\ received' = received /\ started'
  BY DEF ReadFromBuffer, ClientCalls
<1>5. /\ posted' = [from |-> read_index, len |-> n]
      /\ handed' = handed + n
      /\ \A i \in 0..(n - 1) : mem[read_index + i] = handed + i
  BY <1>2, <1>3, <1>4, CallbackHandsOutNext
<1>6. Reader!HandOut(n) /\ Mode' = "open"
  BY <1>2, <1>3, <1>4, <1>5, CallbackIsHandOut
<1> QED
  BY <1>1, <1>2, <1>6 DEF Reader!Request

LEMMA TransferIsInvisible ==
  ASSUME IInv, NEW k \in 1..Capacity, Transfer(k)
  PROVE  UNCHANGED <<Mode, Asked, Chunk, handed>>
<1>1. /\ UNCHANGED <<read_requested_bytes, posted, started, handed>>
      /\ op' = [op EXCEPT !.got = @ + k]
      /\ Reading
  BY DEF Transfer
<1>2. Reading' /\ ~CallbackPosted /\ posted = NoView
  BY <1>1 DEF Reading, IInv, TypeOK, ViewHoldsRequestedBytes, Quiescent
<1>3. UNCHANGED <<Mode, Asked>>
  BY <1>1, <1>2 DEF Mode, Asked
<1>4. UNCHANGED Chunk
  BY <1>1, <1>2 DEF Chunk, NoView
<1> QED
  BY <1>1, <1>3, <1>4

LEMMA ReadCallbackIsAnswer ==
  ASSUME IInv, ReadCallback
  PROVE  Reader!Answer
<1> DEFINE n == read_requested_bytes
           end == write_index + op.got
<1> USE ReadBufferAssumption DEF TypeOK
<1>1. /\ TypeOK
      /\ n \in 1..Capacity /\ end \in 0..Capacity /\ read_index + n <= end
      /\ started
      /\ received = handed + (end - read_index)
      /\ \A i \in Cells : read_index <= i /\ i < end => mem[i] = handed + (i - read_index)
      /\ callSussessCallback(n, end)
      /\ op' = NoOp
      /\ UNCHANGED <<mem, read_requested_bytes, started, received>>
  BY ReadCallbackAnswers DEF IInv
<1>2. /\ posted' = [from |-> read_index, len |-> n]
      /\ handed' = handed + n
      /\ \A i \in 0..(n - 1) : mem[read_index + i] = handed + i
  <2> HIDE DEF end
  <2> QED
    BY <1>1, CallbackHandsOutNext
<1>3. Reader!HandOut(n) /\ Mode' = "open"
  BY <1>1, <1>2, CallbackIsHandOut
<1>4. Mode = "open" /\ Asked = n /\ n # 0
  BY <1>1 DEF ReadCallback, Mode, Asked
<1> QED
  BY <1>3, <1>4 DEF Reader!Answer

LEMMA ReadErrorIsFail ==
  ASSUME IInv, ReadError
  PROVE  Reader!Fail
<1>1. /\ Reading /\ ~CallbackPosted /\ posted = NoView /\ started
      /\ read_requested_bytes \in 1..Capacity
  BY DEF ReadError, IInv, Quiescent, ViewHoldsRequestedBytes, CompletionCoversRequest
<1>2. ~Reading' /\ ~CallbackPosted' /\ started' /\ posted' = NoView /\ handed' = handed
  BY <1>1 DEF ReadError, Reading, CallbackPosted, NoOp, NoView
<1>3. Mode = "open" /\ Mode' = "closed" /\ Asked # 0 /\ Asked' = 0
  BY <1>1, <1>2, ReadBufferAssumption DEF Mode, Asked
<1>4. Chunk' = <<>>
  BY <1>2 DEF Chunk, NoView
<1> QED
  BY <1>2, <1>3, <1>4 DEF Reader!Fail, Reader!Wait

\* To the protocol layer the buffer is ByteReader: every request is answered with
\* exactly the next bytes of the stream, whatever the buffer's size, however the
\* port splits what it delivers, and until a refusal or an error closes it.
THEOREM Refinement == Spec => ImplementsByteReader
<1>1. Init => Reader!Init
  <2> SUFFICES ASSUME Init PROVE Reader!Init
    OBVIOUS
  <2>1. Chunk = <<>>
    BY NothingToConsume DEF Init
  <2> QED
    BY <2>1 DEF Init, Reader!Init, Mode, Asked, Reading, NoOp
<1>2. IInv /\ [Next]_vars => [Reader!Next]_(Reader!readerVars)
  <2> SUFFICES ASSUME IInv, [Next]_vars PROVE [Reader!Next]_(Reader!readerVars)
    OBVIOUS
  <2>1. CASE \E n \in Requests : ReadRefused(n)
    BY <2>1, ReadRefusedIsRefuse DEF Reader!Next
  <2>2. CASE \E n \in Requests : ReadFromPort(n)
    BY <2>2, ReadFromPortIsWait DEF Reader!Next
  <2>3. CASE \E n \in Requests : ReadFromBuffer(n)
    BY <2>3, ReadFromBufferIsHandOut DEF Reader!Next
  <2>4. CASE \E k \in 1..Capacity : Transfer(k)
    BY <2>4, TransferIsInvisible DEF Reader!readerVars
  <2>5. CASE ReadCallback
    BY <2>5, ReadCallbackIsAnswer DEF Reader!Next
  <2>6. CASE ReadError
    BY <2>6, ReadErrorIsFail DEF Reader!Next
  <2>7. CASE UNCHANGED vars
    BY <2>7 DEF vars, Reader!readerVars, Mode, Asked, Chunk, Reading, CallbackPosted
  <2> QED
    BY <2>1, <2>2, <2>3, <2>4, <2>5, <2>6, <2>7 DEF Next
<1> QED
  BY <1>1, <1>2, Invariance, PTL DEF Spec, ImplementsByteReader, Reader!Spec
=============================================================================
