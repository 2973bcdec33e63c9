------------------------------- MODULE ByteReader -------------------------------
(***************************************************************************)
(* What the buffered reader promises the protocol layer: a client that     *)
(* asks for n bytes is handed exactly the next n bytes of the serial       *)
(* stream, in order, with none lost, repeated or overwritten, and has one  *)
(* request outstanding at a time.  A byte is named by its position in the  *)
(* stream.  The reader may also close for good: a request larger than the  *)
(* buffer is dropped, and so is a request whose port read fails.           *)
(***************************************************************************)
EXTENDS Naturals, Sequences

CONSTANTS Capacity,   \* the largest request the reader can serve
          Requests    \* the sizes its client asks for

VARIABLES mode,    \* "fresh" before the first request, then "open" or "closed"
          asked,   \* the request not answered yet, 0 when there is none
          chunk,   \* the bytes handed to the client and not consumed yet
          taken    \* how many bytes of the stream were handed out so far

readerVars == <<mode, asked, chunk, taken>>

Init ==
  /\ mode = "fresh"
  /\ asked = 0
  /\ chunk = <<>>
  /\ taken = 0

\* The next n bytes of the stream.
NextBytes(n) == [i \in 1..n |-> taken + i - 1]

\* The client asks at the start, and then once from each callback it is given.
ClientTurn ==
  \/ mode = "fresh"
  \/ mode = "open" /\ chunk # <<>>

HandOut(n) ==
  /\ asked' = 0
  /\ chunk' = NextBytes(n)
  /\ taken' = taken + n

Wait(n) ==
  /\ asked' = n
  /\ chunk' = <<>>
  /\ taken' = taken

\* A request the buffer can hold is answered at once or waits for the port.
Request(n) ==
  /\ ClientTurn
  /\ n \in 1..Capacity
  /\ mode' = "open"
  /\ HandOut(n) \/ Wait(n)

\* A request it cannot hold is dropped and no callback will ever come.
Refuse(n) ==
  /\ ClientTurn
  /\ n \notin 1..Capacity
  /\ mode' = "closed"
  /\ Wait(0)

Answer ==
  /\ mode = "open"
  /\ asked # 0
  /\ mode' = mode
  /\ HandOut(asked)

\* The port read fails: the request is forgotten.
Fail ==
  /\ mode = "open"
  /\ asked # 0
  /\ mode' = "closed"
  /\ Wait(0)

Next ==
  \/ \E n \in Requests : Request(n) \/ Refuse(n)
  \/ Answer
  \/ Fail

Spec == Init /\ [][Next]_readerVars
=============================================================================
