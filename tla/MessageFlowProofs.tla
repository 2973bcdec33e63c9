---------------------------- MODULE MessageFlowProofs ----------------------------
(***************************************************************************)
(* The sniffer at the line of a topic.  First its parser, for buffers of   *)
(* any length: it recurses towards the end of its buffer, so the inductions *)
(* run from there.  Then what it shows of a line that grows by frames and  *)
(* is read in chunks, and with the proofs of the adapter the invariants of *)
(* the whole.                                                              *)
(***************************************************************************)
EXTENDS MessageFlow, TopicAdapterProofs

----------------------------------------------------------------------------
\* The parser of the sniffer, as a function of the place it looks at

Sync(b, i) == b[i + 1] = 255 /\ b[i + 2] = 254
FrameEnd(b, i) == i + (8 + FromLowHigh(b[i + 3], b[i + 4]))

\* What the parser does at i, and where it goes on.
Ends(b, i) == ~HeaderLeft(i, b) \/ (Sync(b, i) /\ FrameEnd(b, i) > Len(b))
Skips(b, i) == HeaderLeft(i, b) /\ ~Sync(b, i)
Finds(b, i) == HeaderLeft(i, b) /\ Sync(b, i) /\ FrameEnd(b, i) <= Len(b)

Look(from, i, buffer) ==
  IF ~HeaderLeft(i, buffer) THEN [frames |-> <<>>, consumed |-> i]
  ELSE IF buffer[i + 1] # 255 \/ buffer[i + 2] # 254 THEN from[i + 1]
  ELSE LET total_len == 8 + FromLowHigh(buffer[i + 3], buffer[i + 4])
       IN  IF i + total_len > Len(buffer) THEN [frames |-> <<>>, consumed |-> i]
           ELSE LET rest == from[i + total_len]
                IN  [rest EXCEPT !.frames = <<Shown(SubSeq(buffer, i + 1, i + total_len))>> \o @]

IsParse(from, buffer) == from = [i \in Nat |-> Look(from, i, buffer)]
Parsed(buffer) == CHOOSE from : IsParse(from, buffer)

\* The value of the parser is that of the recursive function at 0.
LEMMA ParseIsParsed ==
  ASSUME NEW b
  PROVE  parse_rosserial_frames(b) = Parsed(b)[0]
  BY DEF parse_rosserial_frames, Parsed, IsParse, Look

\* Where a header fits, its eight bytes are in the buffer.
LEMMA HeaderBytes ==
  ASSUME NEW b \in Seq(Byte), NEW i \in Nat, HeaderLeft(i, b)
  PROVE  /\ \A k \in 1..8 : i + k \in 1..Len(b) /\ b[i + k] \in Byte
         /\ FrameEnd(b, i) \in Nat /\ FrameEnd(b, i) >= i + 8
<1>1. i + 8 <= Len(b)
  BY DEF HeaderLeft
<1>2. \A k \in 1..8 : i + k \in 1..Len(b) /\ b[i + k] \in Byte
  BY <1>1
<1>3. b[i + 3] \in Byte /\ b[i + 4] \in Byte
  BY <1>2
<1>4. PICK l, h : l = b[i + 3] /\ h = b[i + 4]
  OBVIOUS
<1>5. FromLowHigh(l, h) \in Nat
  <2>1. l \in Byte /\ h \in Byte
    BY <1>3, <1>4
  <2>2. l \in Nat /\ h \in Nat
    BY <2>1 DEF Byte
  <2> QED
    BY <2>2 DEF FromLowHigh
<1> QED
  BY <1>2, <1>4, <1>5, SMTT(30) DEF FrameEnd

\* What the parser does at i uses only what it does further on.
LEMMA LookAhead ==
  ASSUME NEW b \in Seq(Byte), NEW i \in Nat, NEW f, NEW g,
         \A j \in Nat : j > i => f[j] = g[j]
  PROVE  Look(f, i, b) = Look(g, i, b)
<1>1. CASE ~HeaderLeft(i, b)
  BY <1>1 DEF Look
<1>2. CASE HeaderLeft(i, b)
  <2>1. FrameEnd(b, i) \in Nat /\ FrameEnd(b, i) > i /\ i + 1 \in Nat /\ i + 1 > i
    BY <1>2, HeaderBytes
  <2>2. f[i + 1] = g[i + 1] /\ f[FrameEnd(b, i)] = g[FrameEnd(b, i)]
    BY <2>1
  <2> QED
    BY <2>2 DEF Look, FrameEnd
<1> QED
  BY <1>1, <1>2

\* There is a function that the equation of the parser describes.
LEMMA ParseExists ==
  ASSUME NEW b \in Seq(Byte)
  PROVE  \E f : IsParse(f, b)
<1> DEFINE Solves(f, i) == /\ f = [k \in Nat |-> f[k]]
                           /\ \A k \in Nat : k >= i => f[k] = Look(f, k, b)
           Good == {i \in Nat : \E f : Solves(f, i)}
<1>1. Len(b) \in Nat
  OBVIOUS
<1>2. ASSUME NEW i \in Nat, i > Len(b)
      PROVE  i \in Good
  <2> DEFINE f == [k \in Nat |-> [frames |-> <<>>, consumed |-> k]]
  <2>1. ASSUME NEW k \in Nat, k >= i
        PROVE  f[k] = Look(f, k, b)
    <3>1. ~HeaderLeft(k, b)
      BY <1>1, <1>2, <2>1 DEF HeaderLeft
    <3> QED
      BY <3>1 DEF Look
  <2>2. f = [k \in Nat |-> f[k]]
    OBVIOUS
  <2>3. Solves(f, i)
    BY <2>1, <2>2
  <2>4. \E g : Solves(g, i)
    <3> HIDE DEF f
    <3> QED
      BY <2>3
  <2> QED
    BY <2>4
<1>3. ASSUME NEW i \in Nat, \A j \in Nat : j > i => j \in Good
      PROVE  i \in Good
  <2>1. PICK f : Solves(f, i + 1)
    <3>1. i + 1 \in Nat /\ i + 1 > i
      OBVIOUS
    <3>2. i + 1 \in Good
      BY <1>3, <3>1
    <3> QED
      BY <3>2
  <2> DEFINE g == [k \in Nat |-> IF k = i THEN Look(f, i, b) ELSE f[k]]
  <2>2. ASSUME NEW k \in Nat, k >= i
        PROVE  g[k] = Look(g, k, b)
    <3>1. \A j \in Nat : j > k => f[j] = g[j]
      BY <2>2
    <3>2. Look(f, k, b) = Look(g, k, b)
      <4> HIDE DEF g
      <4> QED
        BY <3>1, LookAhead
    <3>3. CASE k = i
      BY <3>2, <3>3
    <3>4. CASE k # i
      <4>1. k >= i + 1 /\ g[k] = f[k]
        BY <2>2, <3>4
      <4>2. f[k] = Look(f, k, b)
        BY <2>1, <4>1
      <4> QED
        BY <3>2, <4>1, <4>2
    <3> QED
      BY <3>3, <3>4
  <2>3. g = [k \in Nat |-> g[k]]
    OBVIOUS
  <2>4. Solves(g, i)
    BY <2>2, <2>3
  <2>5. \E h : Solves(h, i)
    <3> HIDE DEF g
    <3> QED
      BY <2>4
  <2> QED
    BY <2>5
<1> HIDE DEF Good
<1>4. 0 \in Good
  BY <1>1, <1>2, <1>3, InductionFromEnd
<1>5. PICK f : Solves(f, 0)
  BY <1>4 DEF Good
<1>6. \A k \in Nat : f[k] = Look(f, k, b)
  BY <1>5
<1>7. f = [k \in Nat |-> Look(f, k, b)]
  BY <1>5, <1>6
<1> QED
  BY <1>7 DEF IsParse

\* And the parser is one.
LEMMA ParsedLooks ==
  ASSUME NEW b \in Seq(Byte), NEW i \in Nat
  PROVE  Parsed(b)[i] = Look(Parsed(b), i, b)
<1>1. IsParse(Parsed(b), b)
  BY ParseExists DEF Parsed
<1> QED
  BY <1>1 DEF IsParse

\* What the parser finds from i on, in the three cases.
LEMMA ParseStep ==
  ASSUME NEW b \in Seq(Byte), NEW i \in Nat
  PROVE  LET p == Parsed(b) IN
         /\ Ends(b, i) => p[i] = [frames |-> <<>>, consumed |-> i]
         /\ Skips(b, i) => p[i] = p[i + 1]
         /\ Finds(b, i) =>
              LET j == FrameEnd(b, i) IN
                p[i] = [p[j] EXCEPT !.frames = <<Shown(SubSeq(b, i + 1, j))>> \o @]
<1>1. Parsed(b)[i] = Look(Parsed(b), i, b)
  BY ParsedLooks
<1>2. CASE ~HeaderLeft(i, b)
  BY <1>1, <1>2 DEF Look, Ends, Skips, Finds
<1>3. CASE HeaderLeft(i, b) /\ ~Sync(b, i)
  BY <1>1, <1>3 DEF Look, Ends, Skips, Finds, Sync
<1>4. CASE HeaderLeft(i, b) /\ Sync(b, i) /\ FrameEnd(b, i) > Len(b)
  <2>1. FrameEnd(b, i) \in Nat
    BY <1>4, HeaderBytes
  <2>2. ~(FrameEnd(b, i) <= Len(b))
    BY <1>4, <2>1
  <2> QED
    BY <1>1, <1>4, <2>2 DEF Look, Ends, Skips, Finds, Sync, FrameEnd
<1>5. CASE HeaderLeft(i, b) /\ Sync(b, i) /\ FrameEnd(b, i) <= Len(b)
  <2>1. FrameEnd(b, i) \in Nat
    BY <1>5, HeaderBytes
  <2>2. ~(FrameEnd(b, i) > Len(b))
    BY <1>5, <2>1
  <2> QED
    BY <1>1, <1>5, <2>2 DEF Look, Ends, Skips, Finds, Sync, FrameEnd
<1>6. HeaderLeft(i, b) /\ Sync(b, i) => FrameEnd(b, i) > Len(b) \/ FrameEnd(b, i) <= Len(b)
  <2> SUFFICES ASSUME HeaderLeft(i, b) PROVE FrameEnd(b, i) > Len(b) \/ FrameEnd(b, i) <= Len(b)
    OBVIOUS
  <2>1. FrameEnd(b, i) \in Nat
    BY HeaderBytes
  <2> QED
    BY <2>1
<1> QED
  BY <1>2, <1>3, <1>4, <1>5, <1>6

\* One of the three is what happens.
LEMMA OneCase ==
  ASSUME NEW b \in Seq(Byte), NEW i \in Nat
  PROVE  Ends(b, i) \/ Skips(b, i) \/ Finds(b, i)
<1>1. CASE HeaderLeft(i, b) /\ Sync(b, i)
  <2>1. FrameEnd(b, i) \in Nat
    BY <1>1, HeaderBytes
  <2>2. FrameEnd(b, i) > Len(b) \/ FrameEnd(b, i) <= Len(b)
    BY <2>1
  <2> QED
    BY <1>1, <2>2 DEF Ends, Finds
<1> QED
  BY <1>1 DEF Ends, Skips

SniffedFrame == [topic_id : Word, payload : Seq(Byte),
                 len_checksum_ok : BOOLEAN, msg_checksum_ok : BOOLEAN]

\* What is shown of a frame is of the type of frames shown.
LEMMA ShownTypes ==
  ASSUME NEW b \in Seq(Byte), NEW i \in Nat, Finds(b, i)
  PROVE  Shown(SubSeq(b, i + 1, FrameEnd(b, i))) \in SniffedFrame
<1>1. PICK j : j = FrameEnd(b, i)
  OBVIOUS
<1>2. j \in Nat /\ j >= i + 8 /\ j <= Len(b)
  BY <1>1, HeaderBytes DEF Finds
<1>3. PICK s : s = SubSeq(b, i + 1, j)
  OBVIOUS
<1>4. s \in Seq(Byte) /\ Len(s) = j - i
  BY <1>2, <1>3
<1>5. Len(s) \in Nat /\ Len(s) >= 8
  BY <1>2, <1>4
<1>6. s[6] \in Byte /\ s[7] \in Byte
  BY <1>4, <1>5
<1>7. FromLowHigh(s[6], s[7]) \in Word
  BY <1>6, WordFromBytes
<1>8. SubSeq(s, 8, Len(s) - 1) \in Seq(Byte)
  BY <1>4, <1>5
<1>9. Shown(s) \in SniffedFrame
  BY <1>7, <1>8 DEF Shown, SniffedFrame
<1> QED
  BY <1>1, <1>3, <1>9

\* The parser consumes nothing beyond the buffer, and what it finds are frames.
LEMMA ParseTypes ==
  ASSUME NEW b \in Seq(Byte)
  PROVE  \A i \in Nat :
           /\ Parsed(b)[i] \in [frames : Seq(SniffedFrame), consumed : Nat]
           /\ Parsed(b)[i].consumed >= i
           /\ i <= Len(b) => Parsed(b)[i].consumed <= Len(b)
<1> DEFINE Typed(i, p) == /\ p \in [frames : Seq(SniffedFrame), consumed : Nat]
                          /\ p.consumed >= i
                          /\ i <= Len(b) => p.consumed <= Len(b)
           Good == {i \in Nat : Typed(i, Parsed(b)[i])}
<1>0. Len(b) \in Nat
  OBVIOUS
<1>1. ASSUME NEW i \in Nat, Ends(b, i)
      PROVE  i \in Good
  <2>1. Parsed(b)[i] = [frames |-> <<>>, consumed |-> i]
    BY <1>1, ParseStep
  <2>2. PICK p : p = Parsed(b)[i]
    OBVIOUS
  <2>3. p.frames = <<>> /\ p.consumed = i /\ p \in [frames : Seq(SniffedFrame), consumed : Nat]
    BY <2>1, <2>2
  <2>4. Typed(i, p)
    BY <2>3
  <2> QED
    BY <2>2, <2>4
<1>2. ASSUME NEW i \in Nat, i > Len(b)
      PROVE  i \in Good
  <2>1. ~HeaderLeft(i, b)
    BY <1>0, <1>2 DEF HeaderLeft
  <2> QED
    BY <1>1, <2>1 DEF Ends
<1>3. ASSUME NEW i \in Nat, \A j \in Nat : j > i => j \in Good
      PROVE  i \in Good
  <2>1. CASE Skips(b, i)
    <3>1. i + 1 \in Good /\ i + 1 <= Len(b)
      <4>1. i + 8 <= Len(b)
        BY <2>1 DEF Skips, HeaderLeft
      <4> QED
        BY <1>0, <1>3, <4>1
    <3>2. Parsed(b)[i] = Parsed(b)[i + 1]
      BY <2>1, ParseStep
    <3>3. PICK p : p = Parsed(b)[i + 1]
      OBVIOUS
    <3>4. Typed(i + 1, p)
      BY <3>1, <3>3
    <3>5. Typed(i, p)
      BY <3>1, <3>4
    <3> QED
      BY <3>2, <3>3, <3>5
  <2>2. CASE Finds(b, i)
    <3>1. PICK j, s, p : /\ j = FrameEnd(b, i) /\ s = Shown(SubSeq(b, i + 1, j))
                         /\ p = Parsed(b)[j]
      OBVIOUS
    <3>2. j \in Nat /\ j > i /\ j <= Len(b)
      BY <2>2, <3>1, HeaderBytes DEF Finds
    <3>3. Typed(j, p)
      BY <1>3, <3>1, <3>2
    <3>4. s \in SniffedFrame
      BY <2>2, <3>1, ShownTypes
    <3>5. Parsed(b)[i] = [p EXCEPT !.frames = <<s>> \o @]
      BY <2>2, <3>1, ParseStep
    <3>6. <<s>> \o p.frames \in Seq(SniffedFrame)
      BY <3>3, <3>4
    <3>7. PICK q : q = [p EXCEPT !.frames = <<s>> \o @]
      OBVIOUS
    <3>8. q.consumed = p.consumed /\ q \in [frames : Seq(SniffedFrame), consumed : Nat]
      BY <3>3, <3>6, <3>7
    <3>9. Typed(i, q)
      BY <3>2, <3>3, <3>8
    <3> QED
      BY <3>5, <3>7, <3>9
  <2> QED
    BY <1>1, <2>1, <2>2, OneCase
<1> HIDE DEF Good
<1>4. Nat \subseteq Good
  BY <1>0, <1>2, <1>3, InductionFromEnd
<1> QED
  BY <1>4 DEF Good

\* Where it ends, there is nothing more.
LEMMA EndsParse ==
  ASSUME NEW b \in Seq(Byte), NEW i \in Nat, Ends(b, i)
  PROVE  Parsed(b)[i] = [frames |-> <<>>, consumed |-> i]
  BY ParseStep

\* Where it skips, it finds what it finds from the next byte on.
LEMMA SkipsParse ==
  ASSUME NEW b \in Seq(Byte), NEW i \in Nat, Skips(b, i)
  PROVE  Parsed(b)[i] = Parsed(b)[i + 1] /\ i + 1 \in Nat /\ i + 1 > i /\ i + 1 <= Len(b)
<1>1. Parsed(b)[i] = Parsed(b)[i + 1]
  BY ParseStep
<1>2. i + 8 <= Len(b)
  BY DEF Skips, HeaderLeft
<1>3. Len(b) \in Nat
  OBVIOUS
<1> QED
  BY <1>1, <1>2, <1>3

ShownAt(b, i) == Shown(SubSeq(b, i + 1, FrameEnd(b, i)))

\* Where it finds a frame, it shows that frame and then those behind it.
LEMMA FindsParse ==
  ASSUME NEW b \in Seq(Byte), NEW i \in Nat, Finds(b, i)
  PROVE  /\ Parsed(b)[i] = [frames |-> <<ShownAt(b, i)>> \o Parsed(b)[FrameEnd(b, i)].frames,
                            consumed |-> Parsed(b)[FrameEnd(b, i)].consumed]
         /\ ShownAt(b, i) \in SniffedFrame
<1>1. PICK j, s, p : j = FrameEnd(b, i) /\ s = ShownAt(b, i) /\ p = Parsed(b)[FrameEnd(b, i)]
  OBVIOUS
<1>2. j \in Nat
  BY <1>1, HeaderBytes DEF Finds
<1>3. p \in [frames : Seq(SniffedFrame), consumed : Nat]
  BY <1>1, <1>2, ParseTypes
<1>4. Parsed(b)[i] = [p EXCEPT !.frames = <<s>> \o @]
  BY <1>1, ParseStep DEF ShownAt
<1>5. Parsed(b)[i] = [frames |-> <<s>> \o p.frames, consumed |-> p.consumed]
  BY <1>3, <1>4
<1> QED
  BY <1>1, <1>5, ShownTypes DEF ShownAt

\* And it goes on behind the frame, within the buffer.
LEMMA FrameEndsWithin ==
  ASSUME NEW b \in Seq(Byte), NEW i \in Nat, Finds(b, i)
  PROVE  FrameEnd(b, i) \in Nat /\ FrameEnd(b, i) > i /\ FrameEnd(b, i) <= Len(b)
<1>1. FrameEnd(b, i) \in Nat /\ FrameEnd(b, i) >= i + 8 /\ FrameEnd(b, i) <= Len(b)
  BY HeaderBytes DEF Finds
<1> QED
  BY <1>1

\* The two fields of what it finds.
LEMMA ParseRecord ==
  ASSUME NEW b \in Seq(Byte), NEW i \in Nat, NEW p, p = Parsed(b)[i]
  PROVE  /\ p.frames \in Seq(SniffedFrame) /\ p.consumed \in Nat
         /\ p = [frames |-> p.frames, consumed |-> p.consumed]
<1>1. p \in [frames : Seq(SniffedFrame), consumed : Nat]
  BY ParseTypes
<1> QED
  BY <1>1
----------------------------------------------------------------------------
\* More bytes behind the buffer, and fewer before it

\* What follows does not change the front of a sequence.
LEMMA FrontOfBoth ==
  ASSUME NEW S, NEW b \in Seq(S), NEW c \in Seq(S), NEW i \in Nat, NEW j \in 0..Len(b)
  PROVE  SubSeq(b \o c, i + 1, j) = SubSeq(b, i + 1, j)
<1>1. b \o c \in Seq(S) /\ Len(b \o c) = Len(b) + Len(c) /\ Len(b) \in Nat /\ Len(c) \in Nat
  OBVIOUS
<1>2. \A k \in 1..Len(b) : (b \o c)[k] = b[k]
  OBVIOUS
<1> QED
  BY <1>1, <1>2

\* Further bytes do not change what was found.
LEMMA CaseKept ==
  ASSUME NEW b \in Seq(Byte), NEW c \in Seq(Byte), NEW both, both = b \o c,
         NEW i \in Nat, i <= Len(b)
  PROVE  /\ Skips(b, i) => Skips(both, i)
         /\ Finds(b, i) => /\ Finds(both, i) /\ FrameEnd(both, i) = FrameEnd(b, i)
                           /\ SubSeq(both, i + 1, FrameEnd(b, i)) = SubSeq(b, i + 1, FrameEnd(b, i))
<1>1. Len(both) = Len(b) + Len(c) /\ Len(b) \in Nat /\ Len(c) \in Nat
  OBVIOUS
<1>2. \A k \in 1..Len(b) : both[k] = b[k]
  OBVIOUS
<1>3. ASSUME HeaderLeft(i, b)
      PROVE  /\ HeaderLeft(i, both) /\ (Sync(both, i) <=> Sync(b, i))
             /\ FrameEnd(both, i) = FrameEnd(b, i)
  <2>1. i + 8 <= Len(b)
    BY <1>3 DEF HeaderLeft
  <2>2. /\ i + 1 \in 1..Len(b) /\ i + 2 \in 1..Len(b) /\ i + 3 \in 1..Len(b)
        /\ i + 4 \in 1..Len(b)
    BY <1>1, <2>1
  <2>4. /\ both[i + 1] = b[i + 1] /\ both[i + 2] = b[i + 2] /\ both[i + 3] = b[i + 3]
        /\ both[i + 4] = b[i + 4]
    BY <1>2, <2>2
  <2>5. HeaderLeft(i, both)
    BY <1>1, <2>1 DEF HeaderLeft
  <2> QED
    BY <2>4, <2>5 DEF Sync, FrameEnd
<1>4. ASSUME Finds(b, i)
      PROVE  FrameEnd(b, i) <= Len(both) /\ FrameEnd(b, i) \in 0..Len(b)
  <2>1. FrameEnd(b, i) \in Nat /\ FrameEnd(b, i) <= Len(b)
    BY <1>4, HeaderBytes DEF Finds
  <2> QED
    BY <1>1, <2>1
<1>5. Finds(b, i) => SubSeq(both, i + 1, FrameEnd(b, i)) = SubSeq(b, i + 1, FrameEnd(b, i))
  BY <1>4, FrontOfBoth
<1> QED
  BY <1>3, <1>4, <1>5 DEF Skips, Finds

\* With more bytes behind the buffer, the parser finds the same frames and goes on from
\* where it had to stop.
LEMMA ParseGoesOn ==
  ASSUME NEW b \in Seq(Byte), NEW c \in Seq(Byte), NEW both, both = b \o c
  PROVE  \A i \in 0..Len(b) :
           Parsed(both)[i] =
             [frames |-> Parsed(b)[i].frames \o Parsed(both)[Parsed(b)[i].consumed].frames,
              consumed |-> Parsed(both)[Parsed(b)[i].consumed].consumed]
<1> DEFINE GoesOn(p, r) ==
             r = [frames |-> p.frames \o Parsed(both)[p.consumed].frames,
                  consumed |-> Parsed(both)[p.consumed].consumed]
           Good == {i \in Nat : i <= Len(b) => GoesOn(Parsed(b)[i], Parsed(both)[i])}
<1>0. Len(b) \in Nat /\ both \in Seq(Byte)
  OBVIOUS
<1>1. ASSUME NEW i \in Nat, i > Len(b)
      PROVE  i \in Good
  BY <1>0, <1>1
<1>2. ASSUME NEW i \in Nat, \A j \in Nat : j > i => j \in Good, i <= Len(b)
      PROVE  GoesOn(Parsed(b)[i], Parsed(both)[i])
  <2>1. CASE Ends(b, i)
    <3>1. PICK p, q : p = Parsed(b)[i] /\ q = Parsed(both)[i]
      OBVIOUS
    <3>2. p.frames = <<>> /\ p.consumed = i
      <4>1. p = [frames |-> <<>>, consumed |-> i]
        BY <1>2, <2>1, <3>1, EndsParse
      <4> QED
        BY <4>1
    <3>3. q.frames \in Seq(SniffedFrame) /\ q = [frames |-> q.frames, consumed |-> q.consumed]
      BY <1>0, <3>1, ParseRecord
    <3>4. p.frames \o q.frames = q.frames
      BY <3>2, <3>3
    <3> QED
      BY <3>1, <3>2, <3>3, <3>4
  <2>2. CASE Skips(b, i)
    <3>1. Skips(both, i)
      BY <1>2, <2>2, CaseKept
    <3>2. Parsed(b)[i] = Parsed(b)[i + 1] /\ i + 1 \in Nat /\ i + 1 > i /\ i + 1 <= Len(b)
      BY <2>2, SkipsParse
    <3>3. Parsed(both)[i] = Parsed(both)[i + 1]
      BY <1>0, <3>1, SkipsParse
    <3>4. GoesOn(Parsed(b)[i + 1], Parsed(both)[i + 1])
      BY <1>2, <3>2
    <3> QED
      BY <3>2, <3>3, <3>4
  <2>3. CASE Finds(b, i)
    <3>1. PICK j, s, p, r : /\ j = FrameEnd(b, i) /\ s = ShownAt(b, i)
                            /\ p = Parsed(b)[j] /\ r = Parsed(both)[j]
      OBVIOUS
    <3>2. j \in Nat /\ j > i /\ j <= Len(b)
      BY <2>3, <3>1, FrameEndsWithin
    <3>3. GoesOn(p, r)
      BY <1>2, <3>1, <3>2
    <3>4. Finds(both, i) /\ j = FrameEnd(both, i) /\ s = ShownAt(both, i)
      <4>1. /\ Finds(both, i) /\ FrameEnd(both, i) = FrameEnd(b, i)
            /\ SubSeq(both, i + 1, FrameEnd(b, i)) = SubSeq(b, i + 1, FrameEnd(b, i))
        <5> HIDE DEF GoesOn, Good
        <5> QED
          BY <1>2, <2>3, CaseKept, ZenonT(30)
      <4>2. ShownAt(both, i) = ShownAt(b, i)
        BY <4>1 DEF ShownAt
      <4> QED
        BY <3>1, <4>1, <4>2
    <3>5. PICK x, y, q : x = Parsed(b)[i] /\ y = Parsed(both)[i] /\ q = Parsed(both)[p.consumed]
      OBVIOUS
    <3>6. x = [frames |-> <<s>> \o p.frames, consumed |-> p.consumed] /\ s \in SniffedFrame
      BY <2>3, <3>1, <3>5, FindsParse
    <3>7. y = [frames |-> <<s>> \o r.frames, consumed |-> r.consumed]
      BY <1>0, <3>1, <3>4, <3>5, FindsParse, ZenonT(30)
    <3>8. p.frames \in Seq(SniffedFrame) /\ p.consumed \in Nat
      BY <3>1, <3>2, ParseRecord
    <3>9. q.frames \in Seq(SniffedFrame)
      BY <1>0, <3>5, <3>8, ParseRecord
    <3>10. r = [frames |-> p.frames \o q.frames, consumed |-> q.consumed]
      BY <3>3, <3>5
    <3>11. y = [frames |-> x.frames \o q.frames, consumed |-> q.consumed] /\ x.consumed = p.consumed
      <4>1. PICK u, v : u = p.frames /\ v = q.frames
        OBVIOUS
      <4>2. <<s>> \o (u \o v) = (<<s>> \o u) \o v
        <5>1. u \in Seq(SniffedFrame) /\ v \in Seq(SniffedFrame) /\ <<s>> \in Seq(SniffedFrame)
          BY <3>6, <3>8, <3>9, <4>1
        <5> QED
          BY <5>1, ConcatAssociative
      <4>3. r.frames = u \o v /\ r.consumed = q.consumed
        BY <3>10, <4>1
      <4>4. y = [frames |-> (<<s>> \o u) \o v, consumed |-> q.consumed]
        BY <3>7, <4>2, <4>3
      <4>5. x.frames = <<s>> \o u /\ x.consumed = p.consumed
        BY <3>6, <4>1
      <4> QED
        BY <4>1, <4>4, <4>5
    <3>12. GoesOn(x, y)
      BY <3>5, <3>11
    <3> QED
      BY <3>5, <3>12
  <2> QED
    BY <2>1, <2>2, <2>3, OneCase
<1>3. \A i \in Nat : (\A j \in Nat : j > i => j \in Good) => i \in Good
  BY <1>2
<1> HIDE DEF Good
<1>4. Nat \subseteq Good
  BY <1>0, <1>1, <1>3, InductionFromEnd
<1>5. \A i \in 0..Len(b) : i \in Nat /\ i <= Len(b)
  BY <1>0
<1>6. \A i \in 0..Len(b) : GoesOn(Parsed(b)[i], Parsed(both)[i])
  BY <1>4, <1>5 DEF Good
<1> QED
  BY <1>6

\* Nor do the bytes before it: everything is found where it was, further back.
BehindFirst(n, d, both) ==
  /\ n \in Nat /\ d \in Seq(Byte) /\ both \in Seq(Byte)
  /\ Len(both) = n + Len(d)
  /\ \A k \in 1..Len(d) : both[n + k] = d[k]

\* Behind the first n bytes the parser finds the case it finds in the rest alone.
LEMMA CaseShifted ==
  ASSUME NEW n, NEW d, NEW both, BehindFirst(n, d, both), NEW i \in Nat
  PROVE  /\ Ends(d, i) => Ends(both, n + i)
         /\ Skips(d, i) => Skips(both, n + i)
         /\ Finds(d, i) => /\ Finds(both, n + i) /\ FrameEnd(both, n + i) = n + FrameEnd(d, i)
                           /\ ShownAt(both, n + i) = ShownAt(d, i)
<1>1. /\ Len(both) = n + Len(d) /\ Len(d) \in Nat /\ n \in Nat /\ both \in Seq(Byte)
      /\ n + i \in Nat /\ d \in Seq(Byte)
  BY DEF BehindFirst
<1>2. \A k \in 1..Len(d) : both[n + k] = d[k]
  BY DEF BehindFirst
<1>3. HeaderLeft(n + i, both) <=> HeaderLeft(i, d)
  BY <1>1 DEF HeaderLeft
<1>4. ASSUME HeaderLeft(i, d)
      PROVE  /\ Sync(both, n + i) <=> Sync(d, i)
             /\ FrameEnd(both, n + i) = n + FrameEnd(d, i)
             /\ FrameEnd(d, i) \in Nat
  <2>1. i + 8 <= Len(d)
    BY <1>1, <1>4 DEF HeaderLeft
  <2>2. /\ i + 1 \in 1..Len(d) /\ i + 2 \in 1..Len(d) /\ i + 3 \in 1..Len(d)
        /\ i + 4 \in 1..Len(d)
    BY <1>1, <2>1
  <2>3. /\ both[n + (i + 1)] = d[i + 1] /\ both[n + (i + 2)] = d[i + 2]
        /\ both[n + (i + 3)] = d[i + 3] /\ both[n + (i + 4)] = d[i + 4]
    BY <1>2, <2>2
  <2>4. /\ n + (i + 1) = n + i + 1 /\ n + (i + 2) = n + i + 2
        /\ n + (i + 3) = n + i + 3 /\ n + (i + 4) = n + i + 4
    BY <1>1
  <2>5. Sync(both, n + i) <=> Sync(d, i)
    <3>1. both[n + i + 1] = d[i + 1] /\ both[n + i + 2] = d[i + 2]
      BY <2>3, <2>4
    <3> QED
      BY <3>1 DEF Sync
  <2>6. FrameEnd(d, i) \in Nat /\ FrameEnd(both, n + i) \in Nat
    BY <1>1, <1>3, <1>4, HeaderBytes
  <2>7. PICK f : f = FromLowHigh(d[i + 3], d[i + 4])
    OBVIOUS
  <2>8. FrameEnd(d, i) = i + (8 + f) /\ FrameEnd(both, n + i) = n + i + (8 + f)
    <3>1. both[n + i + 3] = d[i + 3] /\ both[n + i + 4] = d[i + 4]
      BY <2>3, <2>4
    <3> QED
      BY <2>7, <3>1 DEF FrameEnd
  <2>9. f \in Nat
    <3>1. d[i + 3] \in Byte /\ d[i + 4] \in Byte
      BY <1>1, <2>2
    <3>2. f \in Word
      BY <2>7, <3>1, WordFromBytes
    <3> QED
      BY <3>2 DEF Word
  <2>10. FrameEnd(both, n + i) = n + FrameEnd(d, i)
    BY <1>1, <2>8, <2>9
  <2> QED
    BY <2>5, <2>6, <2>10
<1>5. Ends(d, i) => Ends(both, n + i)
  <2>1. CASE ~HeaderLeft(i, d)
    BY <1>3, <2>1 DEF Ends
  <2>2. CASE HeaderLeft(i, d) /\ FrameEnd(d, i) > Len(d)
    <3>1. FrameEnd(both, n + i) > Len(both)
      BY <1>1, <1>4, <2>2
    <3> QED
      BY <1>4, <2>2, <3>1 DEF Ends
  <2> QED
    BY <2>1, <2>2 DEF Ends
<1>6. Skips(d, i) => Skips(both, n + i)
  BY <1>3, <1>4 DEF Skips
<1>7. ASSUME Finds(d, i)
      PROVE  Finds(both, n + i) /\ ShownAt(both, n + i) = ShownAt(d, i)
  <2>1. PICK j : j = FrameEnd(d, i)
    OBVIOUS
  <2>2. j \in 0..Len(d) /\ FrameEnd(both, n + i) = n + j
    <3>1. j \in Nat /\ j <= Len(d)
      BY <1>1, <1>7, <2>1, FrameEndsWithin
    <3> QED
      BY <1>1, <1>4, <1>7, <2>1, <3>1 DEF Finds
  <2>3. n + j <= Len(both)
    BY <1>1, <2>2
  <2>4. Finds(both, n + i)
    BY <1>3, <1>4, <1>7, <2>2, <2>3 DEF Finds
  <2>5. SubSeq(both, n + i + 1, n + j) = SubSeq(d, i + 1, j)
    BY <1>1, <1>2, <2>2, SMTT(30)
  <2> QED
    BY <2>1, <2>2, <2>4, <2>5 DEF ShownAt
<1> QED
  BY <1>4, <1>5, <1>6, <1>7 DEF Finds

\* With bytes before the buffer, it finds there what it finds in the buffer alone.
LEMMA ParseShifted ==
  ASSUME NEW n, NEW d, NEW both, BehindFirst(n, d, both)
  PROVE  \A i \in Nat : /\ Parsed(both)[n + i].frames = Parsed(d)[i].frames
                        /\ Parsed(both)[n + i].consumed = n + Parsed(d)[i].consumed
<1> DEFINE Shifted(x, y) == y.frames = x.frames /\ y.consumed = n + x.consumed
           Good == {i \in Nat : Shifted(Parsed(d)[i], Parsed(both)[n + i])}
<1>0. /\ Len(d) \in Nat /\ both \in Seq(Byte) /\ n \in Nat /\ d \in Seq(Byte)
  BY DEF BehindFirst
<1>1. ASSUME NEW i \in Nat, Ends(d, i)
      PROVE  i \in Good
  <2>1. PICK k \in Nat : k = n + i
    BY <1>0
  <2>2. Ends(both, n + i)
    <3> HIDE DEF Good
    <3> QED
      BY <1>1, CaseShifted
  <2>3. PICK x, y : x = Parsed(d)[i] /\ y = Parsed(both)[k]
    OBVIOUS
  <2>4. x.frames = <<>> /\ x.consumed = i
    <3> HIDE DEF Good, Shifted
    <3>1. x = [frames |-> <<>>, consumed |-> i]
      BY <1>0, <1>1, <2>3, EndsParse
    <3> QED
      BY <3>1
  <2>5. y.frames = <<>> /\ y.consumed = n + i
    <3>1. Ends(both, k)
      BY <2>1, <2>2
    <3> HIDE DEF Good, Shifted
    <3>2. y = [frames |-> <<>>, consumed |-> k]
      BY <1>0, <2>1, <2>3, <3>1, EndsParse
    <3> QED
      BY <2>1, <3>2
  <2>6. Shifted(x, y)
    BY <2>4, <2>5
  <2> QED
    BY <2>1, <2>3, <2>6
<1>2. ASSUME NEW i \in Nat, i > Len(d)
      PROVE  i \in Good
  <2>1. ~HeaderLeft(i, d)
    BY <1>0, <1>2 DEF HeaderLeft
  <2> QED
    BY <1>1, <2>1 DEF Ends
<1>3. ASSUME NEW i \in Nat, \A j \in Nat : j > i => j \in Good
      PROVE  i \in Good
  <2>1. CASE Skips(d, i)
    <3>1. Skips(both, n + i)
      <4> HIDE DEF Good
      <4> QED
        BY <2>1, CaseShifted
    <3>2. Parsed(d)[i] = Parsed(d)[i + 1] /\ i + 1 \in Nat /\ i + 1 > i
      BY <1>0, <2>1, SkipsParse
    <3>3. n + i \in Nat /\ n + (i + 1) = n + i + 1
      BY <1>0
    <3>4. Parsed(both)[n + i] = Parsed(both)[n + i + 1]
      BY <1>0, <3>1, <3>3, SkipsParse
    <3>5. i + 1 \in Good
      BY <1>3, <3>2
    <3> QED
      BY <3>2, <3>3, <3>4, <3>5
  <2>2. CASE Finds(d, i)
    <3>1. PICK j, s : j = FrameEnd(d, i) /\ s = ShownAt(d, i)
      OBVIOUS
    <3>2. PICK p, r, x, y : /\ p = Parsed(d)[j] /\ r = Parsed(both)[n + j]
                            /\ x = Parsed(d)[i] /\ y = Parsed(both)[n + i]
      OBVIOUS
    <3>3. /\ Finds(both, n + i) /\ FrameEnd(both, n + i) = n + j
          /\ ShownAt(both, n + i) = s
      <4> HIDE DEF Good, Shifted
      <4>1. /\ Finds(both, n + i) /\ FrameEnd(both, n + i) = n + FrameEnd(d, i)
            /\ ShownAt(both, n + i) = ShownAt(d, i)
        BY <2>2, CaseShifted
      <4> QED
        BY <3>1, <4>1
    <3>4. j \in Nat /\ j > i
      BY <1>0, <2>2, <3>1, FrameEndsWithin
    <3>5. Shifted(p, r)
      BY <1>3, <3>2, <3>4
    <3>6. x = [frames |-> <<s>> \o p.frames, consumed |-> p.consumed]
      BY <1>0, <2>2, <3>1, <3>2, FindsParse
    <3>7. PICK k \in Nat : k = n + i
      BY <1>0
    <3>8. y = [frames |-> <<s>> \o r.frames, consumed |-> r.consumed]
      <4>1. Finds(both, k) /\ FrameEnd(both, k) = n + j /\ ShownAt(both, k) = s
        BY <3>3, <3>7
      <4> HIDE DEF Good, Shifted
      <4>2. Parsed(both)[k] = [frames |-> <<s>> \o Parsed(both)[n + j].frames,
                               consumed |-> Parsed(both)[n + j].consumed]
        BY <1>0, <4>1, FindsParse
      <4> QED
        BY <3>2, <3>7, <4>2
    <3>9. Shifted(x, y)
      BY <3>5, <3>6, <3>8
    <3> QED
      BY <3>2, <3>9
  <2> QED
    BY <1>0, <1>1, <2>1, <2>2, OneCase
<1> HIDE DEF Good
<1>4. Nat \subseteq Good
  BY <1>0, <1>2, <1>3, InductionFromEnd
<1> QED
  BY <1>4 DEF Good

\* What the parser has used up can be forgotten.
LEMMA KeptIsBehind ==
  ASSUME NEW b \in Seq(Byte), NEW c \in Seq(Byte), NEW n \in 0..Len(b)
  PROVE  BehindFirst(n, Keep(b, n) \o c, b \o c)
<1>1. PICK k : k = SubSeq(b, n + 1, Len(b))
  OBVIOUS
<1>2. k \in Seq(Byte) /\ Len(k) = Len(b) - n /\ \A i \in 1..Len(k) : k[i] = b[n + i]
  BY <1>1
<1>3. PICK d, both : d = k \o c /\ both = b \o c
  OBVIOUS
<1>4. /\ d \in Seq(Byte) /\ Len(d) = Len(k) + Len(c)
      /\ \A i \in 1..Len(k) : d[i] = k[i]
      /\ \A i \in 1..Len(c) : d[Len(k) + i] = c[i]
  <2>1. k \in Seq(Byte)
    BY <1>2
  <2> QED
    BY <1>3, <2>1, ConcatElements
<1>5. /\ both \in Seq(Byte) /\ Len(both) = Len(b) + Len(c)
      /\ \A i \in 1..Len(b) : both[i] = b[i]
      /\ \A i \in 1..Len(c) : both[Len(b) + i] = c[i]
  BY <1>3, ConcatElements
<1>6. Len(b) \in Nat /\ Len(c) \in Nat /\ Len(k) \in Nat
  BY <1>2
<1>7. ASSUME NEW i \in 1..Len(d)
      PROVE  both[n + i] = d[i]
  <2>1. CASE i <= Len(k)
    <3>1. i \in 1..Len(k) /\ n + i \in 1..Len(b)
      BY <1>2, <1>6, <2>1
    <3> QED
      BY <1>2, <1>4, <1>5, <3>1
  <2>2. CASE i > Len(k)
    <3>1. PICK m \in 1..Len(c) : i = Len(k) + m
      <4>1. i - Len(k) \in 1..Len(c) /\ i = Len(k) + (i - Len(k))
        BY <1>4, <1>6, <2>2
      <4> QED
        BY <4>1
    <3>2. n + i = Len(b) + m
      BY <1>2, <1>6, <3>1
    <3> QED
      BY <1>4, <1>5, <3>1, <3>2
  <2> QED
    BY <1>6, <2>1, <2>2
<1>8. Len(both) = n + Len(d) /\ n \in Nat
  BY <1>2, <1>4, <1>5, <1>6
<1>9. BehindFirst(n, d, both)
  BY <1>4, <1>5, <1>7, <1>8 DEF BehindFirst
<1> QED
  <2>1. Keep(b, n) \o c = d
    BY <1>1, <1>3 DEF Keep
  <2> QED
    BY <1>3, <1>9, <2>1

\* The parser uses up no more than there is.
LEMMA ConsumedWithin ==
  ASSUME NEW b \in Seq(Byte), NEW p, p = parse_rosserial_frames(b)
  PROVE  p.consumed \in 0..Len(b)
<1>1. Len(b) \in Nat /\ 0 <= Len(b)
  OBVIOUS
<1>2. p = Parsed(b)[0]
  BY ParseIsParsed
<1>3. p \in [frames : Seq(SniffedFrame), consumed : Nat] /\ p.consumed <= Len(b)
  BY <1>1, <1>2, ParseTypes
<1> QED
  BY <1>1, <1>3

\* What the sniffer keeps of a buffer, and the next chunk behind it.
NextBuffer(b, c) == Keep(b, parse_rosserial_frames(b).consumed) \o c

\* However the line is cut into chunks: what the sniffer finds in a buffer, and then in
\* what it kept of it followed by a chunk, is what one look at the buffer and the chunk
\* together finds; and it has used up the same bytes.
THEOREM ParsedInPieces ==
  ASSUME NEW b \in Seq(Byte), NEW c \in Seq(Byte)
  PROVE  parse_rosserial_frames(b \o c) =
           [frames |-> parse_rosserial_frames(b).frames
                         \o parse_rosserial_frames(NextBuffer(b, c)).frames,
            consumed |-> parse_rosserial_frames(b).consumed
                           + parse_rosserial_frames(NextBuffer(b, c)).consumed]
<1>1. PICK first, then, n, d, both :
        /\ first = parse_rosserial_frames(b) /\ n = first.consumed
        /\ d = Keep(b, n) \o c /\ both = b \o c /\ then = parse_rosserial_frames(d)
  OBVIOUS
<1>2. first = Parsed(b)[0]
  BY <1>1, ParseIsParsed
<1>3. n \in 0..Len(b)
  BY <1>1, ConsumedWithin
<1>4. BehindFirst(n, d, both)
  BY <1>1, <1>3, KeptIsBehind
<1>5. PICK q, r : q = Parsed(both)[n] /\ r = Parsed(both)[0]
  OBVIOUS
<1>6. r = [frames |-> first.frames \o q.frames, consumed |-> q.consumed]
  <2>1. 0 \in 0..Len(b)
    OBVIOUS
  <2>2. Parsed(both)[0] = [frames |-> Parsed(b)[0].frames \o Parsed(both)[Parsed(b)[0].consumed].frames,
                           consumed |-> Parsed(both)[Parsed(b)[0].consumed].consumed]
    BY <1>1, <2>1, ParseGoesOn, ZenonT(30)
  <2> QED
    BY <1>1, <1>2, <1>5, <2>2
<1>7. then = Parsed(d)[0]
  BY <1>1, ParseIsParsed
<1>8. q.frames = then.frames /\ q.consumed = n + then.consumed
  <2>1. Parsed(both)[n + 0].frames = Parsed(d)[0].frames
        /\ Parsed(both)[n + 0].consumed = n + Parsed(d)[0].consumed
    BY <1>4, ParseShifted
  <2>2. n + 0 = n
    BY <1>3
  <2> QED
    BY <1>5, <1>7, <2>1, <2>2
<1>9. parse_rosserial_frames(both) = r
  BY <1>5, ParseIsParsed
<1>10. parse_rosserial_frames(both) =
          [frames |-> first.frames \o then.frames, consumed |-> n + then.consumed]
  BY <1>6, <1>8, <1>9
<1>11. NextBuffer(b, c) = d
  BY <1>1 DEF NextBuffer
<1> QED
  BY <1>1, <1>10, <1>11

----------------------------------------------------------------------------
\* What the node writes is what the sniffer shows

\* The sniffer's two checksums are the node's.
LEMMA SameChecks ==
  ASSUME NEW len \in Word, NEW topic \in Word, NEW q \in Seq(Byte)
  PROVE  /\ calc_len_checksum(len % 256, len \div 256) = LengthCheck(len)
         /\ calc_msg_checksum(topic % 256, topic \div 256, q)
              = MessageCheck(DatasumBytes(q), DatasumU16(topic))
<1>1. \A w \in Word : DatasumU16(w) = U8((w % 256) + (w \div 256))
  <2> SUFFICES ASSUME NEW w \in Word
               PROVE  DatasumU16(w) = U8((w % 256) + (w \div 256))
    OBVIOUS
  <2>1. PICK l, h : l = w % 256 /\ h = w \div 256
    OBVIOUS
  <2>2. l \in Byte /\ h \in Byte /\ FromLowHigh(l, h) = w
    BY <2>1, WordBytes
  <2> QED
    BY <2>1, <2>2, WordFromBytes
<1>2. calc_len_checksum(len % 256, len \div 256) = LengthCheck(len)
  BY <1>1 DEF calc_len_checksum, LengthCheck, U8
<1>3. PICK l, h, b : l = topic % 256 /\ h = topic \div 256 /\ b = DatasumBytes(q)
  OBVIOUS
<1>4. l \in Byte /\ h \in Byte /\ b \in Byte
  BY <1>3, WordBytes, DatasumBytesIsByte
<1>5. DatasumU16(topic) = U8(l + h)
  BY <1>1, <1>3
<1>6. (255 - ((l + h + b) % 256)) % 256 = U8(255 - (b + U8(l + h)))
  <2>1. l + h \in 0..510 /\ b \in 0..255
    BY <1>4 DEF Byte
  <2>2. PICK x \in 0..510 : x = l + h
    BY <2>1
  <2>3. (255 - ((x + b) % 256)) % 256 = (255 - (b + (x % 256))) % 256
    <3>1. PICK r : r = x % 256
      OBVIOUS
    <3>2. r \in 0..255 /\ (x = r \/ x = r + 256)
      <4>1. x \in Nat /\ x <= 510
        OBVIOUS
      <4>2. CASE x <= 255
        BY <3>1, <4>1, <4>2
      <4>3. CASE x > 255
        <5>1. x % 256 = x - 256
          BY <4>1, <4>3
        <5> QED
          BY <3>1, <4>1, <4>3, <5>1
      <4> QED
        BY <4>1, <4>2, <4>3
    <3>3. (x + b) % 256 = (r + b) % 256
      BY <2>1, <3>2
    <3>4. PICK w : w = r + b
      OBVIOUS
    <3>5. w \in 0..510 /\ 255 - (b + r) = 255 - w
      BY <2>1, <3>2, <3>4
    <3>6. (255 - (w % 256)) % 256 = (255 - w) % 256
      <4>1. CASE w <= 255
        BY <3>5, <4>1
      <4>2. CASE w > 255
        <5>1. w % 256 = w - 256
          BY <3>5, <4>2
        <5>2. 255 - (w % 256) = 511 - w /\ 511 - w \in 0..255
          BY <3>5, <4>2, <5>1
        <5>3. (511 - w) % 256 = 511 - w /\ (255 - w) % 256 = 511 - w
          BY <3>5, <4>2
        <5> QED
          BY <5>2, <5>3
      <4> QED
        BY <3>5, <4>1, <4>2
    <3> QED
      BY <3>1, <3>3, <3>4, <3>5, <3>6
  <2> QED
    BY <2>2, <2>3 DEF U8
<1>7. calc_msg_checksum(l, h, q) = MessageCheck(b, DatasumU16(topic))
  BY <1>3, <1>5, <1>6 DEF calc_msg_checksum, MessageCheck
<1> QED
  BY <1>2, <1>3, <1>7

\* What is shown of a frame as the node packages it.
LEMMA SyncedShown ==
  ASSUME NEW q \in Seq(Byte), Len(q) \in Word, NEW topic \in Word, NEW f, IsEncoded(f, topic, q)
  PROVE  Shown(f) = [topic_id |-> topic, payload |-> q,
                     len_checksum_ok |-> TRUE, msg_checksum_ok |-> TRUE]
<1>1. /\ f \in Seq(Byte) /\ Len(f) = 8 + Len(q)
      /\ f[3] = Len(q) % 256 /\ f[4] = Len(q) \div 256 /\ f[5] = LengthCheck(Len(q))
      /\ f[6] = topic % 256 /\ f[7] = topic \div 256
      /\ \A i \in 1..Len(q) : f[7 + i] = q[i]
      /\ f[8 + Len(q)] = MessageCheck(DatasumBytes(q), DatasumU16(topic))
  BY DEF IsEncoded
<1>2. SubSeq(f, 8, Len(f) - 1) = q
  <2>1. PICK n, s : n = Len(q) /\ s = SubSeq(f, 8, Len(f) - 1)
    OBVIOUS
  <2>2. n \in Nat /\ Len(f) - 1 = 7 + n
    BY <1>1, <2>1
  <2>3. s \in Seq(Byte) /\ Len(s) = n /\ \A i \in 1..n : s[i] = f[7 + i]
    BY <1>1, <2>1, <2>2
  <2>4. s = q
    BY <1>1, <2>1, <2>3
  <2> QED
    BY <2>1, <2>4
<1>3. FromLowHigh(f[6], f[7]) = topic
  BY <1>1, WordBytes
<1>4. f[5] = calc_len_checksum(f[3], f[4])
  BY <1>1, SameChecks
<1>5. f[Len(f)] = calc_msg_checksum(f[6], f[7], q)
  BY <1>1, SameChecks
<1> QED
  BY <1>2, <1>3, <1>4, <1>5 DEF Shown

\* Of every payload the length field can tell, and every topic id, the sniffer shows
\* what the node packaged, with both checksums right, and goes on behind the frame.
THEOREM FrameShown ==
  ASSUME NEW q \in Seq(Byte), Len(q) \in Word, NEW topic \in Word, NEW rest \in Seq(Byte)
  PROVE  /\ parse_rosserial_frames(Synced(topic, q) \o rest).frames =
              <<[topic_id |-> topic, payload |-> q,
                 len_checksum_ok |-> TRUE, msg_checksum_ok |-> TRUE]>>
                \o parse_rosserial_frames(rest).frames
         /\ parse_rosserial_frames(Synced(topic, q) \o rest).consumed =
              Len(Synced(topic, q)) + parse_rosserial_frames(rest).consumed
<1>1. PICK f, both, s, n : /\ f = Synced(topic, q) /\ both = f \o rest /\ s = Shown(f)
                           /\ n = Len(f)
  OBVIOUS
<1>2. IsEncoded(f, topic, q)
  BY <1>1, SyncedLayout
<1>3. f \in Seq(Byte) /\ n = 8 + Len(q) /\ n \in Nat /\ Len(rest) \in Nat
  BY <1>1, <1>2 DEF IsEncoded
<1>4. /\ both \in Seq(Byte) /\ Len(both) = n + Len(rest)
      /\ \A i \in 1..n : both[i] = f[i]
      /\ \A i \in 1..Len(rest) : both[n + i] = rest[i]
  <2>1. f \in Seq(Byte)
    BY <1>3
  <2>2. both = f \o rest
    BY <1>1
  <2>3. /\ both \in Seq(Byte) /\ Len(both) = Len(f) + Len(rest)
        /\ \A i \in 1..Len(f) : both[i] = f[i]
        /\ \A i \in 1..Len(rest) : both[Len(f) + i] = rest[i]
    BY <2>1, <2>2, ConcatElements
  <2> QED
    BY <1>1, <2>3
<1>5. PICK z \in Nat : z = 0
  OBVIOUS
<1>6. both[z + 1] = 255 /\ both[z + 2] = 254 /\ both[z + 3] = f[3] /\ both[z + 4] = f[4]
  <2>1. 1 \in 1..n /\ 2 \in 1..n /\ 3 \in 1..n /\ 4 \in 1..n
    BY <1>3
  <2>2. both[1] = f[1] /\ both[2] = f[2] /\ both[3] = f[3] /\ both[4] = f[4]
    BY <1>4, <2>1
  <2> QED
    BY <1>2, <1>5, <2>2 DEF IsEncoded
<1>7. FrameEnd(both, z) = n
  <2>1. FromLowHigh(f[3], f[4]) = Len(q)
    BY <1>2, WordBytes DEF IsEncoded
  <2> QED
    BY <1>3, <1>5, <1>6, <2>1 DEF FrameEnd
<1>8. Finds(both, z)
  <2>1. HeaderLeft(z, both)
    BY <1>3, <1>4, <1>5 DEF HeaderLeft
  <2>2. n <= Len(both)
    BY <1>3, <1>4
  <2> QED
    BY <1>6, <1>7, <2>1, <2>2 DEF Finds, Sync
<1>9. ShownAt(both, z) = s
  <2>1. SubSeq(both, 1, n) = f
    <3>1. n \in 0..Len(f) /\ both = f \o rest /\ f \in Seq(Byte)
      BY <1>1, <1>3
    <3>2. SubSeq(f \o rest, z + 1, n) = SubSeq(f, z + 1, n)
      BY <3>1, FrontOfBoth
    <3>3. SubSeq(f, 1, n) = f
      BY <1>1, <3>1
    <3> QED
      BY <1>5, <3>1, <3>2, <3>3
  <2> QED
    <3>1. SubSeq(both, z + 1, FrameEnd(both, z)) = SubSeq(both, 1, n)
      <4>1. z + 1 = 1
        BY <1>5
      <4> QED
        BY <1>7, <4>1, Zenon
    <3>2. SubSeq(both, z + 1, FrameEnd(both, z)) = f
      BY <2>1, <3>1
    <3> QED
      BY <1>1, <3>2 DEF ShownAt
<1>10. BehindFirst(n, rest, both)
  BY <1>3, <1>4 DEF BehindFirst
<1>11. PICK p, r, x : p = Parsed(both)[n] /\ r = Parsed(rest)[0] /\ x = Parsed(both)[0]
  OBVIOUS
<1>12. x = [frames |-> <<s>> \o p.frames, consumed |-> p.consumed]
  BY <1>4, <1>5, <1>7, <1>8, <1>9, <1>11, FindsParse
<1>13. p.frames = r.frames /\ p.consumed = n + r.consumed
  <2>1. n + z = n
    BY <1>3, <1>5
  <2>2. /\ Parsed(both)[n + z].frames = Parsed(rest)[z].frames
        /\ Parsed(both)[n + z].consumed = n + Parsed(rest)[z].consumed
    BY <1>10, ParseShifted
  <2> QED
    BY <1>5, <1>11, <2>1, <2>2
<1>14. x.frames = <<s>> \o r.frames /\ x.consumed = n + r.consumed
  BY <1>12, <1>13
<1>15. x = parse_rosserial_frames(both) /\ r = parse_rosserial_frames(rest)
  BY <1>11, ParseIsParsed
<1>16. s = [topic_id |-> topic, payload |-> q, len_checksum_ok |-> TRUE, msg_checksum_ok |-> TRUE]
  BY <1>1, <1>2, SyncedShown
<1> QED
  BY <1>1, <1>14, <1>15, <1>16

----------------------------------------------------------------------------
\* The frames on the line

\* What a frame carries of a payload.
Part(payload) == Carried([bytes |-> payload, zeros |-> 0]).bytes

\* A frame that holds all of its payload carries the payload itself, a longer one its
\* first bytes; either way it is the frame of what it carries.
LEMMA FrameIsSynced ==
  ASSUME NEW payload \in Seq(Byte)
  PROVE  /\ Part(payload) \in Seq(Byte) /\ Len(Part(payload)) \in Word
         /\ Frame(payload) = Synced(TopicId, Part(payload))
<1>1. PICK p, c, q : /\ p = [bytes |-> payload, zeros |-> 0] /\ c = Carried(p) /\ q = c.bytes
  OBVIOUS
<1>2. PICK d, n : /\ d = U16(Size(p)) /\ n = IF d < Len(payload) THEN d ELSE Len(payload)
  OBVIOUS
<1>3. Len(payload) \in Nat
  OBVIOUS
<1>4. Size(p) = Len(payload)
  <2>1. Size([bytes |-> payload, zeros |-> 0]) = Len(payload) + 0
    BY SizeOfRecord
  <2> QED
    BY <1>1, <1>3, <2>1
<1>5. d \in Word /\ d \in Nat /\ d <= Len(payload)
  <2>1. PICK k \in Nat : k = Len(payload)
    BY <1>3
  <2>2. k % 65536 \in Nat /\ k % 65536 <= 65535 /\ k % 65536 <= k
    OBVIOUS
  <2>3. d = k % 65536
    BY <1>2, <1>4, <2>1 DEF U16
  <2> QED
    <3>1. d \in Nat /\ d <= 65535 /\ d <= k
      BY <2>2, <2>3
    <3> QED
      BY <2>1, <3>1, WordFacts
<1>6. n = d
  BY <1>2, <1>3, <1>5
<1>7. c = [bytes |-> SubSeq(payload, 1, d), zeros |-> 0]
  <2>1. c = [bytes |-> SubSeq(payload, 1, n), zeros |-> d - n]
    BY <1>1, <1>2 DEF Carried
  <2> QED
    BY <1>5, <1>6, <2>1
<1>8. q \in Seq(Byte) /\ Len(q) = d
  <2>1. q = SubSeq(payload, 1, d)
    BY <1>1, <1>7
  <2> QED
    BY <1>5, <2>1
<1>9. Size(c) = Len(q)
  <2>1. c = [bytes |-> q, zeros |-> 0]
    BY <1>1, <1>7
  <2>2. Size([bytes |-> q, zeros |-> 0]) = Len(q) + 0
    BY SizeOfRecord
  <2> QED
    BY <1>5, <1>8, <2>1, <2>2
<1>10. PICK e : e = Carried([bytes |-> q, zeros |-> 0])
  OBVIOUS
<1>11. e.bytes = q /\ Size(e) = Len(q)
  <2>1. Len(q) \in Word
    BY <1>5, <1>8
  <2> QED
    BY <1>8, <1>10, <2>1, BodyIsCarried
<1>12. packaging_msg(p, TopicId) = packaging_msg([bytes |-> q, zeros |-> 0], TopicId)
  BY <1>1, <1>9, <1>10, <1>11, Zenon DEF packaging_msg
<1>13. Frame(payload) = Synced(TopicId, q)
  BY <1>1, <1>12, Zenon DEF Frame, Synced
<1> QED
  BY <1>1, <1>5, <1>8, <1>13 DEF Part

\* A frame is bytes, and never empty.
LEMMA FrameType ==
  ASSUME NEW payload \in Seq(Byte)
  PROVE  Frame(payload) \in Seq(Byte) /\ Len(Frame(payload)) >= 8
<1>1. PICK q : q = Part(payload)
  OBVIOUS
<1>2. q \in Seq(Byte) /\ Len(q) \in Word /\ Frame(payload) = Synced(TopicId, q)
  BY <1>1, FrameIsSynced
<1>3. TopicId \in Word
  BY AdapterAssumption
<1>4. IsEncoded(Synced(TopicId, q), TopicId, q)
  BY <1>2, <1>3, SyncedLayout
<1>5. Len(q) \in Nat
  BY <1>2
<1> QED
  BY <1>2, <1>4, <1>5 DEF IsEncoded

\* The frames of what was sent.
Frames == [k \in 1..Len(sent) |-> Frame(sent[k].payload)]

\* What a topic sent gives frames, each of eight bytes at least.
LEMMA FramesType ==
  ASSUME sent \in Seq(SentType)
  PROVE  /\ Frames \in Seq(Seq(Byte)) /\ Len(Frames) = Len(sent)
         /\ \A k \in 1..Len(sent) : /\ sent[k].payload \in Seq(Byte)
                                    /\ Frames[k] = Frame(sent[k].payload)
                                    /\ Frames[k] \in Seq(Byte) /\ Len(Frames[k]) >= 8
<1>1. ASSUME NEW k \in 1..Len(sent)
      PROVE  sent[k].payload \in Seq(Byte)
  <2>1. sent[k] \in SentType
    OBVIOUS
  <2> QED
    BY <2>1 DEF SentType
<1>2. ASSUME NEW k \in 1..Len(sent)
      PROVE  Frames[k] = Frame(sent[k].payload) /\ Frames[k] \in Seq(Byte) /\ Len(Frames[k]) >= 8
  <2>1. Frames[k] = Frame(sent[k].payload)
    BY DEF Frames
  <2> QED
    BY <1>1, <2>1, FrameType
<1>3. PICK S : S = Seq(Byte)
  OBVIOUS
<1>4. Frames = [k \in 1..Len(sent) |-> Frames[k]] /\ Len(sent) \in Nat
  BY DEF Frames
<1>5. \A k \in 1..Len(sent) : Frames[k] \in S
  BY <1>2, <1>3
<1>6. Frames \in Seq(S) /\ Len(Frames) = Len(sent)
  BY <1>4, <1>5, FunctionIsSeq
<1> QED
  BY <1>1, <1>2, <1>3, <1>6

\* The first m of some sequences, flattened: one more is added behind those before it.
LEMMA FlattenFront ==
  ASSUME NEW S, NEW n \in Nat, NEW f, \A i \in 1..n : f[i] \in Seq(S)
  PROVE  /\ FlattenSeq([j \in 1..0 |-> f[j]]) = <<>>
         /\ \A m \in 1..n : FlattenSeq([j \in 1..m |-> f[j]]) =
                             FlattenSeq([j \in 1..(m - 1) |-> f[j]]) \o f[m]
<1>1. PICK T : T = Seq(S)
  OBVIOUS
<1>2. ASSUME NEW m \in 0..n, NEW a, a = [j \in 1..m |-> f[j]]
      PROVE  a \in Seq(T) /\ Len(a) = m
  <2>1. m \in Nat /\ \A j \in 1..m : j \in 1..n
    OBVIOUS
  <2>2. \A j \in 1..m : f[j] \in T /\ a[j] = f[j]
    BY <1>1, <1>2, <2>1
  <2>3. a = [j \in 1..m |-> a[j]]
    BY <1>2
  <2> QED
    BY <2>1, <2>2, <2>3, FunctionIsSeq
<1>3. FlattenSeq([j \in 1..0 |-> f[j]]) = <<>>
  <2>1. PICK a : a = [j \in 1..0 |-> f[j]]
    OBVIOUS
  <2>2. a \in Seq(T) /\ Len(a) = 0
    BY <1>2, <2>1, 0 \in 0..n
  <2>3. a = <<>>
    BY <2>2, EmptyIsEmpty
  <2> QED
    BY <2>1, <2>3, FlattenEmpty
<1>4. ASSUME NEW m \in 1..n
      PROVE  FlattenSeq([j \in 1..m |-> f[j]]) = FlattenSeq([j \in 1..(m - 1) |-> f[j]]) \o f[m]
  <2>1. PICK l, a, b, y : /\ l = m - 1 /\ a = [j \in 1..l |-> f[j]] /\ b = [j \in 1..m |-> f[j]]
                          /\ y = <<f[m]>>
    OBVIOUS
  <2>2. l \in Nat /\ m = l + 1 /\ l \in 0..n /\ m \in 0..n /\ m \in 1..m
    BY <2>1
  <2>3. a \in Seq(T) /\ Len(a) = l /\ b \in Seq(T) /\ Len(b) = m
    BY <1>2, <2>1, <2>2
  <2>4. f[m] \in T
    BY <1>1
  <2>5. y \in Seq(T) /\ Len(y) = 1 /\ y[1] = f[m] /\ 1 \in 1..Len(y)
    BY <2>1, <2>4
  <2>6. a \in Seq(T) /\ y \in Seq(T)
    BY <2>3, <2>5
  <2>7. /\ a \o y \in Seq(T) /\ Len(a \o y) = Len(a) + Len(y)
        /\ \A i \in 1..Len(a) : (a \o y)[i] = a[i]
        /\ \A i \in 1..Len(y) : (a \o y)[Len(a) + i] = y[i]
    BY ONLY <2>6, ConcatElements
  <2>8. PICK c : c = a \o y
    OBVIOUS
  <2>9. c \in Seq(T) /\ Len(c) = m /\ (\A i \in 1..l : c[i] = a[i]) /\ c[m] = f[m]
    <3>1. c[l + 1] = y[1]
      BY <2>3, <2>5, <2>7, <2>8
    <3> QED
      BY <2>2, <2>3, <2>5, <2>7, <2>8, <3>1
  <2>10. ASSUME NEW i \in 1..m
         PROVE  b[i] = c[i]
    <3>1. i \in 1..l \/ i = m
      BY <2>2
    <3>2. b[i] = f[i] /\ (i \in 1..l => a[i] = f[i])
      BY <2>1
    <3> QED
      BY <2>9, <3>1, <3>2
  <2>11. b = c
    BY <2>3, <2>9, <2>10, SameElements
  <2>12. a \in Seq(Seq(S)) /\ y \in Seq(Seq(S)) /\ f[m] \in Seq(S)
    BY <1>1, <2>3, <2>4, <2>5
  <2>13. FlattenSeq(a \o y) = FlattenSeq(a) \o FlattenSeq(y)
    BY <2>12, FlattenConcat
  <2>14. FlattenSeq(y) = f[m]
    BY <2>1, <2>12, FlattenOne
  <2> QED
    BY <2>1, <2>8, <2>11, <2>13, <2>14
<1> QED
  BY <1>3, <1>4

\* The recursion of Line, for what was sent.
IsLine(upTo, s, k) ==
  upTo = [i \in 0..k |-> IF i = 0 THEN <<>> ELSE upTo[i - 1] \o Frame(s[i].payload)]
LineOf(s, k) == CHOOSE upTo : IsLine(upTo, s, k)

\* It has a solution, and that is the frames one behind the other.
LEMMA LineIsFlat ==
  ASSUME NEW s \in Seq(SentType), NEW k \in 0..Len(s)
  PROVE  LineOf(s, k)[k] = FlattenSeq([i \in 1..k |-> Frame(s[i].payload)])
<1> DEFINE f == [i \in 1..k |-> Frame(s[i].payload)]
           front(i) == [j \in 1..i |-> f[j]]
           u == [i \in 0..k |-> FlattenSeq(front(i))]
<1>1. k \in Nat /\ k \in 0..k /\ 0 \in 0..k /\ \A i \in 1..k : i \in 1..Len(s) /\ i - 1 \in 0..k /\ i \in 0..k
  OBVIOUS
<1>2. \A i \in 1..k : f[i] = Frame(s[i].payload) /\ f[i] \in Seq(Byte)
  <2> SUFFICES ASSUME NEW i \in 1..k
               PROVE  Frame(s[i].payload) \in Seq(Byte)
    OBVIOUS
  <2>1. s[i] \in SentType
    BY <1>1
  <2>2. s[i].payload \in Seq(Byte)
    BY <2>1 DEF SentType
  <2> QED
    BY <2>2, FrameType
<1>3. f = front(k)
  OBVIOUS
<1> HIDE DEF f
<1>4. /\ FlattenSeq(front(0)) = <<>>
      /\ \A i \in 1..k : FlattenSeq(front(i)) = FlattenSeq(front(i - 1)) \o f[i]
  <2>1. k \in Nat /\ \A i \in 1..k : f[i] \in Seq(Byte)
    BY <1>1, <1>2
  <2>2. /\ FlattenSeq([j \in 1..0 |-> f[j]]) = <<>>
        /\ \A m \in 1..k : FlattenSeq([j \in 1..m |-> f[j]]) =
                            FlattenSeq([j \in 1..(m - 1) |-> f[j]]) \o f[m]
    BY ONLY <2>1, FlattenFront
  <2> QED
    BY <2>2
<1>5. \A i \in 0..k : u[i] = FlattenSeq(front(i))
  OBVIOUS
<1> HIDE DEF front
<1>6. u[0] = <<>> /\ \A i \in 1..k : u[i] = u[i - 1] \o Frame(s[i].payload)
  BY <1>1, <1>2, <1>4, <1>5
<1>7. u = [i \in 0..k |-> u[i]]
  OBVIOUS
<1> HIDE DEF u
<1>8. IsLine(u, s, k)
  <2>1. \A i \in 0..k : u[i] = IF i = 0 THEN <<>> ELSE u[i - 1] \o Frame(s[i].payload)
    <3>1. \A i \in 0..k : i = 0 \/ i \in 1..k
      BY <1>1
    <3> QED
      BY <1>6, <3>1
  <2> QED
    BY <1>7, <2>1 DEF IsLine
<1>9. IsLine(LineOf(s, k), s, k)
  BY <1>8 DEF LineOf
<1>10. PICK v : v = LineOf(s, k)
  OBVIOUS
<1>11. v[0] = <<>> /\ \A i \in 1..k : v[i] = v[i - 1] \o Frame(s[i].payload)
  <2>1. \A i \in 0..k : v[i] = IF i = 0 THEN <<>> ELSE v[i - 1] \o Frame(s[i].payload)
    BY <1>9, <1>10 DEF IsLine
  <2>2. \A i \in 1..k : i \in 0..k /\ i # 0
    BY <1>1
  <2> QED
    BY <1>1, <2>1, <2>2
<1> DEFINE Good == {i \in 0..k : v[i] = u[i]}
<1>12. 0 \in Good
  BY <1>1, <1>6, <1>11
<1>13. ASSUME NEW i \in 1..k, i - 1 \in Good
       PROVE  i \in Good
  BY <1>1, <1>6, <1>11, <1>13
<1> HIDE DEF Good
<1>14. 0..k \subseteq Good
  BY <1>1, <1>12, <1>13, InductionUpTo
<1>15. v[k] = u[k]
  BY <1>1, <1>14 DEF Good
<1>16. u[k] = FlattenSeq(f)
  BY <1>1, <1>3, <1>5 DEF u
<1> QED
  BY <1>10, <1>15, <1>16 DEF f

\* Line is the solution.
LEMMA LineIsOf ==
  \A k : Line(k) = LineOf(sent, k)[k]
  BY DEF Line, LineOf, IsLine

\* The line is the frames of what was sent, one behind the other.
LEMMA LineIsFrames ==
  ASSUME sent \in Seq(SentType)
  PROVE  line = FlattenSeq(Frames)
<1>1. Len(sent) \in 0..Len(sent)
  OBVIOUS
<1>2. LineOf(sent, Len(sent))[Len(sent)] = FlattenSeq([i \in 1..Len(sent) |-> Frame(sent[i].payload)])
  BY <1>1, LineIsFlat
<1> QED
  BY <1>2, LineIsOf DEF line, Frames

\* The line is bytes.
LEMMA LineType ==
  ASSUME sent \in Seq(SentType)
  PROVE  line \in Seq(Byte)
<1>1. Frames \in Seq(Seq(Byte))
  BY FramesType
<1> QED
  BY <1>1, LineIsFrames, FlattenType

\* The line grows by the frame of what is sent.
LEMMA LineGrows ==
  ASSUME sent \in Seq(SentType), NEW r \in SentType, sent' = Append(sent, r)
  PROVE  /\ Frame(r.payload) \in Seq(Byte)
         /\ line' = line \o Frame(r.payload)
<1>1. PICK n, x, a, b : /\ n = Len(sent) /\ x = Frame(r.payload) /\ a = Frames /\ b = Frames'
  OBVIOUS
<1>2. x \in Seq(Byte)
  <2>1. r.payload \in Seq(Byte)
    BY DEF SentType
  <2> QED
    BY <1>1, <2>1, FrameType
<1>3. n \in Nat /\ Len(sent') = n + 1 /\ sent' \in Seq(SentType) /\ sent'[n + 1] = r
      /\ \A k \in 1..n : sent'[k] = sent[k]
  BY <1>1
<1>4. a \in Seq(Seq(Byte)) /\ Len(a) = n /\ \A k \in 1..n : a[k] = Frame(sent[k].payload)
  BY <1>1, FramesType
<1>5. b = [k \in 1..(n + 1) |-> Frame(sent'[k].payload)]
  BY <1>1, <1>3 DEF Frames
<1>6. b[n + 1] = x /\ \A k \in 1..n : b[k] = a[k]
  <2>1. n + 1 \in 1..(n + 1) /\ \A k \in 1..n : k \in 1..(n + 1)
    BY <1>3
  <2> QED
    BY <1>1, <1>3, <1>4, <1>5, <2>1
<1>7. PICK S : S = Seq(Byte)
  OBVIOUS
<1>8. b = a \o <<x>>
  <2>1. a \in Seq(S) /\ x \in S
    BY <1>2, <1>4, <1>7
  <2>2. \A k \in 1..(n + 1) : b[k] \in S
    <3>1. \A k \in 1..n : a[k] \in S
      BY <1>4, <2>1
    <3>2. \A k \in 1..(n + 1) : k \in 1..n \/ k = n + 1
      BY <1>3
    <3> QED
      BY <1>6, <2>1, <3>1, <3>2
  <2>3. b = [k \in 1..(n + 1) |-> b[k]] /\ n + 1 \in Nat
    BY <1>3, <1>5
  <2>4. b \in Seq(S) /\ Len(b) = n + 1
    BY <2>2, <2>3, FunctionIsSeq
  <2>5. PICK c, y : y = <<x>> /\ c = a \o y
    OBVIOUS
  <2>6. c \in Seq(S) /\ Len(c) = n + 1 /\ c[n + 1] = x /\ \A k \in 1..n : c[k] = a[k]
    <3>1. y \in Seq(S) /\ Len(y) = 1 /\ y[1] = x /\ 1 \in 1..Len(y)
      BY <2>1, <2>5
    <3>0. a \in Seq(S) /\ y \in Seq(S)
      BY <2>1, <3>1
    <3>2. /\ a \o y \in Seq(S) /\ Len(a \o y) = Len(a) + Len(y)
          /\ \A k \in 1..Len(a) : (a \o y)[k] = a[k]
          /\ \A k \in 1..Len(y) : (a \o y)[Len(a) + k] = y[k]
      BY ONLY <3>0, ConcatElements
    <3>3. c[n + 1] = y[1]
      BY <1>4, <2>5, <3>1, <3>2
    <3> QED
      BY <1>4, <2>5, <3>1, <3>2, <3>3
  <2>7. \A k \in 1..(n + 1) : b[k] = c[k]
    <3>1. \A k \in 1..(n + 1) : k \in 1..n \/ k = n + 1
      BY <1>3
    <3> QED
      BY <1>6, <2>6, <3>1
  <2>8. b = c
    BY <2>4, <2>6, <2>7, SameElements
  <2> QED
    BY <2>5, <2>8
<1>9. FlattenSeq(b) = FlattenSeq(a) \o FlattenSeq(<<x>>)
  <2>1. <<x>> \in Seq(Seq(Byte))
    BY <1>2
  <2> QED
    BY <1>4, <1>8, <2>1, FlattenConcat
<1>10. FlattenSeq(<<x>>) = x
  BY <1>2, FlattenOne
<1>11. line' = FlattenSeq(b) /\ line = FlattenSeq(a)
  <2>1. line' = LineOf(sent', Len(sent'))[Len(sent')]
    BY DEF line, Line, LineOf, IsLine
  <2>2. Len(sent') \in 0..Len(sent')
    BY <1>3
  <2>3. LineOf(sent', Len(sent'))[Len(sent')] = FlattenSeq([i \in 1..Len(sent') |-> Frame(sent'[i].payload)])
    BY <1>3, <2>2, LineIsFlat
  <2>4. [i \in 1..Len(sent') |-> Frame(sent'[i].payload)] = b
    BY <1>3, <1>5
  <2> QED
    BY <1>1, <2>1, <2>3, <2>4, LineIsFrames
<1> QED
  BY <1>1, <1>2, <1>9, <1>10, <1>11

\* The line stays as it is when nothing is sent.
LEMMA LineStays ==
  ASSUME sent' = sent
  PROVE  line' = line
  BY DEF line, Line

----------------------------------------------------------------------------
\* The sniffer at the line

\* What the sniffer heard, and what one look at all of it finds.
Heard == SubSeq(line, missed + 1, heard)
InHeard == parse_rosserial_frames(Heard)

SnifferTypes ==
  /\ line \in Seq(Byte) /\ sniffing \in BOOLEAN
  /\ missed \in Nat /\ heard \in 0..Len(line) /\ missed <= heard
  /\ ~sniffing => missed = heard
ShowsWhatItHeard == shown = InHeard.frames
KeepsTheRest == frame_buf = Keep(Heard, InHeard.consumed)

SnifferInv == SnifferTypes /\ ShowsWhatItHeard /\ KeepsTheRest

\* Nothing is found where there is nothing.
LEMMA NothingFound ==
  ASSUME NEW p, p = parse_rosserial_frames(<<>>)
  PROVE  p.frames = <<>> /\ p.consumed = 0
<1>1. PICK b : b = <<>>
  OBVIOUS
<1>2. b \in Seq(Byte) /\ Len(b) = 0
  BY <1>1
<1>3. Ends(b, 0)
  BY <1>2 DEF Ends, HeaderLeft
<1>4. p = Parsed(b)[0]
  BY <1>1, ParseIsParsed
<1>5. PICK i \in Nat : i = 0
  OBVIOUS
<1>6. Parsed(b)[i] = [frames |-> <<>>, consumed |-> i]
  BY <1>2, <1>3, <1>5, EndsParse
<1> QED
  BY <1>4, <1>5, <1>6

\* At the start nothing was heard and nothing is shown.
LEMMA SnifferStarts ==
  ASSUME SnifferInit, line \in Seq(Byte)
  PROVE  SnifferInv
<1>1. missed = 0 /\ heard = 0 /\ sniffing = FALSE /\ frame_buf = <<>> /\ shown = <<>>
  BY DEF SnifferInit
<1>2. Heard = <<>>
  BY <1>1 DEF Heard
<1>3. InHeard.frames = <<>> /\ InHeard.consumed = 0
  BY <1>2, NothingFound DEF InHeard
<1>4. SnifferTypes
  <2>1. Len(line) \in Nat
    OBVIOUS
  <2>2. heard \in 0..Len(line) /\ missed \in Nat /\ missed <= heard
    BY <1>1, <2>1
  <2> QED
    BY <1>1, <2>1, <2>2 DEF SnifferTypes
<1>5. Keep(Heard, InHeard.consumed) = <<>>
  <2>1. Keep(<<>>, 0) = <<>>
    BY DEF Keep
  <2> QED
    BY <1>2, <1>3, <2>1
<1> QED
  BY <1>1, <1>3, <1>4, <1>5 DEF SnifferInv, ShowsWhatItHeard, KeepsTheRest

\* What is written later does not change what was heard.
LEMMA WriteKeeps ==
  ASSUME SnifferInv, NEW more \in Seq(Byte), line' = line \o more, UNCHANGED snifferVars
  PROVE  SnifferInv'
<1>2. /\ missed' = missed /\ heard' = heard /\ sniffing' = sniffing
      /\ frame_buf' = frame_buf /\ shown' = shown
  BY DEF snifferVars
<1>3. SnifferTypes
  BY DEF SnifferInv
<1>4. line \in Seq(Byte) /\ missed \in Nat /\ heard \in 0..Len(line) /\ Len(line) \in Nat
  BY <1>3 DEF SnifferTypes
<1>5. line' \in Seq(Byte) /\ Len(line') \in Nat /\ Len(line') >= Len(line)
  BY <1>4
<1>6. SnifferTypes'
  BY <1>2, <1>3, <1>4, <1>5 DEF SnifferTypes
<1>7. Heard' = Heard
  <2>1. SubSeq(line \o more, missed + 1, heard) = SubSeq(line, missed + 1, heard)
    BY <1>4, FrontOfBoth
  <2> QED
    BY <1>2, <2>1 DEF Heard
<1> QED
  BY <1>2, <1>6, <1>7 DEF SnifferInv, ShowsWhatItHeard, KeepsTheRest, InHeard

\* Between a place and itself there are no bytes.
LEMMA NothingBetween ==
  ASSUME NEW s \in Seq(Byte), NEW m \in Nat
  PROVE  SubSeq(s, m + 1, m) = <<>>
  OBVIOUS

\* The device is opened: nothing is heard yet.
LEMMA OpenKeeps ==
  ASSUME SnifferInv, OpenDevice(line), line' = line
  PROVE  SnifferInv'
<1>1. /\ ~sniffing /\ sniffing' = TRUE /\ missed' \in 0..Len(line) /\ heard' = missed'
      /\ frame_buf' = frame_buf /\ shown' = shown /\ line' = line
  BY DEF OpenDevice
<1>2. /\ line \in Seq(Byte) /\ missed \in Nat /\ heard = missed /\ Len(line) \in Nat
  BY <1>1 DEF SnifferInv, SnifferTypes
<1>3. SnifferTypes'
  BY <1>1, <1>2 DEF SnifferTypes
<1>4. Heard = <<>> /\ Heard' = <<>>
  <2>1. missed \in Nat /\ missed' \in Nat /\ heard = missed /\ heard' = missed'
    BY <1>1, <1>2
  <2> QED
    BY <1>1, <1>2, <2>1, NothingBetween DEF Heard
<1> QED
  BY <1>1, <1>3, <1>4 DEF SnifferInv, ShowsWhatItHeard, KeepsTheRest, InHeard

\* The next bytes of a sequence, behind those before.
LEMMA NextPiece ==
  ASSUME NEW s \in Seq(Byte), NEW i \in Nat, NEW j \in Nat, NEW n \in Nat,
         i <= j, j + n <= Len(s)
  PROVE  SubSeq(s, i + 1, j + n) = SubSeq(s, i + 1, j) \o SubSeq(s, j + 1, j + n)
  OBVIOUS

\* The end of a sequence that lies behind another.
LEMMA SubSeqBehind ==
  ASSUME NEW n \in Nat, NEW d \in Seq(Byte), NEW both \in Seq(Byte), NEW m \in Nat,
         Len(both) = n + Len(d), \A k \in 1..Len(d) : both[n + k] = d[k], m <= Len(d)
  PROVE  SubSeq(both, n + m + 1, Len(both)) = SubSeq(d, m + 1, Len(d))
<1>1. PICK x, y : x = SubSeq(both, n + m + 1, Len(both)) /\ y = SubSeq(d, m + 1, Len(d))
  OBVIOUS
<1>2. Len(d) \in Nat
  OBVIOUS
<1>3. /\ x \in Seq(Byte) /\ Len(x) = Len(d) - m
      /\ \A i \in 1..(Len(d) - m) : x[i] = both[n + m + i]
  BY <1>1, <1>2
<1>4. /\ y \in Seq(Byte) /\ Len(y) = Len(d) - m
      /\ \A i \in 1..(Len(d) - m) : y[i] = d[m + i]
  BY <1>1, <1>2
<1>5. ASSUME NEW i \in 1..(Len(d) - m)
      PROVE  both[n + m + i] = d[m + i]
  <2>1. m + i \in 1..Len(d) /\ n + (m + i) = n + m + i
    BY <1>2
  <2> QED
    BY <2>1
<1>6. PICK k : k = Len(d) - m
  OBVIOUS
<1>7. Len(x) = k /\ Len(y) = k /\ \A i \in 1..k : x[i] = y[i]
  BY <1>3, <1>4, <1>5, <1>6
<1>8. x = y
  <2>1. x \in Seq(Byte) /\ y \in Seq(Byte) /\ Len(x) = Len(y) /\ \A i \in 1..Len(x) : x[i] = y[i]
    BY <1>3, <1>4, <1>7
  <2> QED
    BY <2>1, SameElements
<1> QED
  BY <1>1, <1>8

\* Keeping and keeping again.
LEMMA KeepTwice ==
  ASSUME NEW b \in Seq(Byte), NEW c \in Seq(Byte), NEW n \in 0..Len(b),
         NEW m \in 0..Len(Keep(b, n) \o c)
  PROVE  Keep(Keep(b, n) \o c, m) = Keep(b \o c, n + m)
<1>1. PICK d, both : d = Keep(b, n) \o c /\ both = b \o c
  OBVIOUS
<1>2. BehindFirst(n, d, both)
  BY <1>1, KeptIsBehind
<1>3. /\ n \in Nat /\ d \in Seq(Byte) /\ both \in Seq(Byte) /\ Len(both) = n + Len(d)
      /\ \A k \in 1..Len(d) : both[n + k] = d[k]
  BY <1>2 DEF BehindFirst
<1>4. m \in Nat /\ m <= Len(d)
  BY <1>1
<1>5. SubSeq(both, n + m + 1, Len(both)) = SubSeq(d, m + 1, Len(d))
  BY <1>3, <1>4, SubSeqBehind, ZenonT(30)
<1> QED
  BY <1>1, <1>5 DEF Keep

\* A chunk is heard: by ParsedInPieces the sniffer is where one look at all would be.
LEMMA SniffKeeps ==
  ASSUME SnifferInv, ReadChunk(line), line' = line
  PROVE  SnifferInv'
<1>1. PICK n \in Available(line) :
        /\ heard' = heard + n
        /\ \E buffer \in {frame_buf \o SubSeq(line, heard + 1, heard + n)} :
             \E parsed \in {parse_rosserial_frames(buffer)} :
               /\ shown' = shown \o parsed.frames
               /\ frame_buf' = Keep(buffer, parsed.consumed)
  BY DEF ReadChunk
<1>2. sniffing /\ sniffing' = sniffing /\ missed' = missed /\ line' = line
  BY DEF ReadChunk
<1>3. SnifferTypes /\ ShowsWhatItHeard /\ KeepsTheRest
  BY DEF SnifferInv
<1>4. /\ line \in Seq(Byte) /\ missed \in Nat /\ heard \in Nat /\ missed <= heard
      /\ heard <= Len(line) /\ Len(line) \in Nat
  BY <1>3 DEF SnifferTypes
<1>5. n \in Nat /\ heard + n <= Len(line)
  BY <1>4, SnifferAssumption DEF Available
<1>6. SnifferTypes'
  BY <1>1, <1>2, <1>4, <1>5 DEF SnifferTypes
<1>7. PICK b, c : b = Heard /\ c = SubSeq(line, heard + 1, heard + n)
  OBVIOUS
<1>8. b \in Seq(Byte) /\ c \in Seq(Byte)
  <2>1. \A i, j \in Nat : j <= Len(line) => SubSeq(line, i + 1, j) \in Seq(Byte)
    BY <1>4
  <2>2. heard + n \in Nat
    BY <1>4, <1>5
  <2> QED
    BY <1>4, <1>5, <1>7, <2>1, <2>2 DEF Heard
<1>9. Heard' = b \o c
  <2>1. SubSeq(line, missed + 1, heard + n) =
          SubSeq(line, missed + 1, heard) \o SubSeq(line, heard + 1, heard + n)
    BY <1>4, <1>5, NextPiece
  <2>2. Heard' = SubSeq(line, missed + 1, heard + n)
    BY <1>1, <1>2 DEF Heard
  <2> QED
    BY <1>7, <2>1, <2>2 DEF Heard
<1>10. PICK first : first = parse_rosserial_frames(b)
  OBVIOUS
<1>11. shown = first.frames /\ frame_buf = Keep(b, first.consumed)
  BY <1>3, <1>7, <1>10 DEF ShowsWhatItHeard, KeepsTheRest, InHeard
<1>12. PICK d, then : d = frame_buf \o c /\ then = parse_rosserial_frames(d)
  OBVIOUS
<1>13. shown' = shown \o then.frames /\ frame_buf' = Keep(d, then.consumed)
  BY <1>1, <1>7, <1>12
<1>14. d = NextBuffer(b, c)
  BY <1>10, <1>11, <1>12 DEF NextBuffer
<1>15. PICK p, u, v : p = InHeard' /\ u = first.frames \o then.frames
                      /\ v = first.consumed + then.consumed
  OBVIOUS
<1>16. p.frames = u /\ p.consumed = v
  <2>1. p = parse_rosserial_frames(b \o c)
    BY <1>9, <1>15 DEF InHeard
  <2>2. p = [frames |-> u, consumed |-> v]
    BY <1>8, <1>10, <1>12, <1>14, <1>15, <2>1, ParsedInPieces
  <2> QED
    BY <2>2
<1>17. ShowsWhatItHeard'
  BY <1>11, <1>13, <1>15, <1>16 DEF ShowsWhatItHeard
<1>18. Keep(d, then.consumed) = Keep(b \o c, first.consumed + then.consumed)
  <2>1. first.consumed \in 0..Len(b)
    BY <1>8, <1>10, ConsumedWithin
  <2>2. d = Keep(b, first.consumed) \o c
    BY <1>11, <1>12
  <2>3. d \in Seq(Byte)
    BY <1>8, <2>1, <2>2, KeptIsBehind DEF BehindFirst
  <2>4. then.consumed \in 0..Len(d)
    BY <1>12, <2>3, ConsumedWithin
  <2> QED
    BY <1>8, <2>1, <2>2, <2>4, KeepTwice
<1>19. KeepsTheRest'
  BY <1>9, <1>13, <1>15, <1>16, <1>18 DEF KeepsTheRest
<1> QED
  BY <1>6, <1>17, <1>19 DEF SnifferInv

----------------------------------------------------------------------------
\* The topic, the line and the sniffer

\* The invariant of the adapter, and what the sniffer has made of the line.
FlowInv == AdapterInv /\ SnifferInv

\* The adapter sends nothing, or one payload more.
LEMMA AdapterSends ==
  ASSUME AdapterInv, AdapterNext
  PROVE  sent' = sent \/ \E r \in SentType : sent' = Append(sent, r)
<1>1. CASE \E t \in Types : Registration(t)
  BY <1>1, RegistrationSteps
<1>2. CASE /\ role = "publisher"
           /\ \E t \in Types : \E msg \in Messages[t], seqs \in SeqChoices(t, SeqValues) :
                \E n \in 0..Len(Ros1(msg, t, seqs)) : handle(t, msg, seqs, n)
  BY <1>2, HandleSteps
<1>3. CASE (\E msg \in Messages[type] : callback(msg)) \/ CallbackUndecodable
  BY <1>3, CallbackSteps
<1> QED
  BY <1>1, <1>2, <1>3 DEF AdapterNext, Registration

\* What was sent is what the type invariant of the adapter says.
LEMMA SentHasType ==
  ASSUME AdapterInv
  PROVE  sent \in Seq(SentType)
  BY DEF AdapterInv, AdapterTypeOK, SentType

\* At the start the line is empty.
LEMMA FlowStarts == Init => FlowInv
<1> SUFFICES ASSUME Init
             PROVE  FlowInv
  OBVIOUS
<1>1. AdapterInv
  BY AdapterStarts DEF Init
<1>2. line \in Seq(Byte)
  BY <1>1, SentHasType, LineType
<1> QED
  BY <1>1, <1>2, SnifferStarts DEF Init, FlowInv

\* Every step of the adapter leaves the sniffer where it was, at a line that may be longer.
LEMMA FlowAdapts ==
  ASSUME FlowInv, AdapterNext, UNCHANGED snifferVars
  PROVE  SnifferInv'
<1>1. AdapterInv /\ SnifferInv
  BY DEF FlowInv
<1>2. CASE sent' = sent
  <2>1. PICK more : more = <<>>
    OBVIOUS
  <2>2. more \in Seq(Byte) /\ Len(more) = 0
    BY <2>1
  <2>3. line \in Seq(Byte)
    BY <1>1 DEF SnifferInv, SnifferTypes
  <2>4. line' = line \o more
    <3>1. line' = line
      BY <1>2, LineStays
    <3> QED
      BY <2>1, <2>3, <3>1
  <2> QED
    BY <1>1, <2>2, <2>4, WriteKeeps
<1>3. CASE \E r \in SentType : sent' = Append(sent, r)
  <2>1. PICK r \in SentType : sent' = Append(sent, r)
    BY <1>3
  <2>2. Frame(r.payload) \in Seq(Byte) /\ line' = line \o Frame(r.payload)
    BY <1>1, <2>1, SentHasType, LineGrows
  <2> QED
    BY <1>1, <2>2, WriteKeeps
<1> QED
  BY <1>1, <1>2, <1>3, AdapterSends

\* Every step of the whole keeps both invariants.
LEMMA FlowKeeps ==
  ASSUME FlowInv, [Next]_vars
  PROVE  FlowInv'
<1>1. AdapterInv /\ SnifferInv
  BY DEF FlowInv
<1>2. CASE AdapterNext /\ UNCHANGED snifferVars
  BY <1>1, <1>2, AdapterKeeps, FlowAdapts DEF FlowInv
<1>3. CASE UNCHANGED adapterVars
  <2>1. AdapterInv'
    BY <1>1, <1>3, AdapterStays
  <2>2. line' = line
    <3>1. sent' = sent
      BY <1>3 DEF adapterVars
    <3> QED
      BY <3>1, LineStays
  <2>3. CASE OpenDevice(line)
    BY <1>1, <2>1, <2>2, <2>3, OpenKeeps DEF FlowInv
  <2>4. CASE Sniff
    <3>1. ReadChunk(line)
      BY <2>4 DEF Sniff
    <3> QED
      BY <1>1, <2>1, <2>2, <3>1, SniffKeeps DEF FlowInv
  <2>5. CASE UNCHANGED snifferVars
    <3>1. PICK more : more = <<>>
      OBVIOUS
    <3>2. more \in Seq(Byte)
      BY <3>1
    <3>3. line' = line \o more
      <4>1. line \in Seq(Byte)
        BY <1>1 DEF SnifferInv, SnifferTypes
      <4> QED
        BY <2>2, <3>1, <4>1
    <3>4. SnifferInv'
      BY <1>1, <2>5, <3>2, <3>3, WriteKeeps
    <3> QED
      BY <2>1, <3>4 DEF FlowInv
  <2> QED
    <3>1. OpenDevice(line) \/ Sniff \/ UNCHANGED snifferVars \/ (AdapterNext /\ UNCHANGED snifferVars)
      BY DEF Next, vars
    <3> QED
      BY <2>3, <2>4, <2>5, <3>1
<1> QED
  <2>1. \/ AdapterNext /\ UNCHANGED snifferVars
        \/ UNCHANGED adapterVars
    BY DEF Next, Sniff, vars
  <2> QED
    BY <1>2, <1>3, <2>1

\* A part of a sequence, element by element.
LEMMA PartElements ==
  ASSUME NEW s \in Seq(Byte), NEW m \in Nat, NEW l \in Nat, m + l <= Len(s)
  PROVE  /\ SubSeq(s, m + 1, m + l) \in Seq(Byte) /\ Len(SubSeq(s, m + 1, m + l)) = l
         /\ \A k \in 1..l : SubSeq(s, m + 1, m + l)[k] = s[m + k]
<1>1. PICK h, x : h = m + l /\ x = SubSeq(s, m + 1, h)
  OBVIOUS
<1>2. Len(s) \in Nat /\ h \in Nat /\ h <= Len(s) /\ h - m = l
  BY <1>1
<1>3. x \in Seq(Byte) /\ Len(x) = h - m
  BY <1>1, <1>2
<1>4. ASSUME NEW k \in 1..l
      PROVE  x[k] = s[m + k]
  <2>1. k \in 1..(h - m) /\ m + k \in 1..Len(s)
    BY <1>1, <1>2
  <2> QED
    BY <1>1, <1>2, <2>1
<1> QED
  BY <1>1, <1>2, <1>3, <1>4

\* The end of a part of a sequence is a part of the sequence.
LEMMA EndOfPart ==
  ASSUME NEW s \in Seq(Byte), NEW m \in Nat, NEW h \in Nat, m <= h, h <= Len(s),
         NEW c \in 0..(h - m),
         NEW x, x = SubSeq(SubSeq(s, m + 1, h), c + 1, h - m)
  PROVE  /\ x \in Seq(Byte) /\ Len(x) = h - m - c
         /\ x = SubSeq(s, h - Len(x) + 1, h)
<1>1. PICK b, n : b = SubSeq(s, m + 1, h) /\ n = h - m
  OBVIOUS
<1>2. /\ n \in Nat /\ b \in Seq(Byte) /\ Len(b) = n /\ Len(s) \in Nat /\ c \in Nat /\ c <= n
      /\ \A i \in 1..n : b[i] = s[m + i]
  <2>1. n \in Nat /\ c \in Nat /\ c <= n /\ Len(s) \in Nat
    BY <1>1
  <2> QED
    BY <1>1, <2>1
<1>3. PICK k : k = n - c
  OBVIOUS
<1>4. k \in Nat /\ n = c + k
  BY <1>2, <1>3
<1>5. x = SubSeq(b, c + 1, n)
  BY <1>1
<1>6. x \in Seq(Byte) /\ Len(x) = k /\ \A i \in 1..k : x[i] = b[c + i]
  <2>1. b \in Seq(Byte) /\ c \in Nat /\ k \in Nat /\ c + k <= Len(b)
    BY <1>2, <1>4
  <2>2. PICK z : z = SubSeq(b, c + 1, c + k)
    OBVIOUS
  <2>3. z \in Seq(Byte) /\ Len(z) = k /\ \A i \in 1..k : z[i] = b[c + i]
    BY <2>1, <2>2, PartElements
  <2>4. x = z
    BY <1>4, <1>5, <2>2
  <2> QED
    BY <2>3, <2>4
<1>7. PICK y, p : p = m + c /\ y = SubSeq(s, p + 1, h)
  OBVIOUS
<1>8. p \in Nat /\ h = p + k
  BY <1>1, <1>2, <1>4, <1>7
<1>9. y \in Seq(Byte) /\ Len(y) = k /\ \A i \in 1..k : y[i] = s[p + i]
  <2>1. k \in Nat /\ p \in Nat /\ p + k <= Len(s)
    BY <1>2, <1>4, <1>8
  <2>2. PICK z : z = SubSeq(s, p + 1, p + k)
    OBVIOUS
  <2>3. z \in Seq(Byte) /\ Len(z) = k /\ \A i \in 1..k : z[i] = s[p + i]
    BY <2>1, <2>2, PartElements
  <2>4. y = z
    BY <1>7, <1>8, <2>2
  <2> QED
    BY <2>3, <2>4
<1>10. \A i \in 1..k : x[i] = y[i]
  <2>1. ASSUME NEW i \in 1..k
        PROVE  b[c + i] = s[p + i]
    <3>1. c + i \in 1..n /\ m + (c + i) = p + i
      BY <1>2, <1>4, <1>7
    <3> QED
      BY <1>2, <3>1
  <2> QED
    BY <1>6, <1>9, <2>1
<1>11. x = y
  <2>1. Len(x) = Len(y) /\ \A i \in 1..Len(x) : x[i] = y[i]
    BY <1>6, <1>9, <1>10
  <2> QED
    BY <1>6, <1>9, <2>1, SameElements
<1>12. h - Len(x) + 1 = p + 1
  <2>1. Len(x) = k /\ k \in Nat /\ p \in Nat /\ h = p + k
    BY <1>4, <1>6, <1>8
  <2> QED
    BY ONLY <2>1
<1> QED
  <2>1. k = h - m - c
    BY <1>1, <1>2, <1>3
  <2> QED
    BY <1>6, <1>7, <1>11, <1>12, <2>1

\* What the sniffer heard of the line is bytes, and as many as went by.
LEMMA HeardType ==
  ASSUME SnifferInv
  PROVE  /\ Heard \in Seq(Byte) /\ Len(Heard) = heard - missed
         /\ line \in Seq(Byte) /\ missed \in Nat /\ heard \in Nat
         /\ missed <= heard /\ heard <= Len(line)
<1>1. /\ line \in Seq(Byte) /\ missed \in Nat /\ heard \in 0..Len(line) /\ missed <= heard
      /\ Len(line) \in Nat
  BY DEF SnifferInv, SnifferTypes
<1>2. heard \in Nat /\ heard <= Len(line)
  BY <1>1
<1>3. PICK s, m, h : s = line /\ m = missed /\ h = heard
  OBVIOUS
<1>4. SubSeq(s, m + 1, h) \in Seq(Byte) /\ Len(SubSeq(s, m + 1, h)) = h - m
  BY <1>1, <1>2, <1>3
<1> QED
  BY <1>1, <1>2, <1>3, <1>4 DEF Heard

\* Both invariants say what the variables hold.
LEMMA InvTypeOK == FlowInv => TypeOK
<1> SUFFICES ASSUME FlowInv
             PROVE  TypeOK
  OBVIOUS
<1>1. AdapterTypeOK /\ SnifferTypes /\ ShowsWhatItHeard /\ KeepsTheRest /\ SnifferInv
  BY DEF FlowInv, AdapterInv, SnifferInv
<1>2. /\ Heard \in Seq(Byte) /\ Len(Heard) = heard - missed
      /\ line \in Seq(Byte) /\ missed \in Nat /\ heard \in Nat
      /\ missed <= heard /\ heard <= Len(line)
  BY <1>1, HeardType
<1>3. PICK c : c = InHeard.consumed
  OBVIOUS
<1>4. c \in 0..(heard - missed)
  BY <1>2, <1>3, ConsumedWithin DEF InHeard
<1>5. frame_buf = SubSeq(SubSeq(line, missed + 1, heard), c + 1, heard - missed)
  BY <1>1, <1>2, <1>3 DEF KeepsTheRest, Keep, Heard
<1>6. /\ frame_buf \in Seq(Byte) /\ Len(frame_buf) = heard - missed - c
      /\ frame_buf = SubSeq(line, heard - Len(frame_buf) + 1, heard)
  BY <1>2, <1>4, <1>5, EndOfPart
<1>7. Len(frame_buf) <= heard - missed
  BY <1>2, <1>4, <1>6
<1>8. shown \in Seq(SniffedFrame)
  <2>1. InHeard.frames \in Seq(SniffedFrame)
    BY <1>2, ParseTypes, ParseIsParsed DEF InHeard
  <2> QED
    BY <1>1, <2>1 DEF ShowsWhatItHeard
<1>9. sniffing \in BOOLEAN /\ missed \in 0..heard /\ heard \in 0..Len(line)
  BY <1>1, <1>2 DEF SnifferTypes
<1> QED
  BY <1>1, <1>6, <1>7, <1>8, <1>9 DEF TypeOK, SniffedFrame

----------------------------------------------------------------------------
\* What the frames that began later show

\* What the sniffer shows of a payload, and of all the payloads.
ShowsOf(payload) ==
  [topic_id |-> TopicId, payload |-> Part(payload), len_checksum_ok |-> TRUE, msg_checksum_ok |-> TRUE]
Shows == [k \in DOMAIN sent |-> ShowsOf(sent[k].payload)]

\* The line from the k-th frame on.
Rest(k) == FlattenSeq(Onward(Frames, k))

\* ToShow is what they show from the first frame on that began later.
LEMMA ToShowIs == ToShow = SubSeq(Shows, FirstWhole, Len(sent))
  BY DEF ToShow, Shows, ShowsOf, Part

\* From a frame on, the line is bytes: that frame and what follows it; behind the last
\* frame there is nothing.
LEMMA RestSteps ==
  ASSUME sent \in Seq(SentType)
  PROVE  /\ \A k \in 1..(Len(sent) + 1) : Rest(k) \in Seq(Byte)
         /\ \A k \in 1..Len(sent) : Rest(k) = Frame(sent[k].payload) \o Rest(k + 1)
         /\ Rest(Len(sent) + 1) = <<>>
<1>1. PICK f, n, S : f = Frames /\ n = Len(sent) /\ S = Seq(Byte)
  OBVIOUS
<1>2. /\ f \in Seq(S) /\ Len(f) = n /\ n \in Nat /\ f \in Seq(Seq(Byte))
      /\ \A k \in 1..n : f[k] = Frame(sent[k].payload)
  <2>1. n \in Nat
    BY <1>1
  <2> QED
    BY <1>1, <2>1, FramesType
<1>3. ASSUME NEW k \in 1..(n + 1)
      PROVE  Rest(k) \in Seq(Byte)
  <2>1. k \in Nat \ {0}
    BY <1>2
  <2>2. Onward(f, k) \in Seq(S)
    BY <1>2, <2>1, TailSteps
  <2>3. Onward(Frames, k) \in Seq(Seq(Byte))
    BY <1>1, <2>2
  <2> QED
    BY <2>3, FlattenType DEF Rest
<1>4. ASSUME NEW k \in 1..n
      PROVE  Rest(k) = Frame(sent[k].payload) \o Rest(k + 1)
  <2>1. k \in 1..Len(f)
    BY <1>2
  <2>2. FlattenSeq(Onward(f, k)) = f[k] \o FlattenSeq(Onward(f, k + 1))
    BY <1>2, <2>1, FlattenTail
  <2> QED
    BY <1>1, <1>2, <2>2 DEF Rest
<1>5. Rest(n + 1) = <<>>
  <2>1. n + 1 \in Nat /\ n + 1 > Len(f)
    BY <1>2
  <2>2. Onward(f, n + 1) = <<>>
    BY <1>2, <2>1, TailSteps
  <2> QED
    BY <1>1, <2>2, FlattenEmpty DEF Rest
<1> QED
  BY <1>1, <1>3, <1>4, <1>5

\* From each frame on, the parser finds exactly the frames that were sent.
LEMMA RestShown ==
  ASSUME sent \in Seq(SentType), NEW k \in 1..(Len(sent) + 1)
  PROVE  parse_rosserial_frames(Rest(k)).frames = Onward(Shows, k)
<1>1. PICK n : n = Len(sent)
  OBVIOUS
<1>2. n \in Nat
  BY <1>1
<1>3. /\ \A i \in 1..(n + 1) : Rest(i) \in Seq(Byte)
      /\ \A i \in 1..n : Rest(i) = Frame(sent[i].payload) \o Rest(i + 1)
      /\ Rest(n + 1) = <<>>
  BY <1>1, RestSteps
<1>4. /\ Shows \in Seq(SniffedFrame) /\ Len(Shows) = n
      /\ \A i \in 1..n : Shows[i] = ShowsOf(sent[i].payload) /\ sent[i].payload \in Seq(Byte)
  <2>1. DOMAIN sent = 1..n
    BY <1>1
  <2>2. Shows = [i \in 1..n |-> Shows[i]] /\ \A i \in 1..n : Shows[i] = ShowsOf(sent[i].payload)
    BY <2>1 DEF Shows
  <2>3. \A i \in 1..n : sent[i].payload \in Seq(Byte)
    BY <1>1, FramesType
  <2>4. ASSUME NEW i \in 1..n
        PROVE  Shows[i] \in SniffedFrame
    <3>1. PICK q : q = Part(sent[i].payload)
      OBVIOUS
    <3>2. q \in Seq(Byte)
      BY <2>3, <3>1, FrameIsSynced
    <3>3. TopicId \in Word
      BY AdapterAssumption
    <3>4. Shows[i] = [topic_id |-> TopicId, payload |-> q, len_checksum_ok |-> TRUE, msg_checksum_ok |-> TRUE]
      BY <2>2, <3>1 DEF ShowsOf
    <3> QED
      BY <3>2, <3>3, <3>4 DEF SniffedFrame
  <2> QED
    BY <1>2, <2>2, <2>3, <2>4, FunctionIsSeq
<1> DEFINE Good == {j \in 0..n : parse_rosserial_frames(Rest(n + 1 - j)).frames = Onward(Shows, n + 1 - j)}
<1>5. 0 \in Good
  <2>1. n + 1 - 0 = n + 1 /\ n + 1 \in Nat /\ n + 1 > Len(Shows) /\ 0 \in 0..n
    BY <1>2, <1>4
  <2>2. Onward(Shows, n + 1) = <<>>
    BY <1>4, <2>1, TailSteps
  <2>3. parse_rosserial_frames(<<>>).frames = <<>>
    BY NothingFound
  <2> QED
    BY <1>3, <2>1, <2>2, <2>3
<1>6. ASSUME NEW j \in 1..n, j - 1 \in Good
      PROVE  j \in Good
  <2>1. PICK i : i = n + 1 - j
    OBVIOUS
  <2>2. i \in 1..n /\ i + 1 = n + 1 - (j - 1) /\ j \in 0..n /\ i + 1 \in 1..(n + 1)
    BY <1>2, <2>1
  <2>3. PICK q, r : q = Part(sent[i].payload) /\ r = Rest(i + 1)
    OBVIOUS
  <2>4. q \in Seq(Byte) /\ Len(q) \in Word /\ Frame(sent[i].payload) = Synced(TopicId, q)
    BY <1>4, <2>2, <2>3, FrameIsSynced
  <2>5. r \in Seq(Byte) /\ TopicId \in Word
    BY <1>3, <2>2, <2>3, AdapterAssumption
  <2>6. Rest(i) = Synced(TopicId, q) \o r
    BY <1>3, <2>2, <2>3, <2>4
  <2>7. parse_rosserial_frames(Synced(TopicId, q) \o r).frames =
          <<[topic_id |-> TopicId, payload |-> q, len_checksum_ok |-> TRUE, msg_checksum_ok |-> TRUE]>>
            \o parse_rosserial_frames(r).frames
    BY <2>4, <2>5, FrameShown
  <2>8. Shows[i] = [topic_id |-> TopicId, payload |-> q, len_checksum_ok |-> TRUE, msg_checksum_ok |-> TRUE]
    BY <1>4, <2>2, <2>3 DEF ShowsOf
  <2>9. parse_rosserial_frames(r).frames = Onward(Shows, i + 1)
    BY <1>6, <2>2, <2>3
  <2>10. Onward(Shows, i) = <<Shows[i]>> \o Onward(Shows, i + 1)
    <3>1. i \in 1..Len(Shows)
      BY <1>4, <2>2
    <3> QED
      BY <1>4, <3>1, TailSteps
  <2>11. parse_rosserial_frames(Rest(i)).frames = Onward(Shows, i)
    BY <2>6, <2>7, <2>8, <2>9, <2>10, Zenon
  <2> QED
    BY <2>1, <2>2, <2>11
<1> HIDE DEF Good
<1>7. 0..n \subseteq Good
  BY <1>2, <1>5, <1>6, InductionUpTo
<1>8. PICK j : j = n + 1 - k
  OBVIOUS
<1>9. j \in 0..n /\ k = n + 1 - j
  BY <1>1, <1>2, <1>8
<1>10. j \in Good
  BY <1>7, <1>9
<1> QED
  BY <1>9, <1>10 DEF Good

\* The line is the frames before the k-th and the line from the k-th on.
LEMMA LineParts ==
  ASSUME sent \in Seq(SentType), NEW k \in 1..(Len(sent) + 1)
  PROVE  /\ Line(k - 1) \in Seq(Byte)
         /\ line = Line(k - 1) \o Rest(k)
<1>1. PICK f, n, m, S : f = Frames /\ n = Len(sent) /\ m = k - 1 /\ S = Seq(Byte)
  OBVIOUS
<1>2. /\ f \in Seq(S) /\ Len(f) = n /\ n \in Nat /\ m \in 0..n /\ m \in Nat /\ k = m + 1
      /\ \A i \in 1..n : f[i] = Frame(sent[i].payload) /\ f[i] \in S
  <2>1. n \in Nat /\ m \in 0..n /\ m \in Nat /\ k = m + 1
    BY <1>1
  <2> QED
    BY <1>1, <2>1, FramesType
<1>3. PICK a, c : a = [i \in 1..m |-> Frame(sent[i].payload)] /\ c = Onward(f, k)
  OBVIOUS
<1>4. a \in Seq(S) /\ Len(a) = m /\ \A i \in 1..m : a[i] = f[i]
  <2>1. \A i \in 1..m : i \in 1..n
    BY <1>2
  <2>2. \A i \in 1..m : a[i] = f[i] /\ a[i] \in S
    BY <1>2, <1>3, <2>1
  <2>3. a = [i \in 1..m |-> a[i]]
    BY <1>3
  <2> QED
    BY <1>2, <2>2, <2>3, FunctionIsSeq
<1>5. c \in Seq(S) /\ Len(c) = n - m /\ \A i \in 1..(n - m) : c[i] = f[m + i]
  <2>1. c = SubSeq(f, m + 1, n)
    BY <1>2, <1>3 DEF Onward
  <2>2. f \in Seq(S) /\ Len(f) = n /\ n \in Nat /\ m \in Nat /\ m <= n
    BY <1>2
  <2> QED
    BY ONLY <2>1, <2>2
<1>6. f = a \o c
  <2>1. PICK d : d = a \o c
    OBVIOUS
  <2>2. a \in Seq(S) /\ c \in Seq(S)
    BY <1>4, <1>5
  <2>3. /\ a \o c \in Seq(S) /\ Len(a \o c) = Len(a) + Len(c)
        /\ \A i \in 1..Len(a) : (a \o c)[i] = a[i]
        /\ \A i \in 1..Len(c) : (a \o c)[Len(a) + i] = c[i]
    BY ONLY <2>2, ConcatElements
  <2>4. Len(d) = n /\ d \in Seq(S)
    BY <1>2, <1>4, <1>5, <2>1, <2>3
  <2>5. ASSUME NEW i \in 1..n
        PROVE  f[i] = d[i]
    <3>1. CASE i <= m
      <4>1. i \in 1..m
        BY <1>2, <3>1
      <4> QED
        BY <1>4, <2>1, <2>3, <4>1
    <3>2. CASE i > m
      <4>1. PICK j : j = i - m
        OBVIOUS
      <4>2. j \in 1..(n - m) /\ i = m + j
        BY <1>2, <3>2, <4>1
      <4> QED
        BY <1>4, <1>5, <2>1, <2>3, <4>2
    <3> QED
      BY <1>2, <3>1, <3>2
  <2>6. f = d
    BY <1>2, <2>4, <2>5, SameElements
  <2> QED
    BY <2>1, <2>6
<1>7. a \in Seq(Seq(Byte)) /\ c \in Seq(Seq(Byte))
  BY <1>1, <1>4, <1>5
<1>8. FlattenSeq(a \o c) = FlattenSeq(a) \o FlattenSeq(c)
  BY <1>7, FlattenConcat
<1>9. FlattenSeq(a) = Line(k - 1) /\ FlattenSeq(c) = Rest(k) /\ line = FlattenSeq(f)
  <2>1. LineOf(sent, m)[m] = FlattenSeq([i \in 1..m |-> Frame(sent[i].payload)])
    <3>1. m \in 0..Len(sent)
      BY <1>1, <1>2
    <3> QED
      BY <3>1, LineIsFlat
  <2>2. Line(k - 1) = LineOf(sent, m)[m]
    BY <1>1, LineIsOf
  <2> QED
    BY <1>1, <1>3, <2>1, <2>2, LineIsFrames DEF Rest
<1>10. FlattenSeq(a) \in Seq(Byte)
  BY <1>7, FlattenType
<1> QED
  BY <1>6, <1>8, <1>9, <1>10

\* The line gets no shorter.
LEMMA LineLengths ==
  ASSUME sent \in Seq(SentType), NEW j \in 1..(Len(sent) + 1), NEW k \in 1..(Len(sent) + 1), j <= k
  PROVE  Len(Line(j - 1)) <= Len(Line(k - 1)) /\ Len(Line(j - 1)) \in Nat
<1>1. PICK n : n = Len(sent)
  OBVIOUS
<1>2. n \in Nat
  BY <1>1
<1> DEFINE L(i) == Len(Rest(i))
<1>3. \A i \in 1..(n + 1) : Line(i - 1) \in Seq(Byte) /\ Rest(i) \in Seq(Byte)
                            /\ line = Line(i - 1) \o Rest(i)
  BY <1>1, RestSteps, LineParts
<1>4. \A i \in 1..(n + 1) : Len(line) = Len(Line(i - 1)) + Len(Rest(i))
                            /\ Len(Line(i - 1)) \in Nat /\ Len(Rest(i)) \in Nat
  <2> SUFFICES ASSUME NEW i \in 1..(n + 1)
               PROVE  Len(line) = Len(Line(i - 1)) + Len(Rest(i))
                      /\ Len(Line(i - 1)) \in Nat /\ Len(Rest(i)) \in Nat
    OBVIOUS
  <2>1. Line(i - 1) \in Seq(Byte) /\ Rest(i) \in Seq(Byte) /\ line = Line(i - 1) \o Rest(i)
    BY <1>3
  <2> QED
    BY <2>1
<1>5. \A i \in 1..n : Len(Rest(i + 1)) <= Len(Rest(i))
  <2> SUFFICES ASSUME NEW i \in 1..n
               PROVE  Len(Rest(i + 1)) <= Len(Rest(i))
    OBVIOUS
  <2>1. PICK x, y : x = Frame(sent[i].payload) /\ y = Rest(i + 1)
    OBVIOUS
  <2>2. Rest(i) = x \o y
    BY <1>1, <2>1, RestSteps
  <2>3. x \in Seq(Byte)
    BY <1>1, <2>1, FramesType
  <2>4. y \in Seq(Byte)
    <3>1. i + 1 \in 1..(n + 1)
      BY <1>2
    <3> QED
      BY <1>3, <2>1, <3>1
  <2>5. Len(x \o y) = Len(x) + Len(y) /\ Len(x) \in Nat /\ Len(y) \in Nat
    BY <2>3, <2>4
  <2> QED
    BY <2>1, <2>2, <2>5
<1>6. j \in Nat /\ k \in Nat /\ j >= 1 /\ k <= n + 1
  BY <1>1, <1>2
<1>7. PICK m : m = k - j
  OBVIOUS
<1>8. m \in Nat /\ k = j + m
  BY <1>6, <1>7
<1> DEFINE Good == {i \in 0..m : Len(Rest(j + i)) <= Len(Rest(j))}
<1>9. 0 \in Good
  <2>1. j + 0 = j /\ j \in 1..(n + 1) /\ 0 \in 0..m
    BY <1>1, <1>6, <1>8
  <2>2. Len(Rest(j)) \in Nat
    BY <1>4, <2>1
  <2> QED
    BY <2>1, <2>2
<1>10. ASSUME NEW i \in 1..m, i - 1 \in Good
       PROVE  i \in Good
  <2>1. PICK p : p = j + (i - 1)
    OBVIOUS
  <2>2. p \in 1..n /\ p + 1 = j + i /\ i \in 0..m /\ p \in 1..(n + 1) /\ p + 1 \in 1..(n + 1)
    BY <1>2, <1>6, <1>8, <2>1
  <2>3. Len(Rest(p)) <= Len(Rest(j))
    BY <1>10, <2>1
  <2>4. Len(Rest(p + 1)) <= Len(Rest(p))
    BY <1>5, <2>2
  <2>5. Len(Rest(p)) \in Nat /\ Len(Rest(p + 1)) \in Nat /\ Len(Rest(j)) \in Nat
    BY <1>1, <1>4, <2>2
  <2> QED
    BY <2>2, <2>3, <2>4, <2>5
<1> HIDE DEF Good
<1>11. 0..m \subseteq Good
  BY <1>8, <1>9, <1>10, InductionUpTo
<1>12. Len(Rest(k)) <= Len(Rest(j))
  <2>1. m \in Good
    BY <1>8, <1>11
  <2> QED
    BY <1>8, <2>1 DEF Good
<1>13. j \in 1..(n + 1) /\ k \in 1..(n + 1)
  BY <1>1
<1> QED
  BY <1>4, <1>12, <1>13

----------------------------------------------------------------------------
\* The sniffer in step

\* The first frame that began later is one of those sent or the one that comes next; all
\* that began later come after it, and it begins no earlier than the sniffer was opened.
LEMMA FirstWholeFacts ==
  ASSUME FlowInv
  PROVE  /\ FirstWhole \in 1..(Len(sent) + 1)
         /\ \A k \in Whole : k \in 1..Len(sent) /\ FirstWhole <= k
         /\ Len(Line(FirstWhole - 1)) >= missed
<1>1. AdapterInv /\ SnifferInv
  BY DEF FlowInv
<1>2. sent \in Seq(SentType)
  BY <1>1, SentHasType
<1>3. PICK n, T : n = Len(sent) /\ T = Whole \cup {n + 1}
  OBVIOUS
<1>4. n \in Nat /\ DOMAIN sent = 1..n
  BY <1>2, <1>3
<1>5. Whole \subseteq 1..n
  BY <1>4 DEF Whole
<1>6. T \in SUBSET Nat /\ T # {} /\ T \subseteq 1..(n + 1)
  <2>1. n + 1 \in T /\ n + 1 \in 1..(n + 1) /\ 1..n \subseteq 1..(n + 1) /\ 1..(n + 1) \subseteq Nat
    BY <1>3, <1>4
  <2>2. T \subseteq 1..(n + 1)
    BY <1>3, <1>5, <2>1
  <2> QED
    BY <2>1, <2>2
<1>7. \E x \in T : \A y \in T : x <= y
  BY <1>6, LeastElement
<1>8. FirstWhole \in T /\ \A y \in T : FirstWhole <= y
  <2>1. FirstWhole = CHOOSE x \in T : \A y \in T : x <= y
    BY <1>3 DEF FirstWhole, Min
  <2> QED
    BY <1>7, <2>1
<1>9. Len(Line(FirstWhole - 1)) >= missed
  <2>1. CASE FirstWhole \in Whole
    BY <2>1 DEF Whole
  <2>2. CASE FirstWhole = n + 1
    <3>1. n + 1 \in 1..(Len(sent) + 1)
      BY <1>3, <1>4
    <3>2. Line(n) \in Seq(Byte) /\ line = Line(n) \o Rest(n + 1) /\ Rest(n + 1) = <<>>
      <4>1. (n + 1) - 1 = n
        BY <1>4
      <4>2. Line((n + 1) - 1) \in Seq(Byte) /\ line = Line((n + 1) - 1) \o Rest(n + 1)
        BY <1>2, <3>1, LineParts
      <4> QED
        BY <1>2, <1>3, <4>1, <4>2, RestSteps
    <3>3. Len(line) = Len(Line(n))
      BY <3>2
    <3>4. missed \in Nat /\ heard \in Nat /\ missed <= heard /\ heard <= Len(line) /\ line \in Seq(Byte)
      BY <1>1, HeardType
    <3>5. Len(line) >= missed
      <4>1. Len(line) \in Nat
        BY <3>4
      <4> QED
        BY <3>4, <4>1
    <3>6. FirstWhole - 1 = n
      BY <1>4, <2>2
    <3> QED
      BY <3>3, <3>5, <3>6
  <2> QED
    BY <1>3, <1>8, <2>1, <2>2
<1> QED
  BY <1>3, <1>5, <1>6, <1>8, <1>9

\* Bytes without sync flags before the first frame: none of them is taken for a frame.
LEMMA NothingBefore ==
  ASSUME NEW b \in Seq(Byte), NEW m \in Nat,
         \A j \in Nat : j < m /\ HeaderLeft(j, b) => ~Sync(b, j)
  PROVE  Parsed(b)[0].frames = Parsed(b)[m].frames
<1> DEFINE Good == {j \in 0..m : Parsed(b)[0].frames = Parsed(b)[j].frames}
<1>1. 0 \in Good
  OBVIOUS
<1>2. ASSUME NEW j \in 1..m, j - 1 \in Good
      PROVE  j \in Good
  <2>1. PICK i : i = j - 1
    OBVIOUS
  <2>2. i \in Nat /\ i < m /\ i + 1 = j /\ j \in 0..m
    BY <2>1
  <2>3. Parsed(b)[i].frames = Parsed(b)[i + 1].frames
    <3>1. CASE HeaderLeft(i, b)
      <4>1. Skips(b, i)
        BY <2>2, <3>1 DEF Skips
      <4> QED
        BY <2>2, <4>1, SkipsParse
    <3>2. CASE ~HeaderLeft(i, b)
      <4>1. ~HeaderLeft(i + 1, b)
        <5>1. Len(b) \in Nat
          OBVIOUS
        <5> QED
          BY <2>2, <3>2, <5>1 DEF HeaderLeft
      <4>2. Ends(b, i) /\ Ends(b, i + 1)
        BY <3>2, <4>1 DEF Ends
      <4>3. i + 1 \in Nat
        BY <2>2
      <4>4. Parsed(b)[i] = [frames |-> <<>>, consumed |-> i]
        BY <2>2, <4>2, EndsParse
      <4>5. Parsed(b)[i + 1] = [frames |-> <<>>, consumed |-> i + 1]
        BY <4>2, <4>3, EndsParse
      <4> QED
        BY <4>4, <4>5
    <3> QED
      BY <3>1, <3>2
  <2> QED
    BY <1>2, <2>1, <2>2, <2>3
<1> HIDE DEF Good
<1>3. 0..m \subseteq Good
  BY <1>1, <1>2, InductionUpTo
<1>4. m \in Good
  BY <1>3
<1> QED
  BY <1>4 DEF Good

\* What one look at all that was written since the sniffer was opened finds in step: the
\* frames that began later.
LEMMA InStepFindsAll ==
  ASSUME FlowInv, InStep, NEW b, b = SubSeq(line, missed + 1, Len(line))
  PROVE  parse_rosserial_frames(b).frames = ToShow
<1>1. AdapterInv /\ SnifferInv
  BY DEF FlowInv
<1>2. sent \in Seq(SentType)
  BY <1>1, SentHasType
<1>3. PICK n, W, s, d, M : /\ n = Len(sent) /\ W = FirstWhole /\ s = Line(W - 1) /\ d = Rest(W)
                           /\ M = missed
  OBVIOUS
<1>4. n \in Nat /\ W \in 1..(n + 1) /\ M \in Nat /\ Len(s) >= M
  <2>1. n \in Nat
    BY <1>2, <1>3
  <2>2. M \in Nat
    BY <1>1, <1>3, HeardType
  <2> QED
    BY <1>3, <2>1, <2>2, FirstWholeFacts
<1>5. s \in Seq(Byte) /\ d \in Seq(Byte) /\ line = s \o d
  <2>1. W \in 1..(Len(sent) + 1)
    BY <1>3, <1>4
  <2> QED
    BY <1>2, <1>3, <2>1, LineParts, RestSteps
<1>6. /\ line \in Seq(Byte) /\ Len(line) = Len(s) + Len(d) /\ Len(s) \in Nat /\ Len(d) \in Nat
      /\ \A k \in 1..Len(d) : line[Len(s) + k] = d[k]
  <2>1. /\ s \o d \in Seq(Byte) /\ Len(s \o d) = Len(s) + Len(d)
        /\ \A i \in 1..Len(d) : (s \o d)[Len(s) + i] = d[i]
    BY <1>5, ConcatElements
  <2> QED
    BY <1>5, <2>1
<1>7. PICK m : m = Len(s) - M
  OBVIOUS
<1>8. m \in Nat /\ Len(s) = M + m
  BY <1>4, <1>6, <1>7
<1>9. PICK h : h = Len(line)
  OBVIOUS
<1>10. /\ b \in Seq(Byte) /\ Len(b) = m + Len(d)
       /\ \A k \in 1..(m + Len(d)) : b[k] = line[M + k]
  <2>1. line \in Seq(Byte) /\ h = M + (m + Len(d)) /\ M \in Nat /\ m + Len(d) \in Nat
    BY <1>4, <1>6, <1>8, <1>9
  <2>2. b = SubSeq(line, M + 1, h) /\ h = Len(line)
    BY <1>3, <1>9
  <2>3. PICK l : l = m + Len(d)
    OBVIOUS
  <2>4. b \in Seq(Byte) /\ Len(b) = l /\ \A k \in 1..l : b[k] = line[M + k]
    <3>1. PICK f : f = line
      OBVIOUS
    <3>2. /\ f \in Seq(Byte) /\ M + l <= Len(f) /\ M \in Nat /\ l \in Nat
          /\ b = SubSeq(f, M + 1, M + l)
      <4>1. f \in Seq(Byte) /\ Len(f) = h /\ h = M + l /\ M \in Nat /\ l \in Nat
        BY <2>1, <2>2, <2>3, <3>1
      <4>2. b = SubSeq(f, M + 1, h)
        BY <2>2, <3>1
      <4> QED
        BY ONLY <4>1, <4>2
    <3>3. b \in Seq(Byte) /\ Len(b) = l /\ \A k \in 1..l : b[k] = f[M + k]
      <4>1. PICK x : x = SubSeq(f, M + 1, M + l)
        OBVIOUS
      <4>2. x \in Seq(Byte) /\ Len(x) = l /\ \A k \in 1..l : x[k] = f[M + k]
        BY <3>2, <4>1, PartElements
      <4>3. b = x
        BY <3>2, <4>1
      <4> QED
        BY <4>2, <4>3
    <3> QED
      BY <3>1, <3>3
  <2> QED
    BY <2>3, <2>4
<1>11. BehindFirst(m, d, b)
  <2>1. ASSUME NEW k \in 1..Len(d)
        PROVE  b[m + k] = d[k]
    <3>1. m + k \in 1..(m + Len(d)) /\ M + (m + k) = Len(s) + k
      BY <1>4, <1>6, <1>8
    <3>2. b[m + k] = line[M + (m + k)]
      BY <1>10, <3>1
    <3> QED
      BY <1>6, <3>1, <3>2
  <2> QED
    BY <1>5, <1>8, <1>10, <2>1 DEF BehindFirst
<1>12. ASSUME NEW j \in Nat, j < m, HeaderLeft(j, b), Sync(b, j)
       PROVE  FALSE
  <2>1. j + 8 <= Len(b)
    BY <1>6, <1>8, <1>10, <1>12 DEF HeaderLeft
  <2>2. j + 1 \in 1..(m + Len(d)) /\ j + 2 \in 1..(m + Len(d))
    BY <1>6, <1>8, <1>10, <2>1
  <2>3. PICK i : i = M + (j + 1)
    OBVIOUS
  <2>4. i \in (M + 1)..(Len(line) - 1) /\ i + 1 = M + (j + 2) /\ i <= Len(s)
    <3>1. i \in Int /\ i >= M + 1 /\ i + 1 = M + (j + 2)
      BY <1>4, <2>3
    <3>2. i <= Len(s)
      BY <1>4, <1>8, <1>12, <2>3
    <3>3. i <= Len(line) - 1
      BY <1>4, <1>6, <1>8, <1>10, <2>1, <2>3
    <3> QED
      BY <1>4, <1>6, <3>1, <3>2, <3>3
  <2>5. line[i] = 255 /\ line[i + 1] = 254
    <3>1. b[j + 1] = line[M + (j + 1)] /\ b[j + 2] = line[M + (j + 2)]
      BY <1>10, <2>2
    <3>2. b[j + 1] = 255 /\ b[j + 2] = 254
      BY <1>12 DEF Sync
    <3>3. line[i] = b[j + 1]
      BY <2>3, <3>1
    <3>4. line[i + 1] = b[j + 2]
      <4>1. i + 1 = M + (j + 2)
        BY <2>4
      <4> QED
        BY <3>1, <4>1
    <3> QED
      BY <3>2, <3>3, <3>4
  <2>6. PICK k \in Whole : i > Len(Line(k - 1))
    BY <1>3, <2>4, <2>5 DEF InStep
  <2>7. k \in 1..n /\ W <= k
    BY <1>3, FirstWholeFacts
  <2>8. Len(Line(W - 1)) <= Len(Line(k - 1)) /\ Len(Line(W - 1)) \in Nat
    <3>1. k \in 1..(Len(sent) + 1) /\ W \in 1..(Len(sent) + 1)
      BY <1>3, <1>4, <2>7
    <3> QED
      BY <1>2, <2>7, <3>1, LineLengths
  <2>9. Len(Line(k - 1)) \in Nat
    <3>1. k \in 1..(Len(sent) + 1) /\ k <= k
      BY <1>3, <1>4, <2>7
    <3> QED
      BY <1>2, <3>1, LineLengths
  <2>10. i \in Int
    BY <2>4
  <2> QED
    BY <1>3, <2>4, <2>6, <2>8, <2>9, <2>10
<1>13. Parsed(b)[0].frames = Parsed(b)[m].frames
  BY <1>8, <1>10, <1>12, NothingBefore
<1>14. Parsed(b)[m].frames = Parsed(d)[0].frames
  <2>1. PICK z \in Nat : z = 0
    OBVIOUS
  <2>2. Parsed(b)[m + z].frames = Parsed(d)[z].frames
    BY <1>11, <2>1, ParseShifted
  <2>3. m + z = m
    BY <1>8, <2>1
  <2> QED
    BY <2>1, <2>2, <2>3
<1>15. parse_rosserial_frames(b).frames = parse_rosserial_frames(d).frames
  BY <1>13, <1>14, ParseIsParsed
<1>16. parse_rosserial_frames(Rest(W)).frames = Onward(Shows, W)
  <2>1. W \in 1..(Len(sent) + 1)
    BY <1>3, <1>4
  <2> QED
    BY <1>2, <2>1, RestShown
<1>17. Onward(Shows, W) = ToShow
  <2>1. Len(Shows) = n
    <3>1. DOMAIN sent = 1..n
      BY <1>2, <1>3
    <3>2. Shows = [k \in 1..n |-> ShowsOf(sent[k].payload)]
      BY <3>1 DEF Shows
    <3>3. PICK S : S = {ShowsOf(sent[k].payload) : k \in 1..n}
      OBVIOUS
    <3>4. Shows = [k \in 1..n |-> Shows[k]] /\ \A k \in 1..n : Shows[k] \in S
      BY <3>2, <3>3
    <3> QED
      BY <1>4, <3>4, FunctionIsSeq
  <2> QED
    BY <1>3, <2>1, ToShowIs DEF Onward
<1> QED
  BY <1>3, <1>15, <1>16, <1>17

\* What the sniffer has shown is the beginning of what one look at everything finds.
LEMMA ShownIsBeginning ==
  ASSUME SnifferInv, NEW b, b = SubSeq(line, missed + 1, Len(line))
  PROVE  IsPrefix(shown, parse_rosserial_frames(b).frames)
<1>1. /\ Heard \in Seq(Byte) /\ line \in Seq(Byte) /\ missed \in Nat /\ heard \in Nat
      /\ missed <= heard /\ heard <= Len(line)
  BY HeardType
<1>2. PICK n : n = Len(line) - heard
  OBVIOUS
<1>3. n \in Nat /\ heard + n = Len(line)
  <2>1. Len(line) \in Nat
    BY <1>1
  <2> QED
    BY <1>1, <1>2, <2>1
<1>4. PICK a, c : a = Heard /\ c = SubSeq(line, heard + 1, heard + n)
  OBVIOUS
<1>5. b = a \o c
  <2>1. SubSeq(line, missed + 1, heard + n) =
          SubSeq(line, missed + 1, heard) \o SubSeq(line, heard + 1, heard + n)
    <3>1. heard + n <= Len(line)
      <4>1. Len(line) \in Nat
        BY <1>1
      <4> QED
        BY <1>3, <4>1
    <3> QED
      BY <1>1, <1>3, <3>1, NextPiece
  <2> QED
    BY <1>3, <1>4, <2>1 DEF Heard
<1>6. a \in Seq(Byte) /\ c \in Seq(Byte)
  <2>1. \A i, j \in Nat : j <= Len(line) => SubSeq(line, i + 1, j) \in Seq(Byte)
    BY <1>1
  <2>2. heard + n \in Nat /\ heard + n <= Len(line)
    BY <1>1, <1>3
  <2> QED
    BY <1>1, <1>4, <2>1, <2>2
<1>7. PICK p, q, S : /\ p = parse_rosserial_frames(a).frames
                     /\ q = parse_rosserial_frames(NextBuffer(a, c)).frames /\ S = SniffedFrame
  OBVIOUS
<1>8. parse_rosserial_frames(b).frames = p \o q
  <2>1. parse_rosserial_frames(a \o c) =
          [frames |-> parse_rosserial_frames(a).frames
                        \o parse_rosserial_frames(NextBuffer(a, c)).frames,
           consumed |-> parse_rosserial_frames(a).consumed
                          + parse_rosserial_frames(NextBuffer(a, c)).consumed]
    BY <1>6, ParsedInPieces
  <2>2. PICK r, v : r = parse_rosserial_frames(a \o c)
                    /\ v = parse_rosserial_frames(a).consumed
                             + parse_rosserial_frames(NextBuffer(a, c)).consumed
    OBVIOUS
  <2>3. r = [frames |-> p \o q, consumed |-> v]
    BY <1>7, <2>1, <2>2
  <2>4. r.frames = p \o q
    BY <2>3
  <2> QED
    BY <1>5, <2>2, <2>4
<1>9. \A x \in Seq(Byte) : parse_rosserial_frames(x).frames \in Seq(S)
  BY <1>7, ParseTypes, ParseIsParsed
<1>10. NextBuffer(a, c) \in Seq(Byte)
  <2>1. PICK k : k = parse_rosserial_frames(a).consumed
    OBVIOUS
  <2>2. k \in 0..Len(a)
    BY <1>6, <2>1, ConsumedWithin
  <2> QED
    BY <1>6, <2>1, <2>2, KeptIsBehind DEF NextBuffer, BehindFirst
<1>11. p \in Seq(S) /\ q \in Seq(S)
  BY <1>6, <1>7, <1>9, <1>10
<1>12. IsPrefix(p, p \o q)
  BY <1>11, PrefixOfItself, PrefixBefore
<1>13. shown = p
  BY <1>4, <1>7 DEF SnifferInv, ShowsWhatItHeard, InHeard
<1> QED
  BY <1>8, <1>12, <1>13

\* Both invariants say what is shown.
LEMMA InvSnifferShowsLine == FlowInv => SnifferShowsLine
<1> SUFFICES ASSUME FlowInv
             PROVE  SnifferShowsLine
  OBVIOUS
<1>1. SnifferInv
  BY DEF FlowInv
<1>2. shown = parse_rosserial_frames(SubSeq(line, missed + 1, heard)).frames
  BY <1>1 DEF SnifferInv, ShowsWhatItHeard, InHeard, Heard
<1>3. ASSUME InStep
      PROVE  IsPrefix(shown, ToShow)
  <2>1. PICK b : b = SubSeq(line, missed + 1, Len(line))
    OBVIOUS
  <2>2. IsPrefix(shown, parse_rosserial_frames(b).frames)
    BY <1>1, <2>1, ShownIsBeginning
  <2>3. parse_rosserial_frames(b).frames = ToShow
    BY <1>3, <2>1, InStepFindsAll
  <2> QED
    BY <2>2, <2>3
<1> QED
  BY <1>2, <1>3 DEF SnifferShowsLine

----------------------------------------------------------------------------
\* The theorems of the composition

\* The invariant of the adapter and the sniffer: the histories hold what the conversions
\* made, and the sniffer is where one look at all it heard would be.
THEOREM FlowInvHolds == Spec => []FlowInv
<1>1. Init => FlowInv
  BY FlowStarts
<1>2. FlowInv /\ [Next]_vars => FlowInv'
  BY FlowKeeps
<1> QED
  BY <1>1, <1>2, PTL DEF Spec

\* The variables hold what TypeOK says; the sniffer's buffer is always the end of what it
\* heard, however Keep() has cut it.
THEOREM FlowTypeCorrect == Spec => []TypeOK
<1>1. FlowInv => TypeOK
  BY InvTypeOK
<1> QED
  BY <1>1, FlowInvHolds, PTL

\* Every frame the node writes is the ROS 1 form of the message it received, header seq
\* included, or the beginning of it: for every set of message definitions.
THEOREM EverySentIsRos1 == Spec => []SentIsRos1
<1>1. FlowInv => SentIsRos1
  BY InvSentIsRos1 DEF FlowInv
<1> QED
  BY <1>1, FlowInvHolds, PTL

\* What is published as parsed is spelt by the body it came from, whatever the device sent.
THEOREM EveryParsedIsInBody == Spec => []ParsedIsInBody
<1>1. FlowInv => ParsedIsInBody
  BY InvParsedIsInBody DEF FlowInv
<1> QED
  BY <1>1, FlowInvHolds, PTL

\* The sniffer shows the line, and of a line it is in step with, the frames that began
\* after it was opened, whole and verified and in order.
THEOREM SnifferShowsTheLine == Spec => []SnifferShowsLine
<1>1. FlowInv => SnifferShowsLine
  BY InvSnifferShowsLine
<1> QED
  BY <1>1, FlowInvHolds, PTL

\* As long as devices and nodes send whole messages of the types the code can convert, all
\* of them arrive and the node stays up.
THEOREM EverySoundMessageArrives == Spec => []SoundTrafficArrives
<1>1. Init => SoundTrafficArrives
  BY DEF Init, AdapterInit, SoundTrafficArrives
<1>2. FlowInv /\ SoundTrafficArrives /\ [Next]_vars => SoundTrafficArrives'
  <2> SUFFICES ASSUME FlowInv, SoundTrafficArrives, [Next]_vars
               PROVE  SoundTrafficArrives'
    OBVIOUS
  <2>1. AdapterNext \/ UNCHANGED adapterVars
    BY DEF Next, Sniff, vars
  <2> QED
    BY <2>1, SoundKept DEF FlowInv
<1> QED
  BY <1>1, <1>2, FlowInvHolds, PTL DEF Spec
==================================================================================
