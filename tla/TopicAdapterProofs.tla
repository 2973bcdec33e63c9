--------------------------- MODULE TopicAdapterProofs ---------------------------
(***************************************************************************)
(* The conversions between ROS 1 and ROS 2, for every set of message       *)
(* definitions, every nesting and every stream: both are calls of a        *)
(* recursion that ends, the one to ROS 1 writes the wire form that the     *)
(* definitions prescribe or the beginning of it, the one to ROS 2 returns  *)
(* only what the stream spells.  From that, what a topic sends and         *)
(* publishes, whatever arrives at it.                                      *)
(***************************************************************************)
EXTENDS TopicAdapter, RosserialFrameProofs, FiniteSetTheorems

----------------------------------------------------------------------------
\* The description of the types

\* What CodecAssumption says of a member of a message definition.
LEMMA MemberFacts ==
  ASSUME NEW t \in Types, NEW i \in 1..Len(Definitions[t])
  PROVE  LET m == Definitions[t][i] IN
         /\ m \in Members
         /\ m.array_size \in Nat
         /\ m.type_id \in Scalars \cup {"STRING", "MESSAGE", "OTHER"}
         /\ ~m.is_array => m.array_size = 0
         /\ m.type_id = "MESSAGE" =>
              m.sub \in Types /\ Depth[m.sub] \in Nat /\ Depth[t] \in Nat /\ Depth[m.sub] < Depth[t]
<1>1. PICK m : m = Definitions[t][i]
  OBVIOUS
<1>2. /\ Definitions[t] \in Seq(Members) /\ i \in DOMAIN Definitions[t] /\ Depth \in [Types -> Nat]
      /\ ~m.is_array => m.array_size = 0
      /\ m.type_id = "MESSAGE" => m.sub \in Types /\ Len(Definitions[t]) + Depth[m.sub] <= Depth[t]
  <2>1. Definitions[t] \in Seq(Members)
    BY CodecAssumption
  <2>2. i \in DOMAIN Definitions[t]
    BY <2>1
  <2> QED
    BY <1>1, <2>1, <2>2, CodecAssumption
<1>3. m \in Members
  BY <1>1, <1>2
<1>4. m.array_size \in Nat /\ m.type_id \in Scalars \cup {"STRING", "MESSAGE", "OTHER"}
  BY <1>3 DEF Members
<1>5. ASSUME m.type_id = "MESSAGE"
      PROVE  m.sub \in Types /\ Depth[m.sub] \in Nat /\ Depth[t] \in Nat /\ Depth[m.sub] < Depth[t]
  <2>1. Len(Definitions[t]) \in Nat /\ Len(Definitions[t]) >= 1
    BY <1>2
  <2>2. m.sub \in Types /\ Depth[m.sub] \in Nat /\ Depth[t] \in Nat
        /\ Len(Definitions[t]) + Depth[m.sub] <= Depth[t]
    BY <1>2, <1>5
  <2> QED
    BY <2>1, <2>2
<1> QED
  BY <1>1, <1>2, <1>3, <1>4, <1>5

\* A definition is a sequence, and its length is a number.
LEMMA MemberCount ==
  ASSUME NEW t \in Types
  PROVE  Definitions[t] \in Seq(Members) /\ Len(Definitions[t]) \in Nat
         /\ Depth[t] \in Nat /\ Len(Definitions[t]) <= Depth[t]
         /\ DOMAIN Definitions[t] = 1..Len(Definitions[t])
<1>1. Definitions[t] \in Seq(Members) /\ Depth \in [Types -> Nat] /\ Len(Definitions[t]) <= Depth[t]
  BY CodecAssumption
<1> QED
  BY <1>1

\* How many elements a member stands for.
LEMMA CountFacts ==
  ASSUME NEW t \in Types, NEW i \in 1..Len(Definitions[t])
  PROVE  LET m == Definitions[t][i] IN
         /\ Count(m) \in Nat
         /\ ~IsSequence(m) => Count(m) > 0
<1>1. PICK m : m = Definitions[t][i]
  OBVIOUS
<1>2. m \in Members /\ m.array_size \in Nat /\ m.is_array \in BOOLEAN
  <2>1. m \in Members
    BY <1>1, MemberFacts
  <2> QED
    BY <2>1 DEF Members
<1>3. Count(m) \in Nat /\ (~IsSequence(m) => Count(m) > 0)
  BY <1>2 DEF Count, IsSequence
<1> QED
  BY <1>1, <1>3

\* The widths of the scalars, and that a string or a message is none.
LEMMA WidthFacts ==
  /\ Scalars = {"BOOL", "BYTE", "INT32", "UINT32", "FLOAT", "DOUBLE"}
  /\ \A s \in Scalars : Width[s] \in Nat /\ Width[s] > 0
  /\ "STRING" \notin Scalars /\ "MESSAGE" \notin Scalars /\ "OTHER" \notin Scalars
  BY DEF Scalars, Width

----------------------------------------------------------------------------
\* The layout of the types

\* The pieces a layout is made of.
PieceType == [kind : {"seq", "string", "scalar", "messages", "omitted", "other"}, size : Nat]

\* The pieces of a member, given those of the message type it may name.
LEMMA PiecesType ==
  ASSUME NEW t \in Types, NEW i \in 1..Len(Definitions[t]), NEW nested,
         Definitions[t][i].type_id = "MESSAGE" => nested \in Seq(PieceType)
  PROVE  Pieces(Definitions[t][i], nested) \in Seq(PieceType)
<1>1. PICK m : m = Definitions[t][i]
  OBVIOUS
<1>2. /\ m.type_id \in Scalars \cup {"STRING", "MESSAGE", "OTHER"}
      /\ Count(m) \in Nat
      /\ m.type_id = "MESSAGE" => nested \in Seq(PieceType)
  BY <1>1, MemberFacts, CountFacts
<1>3. \A n \in Nat : Piece("other", n) \in PieceType /\ Piece("string", n) \in PieceType
                     /\ Piece("scalar", n) \in PieceType /\ Piece("messages", n) \in PieceType
  BY DEF Piece, PieceType
<1>4. CASE IsSequence(m)
  <2>1. PICK k : k = IF m.type_id = "MESSAGE" THEN "messages" ELSE "other"
    OBVIOUS
  <2>2. Pieces(m, nested) = <<Piece(k, 0)>>
    BY <1>4, <2>1 DEF Pieces
  <2> QED
    BY <1>1, <1>3, <2>1, <2>2
<1>5. CASE ~IsSequence(m) /\ m.type_id = "MESSAGE"
  <2>1. PICK s : s = [k \in 1..Count(m) |-> nested]
    OBVIOUS
  <2>2. Pieces(m, nested) = FlattenSeq(s)
    BY <1>5, <2>1, WidthFacts DEF Pieces
  <2>3. s \in Seq(Seq(PieceType))
    <3>1. \A k \in 1..Count(m) : s[k] \in Seq(PieceType)
      BY <1>2, <1>5, <2>1
    <3>2. s = [k \in 1..Count(m) |-> s[k]]
      BY <2>1
    <3> QED
      BY <1>2, <3>1, <3>2, FunctionIsSeq
  <2> QED
    BY <1>1, <2>2, <2>3, FlattenType
<1>6. CASE ~IsSequence(m) /\ m.type_id = "STRING"
  <2>1. PICK s : s = [k \in 1..Count(m) |-> Piece("string", 0)]
    OBVIOUS
  <2>2. Pieces(m, nested) = s
    BY <1>6, <2>1, WidthFacts DEF Pieces
  <2>3. s \in Seq(PieceType)
    <3>1. \A k \in 1..Count(m) : s[k] \in PieceType
      BY <1>2, <1>3, <2>1
    <3>2. s = [k \in 1..Count(m) |-> s[k]]
      BY <2>1
    <3> QED
      BY <1>2, <3>1, <3>2, FunctionIsSeq
  <2> QED
    BY <1>1, <2>2, <2>3
<1>7. CASE ~IsSequence(m) /\ m.type_id \in Scalars
  <2>1. Pieces(m, nested) = <<Piece("scalar", Count(m) * Width[m.type_id])>>
    BY <1>7, WidthFacts DEF Pieces
  <2>2. Count(m) * Width[m.type_id] \in Nat
    BY <1>2, <1>7, WidthFacts
  <2> QED
    BY <1>1, <1>3, <2>1, <2>2
<1>8. CASE ~IsSequence(m) /\ m.type_id = "OTHER"
  <2>1. Pieces(m, nested) = <<Piece("other", 0)>>
    BY <1>8, WidthFacts DEF Pieces
  <2> QED
    BY <1>1, <1>3, <2>1
<1> QED
  BY <1>2, <1>4, <1>5, <1>6, <1>7, <1>8

\* The pieces of a member that is no message do not depend on other types.
LEMMA PiecesAlone ==
  ASSUME NEW t \in Types, NEW i \in 1..Len(Definitions[t]),
         Definitions[t][i].type_id # "MESSAGE", NEW x, NEW y
  PROVE  Pieces(Definitions[t][i], x) = Pieces(Definitions[t][i], y)
<1>1. PICK m : m = Definitions[t][i]
  OBVIOUS
<1>2. m.type_id \in Scalars \cup {"STRING", "OTHER"}
  BY <1>1, MemberFacts
<1>3. CASE m.type_id \in Scalars
  BY <1>1, <1>3, WidthFacts DEF Pieces
<1>4. CASE m.type_id = "STRING"
  BY <1>1, <1>4, WidthFacts DEF Pieces
<1>5. CASE m.type_id = "OTHER"
  BY <1>1, <1>5, WidthFacts DEF Pieces
<1> QED
  BY <1>2, <1>3, <1>4, <1>5

\* The pieces of a member, of the header of a type and of a type, given f[s] for any type s.
MemberPieces(f, t, i) == Pieces(Definitions[t][i], f[Definitions[t][i].sub])
Header(t) == IF t = StdHeader THEN <<Piece("seq", 4)>> ELSE <<>>
TypePieces(f, t) ==
  Header(t) \o FlattenSeq([i \in DOMAIN Definitions[t] |-> MemberPieces(f, t, i)])
\* The equation of Layout, and its solution.
IsLayout(f) == f = [t \in Types |-> TypePieces(f, t)]
AnyLayout == CHOOSE f : IsLayout(f)

\* Layout is the solution of its equation.
LEMMA LayoutIsAny == Layout = [t \in Types |-> AnyLayout[t]]
  BY DEF Layout, AnyLayout, IsLayout, TypePieces, MemberPieces, Header

\* What a type begins with on the wire is pieces.
LEMMA HeaderType ==
  ASSUME NEW t
  PROVE  Header(t) \in Seq(PieceType)
<1>1. Piece("seq", 4) \in PieceType
  BY DEF Piece, PieceType
<1> QED
  BY <1>1 DEF Header

\* The pieces of a type, given those of other types.
LEMMA TypePiecesType ==
  ASSUME NEW t \in Types, NEW f,
         \A s \in Types : Depth[s] < Depth[t] => f[s] \in Seq(PieceType)
  PROVE  TypePieces(f, t) \in Seq(PieceType)
<1>1. PICK s : s = [i \in DOMAIN Definitions[t] |-> MemberPieces(f, t, i)]
  OBVIOUS
<1>2. \A i \in 1..Len(Definitions[t]) : s[i] \in Seq(PieceType)
  <2> SUFFICES ASSUME NEW i \in 1..Len(Definitions[t]) PROVE s[i] \in Seq(PieceType)
    OBVIOUS
  <2>1. s[i] = MemberPieces(f, t, i)
    BY <1>1, MemberCount
  <2>2. Definitions[t][i].type_id = "MESSAGE" => f[Definitions[t][i].sub] \in Seq(PieceType)
    BY MemberFacts
  <2> QED
    BY <2>1, <2>2, PiecesType DEF MemberPieces
<1>3. s \in Seq(Seq(PieceType))
  <2>1. s = [i \in 1..Len(Definitions[t]) |-> s[i]]
    BY <1>1, MemberCount
  <2> QED
    BY <1>2, <2>1, MemberCount, FunctionIsSeq
<1>4. FlattenSeq(s) \in Seq(PieceType)
  BY <1>3, FlattenType
<1> QED
  BY <1>1, <1>4, HeaderType DEF TypePieces

\* The pieces of a type depend only on types nested less deep.
LEMMA TypePiecesDescend ==
  ASSUME NEW t \in Types, NEW f, NEW g,
         \A s \in Types : Depth[s] < Depth[t] => f[s] = g[s]
  PROVE  TypePieces(f, t) = TypePieces(g, t)
<1>1. ASSUME NEW i \in DOMAIN Definitions[t]
      PROVE  MemberPieces(f, t, i) = MemberPieces(g, t, i)
  <2>1. i \in 1..Len(Definitions[t])
    BY MemberCount
  <2>2. CASE Definitions[t][i].type_id = "MESSAGE"
    <3>1. f[Definitions[t][i].sub] = g[Definitions[t][i].sub]
      BY <2>1, <2>2, MemberFacts
    <3> QED
      BY <3>1 DEF MemberPieces
  <2>3. CASE Definitions[t][i].type_id # "MESSAGE"
    BY <2>1, <2>3, PiecesAlone DEF MemberPieces
  <2> QED
    BY <2>2, <2>3
<1> QED
  BY <1>1 DEF TypePieces

\* The recursion of Layout has a solution, and Layout is it.
LEMMA LayoutSteps ==
  \A t \in Types : Layout[t] \in Seq(PieceType) /\ Layout[t] = TypePieces(Layout, t)
<1> DEFINE V == Seq(PieceType)
           F == [f \in [Types -> V] |-> [t \in Types |-> TypePieces(f, t)]]
<1>1. Descends(Types, Depth, V, F)
  <2>1. Depth \in [Types -> Nat] /\ V # {}
    <3>1. <<>> \in V
      OBVIOUS
    <3> QED
      BY <3>1, CodecAssumption
  <2>2. F \in [[Types -> V] -> [Types -> V]]
    <3> SUFFICES ASSUME NEW f \in [Types -> V], NEW t \in Types PROVE TypePieces(f, t) \in V
      OBVIOUS
    <3>1. \A s \in Types : f[s] \in Seq(PieceType)
      OBVIOUS
    <3> QED
      BY <3>1, TypePiecesType
  <2>3. ASSUME NEW f \in [Types -> V], NEW g \in [Types -> V], NEW t \in Types,
               \A s \in Types : Depth[s] < Depth[t] => f[s] = g[s]
        PROVE  F[f][t] = F[g][t]
    <3> HIDE DEF V
    <3>1. F[f][t] = TypePieces(f, t) /\ F[g][t] = TypePieces(g, t)
      OBVIOUS
    <3> QED
      BY <2>3, <3>1, TypePiecesDescend
  <2> HIDE DEF V, F
  <2> QED
    BY <2>1, <2>2, <2>3 DEF Descends
<1>2. PICK f : f = Solution(Types, V, F)
  OBVIOUS
<1>3. f \in [Types -> V] /\ f = F[f]
  <2> HIDE DEF V, F
  <2> QED
    BY <1>1, <1>2, RecursionSolved
<1>4. IsLayout(f)
  <2> HIDE DEF V
  <2> QED
    BY <1>3 DEF IsLayout
<1>5. IsLayout(AnyLayout)
  BY <1>4 DEF AnyLayout
<1>6. \A t \in Types : AnyLayout[t] = TypePieces(AnyLayout, t)
  BY <1>5 DEF IsLayout
<1> DEFINE T == {t \in Types : AnyLayout[t] \in V}
<1>7. ASSUME NEW t \in Types, \A s \in Types : Depth[s] < Depth[t] => s \in T
      PROVE  t \in T
  <2>1. TypePieces(AnyLayout, t) \in V
    BY <1>7, TypePiecesType
  <2> HIDE DEF V
  <2> QED
    BY <1>6, <2>1
<1>8. Types \subseteq T
  <2>1. Depth \in [Types -> Nat]
    BY CodecAssumption
  <2> HIDE DEF T
  <2> QED
    BY <1>7, <2>1, RankInduction
<1>9. \A t \in Types : Layout[t] = AnyLayout[t]
  BY LayoutIsAny
<1>10. \A t \in Types : TypePieces(AnyLayout, t) = TypePieces(Layout, t)
  BY <1>9, TypePiecesDescend
<1> QED
  BY <1>6, <1>8, <1>9, <1>10

----------------------------------------------------------------------------
\* The members of a type and of the types it contains

\* The members of a type itself, and those of the messages it contains.
Own(t) == {Definitions[t][i] : i \in DOMAIN Definitions[t]}
TypeMembers(f, t) == Own(t) \cup UNION {f[m.sub] : m \in {n \in Own(t) : n.type_id = "MESSAGE"}}
\* The equation of AllMembers, and its solution.
IsMembers(f) == f = [t \in Types |-> TypeMembers(f, t)]
AnyMembers == CHOOSE f : IsMembers(f)

\* AllMembers is the solution of its equation.
LEMMA MembersAreAny == AllMembers = [t \in Types |-> AnyMembers[t]]
  BY DEF AllMembers, AnyMembers, IsMembers, TypeMembers, Own

\* The members of a definition are members.
LEMMA OwnFacts ==
  ASSUME NEW t \in Types, NEW m \in Own(t)
  PROVE  m \in Members /\ (m.type_id = "MESSAGE" => m.sub \in Types /\ Depth[m.sub] < Depth[t])
<1>1. PICK i \in DOMAIN Definitions[t] : m = Definitions[t][i]
  BY DEF Own
<1>2. i \in 1..Len(Definitions[t])
  BY MemberCount
<1> QED
  BY <1>1, <1>2, MemberFacts

\* The members of a type depend only on types nested less deep.
LEMMA TypeMembersDescend ==
  ASSUME NEW t \in Types, NEW f, NEW g,
         \A s \in Types : Depth[s] < Depth[t] => f[s] = g[s]
  PROVE  TypeMembers(f, t) = TypeMembers(g, t)
<1>1. \A m \in {n \in Own(t) : n.type_id = "MESSAGE"} : f[m.sub] = g[m.sub]
  BY OwnFacts
<1> QED
  BY <1>1 DEF TypeMembers

\* The recursion of AllMembers has a solution, and AllMembers is it.
LEMMA MembersSteps ==
  \A t \in Types : AllMembers[t] = TypeMembers(AllMembers, t)
<1> DEFINE V == SUBSET Members
           F == [f \in [Types -> V] |-> [t \in Types |-> TypeMembers(f, t)]]
<1>1. Descends(Types, Depth, V, F)
  <2>1. Depth \in [Types -> Nat] /\ V # {}
    BY CodecAssumption
  <2>2. F \in [[Types -> V] -> [Types -> V]]
    <3> SUFFICES ASSUME NEW f \in [Types -> V], NEW t \in Types PROVE TypeMembers(f, t) \in V
      OBVIOUS
    <3>1. \A s \in Types : f[s] \subseteq Members
      OBVIOUS
    <3>2. Own(t) \subseteq Members
      BY OwnFacts
    <3>3. \A m \in {n \in Own(t) : n.type_id = "MESSAGE"} : f[m.sub] \subseteq Members
      BY <3>1, OwnFacts
    <3> QED
      BY <3>2, <3>3 DEF TypeMembers
  <2>3. ASSUME NEW f \in [Types -> V], NEW g \in [Types -> V], NEW t \in Types,
               \A s \in Types : Depth[s] < Depth[t] => f[s] = g[s]
        PROVE  F[f][t] = F[g][t]
    <3> HIDE DEF V
    <3>1. F[f][t] = TypeMembers(f, t) /\ F[g][t] = TypeMembers(g, t)
      OBVIOUS
    <3> QED
      BY <2>3, <3>1, TypeMembersDescend
  <2> HIDE DEF V, F
  <2> QED
    BY <2>1, <2>2, <2>3 DEF Descends
<1>2. PICK f : f = Solution(Types, V, F)
  OBVIOUS
<1>3. f \in [Types -> V] /\ f = F[f]
  <2> HIDE DEF V, F
  <2> QED
    BY <1>1, <1>2, RecursionSolved
<1>4. IsMembers(f)
  <2> HIDE DEF V
  <2> QED
    BY <1>3 DEF IsMembers
<1>5. IsMembers(AnyMembers)
  BY <1>4 DEF AnyMembers
<1>6. \A t \in Types : AnyMembers[t] = TypeMembers(AnyMembers, t)
  BY <1>5 DEF IsMembers
<1>7. \A t \in Types : AllMembers[t] = AnyMembers[t]
  BY MembersAreAny
<1>8. \A t \in Types : TypeMembers(AnyMembers, t) = TypeMembers(AllMembers, t)
  BY <1>7, TypeMembersDescend
<1> QED
  BY <1>6, <1>7, <1>8

\* All the members of a type that is nested in a type are among its own.
LEMMA MembersWithin ==
  ASSUME NEW t \in Types, NEW i \in 1..Len(Definitions[t])
  PROVE  /\ Definitions[t][i] \in AllMembers[t]
         /\ Definitions[t][i].type_id = "MESSAGE" =>
              AllMembers[Definitions[t][i].sub] \subseteq AllMembers[t]
<1>1. PICK m : m = Definitions[t][i]
  OBVIOUS
<1>2. m \in Own(t)
  BY <1>1, MemberCount DEF Own
<1>3. AllMembers[t] = TypeMembers(AllMembers, t)
  BY MembersSteps
<1> QED
  BY <1>1, <1>2, <1>3 DEF TypeMembers

----------------------------------------------------------------------------
\* How a message lies in the pieces of a layout

\* How many seqs and how many leaves a layout has.
SeqCount(L) == Seqs(L, Len(L))
LeafCount(L) == Leaves(L, Len(L))

\* Seqs counts piece by piece.
LEMMA SeqsStep ==
  ASSUME NEW L, NEW n \in Nat
  PROVE  /\ IsFiniteSet({j \in 1..n : L[j].kind = "seq"})
         /\ Seqs(L, n) \in Nat /\ Seqs(L, 0) = 0
         /\ Seqs(L, n + 1) = Seqs(L, n) + (IF L[n + 1].kind = "seq" THEN 1 ELSE 0)
<1> DEFINE T(k) == {j \in 1..k : L[j].kind = "seq"}
<1>1. IsFiniteSet(T(n)) /\ IsFiniteSet(1..n)
  <2>1. IsFiniteSet(1..n)
    BY FS_Interval
  <2> QED
    BY <2>1, FS_Subset
<1>2. T(0) = {} /\ Cardinality({}) = 0
  BY FS_EmptySet
<1>3. Cardinality(T(n)) \in Nat
  BY <1>1, FS_CardinalityType
<1>4. CASE L[n + 1].kind = "seq"
  <2>1. T(n + 1) = T(n) \cup {n + 1} /\ n + 1 \notin T(n)
    BY <1>4
  <2>2. Cardinality(T(n) \cup {n + 1}) = Cardinality(T(n)) + 1
    <3> HIDE DEF T
    <3> QED
      BY <1>1, <2>1, FS_AddElement
  <2> QED
    BY <1>1, <1>2, <1>3, <1>4, <2>1, <2>2 DEF Seqs
<1>5. CASE L[n + 1].kind # "seq"
  <2>1. T(n + 1) = T(n)
    BY <1>5
  <2>2. Seqs(L, n + 1) = Cardinality(T(n + 1)) /\ Seqs(L, n) = Cardinality(T(n))
        /\ Seqs(L, 0) = Cardinality(T(0))
    BY DEF Seqs
  <2> HIDE DEF T
  <2>3. Seqs(L, n + 1) = Seqs(L, n) /\ Seqs(L, n) \in Nat /\ Seqs(L, 0) = 0
    BY <1>2, <1>3, <2>1, <2>2
  <2> QED
    BY <1>1, <1>5, <2>3 DEF T
<1> QED
  BY <1>4, <1>5

\* Leaves counts piece by piece.
LEMMA LeavesStep ==
  ASSUME NEW L, NEW n \in Nat
  PROVE  /\ Leaves(L, 0) = 0
         /\ Leaves(L, n + 1) = Leaves(L, n) + (IF L[n + 1].kind = "seq" THEN 0 ELSE 1)
<1>1. Seqs(L, n) \in Nat /\ Seqs(L, 0) = 0
      /\ Seqs(L, n + 1) = Seqs(L, n) + (IF L[n + 1].kind = "seq" THEN 1 ELSE 0)
  BY SeqsStep
<1> QED
  BY <1>1 DEF Leaves

\* Before the first piece there is no seq and no leaf.
LEMMA CountsStart ==
  ASSUME NEW L
  PROVE  Seqs(L, 0) = 0 /\ Leaves(L, 0) = 0
  BY 0 \in Nat, SeqsStep, LeavesStep

\* Both grow with the number of pieces.
LEMMA CountsGrow ==
  ASSUME NEW L, NEW n \in Nat
  PROVE  \A m \in 0..n : /\ Seqs(L, m) \in Nat /\ Seqs(L, m) <= Seqs(L, n)
                         /\ Leaves(L, m) \in Nat /\ Leaves(L, m) <= Leaves(L, n)
<1> DEFINE Good(k) == /\ Seqs(L, k) \in Nat /\ Leaves(L, k) \in Nat
                      /\ \A m \in 0..k : Seqs(L, m) \in Nat /\ Seqs(L, m) <= Seqs(L, k)
                                         /\ Leaves(L, m) \in Nat /\ Leaves(L, m) <= Leaves(L, k)
           G == {k \in Nat : Good(k)}
<1>1. 0 \in G
  <2>1. Seqs(L, 0) = 0 /\ Leaves(L, 0) = 0 /\ 0..0 = {0} /\ 0 \in Nat
    BY CountsStart
  <2> QED
    BY <2>1
<1>2. ASSUME NEW i \in 1..n, i - 1 \in G
      PROVE  i \in G
  <2>1. PICK k : k = i - 1
    OBVIOUS
  <2>2. k \in Nat /\ i = k + 1 /\ Good(k)
    BY <1>2, <2>1
  <2>3. /\ Seqs(L, i) = Seqs(L, k) + (IF L[i].kind = "seq" THEN 1 ELSE 0)
        /\ Leaves(L, i) = Leaves(L, k) + (IF L[i].kind = "seq" THEN 0 ELSE 1)
    BY <2>2, SeqsStep, LeavesStep
  <2>4. Seqs(L, i) \in Nat /\ Leaves(L, i) \in Nat /\ Seqs(L, k) <= Seqs(L, i)
        /\ Leaves(L, k) <= Leaves(L, i)
    BY <2>2, <2>3
  <2>5. \A m \in 0..i : m \in 0..k \/ m = i
    BY <2>2
  <2>6. \A m \in 0..i : Seqs(L, m) \in Nat /\ Seqs(L, m) <= Seqs(L, i)
                        /\ Leaves(L, m) \in Nat /\ Leaves(L, m) <= Leaves(L, i)
    <3> SUFFICES ASSUME NEW m \in 0..i
                 PROVE  Seqs(L, m) \in Nat /\ Seqs(L, m) <= Seqs(L, i)
                        /\ Leaves(L, m) \in Nat /\ Leaves(L, m) <= Leaves(L, i)
      OBVIOUS
    <3>1. CASE m = i
      BY <2>4, <3>1
    <3>2. CASE m \in 0..k
      <4>1. Seqs(L, m) \in Nat /\ Seqs(L, m) <= Seqs(L, k)
            /\ Leaves(L, m) \in Nat /\ Leaves(L, m) <= Leaves(L, k)
            /\ Seqs(L, k) \in Nat /\ Leaves(L, k) \in Nat
        BY <2>2, <3>2
      <4> QED
        BY <2>4, <4>1
    <3> QED
      BY <2>5, <3>1, <3>2
  <2> QED
    BY <2>4, <2>6
<1>3. n \in 0..n /\ 0..n \subseteq G
  <2> HIDE DEF G
  <2> QED
    BY <1>1, <1>2, InductionUpTo
<1> QED
  BY <1>3

\* Each piece has a seq or a leaf of its own.
LEMMA PieceHasItsOwn ==
  ASSUME NEW L, NEW n \in Nat, NEW j \in 1..n
  PROVE  /\ L[j].kind = "seq" => Seqs(L, j) \in 1..Seqs(L, n)
         /\ L[j].kind # "seq" => Leaves(L, j) \in 1..Leaves(L, n)
<1>1. PICK k : k = j - 1
  OBVIOUS
<1>2. k \in Nat /\ j = k + 1 /\ k \in 0..n /\ j \in 0..n
  BY <1>1
<1>3. /\ Seqs(L, j) = Seqs(L, k) + (IF L[j].kind = "seq" THEN 1 ELSE 0)
      /\ Leaves(L, j) = Leaves(L, k) + (IF L[j].kind = "seq" THEN 0 ELSE 1)
  BY <1>2, SeqsStep, LeavesStep
<1>4. /\ Seqs(L, k) \in Nat /\ Leaves(L, k) \in Nat
      /\ Seqs(L, j) \in Nat /\ Seqs(L, j) <= Seqs(L, n)
      /\ Leaves(L, j) \in Nat /\ Leaves(L, j) <= Leaves(L, n)
      /\ Seqs(L, n) \in Nat /\ Leaves(L, n) \in Nat
  BY <1>2, CountsGrow, n \in 0..n
<1> QED
  BY <1>3, <1>4

\* Both counts are numbers.
LEMMA CountTypes ==
  ASSUME NEW L \in Seq(PieceType)
  PROVE  SeqCount(L) \in Nat /\ LeafCount(L) \in Nat /\ LeafCount(L) + SeqCount(L) = Len(L)
<1>1. Len(L) \in Nat /\ Len(L) \in 0..Len(L)
  OBVIOUS
<1>2. Seqs(L, Len(L)) \in Nat /\ Leaves(L, Len(L)) \in Nat
  BY <1>1, CountsGrow
<1> QED
  BY <1>1, <1>2 DEF SeqCount, LeafCount, Leaves

\* In two layouts one behind the other, each is counted on its own.
LEMMA CountsOfBoth ==
  ASSUME NEW a \in Seq(PieceType), NEW b \in Seq(PieceType)
  PROVE  /\ \A j \in 0..Len(a) : Seqs(a \o b, j) = Seqs(a, j) /\ Leaves(a \o b, j) = Leaves(a, j)
         /\ \A j \in 0..Len(b) : /\ Seqs(a \o b, Len(a) + j) = SeqCount(a) + Seqs(b, j)
                                 /\ Leaves(a \o b, Len(a) + j) = LeafCount(a) + Leaves(b, j)
<1>1. PICK c, n, m : c = a \o b /\ n = Len(a) /\ m = Len(b)
  OBVIOUS
<1>2. /\ n \in Nat /\ m \in Nat
      /\ \A i \in 1..n : c[i] = a[i]
      /\ \A i \in 1..m : c[n + i] = b[i]
  BY <1>1
<1> DEFINE G == {j \in Nat : j <= n => Seqs(c, j) = Seqs(a, j) /\ Leaves(c, j) = Leaves(a, j)}
           H == {j \in Nat : j <= m => /\ Seqs(c, n + j) = Seqs(a, n) + Seqs(b, j)
                                       /\ Leaves(c, n + j) = Leaves(a, n) + Leaves(b, j)}
<1>3. 0..n \subseteq G
  <2>1. 0 \in G
    <3>1. 0 \in Nat /\ Seqs(c, 0) = 0 /\ Seqs(a, 0) = 0 /\ Leaves(c, 0) = 0 /\ Leaves(a, 0) = 0
      BY CountsStart
    <3> QED
      BY <3>1
  <2>2. ASSUME NEW i \in 1..n, i - 1 \in G
        PROVE  i \in G
    <3>1. PICK k : k = i - 1
      OBVIOUS
    <3>2. k \in Nat /\ i = k + 1 /\ k <= n /\ c[i] = a[i]
      BY <1>2, <3>1
    <3>3. /\ Seqs(c, i) = Seqs(c, k) + (IF c[i].kind = "seq" THEN 1 ELSE 0)
          /\ Seqs(a, i) = Seqs(a, k) + (IF a[i].kind = "seq" THEN 1 ELSE 0)
          /\ Leaves(c, i) = Leaves(c, k) + (IF c[i].kind = "seq" THEN 0 ELSE 1)
          /\ Leaves(a, i) = Leaves(a, k) + (IF a[i].kind = "seq" THEN 0 ELSE 1)
      BY <3>2, SeqsStep, LeavesStep
    <3>4. Seqs(c, k) = Seqs(a, k) /\ Leaves(c, k) = Leaves(a, k)
      BY <2>2, <3>1, <3>2
    <3> QED
      BY <3>2, <3>3, <3>4
  <2> HIDE DEF G
  <2> QED
    BY <1>2, <2>1, <2>2, InductionUpTo
<1>4. 0..m \subseteq H
  <2>0. Seqs(c, n) = Seqs(a, n) /\ Leaves(c, n) = Leaves(a, n)
        /\ Seqs(a, n) \in Nat /\ Leaves(a, n) \in Nat
    BY <1>2, <1>3, CountsGrow, n \in 0..n
  <2>1. 0 \in H
    <3>1. 0 \in Nat /\ Seqs(b, 0) = 0 /\ Leaves(b, 0) = 0 /\ n + 0 = n
      BY <1>2, CountsStart
    <3> QED
      BY <2>0, <3>1
  <2>2. ASSUME NEW i \in 1..m, i - 1 \in H
        PROVE  i \in H
    <3>1. PICK k : k = i - 1
      OBVIOUS
    <3>2. k \in Nat /\ i = k + 1 /\ k <= m /\ c[n + i] = b[i] /\ k \in 0..m
          /\ n + k \in Nat /\ n + i = (n + k) + 1
      BY <1>2, <3>1
    <3>3. /\ Seqs(c, n + i) = Seqs(c, n + k) + (IF c[n + i].kind = "seq" THEN 1 ELSE 0)
          /\ Leaves(c, n + i) = Leaves(c, n + k) + (IF c[n + i].kind = "seq" THEN 0 ELSE 1)
      <4>1. PICK l : l = n + k
        OBVIOUS
      <4>2. l \in Nat /\ n + i = l + 1
        BY <3>2, <4>1
      <4>3. /\ Seqs(c, l + 1) = Seqs(c, l) + (IF c[l + 1].kind = "seq" THEN 1 ELSE 0)
            /\ Leaves(c, l + 1) = Leaves(c, l) + (IF c[l + 1].kind = "seq" THEN 0 ELSE 1)
        BY <4>2, SeqsStep, LeavesStep
      <4> QED
        BY <4>1, <4>2, <4>3
    <3>4. /\ Seqs(b, i) = Seqs(b, k) + (IF b[i].kind = "seq" THEN 1 ELSE 0)
          /\ Leaves(b, i) = Leaves(b, k) + (IF b[i].kind = "seq" THEN 0 ELSE 1)
      BY <3>2, SeqsStep, LeavesStep
    <3>5. Seqs(c, n + k) = Seqs(a, n) + Seqs(b, k) /\ Leaves(c, n + k) = Leaves(a, n) + Leaves(b, k)
      BY <2>2, <3>1, <3>2
    <3>6. Seqs(b, k) \in Nat /\ Leaves(b, k) \in Nat
      BY <1>2, <3>2, CountsGrow
    <3>7. /\ Seqs(c, n + i) = Seqs(a, n) + Seqs(b, i)
          /\ Leaves(c, n + i) = Leaves(a, n) + Leaves(b, i)
      BY <2>0, <3>2, <3>3, <3>4, <3>5, <3>6
    <3> QED
      BY <3>2, <3>7
  <2> HIDE DEF H
  <2> QED
    BY <1>2, <2>1, <2>2, InductionUpTo
<1>5. \A j \in 0..n : Seqs(c, j) = Seqs(a, j) /\ Leaves(c, j) = Leaves(a, j)
  BY <1>2, <1>3
<1>6. \A j \in 0..m : /\ Seqs(c, n + j) = Seqs(a, n) + Seqs(b, j)
                      /\ Leaves(c, n + j) = Leaves(a, n) + Leaves(b, j)
  BY <1>2, <1>4
<1>7. SeqCount(a) = Seqs(a, n) /\ LeafCount(a) = Leaves(a, n)
  BY <1>1 DEF SeqCount, LeafCount
<1> QED
  BY <1>1, <1>5, <1>6, <1>7

\* Two layouts one behind the other have the seqs and leaves of both.
LEMMA CountsAdd ==
  ASSUME NEW a \in Seq(PieceType), NEW b \in Seq(PieceType)
  PROVE  SeqCount(a \o b) = SeqCount(a) + SeqCount(b) /\ LeafCount(a \o b) = LeafCount(a) + LeafCount(b)
<1>1. Len(a \o b) = Len(a) + Len(b) /\ Len(b) \in 0..Len(b)
  OBVIOUS
<1> QED
  BY <1>1, CountsOfBoth DEF SeqCount, LeafCount

\* No pieces have no seqs and no leaves.
LEMMA CountsOfNone == SeqCount(<<>>) = 0 /\ LeafCount(<<>>) = 0
<1>1. Len(<<>>) = 0
  OBVIOUS
<1> QED
  BY <1>1, SeqsStep, LeavesStep DEF SeqCount, LeafCount

\* One piece is a seq or a leaf.
LEMMA CountsOfOne ==
  ASSUME NEW p \in PieceType
  PROVE  /\ p.kind = "seq" => SeqCount(<<p>>) = 1 /\ LeafCount(<<p>>) = 0
         /\ p.kind # "seq" => SeqCount(<<p>>) = 0 /\ LeafCount(<<p>>) = 1
<1>1. PICK L : L = <<p>>
  OBVIOUS
<1>2. Len(L) = 1 /\ L[1] = p
  BY <1>1
<1>3. /\ Seqs(L, 1) = (IF p.kind = "seq" THEN 1 ELSE 0)
      /\ Leaves(L, 1) = (IF p.kind = "seq" THEN 0 ELSE 1)
  <2>1. /\ Seqs(L, 0) = 0 /\ Leaves(L, 0) = 0
        /\ Seqs(L, 0 + 1) = Seqs(L, 0) + (IF L[0 + 1].kind = "seq" THEN 1 ELSE 0)
        /\ Leaves(L, 0 + 1) = Leaves(L, 0) + (IF L[0 + 1].kind = "seq" THEN 0 ELSE 1)
    BY 0 \in Nat, CountsStart, SeqsStep, LeavesStep
  <2> QED
    BY <1>2, <2>1
<1> QED
  BY <1>1, <1>2, <1>3 DEF SeqCount, LeafCount

----------------------------------------------------------------------------
\* The bytes of a layout, from the (p+1)-th leaf and the (q+1)-th seq on

\* A number in four bytes is four bytes.
LEMMA LE32Type ==
  ASSUME NEW n \in Nat
  PROVE  LE32(n) \in Seq(Byte) /\ Len(LE32(n)) = 4
<1>1. /\ n % 256 \in Byte
      /\ n \div 256 % 256 \in Byte
      /\ n \div 65536 % 256 \in Byte
      /\ n \div 16777216 % 256 \in Byte
  BY DEF Byte
<1> QED
  BY <1>1 DEF LE32

\* The bytes of the j-th piece, and of all of them.
WirePiece(L, j, msg, p, seqs, q) ==
  LET leaf == msg[p + Leaves(L, j)]
  IN  CASE L[j].kind = "seq" -> seqs[q + Seqs(L, j)]
        [] L[j].kind = "string" -> LE32(Len(leaf)) \o leaf
        [] L[j].kind = "omitted" -> <<>>
        [] OTHER -> leaf
WireFrom(L, msg, p, seqs, q) == FlattenSeq([j \in DOMAIN L |-> WirePiece(L, j, msg, p, seqs, q)])

\* There is a leaf for each leaf piece and a seq for each seq piece.
Holds(L, msg, p, seqs, q) ==
  /\ p \in Nat /\ q \in Nat
  /\ \A k \in 1..LeafCount(L) : msg[p + k] \in Seq(Byte)
  /\ \A k \in 1..SeqCount(L) : seqs[q + k] \in Seq(Byte)

\* From the first leaf and seq on, these are the bytes of Wire.
LEMMA WireFromStart ==
  ASSUME NEW L \in Seq(PieceType), NEW msg, NEW seqs
  PROVE  Wire(L, msg, seqs) = WireFrom(L, msg, 0, seqs, 0)
<1>1. ASSUME NEW j \in DOMAIN L
      PROVE  0 + Leaves(L, j) = Leaves(L, j) /\ 0 + Seqs(L, j) = Seqs(L, j)
  <2>1. j \in Nat /\ j \in 0..j
    OBVIOUS
  <2>2. Seqs(L, j) \in Nat /\ Leaves(L, j) \in Nat
    BY <2>1, CountsGrow
  <2> QED
    BY <2>2
<1> QED
  BY <1>1 DEF Wire, WireFrom, WirePiece

\* Each piece has bytes.
LEMMA WirePieceType ==
  ASSUME NEW L \in Seq(PieceType), NEW msg, NEW p, NEW seqs, NEW q,
         Holds(L, msg, p, seqs, q), NEW j \in DOMAIN L
  PROVE  WirePiece(L, j, msg, p, seqs, q) \in Seq(Byte)
<1>1. j \in 1..Len(L) /\ Len(L) \in Nat
  OBVIOUS
<1>2. CASE L[j].kind = "seq"
  <2>1. Seqs(L, j) \in 1..SeqCount(L)
    BY <1>1, <1>2, PieceHasItsOwn DEF SeqCount
  <2> QED
    BY <1>2, <2>1 DEF WirePiece, Holds
<1>3. CASE L[j].kind # "seq"
  <2>1. Leaves(L, j) \in 1..LeafCount(L)
    BY <1>1, <1>3, PieceHasItsOwn DEF LeafCount
  <2>2. PICK leaf : leaf = msg[p + Leaves(L, j)]
    OBVIOUS
  <2>3. leaf \in Seq(Byte)
    BY <2>1, <2>2 DEF Holds
  <2>4. LE32(Len(leaf)) \o leaf \in Seq(Byte)
    <3>1. LE32(Len(leaf)) \in Seq(Byte)
      BY <2>3, LE32Type
    <3> QED
      BY <2>3, <3>1
  <2>5. PICK none : none = <<>>
    OBVIOUS
  <2>6. none \in Seq(Byte)
    BY <2>5
  <2>7. WirePiece(L, j, msg, p, seqs, q) \in {LE32(Len(leaf)) \o leaf, none, leaf}
    BY <1>3, <2>2, <2>5 DEF WirePiece
  <2> QED
    BY <2>3, <2>4, <2>6, <2>7
<1> QED
  BY <1>2, <1>3

\* The pieces of a layout are sequences of bytes.
LEMMA WirePiecesType ==
  ASSUME NEW L \in Seq(PieceType), NEW msg, NEW p, NEW seqs, NEW q, Holds(L, msg, p, seqs, q)
  PROVE  [j \in DOMAIN L |-> WirePiece(L, j, msg, p, seqs, q)] \in Seq(Seq(Byte))
<1>1. PICK s : s = [j \in DOMAIN L |-> WirePiece(L, j, msg, p, seqs, q)]
  OBVIOUS
<1>2. Len(L) \in Nat /\ DOMAIN L = 1..Len(L)
  OBVIOUS
<1>3. \A j \in 1..Len(L) : s[j] \in Seq(Byte)
  BY <1>1, <1>2, WirePieceType
<1>4. s = [j \in 1..Len(L) |-> s[j]]
  BY <1>1, <1>2
<1> QED
  BY <1>1, <1>2, <1>3, <1>4, FunctionIsSeq

\* A layout has bytes.
LEMMA WireFromType ==
  ASSUME NEW L \in Seq(PieceType), NEW msg, NEW p, NEW seqs, NEW q, Holds(L, msg, p, seqs, q)
  PROVE  WireFrom(L, msg, p, seqs, q) \in Seq(Byte)
  BY WirePiecesType, FlattenType DEF WireFrom

\* Only the leaves and the seqs of the layout count.
LEMMA WireFromAgrees ==
  ASSUME NEW L \in Seq(PieceType),
         NEW msg, NEW p \in Nat, NEW seqs, NEW q \in Nat,
         NEW msg2, NEW p2 \in Nat, NEW seqs2, NEW q2 \in Nat,
         \A k \in 1..LeafCount(L) : msg[p + k] = msg2[p2 + k],
         \A k \in 1..SeqCount(L) : seqs[q + k] = seqs2[q2 + k]
  PROVE  WireFrom(L, msg, p, seqs, q) = WireFrom(L, msg2, p2, seqs2, q2)
<1>1. ASSUME NEW j \in DOMAIN L
      PROVE  WirePiece(L, j, msg, p, seqs, q) = WirePiece(L, j, msg2, p2, seqs2, q2)
  <2>1. j \in 1..Len(L) /\ Len(L) \in Nat
    OBVIOUS
  <2>2. CASE L[j].kind = "seq"
    <3>1. Seqs(L, j) \in 1..SeqCount(L)
      BY <2>1, <2>2, PieceHasItsOwn DEF SeqCount
    <3> QED
      BY <2>2, <3>1 DEF WirePiece
  <2>3. CASE L[j].kind # "seq"
    <3>1. Leaves(L, j) \in 1..LeafCount(L)
      BY <2>1, <2>3, PieceHasItsOwn DEF LeafCount
    <3>2. msg[p + Leaves(L, j)] = msg2[p2 + Leaves(L, j)]
      BY <3>1
    <3> QED
      BY <2>3, <3>2 DEF WirePiece
  <2> QED
    BY <2>2, <2>3
<1> QED
  BY <1>1 DEF WireFrom

\* Where the leaves and seqs of two layouts are, those of each are.
LEMMA HoldsParts ==
  ASSUME NEW a \in Seq(PieceType), NEW b \in Seq(PieceType),
         NEW msg, NEW p, NEW seqs, NEW q, Holds(a \o b, msg, p, seqs, q)
  PROVE  Holds(a, msg, p, seqs, q) /\ Holds(b, msg, p + LeafCount(a), seqs, q + SeqCount(a))
<1>1. PICK la, lb, sa, sb : la = LeafCount(a) /\ lb = LeafCount(b) /\ sa = SeqCount(a) /\ sb = SeqCount(b)
  OBVIOUS
<1>2. la \in Nat /\ lb \in Nat /\ sa \in Nat /\ sb \in Nat
  BY <1>1, CountTypes
<1>3. LeafCount(a \o b) = la + lb /\ SeqCount(a \o b) = sa + sb
  BY <1>1, CountsAdd
<1>4. /\ p \in Nat /\ q \in Nat
      /\ \A k \in 1..(la + lb) : msg[p + k] \in Seq(Byte)
      /\ \A k \in 1..(sa + sb) : seqs[q + k] \in Seq(Byte)
  BY <1>3 DEF Holds
<1>5. Holds(a, msg, p, seqs, q)
  <2>1. \A k \in 1..la : k \in 1..(la + lb)
    BY <1>2
  <2>2. \A k \in 1..sa : k \in 1..(sa + sb)
    BY <1>2
  <2> QED
    BY <1>1, <1>4, <2>1, <2>2 DEF Holds
<1>6. Holds(b, msg, p + la, seqs, q + sa)
  <2>1. \A k \in 1..lb : la + k \in 1..(la + lb) /\ (p + la) + k = p + (la + k)
    BY <1>2, <1>4
  <2>2. \A k \in 1..sb : sa + k \in 1..(sa + sb) /\ (q + sa) + k = q + (sa + k)
    BY <1>2, <1>4
  <2>3. p + la \in Nat /\ q + sa \in Nat
    BY <1>2, <1>4
  <2>4. \A k \in 1..lb : msg[(p + la) + k] \in Seq(Byte)
    BY <1>4, <2>1
  <2>5. \A k \in 1..sb : seqs[(q + sa) + k] \in Seq(Byte)
    BY <1>4, <2>2
  <2> QED
    BY <1>1, <2>3, <2>4, <2>5 DEF Holds
<1> QED
  BY <1>1, <1>5, <1>6

\* The bytes of two layouts one behind the other.
LEMMA WireFromConcat ==
  ASSUME NEW a \in Seq(PieceType), NEW b \in Seq(PieceType),
         NEW msg, NEW p, NEW seqs, NEW q, Holds(a \o b, msg, p, seqs, q)
  PROVE  WireFrom(a \o b, msg, p, seqs, q) =
           WireFrom(a, msg, p, seqs, q) \o WireFrom(b, msg, p + LeafCount(a), seqs, q + SeqCount(a))
<1>1. PICK c, n, m, p2, q2 : /\ c = a \o b /\ n = Len(a) /\ m = Len(b)
                             /\ p2 = p + LeafCount(a) /\ q2 = q + SeqCount(a)
  OBVIOUS
<1>2. PICK x, y, z : /\ x = [j \in DOMAIN a |-> WirePiece(a, j, msg, p, seqs, q)]
                     /\ y = [j \in DOMAIN b |-> WirePiece(b, j, msg, p2, seqs, q2)]
                     /\ z = [j \in DOMAIN c |-> WirePiece(c, j, msg, p, seqs, q)]
  OBVIOUS
<1>3. /\ n \in Nat /\ m \in Nat /\ Len(c) = n + m /\ c \in Seq(PieceType)
      /\ DOMAIN a = 1..n /\ DOMAIN b = 1..m /\ DOMAIN c = 1..(n + m)
      /\ \A j \in 1..n : c[j] = a[j]
      /\ \A j \in 1..m : c[n + j] = b[j]
  BY <1>1
<1>4. x \in Seq(Seq(Byte)) /\ y \in Seq(Seq(Byte)) /\ z \in Seq(Seq(Byte))
  <2>1. Holds(c, msg, p, seqs, q)
    BY <1>1
  <2>2. Holds(a, msg, p, seqs, q) /\ Holds(b, msg, p2, seqs, q2)
    BY <1>1, HoldsParts
  <2>3. z \in Seq(Seq(Byte))
    <3>1. c \in Seq(PieceType)
      BY <1>3
    <3>2. [j \in DOMAIN c |-> WirePiece(c, j, msg, p, seqs, q)] \in Seq(Seq(Byte))
      BY <2>1, <3>1, WirePiecesType
    <3> QED
      BY <1>2, <3>2
  <2>4. x \in Seq(Seq(Byte)) /\ y \in Seq(Seq(Byte))
    BY <1>2, <2>2, WirePiecesType
  <2> QED
    BY <2>3, <2>4
<1>5. Len(x) = n /\ Len(y) = m /\ Len(z) = n + m
  BY <1>2, <1>3
<1>6. \A j \in 1..n : z[j] = x[j]
  <2> SUFFICES ASSUME NEW j \in 1..n PROVE z[j] = x[j]
    OBVIOUS
  <2>1. j \in DOMAIN a /\ j \in DOMAIN c /\ j \in 0..n /\ c[j] = a[j]
    BY <1>3
  <2>2. Seqs(c, j) = Seqs(a, j) /\ Leaves(c, j) = Leaves(a, j)
    BY <1>1, <2>1, CountsOfBoth
  <2>3. z[j] = WirePiece(c, j, msg, p, seqs, q) /\ x[j] = WirePiece(a, j, msg, p, seqs, q)
    BY <1>2, <2>1
  <2> QED
    BY <2>1, <2>2, <2>3 DEF WirePiece
<1>7. \A j \in 1..m : z[n + j] = y[j]
  <2> SUFFICES ASSUME NEW j \in 1..m PROVE z[n + j] = y[j]
    OBVIOUS
  <2>1. j \in DOMAIN b /\ n + j \in DOMAIN c /\ j \in 0..m /\ c[n + j] = b[j]
    BY <1>3
  <2>2. Seqs(c, n + j) = SeqCount(a) + Seqs(b, j) /\ Leaves(c, n + j) = LeafCount(a) + Leaves(b, j)
    BY <1>1, <2>1, CountsOfBoth
  <2>3. p + Leaves(c, n + j) = p2 + Leaves(b, j) /\ q + Seqs(c, n + j) = q2 + Seqs(b, j)
    <3>1. LeafCount(a) \in Nat /\ SeqCount(a) \in Nat /\ p \in Nat /\ q \in Nat
      BY CountTypes DEF Holds
    <3>2. Seqs(b, j) \in Nat /\ Leaves(b, j) \in Nat
      BY <1>3, <2>1, CountsGrow
    <3>3. PICK la, sa, lb, sb : /\ la = LeafCount(a) /\ sa = SeqCount(a)
                                /\ lb = Leaves(b, j) /\ sb = Seqs(b, j)
      OBVIOUS
    <3>4. la \in Nat /\ sa \in Nat /\ lb \in Nat /\ sb \in Nat /\ p \in Nat /\ q \in Nat
      BY <3>1, <3>2, <3>3
    <3>5. p + (la + lb) = (p + la) + lb /\ q + (sa + sb) = (q + sa) + sb
      BY <3>4
    <3> QED
      BY <1>1, <2>2, <3>3, <3>5
  <2>4. z[n + j] = WirePiece(c, n + j, msg, p, seqs, q) /\ y[j] = WirePiece(b, j, msg, p2, seqs, q2)
    BY <1>2, <2>1
  <2> QED
    BY <2>1, <2>3, <2>4 DEF WirePiece
<1>8. z = x \o y
  <2>1. PICK w : w = x \o y
    OBVIOUS
  <2>2. /\ w \in Seq(Seq(Byte)) /\ Len(w) = n + m
        /\ \A j \in 1..n : w[j] = x[j]
        /\ \A j \in 1..m : w[n + j] = y[j]
    <3>1. PICK S : S = Seq(Byte)
      OBVIOUS
    <3>2. x \in Seq(S) /\ y \in Seq(S)
      BY <1>4, <3>1
    <3>3. /\ x \o y \in Seq(S) /\ Len(x \o y) = Len(x) + Len(y)
          /\ \A i \in 1..Len(x) : (x \o y)[i] = x[i]
          /\ \A i \in 1..Len(y) : (x \o y)[Len(x) + i] = y[i]
      BY <3>2, ConcatElements
    <3> QED
      BY <1>5, <2>1, <3>1, <3>3
  <2>3. \A i \in 1..(n + m) : z[i] = w[i]
    <3> SUFFICES ASSUME NEW i \in 1..(n + m) PROVE z[i] = w[i]
      OBVIOUS
    <3>1. CASE i \in 1..n
      BY <1>6, <2>2, <3>1
    <3>2. CASE i \notin 1..n
      <4>1. i - n \in 1..m /\ n + (i - n) = i
        BY <1>3, <3>2
      <4> QED
        BY <1>7, <2>2, <4>1
    <3> QED
      BY <3>1, <3>2
  <2> QED
    BY <1>4, <1>5, <2>1, <2>2, <2>3, SameElements
<1>9. FlattenSeq(x \o y) = FlattenSeq(x) \o FlattenSeq(y)
  BY <1>4, FlattenConcat
<1> QED
  BY <1>1, <1>2, <1>8, <1>9 DEF WireFrom

\* No pieces have no bytes.
LEMMA WireFromNone ==
  ASSUME NEW msg, NEW p, NEW seqs, NEW q
  PROVE  WireFrom(<<>>, msg, p, seqs, q) = <<>>
<1>1. [j \in DOMAIN <<>> |-> WirePiece(<<>>, j, msg, p, seqs, q)] = <<>>
  OBVIOUS
<1> QED
  BY <1>1, FlattenEmpty DEF WireFrom

\* The wire of one piece.
OneWire(e, msg, p, seqs, q) ==
  /\ e.kind = "seq" => WireFrom(<<e>>, msg, p, seqs, q) = seqs[q + 1]
  /\ e.kind = "string" => WireFrom(<<e>>, msg, p, seqs, q) = LE32(Len(msg[p + 1])) \o msg[p + 1]
  /\ e.kind = "omitted" => WireFrom(<<e>>, msg, p, seqs, q) = <<>>
  /\ e.kind \in {"scalar", "messages", "other"} => WireFrom(<<e>>, msg, p, seqs, q) = msg[p + 1]

\* One piece has the bytes of that piece.
LEMMA WireFromOne ==
  ASSUME NEW e \in PieceType, NEW msg, NEW p, NEW seqs, NEW q, Holds(<<e>>, msg, p, seqs, q)
  PROVE  OneWire(e, msg, p, seqs, q)
<1>1. PICK L : L = <<e>>
  OBVIOUS
<1>2. L \in Seq(PieceType) /\ Len(L) = 1 /\ L[1] = e /\ DOMAIN L = {1}
  BY <1>1
<1>3. PICK s : s = WirePiece(L, 1, msg, p, seqs, q)
  OBVIOUS
<1>4. s \in Seq(Byte)
  BY <1>1, <1>2, <1>3, WirePieceType
<1>5. [j \in DOMAIN L |-> WirePiece(L, j, msg, p, seqs, q)] = <<s>>
  BY <1>2, <1>3
<1>6. WireFrom(L, msg, p, seqs, q) = s
  BY <1>4, <1>5, FlattenOne DEF WireFrom
<1>7. /\ e.kind = "seq" => Seqs(L, 1) = 1
      /\ e.kind # "seq" => Leaves(L, 1) = 1
  BY <1>1, <1>2, CountsOfOne DEF SeqCount, LeafCount
<1>8. e.kind \in {"seq", "string", "scalar", "messages", "omitted", "other"}
  BY DEF PieceType
<1> QED
  BY <1>1, <1>2, <1>3, <1>6, <1>7, <1>8 DEF WirePiece, OneWire

----------------------------------------------------------------------------
\* The steps of a conversion

\* How a conversion may end, and what it returns.
Outcomes == {"true", "false", "throws", "undefined"}
Result(S) == [result : Outcomes, at : Nat, out : Seq(S)]

\* A step that goes on returns a result.
LEMMA GoingType ==
  ASSUME NEW S, NEW at \in Nat, NEW out \in Seq(S)
  PROVE  /\ Going(at, out) \in Result(S)
         /\ Going(at, out).result = "true" /\ Going(at, out).at = at /\ Going(at, out).out = out
  BY DEF Going, Result, Outcomes

\* A step that stops returns a result.
LEMMA StopType ==
  ASSUME NEW S, NEW at \in Nat, NEW out \in Seq(S), NEW r \in Outcomes
  PROVE  /\ Stop(Going(at, out), r) \in Result(S)
         /\ Stop(Going(at, out), r) = [result |-> r, at |-> at, out |-> out]
  BY DEF Going, Stop, Result, Outcomes

\* The empty sequence is a sequence of anything.
LEMMA EmptyIsSeq ==
  ASSUME NEW S
  PROVE  <<>> \in Seq(S) /\ Len(<<>>) = 0
  OBVIOUS

\* A step that goes on and gives nothing returns a result.
LEMMA GoingNothing ==
  ASSUME NEW S, NEW at \in Nat
  PROVE  /\ Going(at, <<>>) \in Result(S)
         /\ Going(at, <<>>).result = "true" /\ Going(at, <<>>).at = at /\ Going(at, <<>>).out = <<>>
<1>1. <<>> \in Seq(S)
  OBVIOUS
<1> QED
  BY <1>1 DEF Going, Result, Outcomes

\* A step that stops and gives nothing returns a result.
LEMMA StopNothing ==
  ASSUME NEW S, NEW at \in Nat, NEW r \in Outcomes
  PROVE  /\ Stop(Going(at, <<>>), r) \in Result(S)
         /\ Stop(Going(at, <<>>), r) = [result |-> r, at |-> at, out |-> <<>>]
<1>1. PICK out : out = <<>>
  OBVIOUS
<1>2. out \in Seq(S)
  BY <1>1
<1> QED
  BY <1>1, <1>2, StopType

\* Two steps in a row: the second is taken where the first went on.
LEMMA ThenSteps ==
  ASSUME NEW S, NEW this \in Result(S), NEW rest,
         this.result = "true" => rest[this.at] \in Result(S)
  PROVE  /\ Then(this, rest) \in Result(S)
         /\ this.result # "true" => Then(this, rest) = this
         /\ this.result = "true" =>
              /\ Then(this, rest).result = rest[this.at].result
              /\ Then(this, rest).at = rest[this.at].at
              /\ Then(this, rest).out = this.out \o rest[this.at].out
<1>1. CASE this.result # "true"
  BY <1>1 DEF Then
<1>2. CASE this.result = "true"
  <2>1. PICK r : r = rest[this.at]
    OBVIOUS
  <2>2. r \in [result : Outcomes, at : Nat, out : Seq(S)] /\ this.out \in Seq(S)
    BY <1>2, <2>1 DEF Result
  <2>3. Then(this, rest) = [r EXCEPT !.out = this.out \o r.out]
    BY <1>2, <2>1 DEF Then
  <2>4. this.out \o r.out \in Seq(S)
    BY <2>2
  <2>5. PICK o : o = this.out \o r.out
    OBVIOUS
  <2>6. /\ [r EXCEPT !.out = o] \in [result : Outcomes, at : Nat, out : Seq(S)]
        /\ [r EXCEPT !.out = o].result = r.result
        /\ [r EXCEPT !.out = o].at = r.at
        /\ [r EXCEPT !.out = o].out = o
    BY <2>2, <2>4, <2>5
  <2> QED
    BY <1>2, <2>1, <2>3, <2>5, <2>6 DEF Result
<1> QED
  BY <1>1, <1>2

\* The turns of a loop.
IsTurns(upTo, each, n, at) ==
  upTo = [k \in 0..n |-> IF k = 0 THEN Going(at, <<>>) ELSE Then(upTo[k - 1], each)]
\* The solution of the recursion of Repeat.
Turns(each, n, at) == CHOOSE upTo : IsTurns(upTo, each, n, at)

\* Repeat turns one time more than one time less.
LEMMA RepeatSteps ==
  ASSUME NEW S, NEW each \in [Nat -> Result(S)], NEW n \in Nat, NEW at \in Nat
  PROVE  /\ Repeat(each, n, at) = Turns(each, n, at)[n]
         /\ \A k \in 0..n : Turns(each, n, at)[k] \in Result(S)
         /\ Turns(each, n, at)[0] = Going(at, <<>>)
         /\ \A k \in 1..n : Turns(each, n, at)[k] = Then(Turns(each, n, at)[k - 1], each)
<1> DEFINE D == 0..n
           V == Result(S)
           rank == [k \in D |-> k]
           step(f, k) == IF k = 0 THEN Going(at, <<>>) ELSE Then(f[k - 1], each)
           F == [f \in [D -> V] |-> [k \in D |-> step(f, k)]]
<1>0. Going(at, <<>>) \in V
  BY GoingNothing
<1>1. ASSUME NEW f, NEW k \in D, \A j \in D : j < k => f[j] \in V
      PROVE  step(f, k) \in V
  <2>1. CASE k = 0
    BY <1>0, <2>1
  <2>2. CASE k # 0
    <3>1. k - 1 \in D /\ k - 1 < k
      BY <2>2
    <3>2. f[k - 1] \in Result(S)
      BY <1>1, <3>1
    <3>3. each[f[k - 1].at] \in Result(S)
      BY <3>2 DEF Result
    <3>4. Then(f[k - 1], each) \in Result(S)
      BY <3>2, <3>3, ThenSteps
    <3> QED
      BY <2>2, <3>4
  <2> QED
    BY <2>1, <2>2
<1>2. ASSUME NEW f, NEW g, NEW k \in D, \A j \in D : j < k => f[j] = g[j]
      PROVE  step(f, k) = step(g, k)
  <2>1. k # 0 => k - 1 \in D /\ k - 1 < k
    OBVIOUS
  <2> QED
    BY <1>2, <2>1
<1>3. F \in [[D -> V] -> [D -> V]]
  <2> SUFFICES ASSUME NEW f \in [D -> V], NEW k \in D PROVE step(f, k) \in V
    OBVIOUS
  <2>1. \A j \in D : f[j] \in V
    OBVIOUS
  <2> HIDE DEF step, D, V
  <2> QED
    BY <1>1, <2>1
<1>4. rank \in [D -> Nat] /\ V # {}
  BY <1>0
<1>5. Descends(D, rank, V, F)
  <2>1. ASSUME NEW f \in [D -> V], NEW g \in [D -> V], NEW k \in D,
               \A j \in D : rank[j] < rank[k] => f[j] = g[j]
        PROVE  F[f][k] = F[g][k]
    <3>1. \A j \in D : j < k => f[j] = g[j]
      BY <2>1
    <3> HIDE DEF step, D, V
    <3> QED
      BY <1>2, <3>1
  <2> HIDE DEF step, D, V, F, rank
  <2> QED
    BY <1>3, <1>4, <2>1 DEF Descends
<1>6. \E f : IsTurns(f, each, n, at)
  <2>1. PICK f : f = Solution(D, V, F)
    OBVIOUS
  <2>2. f \in [D -> V] /\ f = F[f]
    <3> HIDE DEF F, D, V, rank
    <3> QED
      BY <1>5, <2>1, RecursionSolved
  <2>3. f = [k \in D |-> step(f, k)]
    <3> HIDE DEF step, D, V
    <3> QED
      BY <2>2
  <2> QED
    BY <2>3 DEF IsTurns
<1>7. PICK u : u = Turns(each, n, at)
  OBVIOUS
<1>8. IsTurns(u, each, n, at)
  BY <1>6, <1>7 DEF Turns
<1>9. \A k \in D : u[k] = step(u, k)
  BY <1>8 DEF IsTurns
<1> DEFINE T == {k \in D : u[k] \in V}
<1>10. ASSUME NEW k \in D, \A j \in D : rank[j] < rank[k] => j \in T
       PROVE  k \in T
  <2>1. \A j \in D : j < k => u[j] \in V
    BY <1>10
  <2>2. step(u, k) \in V
    <3> HIDE DEF step, D, V
    <3> QED
      BY <1>1, <2>1
  <2> HIDE DEF step, D, V
  <2> QED
    BY <1>9, <2>2
<1>11. D \subseteq T
  <2> HIDE DEF T, D, V, rank
  <2> QED
    BY <1>4, <1>10, RankInduction
<1>12. Repeat(each, n, at) = u[n]
  BY <1>7 DEF Repeat, Turns, IsTurns
<1>13. u[0] = Going(at, <<>>)
  <2>1. 0 \in D
    OBVIOUS
  <2> QED
    BY <1>9, <2>1
<1>14. \A k \in 1..n : u[k] = Then(u[k - 1], each)
  <2>1. \A k \in 1..n : k \in D /\ k # 0
    OBVIOUS
  <2> QED
    BY <1>9, <2>1
<1> QED
  BY <1>7, <1>11, <1>12, <1>13, <1>14

\* A loop returns a result if each of its turns does.
LEMMA RepeatType ==
  ASSUME NEW S, NEW each \in [Nat -> Result(S)], NEW n \in Nat, NEW at \in Nat
  PROVE  Repeat(each, n, at) \in Result(S)
  BY RepeatSteps, n \in 0..n

----------------------------------------------------------------------------
\* The calls of a conversion end

\* A call for a type nested less deep, or for a later member, ranks lower.
CallRank ==
  [c \in Calls |-> IF c[2] <= Depth[c[1]] THEN Depth[c[1]] + 1 - c[2] ELSE 0]

\* A call is a type, the number of a member and a place.
LEMMA CallsAre ==
  ASSUME NEW t \in Types, NEW i \in Nat \ {0}, NEW at \in Nat
  PROVE  <<t, i, at>> \in Calls /\ CallRank[<<t, i, at>>] = IF i <= Depth[t] THEN Depth[t] + 1 - i ELSE 0
<1>1. <<t, i, at>> \in Calls
  BY DEF Calls
<1> QED
  BY <1>1 DEF CallRank

\* The parts of a call.
LEMMA CallParts ==
  ASSUME NEW c \in Calls
  PROVE  c[1] \in Types /\ c[2] \in Nat \ {0} /\ c[3] \in Nat /\ c = <<c[1], c[2], c[3]>>
  BY DEF Calls

\* The rank of a call is a number.
LEMMA CallRankType == CallRank \in [Calls -> Nat]
<1> SUFFICES ASSUME NEW c \in Calls
             PROVE  (IF c[2] <= Depth[c[1]] THEN Depth[c[1]] + 1 - c[2] ELSE 0) \in Nat
  BY DEF CallRank
<1>1. c[2] \in Nat /\ Depth[c[1]] \in Nat
  BY CallParts, MemberCount
<1> QED
  BY <1>1

\* The calls a call makes rank below it.
LEMMA CallDescends ==
  ASSUME NEW t \in Types, NEW i \in 1..Len(Definitions[t]), NEW at \in Nat, NEW at2 \in Nat
  PROVE  /\ <<t, i, at>> \in Calls
         /\ <<t, i + 1, at2>> \in Calls
         /\ CallRank[<<t, i + 1, at2>>] < CallRank[<<t, i, at>>]
         /\ Definitions[t][i].type_id = "MESSAGE" =>
              /\ <<Definitions[t][i].sub, 1, at2>> \in Calls
              /\ CallRank[<<Definitions[t][i].sub, 1, at2>>] < CallRank[<<t, i, at>>]
<1>1. PICK n, d : n = Len(Definitions[t]) /\ d = Depth[t]
  OBVIOUS
<1>2. n \in Nat /\ d \in Nat /\ n <= d /\ i \in Nat \ {0} /\ i <= n /\ i + 1 \in Nat \ {0}
  BY <1>1, MemberCount
<1>3. /\ <<t, i, at>> \in Calls /\ CallRank[<<t, i, at>>] = IF i <= d THEN d + 1 - i ELSE 0
      /\ <<t, i + 1, at2>> \in Calls
      /\ CallRank[<<t, i + 1, at2>>] = IF i + 1 <= d THEN d + 1 - (i + 1) ELSE 0
  BY <1>1, <1>2, CallsAre
<1>4. CallRank[<<t, i + 1, at2>>] < CallRank[<<t, i, at>>]
  BY <1>2, <1>3
<1>5. ASSUME Definitions[t][i].type_id = "MESSAGE"
      PROVE  /\ <<Definitions[t][i].sub, 1, at2>> \in Calls
             /\ CallRank[<<Definitions[t][i].sub, 1, at2>>] < CallRank[<<t, i, at>>]
  <2>1. PICK s : s = Definitions[t][i].sub
    OBVIOUS
  <2>2. s \in Types /\ n + Depth[s] <= d /\ Depth[s] \in Nat
    <3>1. i \in DOMAIN Definitions[t]
      BY MemberCount
    <3>2. s \in Types /\ n + Depth[s] <= d
      BY <1>1, <1>5, <2>1, <3>1, CodecAssumption
    <3> QED
      BY <3>2, MemberCount
  <2>3. <<s, 1, at2>> \in Calls /\ CallRank[<<s, 1, at2>>] = IF 1 <= Depth[s] THEN Depth[s] + 1 - 1 ELSE 0
    BY <2>2, CallsAre
  <2> QED
    BY <1>2, <1>3, <2>1, <2>2, <2>3
<1> QED
  BY <1>3, <1>4, <1>5

----------------------------------------------------------------------------
\* From ROS 2 to ROS 1: the writer

\* What a string, the elements of an array and the seq of a header write.
StringAt(msg) == [p \in Nat |-> Going(p + 1, LE32(Len(Leaf(msg, p + 1))) \o Leaf(msg, p + 1))]
\* The elements of a member, one for each turn of the loop over them.
Elements(m, nested) ==
  [p \in Nat |->
     CASE ~IsSequence(m) -> Repeat(nested, Count(m), p)
       [] IsSequence(m) /\ m.is_upper_bound -> Stop(Going(p, <<>>), "undefined")
       [] IsSequence(m) /\ ~m.is_upper_bound -> Going(p + 1, <<>>)]
\* The four zero bytes for the seq of a header, where it is written.
SeqWritten(m) == IF WritesSeq(m) THEN LE32(0) ELSE <<>>

\* What write_member does, by the kind of the member.
LEMMA WriteCases ==
  ASSUME NEW m, NEW msg, NEW at, NEW nested
  PROVE  LET c == write_member(msg, m, at, nested) IN
         /\ m.type_id = "MESSAGE" => c = Then(Going(at, SeqWritten(m)), Elements(m, nested))
         /\ m.type_id = "OTHER" => c = Stop(Going(at, <<>>), "false")
         /\ m.type_id \in Scalars \cup {"STRING"} /\ IsSequence(m) => c = Stop(Going(at, <<>>), "throws")
         /\ m.type_id \in Scalars /\ ~IsSequence(m) => c = Going(at + 1, Leaf(msg, at + 1))
         /\ m.type_id = "STRING" /\ ~IsSequence(m) => c = Repeat(StringAt(msg), Count(m), at)
<1>1. CASE m.type_id = "MESSAGE"
  BY <1>1, WidthFacts DEF write_member, Elements, SeqWritten
<1>2. CASE m.type_id = "OTHER"
  BY <1>2, WidthFacts DEF write_member
<1>3. CASE m.type_id \in Scalars
  BY <1>3, WidthFacts DEF write_member
<1>4. CASE m.type_id = "STRING"
  BY <1>4, WidthFacts DEF write_member, StringAt
<1> QED
  BY <1>1, <1>2, <1>3, <1>4

\* A leaf is bytes.
LEMMA LeafType ==
  ASSUME NEW msg \in Seq(Seq(Byte)), NEW k
  PROVE  Leaf(msg, k) \in Seq(Byte)
<1>1. <<>> \in Seq(Byte)
  OBVIOUS
<1> QED
  BY <1>1 DEF Leaf

\* A string writes bytes.
LEMMA StringAtType ==
  ASSUME NEW msg \in Seq(Seq(Byte))
  PROVE  StringAt(msg) \in [Nat -> Result(Byte)]
<1> SUFFICES ASSUME NEW p \in Nat
             PROVE  Going(p + 1, LE32(Len(Leaf(msg, p + 1))) \o Leaf(msg, p + 1)) \in Result(Byte)
  BY DEF StringAt
<1>1. PICK leaf : leaf = Leaf(msg, p + 1)
  OBVIOUS
<1>2. leaf \in Seq(Byte) /\ LE32(Len(leaf)) \in Seq(Byte)
  <2>1. leaf \in Seq(Byte)
    BY <1>1, LeafType
  <2>2. Len(leaf) \in Nat
    BY <2>1
  <2> QED
    BY <2>1, <2>2, LE32Type
<1>3. LE32(Len(leaf)) \o leaf \in Seq(Byte) /\ p + 1 \in Nat
  BY <1>2
<1> QED
  BY <1>1, <1>3, GoingType

\* An element writes bytes if the messages nested in it do.
LEMMA ElementsType ==
  ASSUME NEW m, Count(m) \in Nat, NEW nested \in [Nat -> Result(Byte)]
  PROVE  Elements(m, nested) \in [Nat -> Result(Byte)]
<1> SUFFICES ASSUME NEW p \in Nat PROVE Elements(m, nested)[p] \in Result(Byte)
  BY DEF Elements
<1>1. CASE ~IsSequence(m)
  <2>1. Elements(m, nested)[p] = Repeat(nested, Count(m), p)
    BY <1>1 DEF Elements
  <2> QED
    BY <2>1, RepeatType
<1>2. CASE IsSequence(m) /\ m.is_upper_bound
  <2>1. Elements(m, nested)[p] = Stop(Going(p, <<>>), "undefined")
    BY <1>2 DEF Elements
  <2> QED
    BY <2>1, StopNothing DEF Outcomes
<1>3. CASE IsSequence(m) /\ ~m.is_upper_bound
  <2>1. Elements(m, nested)[p] = Going(p + 1, <<>>)
    BY <1>3 DEF Elements
  <2> QED
    BY <2>1, GoingNothing
<1> QED
  BY <1>1, <1>2, <1>3

\* The seq of a header is bytes.
LEMMA SeqWrittenType ==
  ASSUME NEW m
  PROVE  SeqWritten(m) \in Seq(Byte)
  BY LE32Type, EmptyIsSeq, 0 \in Nat DEF SeqWritten

\* A member writes bytes if the messages nested in it do.
LEMMA WriteMemberType ==
  ASSUME NEW t \in Types, NEW i \in 1..Len(Definitions[t]),
         NEW msg \in Seq(Seq(Byte)), NEW at \in Nat, NEW nested,
         Definitions[t][i].type_id = "MESSAGE" => nested \in [Nat -> Result(Byte)]
  PROVE  write_member(msg, Definitions[t][i], at, nested) \in Result(Byte)
<1>1. PICK m : m = Definitions[t][i]
  OBVIOUS
<1>2. PICK c : c = write_member(msg, m, at, nested)
  OBVIOUS
<1>3. m.type_id \in Scalars \cup {"STRING", "MESSAGE", "OTHER"} /\ Count(m) \in Nat
  BY <1>1, MemberFacts, CountFacts
<1>4. CASE m.type_id = "MESSAGE"
  <2>1. c = Then(Going(at, SeqWritten(m)), Elements(m, nested))
    BY <1>1, <1>2, <1>4, WriteCases
  <2>2. Going(at, SeqWritten(m)) \in Result(Byte) /\ Going(at, SeqWritten(m)).at = at
    BY GoingType, SeqWrittenType
  <2>3. Elements(m, nested)[at] \in Result(Byte)
    BY <1>1, <1>3, <1>4, ElementsType
  <2>4. Then(Going(at, SeqWritten(m)), Elements(m, nested)) \in Result(Byte)
    BY <2>2, <2>3, ThenSteps
  <2> QED
    BY <1>1, <1>2, <2>1, <2>4
<1>5. CASE m.type_id = "OTHER"
  <2>1. c = Stop(Going(at, <<>>), "false")
    BY <1>1, <1>2, <1>5, WriteCases
  <2> QED
    BY <1>1, <1>2, <2>1, StopNothing DEF Outcomes
<1>6. CASE m.type_id \in Scalars \cup {"STRING"} /\ IsSequence(m)
  <2>1. c = Stop(Going(at, <<>>), "throws")
    BY <1>1, <1>2, <1>6, WriteCases
  <2> QED
    BY <1>1, <1>2, <2>1, StopNothing DEF Outcomes
<1>7. CASE m.type_id \in Scalars /\ ~IsSequence(m)
  <2>1. c = Going(at + 1, Leaf(msg, at + 1))
    BY <1>1, <1>2, <1>7, WriteCases
  <2> QED
    <3>1. Leaf(msg, at + 1) \in Seq(Byte) /\ at + 1 \in Nat
      BY LeafType
    <3>2. Going(at + 1, Leaf(msg, at + 1)) \in Result(Byte)
      BY <3>1, GoingType
    <3> QED
      BY <1>1, <1>2, <2>1, <3>2
<1>8. CASE m.type_id = "STRING" /\ ~IsSequence(m)
  <2>1. c = Repeat(StringAt(msg), Count(m), at)
    BY <1>1, <1>2, <1>8, WriteCases
  <2> QED
    BY <1>1, <1>2, <1>3, <2>1, RepeatType, StringAtType
<1> QED
  BY <1>3, <1>4, <1>5, <1>6, <1>7, <1>8

\* A member that is no message writes the same whatever the nested calls return.
LEMMA WriteMemberAlone ==
  ASSUME NEW t \in Types, NEW i \in 1..Len(Definitions[t]),
         Definitions[t][i].type_id # "MESSAGE", NEW msg, NEW at, NEW x, NEW y
  PROVE  write_member(msg, Definitions[t][i], at, x) = write_member(msg, Definitions[t][i], at, y)
<1>1. PICK m : m = Definitions[t][i]
  OBVIOUS
<1>2. m.type_id \in Scalars \cup {"STRING", "OTHER"}
  BY <1>1, MemberFacts
<1>3. CASE m.type_id = "OTHER"
  BY <1>1, <1>3, WriteCases
<1>4. CASE m.type_id \in Scalars \cup {"STRING"} /\ IsSequence(m)
  BY <1>1, <1>4, WriteCases
<1>5. CASE m.type_id \in Scalars /\ ~IsSequence(m)
  BY <1>1, <1>5, WriteCases
<1>6. CASE m.type_id = "STRING" /\ ~IsSequence(m)
  BY <1>1, <1>6, WriteCases
<1> QED
  BY <1>2, <1>3, <1>4, <1>5, <1>6

\* A call of the writer, given what the calls it makes return.
WriteCall(msg, f, c) ==
  IF c[2] > Len(Definitions[c[1]]) THEN Going(c[3], <<>>)
  ELSE Then(write_member(msg, Definitions[c[1]][c[2]], c[3], From(f, Definitions[c[1]][c[2]].sub, 1)),
            From(f, c[1], c[2] + 1))
\* The equation of the writer, and its solution.
IsWriter(f, msg) == f = [c \in Calls |-> WriteCall(msg, f, c)]
Writer(msg) == CHOOSE f : IsWriter(f, msg)

\* serialized_struct_to_ros1 is the first call of the writer.
LEMMA ConversionIsWriter ==
  ASSUME NEW msg, NEW t
  PROVE  serialized_struct_to_ros1(msg, t) = Writer(msg)[<<t, 1, 0>>]
  BY DEF serialized_struct_to_ros1, Writer, IsWriter, WriteCall

\* What follows a member depends only on calls that rank lower.
LEMMA FromBelow ==
  ASSUME NEW t \in Types, NEW i \in 1..Len(Definitions[t]), NEW at \in Nat, NEW f, NEW g,
         \A y \in Calls : CallRank[y] < CallRank[<<t, i, at>>] => f[y] = g[y]
  PROVE  /\ From(f, t, i + 1) = From(g, t, i + 1)
         /\ Definitions[t][i].type_id = "MESSAGE" =>
              From(f, Definitions[t][i].sub, 1) = From(g, Definitions[t][i].sub, 1)
<1>1. \A at2 \in Nat : f[<<t, i + 1, at2>>] = g[<<t, i + 1, at2>>]
  BY CallDescends
<1>2. Definitions[t][i].type_id = "MESSAGE" =>
        \A at2 \in Nat : f[<<Definitions[t][i].sub, 1, at2>>] = g[<<Definitions[t][i].sub, 1, at2>>]
  BY CallDescends
<1> QED
  BY <1>1, <1>2 DEF From

\* What follows a member returns a result.
LEMMA FromType ==
  ASSUME NEW t \in Types, NEW i \in 1..Len(Definitions[t]), NEW at \in Nat, NEW f, NEW V,
         \A y \in Calls : CallRank[y] < CallRank[<<t, i, at>>] => f[y] \in V
  PROVE  /\ From(f, t, i + 1) \in [Nat -> V]
         /\ Definitions[t][i].type_id = "MESSAGE" => From(f, Definitions[t][i].sub, 1) \in [Nat -> V]
<1>1. \A at2 \in Nat : f[<<t, i + 1, at2>>] \in V
  BY CallDescends
<1>2. Definitions[t][i].type_id = "MESSAGE" =>
        \A at2 \in Nat : f[<<Definitions[t][i].sub, 1, at2>>] \in V
  BY CallDescends
<1> QED
  BY <1>1, <1>2 DEF From

\* A call of the writer returns a result if the calls it makes do.
LEMMA WriteCallType ==
  ASSUME NEW msg \in Seq(Seq(Byte)), NEW c \in Calls, NEW f,
         \A y \in Calls : CallRank[y] < CallRank[c] => f[y] \in Result(Byte)
  PROVE  WriteCall(msg, f, c) \in Result(Byte)
<1>1. PICK t, i, at : t = c[1] /\ i = c[2] /\ at = c[3]
  OBVIOUS
<1>2. t \in Types /\ i \in Nat \ {0} /\ at \in Nat /\ c = <<t, i, at>> /\ Len(Definitions[t]) \in Nat
  BY <1>1, CallParts, MemberCount
<1>3. CASE i > Len(Definitions[t])
  <2>1. WriteCall(msg, f, c) = Going(at, <<>>)
    BY <1>1, <1>3 DEF WriteCall
  <2> QED
    BY <1>2, <2>1, GoingNothing
<1>4. CASE ~(i > Len(Definitions[t]))
  <2>1. i \in 1..Len(Definitions[t])
    BY <1>2, <1>4
  <2>2. PICK m, w, r : /\ m = Definitions[t][i]
                       /\ w = write_member(msg, m, at, From(f, m.sub, 1))
                       /\ r = From(f, t, i + 1)
    OBVIOUS
  <2>3. WriteCall(msg, f, c) = Then(w, r)
    BY <1>1, <1>4, <2>2 DEF WriteCall
  <2>4. r \in [Nat -> Result(Byte)] /\ (m.type_id = "MESSAGE" => From(f, m.sub, 1) \in [Nat -> Result(Byte)])
    BY <1>2, <2>1, <2>2, FromType
  <2>5. w \in Result(Byte)
    BY <1>2, <2>1, <2>2, <2>4, WriteMemberType
  <2>6. r[w.at] \in Result(Byte)
    BY <2>4, <2>5 DEF Result
  <2> QED
    BY <2>3, <2>5, <2>6, ThenSteps
<1> QED
  BY <1>3, <1>4

\* A call of the writer depends only on calls that rank lower.
LEMMA WriteCallDescends ==
  ASSUME NEW msg, NEW c \in Calls, NEW f, NEW g,
         \A y \in Calls : CallRank[y] < CallRank[c] => f[y] = g[y]
  PROVE  WriteCall(msg, f, c) = WriteCall(msg, g, c)
<1>1. PICK t, i, at : t = c[1] /\ i = c[2] /\ at = c[3]
  OBVIOUS
<1>2. t \in Types /\ i \in Nat \ {0} /\ at \in Nat /\ c = <<t, i, at>> /\ Len(Definitions[t]) \in Nat
  BY <1>1, CallParts, MemberCount
<1>3. CASE i > Len(Definitions[t])
  BY <1>1, <1>3 DEF WriteCall
<1>4. CASE ~(i > Len(Definitions[t]))
  <2>1. i \in 1..Len(Definitions[t])
    BY <1>2, <1>4
  <2>2. PICK m : m = Definitions[t][i]
    OBVIOUS
  <2>3. /\ From(f, t, i + 1) = From(g, t, i + 1)
        /\ m.type_id = "MESSAGE" => From(f, m.sub, 1) = From(g, m.sub, 1)
    BY <1>2, <2>1, <2>2, FromBelow
  <2>4. write_member(msg, m, at, From(f, m.sub, 1)) = write_member(msg, m, at, From(g, m.sub, 1))
    <3>1. CASE m.type_id = "MESSAGE"
      BY <2>3, <3>1
    <3>2. CASE m.type_id # "MESSAGE"
      BY <2>1, <2>2, <3>2, <1>2, WriteMemberAlone
    <3> QED
      BY <3>1, <3>2
  <2> QED
    BY <1>1, <1>4, <2>2, <2>3, <2>4 DEF WriteCall
<1> QED
  BY <1>3, <1>4

\* The recursion of the writer has a solution: every call ends and returns a result.
LEMMA WriterSteps ==
  ASSUME NEW msg \in Seq(Seq(Byte))
  PROVE  \A c \in Calls : Writer(msg)[c] \in Result(Byte) /\ Writer(msg)[c] = WriteCall(msg, Writer(msg), c)
<1> DEFINE V == Result(Byte)
           F == [f \in [Calls -> V] |-> [c \in Calls |-> WriteCall(msg, f, c)]]
<1>1. Descends(Calls, CallRank, V, F)
  <2>1. CallRank \in [Calls -> Nat] /\ V # {}
    <3>1. Going(0, <<>>) \in V
      BY GoingNothing, 0 \in Nat
    <3> QED
      BY <3>1, CallRankType
  <2>2. F \in [[Calls -> V] -> [Calls -> V]]
    <3> SUFFICES ASSUME NEW f \in [Calls -> V], NEW c \in Calls PROVE WriteCall(msg, f, c) \in V
      OBVIOUS
    <3>1. \A y \in Calls : f[y] \in V
      OBVIOUS
    <3> QED
      BY <3>1, WriteCallType
  <2>3. ASSUME NEW f \in [Calls -> V], NEW g \in [Calls -> V], NEW c \in Calls,
               \A y \in Calls : CallRank[y] < CallRank[c] => f[y] = g[y]
        PROVE  F[f][c] = F[g][c]
    <3> HIDE DEF V
    <3>1. F[f][c] = WriteCall(msg, f, c) /\ F[g][c] = WriteCall(msg, g, c)
      OBVIOUS
    <3> QED
      BY <2>3, <3>1, WriteCallDescends
  <2> HIDE DEF V, F
  <2> QED
    BY <2>1, <2>2, <2>3 DEF Descends
<1>2. PICK f : f = Solution(Calls, V, F)
  OBVIOUS
<1>3. f \in [Calls -> V] /\ f = F[f]
  <2> HIDE DEF V, F
  <2> QED
    BY <1>1, <1>2, RecursionSolved
<1>4. IsWriter(f, msg)
  <2> HIDE DEF V
  <2> QED
    BY <1>3 DEF IsWriter
<1>5. PICK w : w = Writer(msg)
  OBVIOUS
<1>6. IsWriter(w, msg)
  BY <1>4, <1>5 DEF Writer
<1>7. \A c \in Calls : w[c] = WriteCall(msg, w, c)
  BY <1>6 DEF IsWriter
<1> DEFINE T == {c \in Calls : w[c] \in V}
<1>8. ASSUME NEW c \in Calls, \A y \in Calls : CallRank[y] < CallRank[c] => y \in T
      PROVE  c \in T
  <2>1. WriteCall(msg, w, c) \in V
    BY <1>8, WriteCallType
  <2> HIDE DEF V
  <2> QED
    BY <1>7, <2>1
<1>9. Calls \subseteq T
  <2> HIDE DEF T
  <2> QED
    BY <1>8, CallRankType, RankInduction
<1> QED
  BY <1>5, <1>7, <1>9

----------------------------------------------------------------------------
\* The members of a type from one on

\* The pieces of the members of a type from the i-th on.
TailPieces(t, i) == FlattenSeq(Onward([j \in DOMAIN Definitions[t] |-> MemberPieces(Layout, t, j)], i))

\* The pieces of a member are pieces.
LEMMA MemberPiecesType ==
  ASSUME NEW t \in Types, NEW i \in 1..Len(Definitions[t])
  PROVE  MemberPieces(Layout, t, i) \in Seq(PieceType)
<1>1. Definitions[t][i].type_id = "MESSAGE" => Layout[Definitions[t][i].sub] \in Seq(PieceType)
  BY MemberFacts, LayoutSteps
<1> QED
  BY <1>1, PiecesType DEF MemberPieces

\* The members from the i-th on are the i-th and those after it.
LEMMA TailPiecesSteps ==
  ASSUME NEW t \in Types
  PROVE  /\ Layout[t] = Header(t) \o TailPieces(t, 1)
         /\ \A i \in Nat \ {0} : TailPieces(t, i) \in Seq(PieceType)
         /\ \A i \in Nat : i > Len(Definitions[t]) => TailPieces(t, i) = <<>>
         /\ \A i \in 1..Len(Definitions[t]) :
              TailPieces(t, i) = MemberPieces(Layout, t, i) \o TailPieces(t, i + 1)
<1>1. PICK s, Q : s = [j \in DOMAIN Definitions[t] |-> MemberPieces(Layout, t, j)] /\ Q = Seq(PieceType)
  OBVIOUS
<1>2. s = [j \in 1..Len(Definitions[t]) |-> s[j]] /\ \A j \in 1..Len(Definitions[t]) : s[j] \in Q
  BY <1>1, MemberCount, MemberPiecesType
<1>3. s \in Seq(Q) /\ Len(s) = Len(Definitions[t])
  BY <1>2, MemberCount, FunctionIsSeq
<1>4. Onward(s, 1) = s /\ (\A i \in Nat \ {0} : Onward(s, i) \in Seq(Q))
      /\ \A i \in Nat : i > Len(s) => Onward(s, i) = <<>>
  BY <1>3, TailSteps
<1>5. \A i \in Nat : TailPieces(t, i) = FlattenSeq(Onward(s, i))
  BY <1>1 DEF TailPieces
<1>6. Layout[t] = Header(t) \o TailPieces(t, 1)
  <2>1. Layout[t] = Header(t) \o FlattenSeq(s)
    BY <1>1, LayoutSteps DEF TypePieces
  <2> QED
    BY <1>4, <1>5, <2>1
<1>7. \A i \in Nat \ {0} : TailPieces(t, i) \in Seq(PieceType)
  <2> SUFFICES ASSUME NEW i \in Nat \ {0} PROVE TailPieces(t, i) \in Seq(PieceType)
    OBVIOUS
  <2>1. Onward(s, i) \in Seq(Seq(PieceType))
    BY <1>1, <1>4
  <2> QED
    BY <1>5, <2>1, FlattenType
<1>8. \A i \in Nat : i > Len(Definitions[t]) => TailPieces(t, i) = <<>>
  BY <1>3, <1>4, <1>5, FlattenEmpty
<1>9. ASSUME NEW i \in 1..Len(Definitions[t])
      PROVE  TailPieces(t, i) = MemberPieces(Layout, t, i) \o TailPieces(t, i + 1)
  <2>1. s \in Seq(Seq(PieceType)) /\ i \in 1..Len(s)
    BY <1>1, <1>3
  <2>2. FlattenSeq(Onward(s, i)) = s[i] \o FlattenSeq(Onward(s, i + 1))
    BY <2>1, FlattenTail
  <2>3. s[i] = MemberPieces(Layout, t, i) /\ i \in Nat /\ i + 1 \in Nat
    BY <1>1, MemberCount
  <2> QED
    BY <1>5, <2>2, <2>3
<1> QED
  BY <1>6, <1>7, <1>8, <1>9

----------------------------------------------------------------------------
\* What the node writes: seqs of zero

\* The seqs the node writes are zero; the bytes of a layout with such seqs; and the bytes
\* the node writes for it, which are those without its sequences of messages.
Zeros == [k \in Nat |-> LE32(0)]
FullWire(L, msg, at) == WireFrom(L, msg, at, Zeros, 0)
ZeroWire(L, msg, at) == FullWire(Omitting(L), msg, at)
\* The leaves of a layout are there.
Room(L, msg, at) == at \in Nat /\ at + LeafCount(L) <= Len(msg)

\* Where the leaves are, leaves and seqs are: the seqs of zero are always there.
LEMMA RoomHolds ==
  ASSUME NEW msg \in Seq(Seq(Byte)), NEW L \in Seq(PieceType), NEW at, Room(L, msg, at), NEW q \in Nat
  PROVE  Holds(L, msg, at, Zeros, q)
<1>1. LeafCount(L) \in Nat /\ SeqCount(L) \in Nat /\ at \in Nat /\ at + LeafCount(L) <= Len(msg)
  BY CountTypes DEF Room
<1>2. \A k \in 1..LeafCount(L) : at + k \in 1..Len(msg)
  BY <1>1
<1>3. \A k \in 1..LeafCount(L) : msg[at + k] \in Seq(Byte)
  BY <1>2
<1>4. \A k \in 1..SeqCount(L) : q + k \in Nat
  BY <1>1
<1>5. \A k \in 1..SeqCount(L) : Zeros[q + k] \in Seq(Byte)
  <2>1. LE32(0) \in Seq(Byte)
    BY LE32Type, 0 \in Nat
  <2> QED
    BY <1>4, <2>1 DEF Zeros
<1> QED
  BY <1>1, <1>3, <1>5 DEF Holds

\* With seqs of zero a layout has bytes.
LEMMA FullWireType ==
  ASSUME NEW msg \in Seq(Seq(Byte)), NEW L \in Seq(PieceType), NEW at, Room(L, msg, at)
  PROVE  FullWire(L, msg, at) \in Seq(Byte)
  BY RoomHolds, WireFromType, 0 \in Nat DEF FullWire

\* The leaves of two layouts are those of each.
LEMMA RoomParts ==
  ASSUME NEW msg \in Seq(Seq(Byte)), NEW a \in Seq(PieceType), NEW b \in Seq(PieceType), NEW at,
         Room(a \o b, msg, at)
  PROVE  Room(a, msg, at) /\ Room(b, msg, at + LeafCount(a))
         /\ (at + LeafCount(a)) + LeafCount(b) = at + LeafCount(a \o b)
<1>1. /\ LeafCount(a) \in Nat /\ LeafCount(b) \in Nat /\ at \in Nat
      /\ LeafCount(a \o b) = LeafCount(a) + LeafCount(b) /\ at + LeafCount(a \o b) <= Len(msg)
      /\ Len(msg) \in Nat
  BY CountTypes, CountsAdd DEF Room
<1> QED
  BY <1>1 DEF Room

\* The bytes of two layouts, one behind the other.
LEMMA FullWireConcat ==
  ASSUME NEW msg \in Seq(Seq(Byte)), NEW a \in Seq(PieceType), NEW b \in Seq(PieceType), NEW at,
         Room(a \o b, msg, at)
  PROVE  FullWire(a \o b, msg, at) = FullWire(a, msg, at) \o FullWire(b, msg, at + LeafCount(a))
<1>1. PICK p, q : p = at + LeafCount(a) /\ q = SeqCount(a)
  OBVIOUS
<1>2. p \in Nat /\ q \in Nat /\ at \in Nat /\ SeqCount(b) \in Nat
  BY <1>1, CountTypes DEF Room
<1>3. a \o b \in Seq(PieceType)
  OBVIOUS
<1>4. Holds(a \o b, msg, at, Zeros, 0)
  BY <1>3, RoomHolds, 0 \in Nat
<1>5. WireFrom(a \o b, msg, at, Zeros, 0) = WireFrom(a, msg, at, Zeros, 0) \o WireFrom(b, msg, p, Zeros, 0 + q)
  <2>1. WireFrom(a \o b, msg, at, Zeros, 0) =
          WireFrom(a, msg, at, Zeros, 0) \o WireFrom(b, msg, at + LeafCount(a), Zeros, 0 + SeqCount(a))
    BY <1>4, WireFromConcat
  <2> QED
    BY <1>1, <2>1
<1>6. \A k \in 1..SeqCount(b) : Zeros[q + k] = Zeros[0 + k]
  <2>1. \A k \in 1..SeqCount(b) : q + k \in Nat /\ 0 + k \in Nat
    BY <1>2
  <2> QED
    BY <2>1 DEF Zeros
<1>7. WireFrom(b, msg, p, Zeros, q) = WireFrom(b, msg, p, Zeros, 0)
  <2>1. PICK q2 : q2 = 0
    OBVIOUS
  <2>2. q2 \in Nat /\ \A k \in 1..SeqCount(b) : Zeros[q + k] = Zeros[q2 + k]
    BY <1>6, <2>1
  <2>3. \A k \in 1..LeafCount(b) : msg[p + k] = msg[p + k]
    OBVIOUS
  <2>4. WireFrom(b, msg, p, Zeros, q) = WireFrom(b, msg, p, Zeros, q2)
    BY <1>2, <2>2, <2>3, WireFromAgrees
  <2> QED
    BY <2>1, <2>4
<1>8. 0 + q = q
  BY <1>2
<1> QED
  BY <1>1, <1>5, <1>7, <1>8 DEF FullWire

\* What is omitted does not change where the seqs and the leaves are.
LEMMA OmittingKeeps ==
  ASSUME NEW L \in Seq(PieceType)
  PROVE  /\ Omitting(L) \in Seq(PieceType) /\ Len(Omitting(L)) = Len(L)
         /\ SeqCount(Omitting(L)) = SeqCount(L) /\ LeafCount(Omitting(L)) = LeafCount(L)
<1>1. PICK o, n : o = Omitting(L) /\ n = Len(L)
  OBVIOUS
<1>2. n \in Nat /\ DOMAIN L = 1..n
  BY <1>1
<1>3. \A j \in 1..n : o[j] \in PieceType /\ (o[j].kind = "seq" <=> L[j].kind = "seq")
  <2> SUFFICES ASSUME NEW j \in 1..n
               PROVE  o[j] \in PieceType /\ (o[j].kind = "seq" <=> L[j].kind = "seq")
    OBVIOUS
  <2>1. o[j] = IF L[j].kind = "messages" THEN Piece("omitted", 0) ELSE L[j]
    BY <1>1, <1>2 DEF Omitting
  <2>2. Piece("omitted", 0) \in PieceType /\ Piece("omitted", 0).kind = "omitted"
    BY DEF Piece, PieceType
  <2>3. L[j] \in PieceType
    BY <1>2
  <2> QED
    BY <2>1, <2>2, <2>3
<1>4. o \in Seq(PieceType) /\ Len(o) = n
  <2>1. o = [j \in 1..n |-> o[j]]
    BY <1>1, <1>2 DEF Omitting
  <2> QED
    BY <1>2, <1>3, <2>1, FunctionIsSeq
<1>5. {j \in 1..n : o[j].kind = "seq"} = {j \in 1..n : L[j].kind = "seq"}
  BY <1>3
<1>6. Seqs(o, n) = Seqs(L, n) /\ Leaves(o, n) = Leaves(L, n)
  BY <1>5 DEF Seqs, Leaves
<1> QED
  BY <1>1, <1>4, <1>6 DEF SeqCount, LeafCount

\* What is omitted of two layouts, one behind the other.
LEMMA OmittingConcat ==
  ASSUME NEW a \in Seq(PieceType), NEW b \in Seq(PieceType)
  PROVE  Omitting(a \o b) = Omitting(a) \o Omitting(b)
<1>1. PICK c, x, y, z, n, m : /\ c = a \o b /\ n = Len(a) /\ m = Len(b)
                              /\ x = Omitting(a) /\ y = Omitting(b) /\ z = Omitting(c)
  OBVIOUS
<1>2. /\ n \in Nat /\ m \in Nat /\ c \in Seq(PieceType) /\ Len(c) = n + m
      /\ DOMAIN a = 1..n /\ DOMAIN b = 1..m /\ DOMAIN c = 1..(n + m)
      /\ \A j \in 1..n : c[j] = a[j]
      /\ \A j \in 1..m : c[n + j] = b[j]
  BY <1>1
<1>3. /\ x \in Seq(PieceType) /\ Len(x) = n
      /\ y \in Seq(PieceType) /\ Len(y) = m
      /\ z \in Seq(PieceType) /\ Len(z) = n + m
  BY <1>1, <1>2, OmittingKeeps
<1>4. \A j \in 1..n : z[j] = x[j]
  <2> SUFFICES ASSUME NEW j \in 1..n PROVE z[j] = x[j]
    OBVIOUS
  <2>1. j \in DOMAIN a /\ j \in DOMAIN c /\ c[j] = a[j]
    BY <1>2
  <2> QED
    BY <1>1, <2>1 DEF Omitting
<1>5. \A j \in 1..m : z[n + j] = y[j]
  <2> SUFFICES ASSUME NEW j \in 1..m PROVE z[n + j] = y[j]
    OBVIOUS
  <2>1. j \in DOMAIN b /\ n + j \in DOMAIN c /\ c[n + j] = b[j]
    BY <1>2
  <2> QED
    BY <1>1, <2>1 DEF Omitting
<1>6. PICK w : w = x \o y
  OBVIOUS
<1>7. /\ w \in Seq(PieceType) /\ Len(w) = n + m
      /\ \A j \in 1..n : w[j] = x[j]
      /\ \A j \in 1..m : w[n + j] = y[j]
  <2>1. PICK S : S = PieceType
    OBVIOUS
  <2>2. x \in Seq(S) /\ y \in Seq(S)
    BY <1>3, <2>1
  <2>3. /\ x \o y \in Seq(S) /\ Len(x \o y) = Len(x) + Len(y)
        /\ \A i \in 1..Len(x) : (x \o y)[i] = x[i]
        /\ \A i \in 1..Len(y) : (x \o y)[Len(x) + i] = y[i]
    BY <2>2, ConcatElements
  <2> QED
    BY <1>3, <1>6, <2>1, <2>3
<1>8. \A i \in 1..(n + m) : z[i] = w[i]
  <2> SUFFICES ASSUME NEW i \in 1..(n + m) PROVE z[i] = w[i]
    OBVIOUS
  <2>1. CASE i \in 1..n
    BY <1>4, <1>7, <2>1
  <2>2. CASE i \notin 1..n
    <3>1. i - n \in 1..m /\ n + (i - n) = i
      BY <1>2, <2>2
    <3> QED
      BY <1>5, <1>7, <3>1
  <2> QED
    BY <2>1, <2>2
<1>9. z = w
  BY <1>3, <1>7, <1>8, SameElements
<1> QED
  BY <1>1, <1>6, <1>9

\* What is omitted of one piece: a sequence of messages.
LEMMA OmittingOne ==
  ASSUME NEW e \in PieceType
  PROVE  /\ e.kind # "messages" => Omitting(<<e>>) = <<e>>
         /\ e.kind = "messages" => Omitting(<<e>>) = <<Piece("omitted", 0)>>
<1>1. DOMAIN <<e>> = {1} /\ <<e>>[1] = e
  OBVIOUS
<1>2. Omitting(<<e>>) = [j \in {1} |-> IF e.kind = "messages" THEN Piece("omitted", 0) ELSE e]
  BY <1>1 DEF Omitting
<1>3. \A x : <<x>> = [j \in {1} |-> x]
  OBVIOUS
<1> QED
  BY <1>2, <1>3

\* Of no pieces nothing is omitted.
LEMMA OmittingNone == Omitting(<<>>) = <<>>
  BY DEF Omitting

\* Where the leaves are, they are without what is omitted.
LEMMA RoomOmitting ==
  ASSUME NEW msg \in Seq(Seq(Byte)), NEW L \in Seq(PieceType), NEW at, Room(L, msg, at)
  PROVE  Omitting(L) \in Seq(PieceType) /\ Room(Omitting(L), msg, at)
  BY OmittingKeeps DEF Room

\* What the node writes is bytes.
LEMMA ZeroWireType ==
  ASSUME NEW msg \in Seq(Seq(Byte)), NEW L \in Seq(PieceType), NEW at, Room(L, msg, at)
  PROVE  ZeroWire(L, msg, at) \in Seq(Byte)
  BY RoomOmitting, FullWireType DEF ZeroWire

\* What the node writes for two layouts, one behind the other.
LEMMA ZeroWireConcat ==
  ASSUME NEW msg \in Seq(Seq(Byte)), NEW a \in Seq(PieceType), NEW b \in Seq(PieceType), NEW at,
         Room(a \o b, msg, at)
  PROVE  ZeroWire(a \o b, msg, at) = ZeroWire(a, msg, at) \o ZeroWire(b, msg, at + LeafCount(a))
<1>1. PICK x, y : x = Omitting(a) /\ y = Omitting(b)
  OBVIOUS
<1>2. x \in Seq(PieceType) /\ y \in Seq(PieceType) /\ LeafCount(x) = LeafCount(a)
  <2>1. x \in Seq(PieceType) /\ LeafCount(x) = LeafCount(a)
    BY <1>1, OmittingKeeps
  <2>2. y \in Seq(PieceType)
    BY <1>1, OmittingKeeps
  <2> QED
    BY <2>1, <2>2
<1>3. a \o b \in Seq(PieceType) /\ Omitting(a \o b) = x \o y
  <2>1. a \o b \in Seq(PieceType)
    OBVIOUS
  <2>2. Omitting(a \o b) = Omitting(a) \o Omitting(b)
    BY OmittingConcat
  <2> QED
    BY <1>1, <2>1, <2>2
<1>4. Room(x \o y, msg, at)
  <2>1. PICK c : c = a \o b
    OBVIOUS
  <2>2. c \in Seq(PieceType) /\ Room(c, msg, at) /\ Omitting(c) = x \o y
    BY <1>3, <2>1
  <2>3. Room(Omitting(c), msg, at)
    BY <2>2, RoomOmitting
  <2> QED
    BY <2>2, <2>3
<1>5. FullWire(x \o y, msg, at) = FullWire(x, msg, at) \o FullWire(y, msg, at + LeafCount(a))
  <2>1. FullWire(x \o y, msg, at) = FullWire(x, msg, at) \o FullWire(y, msg, at + LeafCount(x))
    BY <1>2, <1>4, FullWireConcat
  <2> QED
    BY <1>2, <2>1
<1> QED
  BY <1>1, <1>3, <1>5 DEF ZeroWire

\* What a part of the writer does with the pieces it is for.
WritesPieces(c, L, msg, at, sure) ==
  /\ c \in Result(Byte)
  /\ c.result = "true" => c.at = at + LeafCount(L) /\ c.out = ZeroWire(L, msg, at)
  /\ IsPrefix(c.out, ZeroWire(L, msg, at))
  /\ sure => c.result = "true"

\* A step that goes on and gives nothing is right where nothing is to be written.
LEMMA WritesNothing ==
  ASSUME NEW msg \in Seq(Seq(Byte)), NEW at \in Nat, NEW sure
  PROVE  WritesPieces(Going(at, <<>>), <<>>, msg, at, sure)
<1>1. ZeroWire(<<>>, msg, at) = <<>>
  BY WireFromNone, OmittingNone DEF ZeroWire, FullWire
<1>2. PICK e : e = <<>>
  OBVIOUS
<1>3. e \in Seq(Byte)
  BY <1>2
<1>4. IsPrefix(e, e)
  BY <1>3, PrefixOfItself
<1>5. Going(at, <<>>) \in Result(Byte) /\ Going(at, <<>>).result = "true"
      /\ Going(at, <<>>).at = at /\ Going(at, <<>>).out = <<>>
  BY GoingNothing
<1>6. at = at + LeafCount(<<>>)
  BY CountsOfNone
<1> QED
  BY <1>1, <1>2, <1>4, <1>5, <1>6 DEF WritesPieces

\* A step that stops has written the beginning of any layout: nothing.
LEMMA StopsWriting ==
  ASSUME NEW msg \in Seq(Seq(Byte)), NEW L \in Seq(PieceType), NEW at, Room(L, msg, at),
         NEW r \in {"false", "throws", "undefined"}
  PROVE  WritesPieces(Stop(Going(at, <<>>), r), L, msg, at, FALSE)
<1>1. at \in Nat /\ r \in Outcomes
  BY DEF Room, Outcomes
<1>2. /\ Stop(Going(at, <<>>), r) \in Result(Byte)
      /\ Stop(Going(at, <<>>), r) = [result |-> r, at |-> at, out |-> <<>>]
  BY <1>1, StopNothing
<1>3. IsPrefix(<<>>, ZeroWire(L, msg, at))
  BY ZeroWireType, NothingIsPrefix
<1> QED
  BY <1>2, <1>3 DEF WritesPieces

\* Two steps, each right for its layout, are right for both layouts together.
LEMMA ThenWrites ==
  ASSUME NEW msg \in Seq(Seq(Byte)), NEW a \in Seq(PieceType), NEW b \in Seq(PieceType), NEW at,
         Room(a \o b, msg, at), NEW sure, NEW this, NEW rest,
         WritesPieces(this, a, msg, at, sure),
         WritesPieces(rest[at + LeafCount(a)], b, msg, at + LeafCount(a), sure)
  PROVE  WritesPieces(Then(this, rest), a \o b, msg, at, sure)
<1>1. PICK p, r, c, x, y, z : /\ p = at + LeafCount(a) /\ r = rest[p] /\ c = Then(this, rest)
                              /\ x = ZeroWire(a, msg, at) /\ y = ZeroWire(b, msg, p)
                              /\ z = ZeroWire(a \o b, msg, at)
  OBVIOUS
<1>2. Room(a, msg, at) /\ Room(b, msg, p) /\ p + LeafCount(b) = at + LeafCount(a \o b)
  BY <1>1, RoomParts
<1>3. x \in Seq(Byte) /\ y \in Seq(Byte) /\ z = x \o y
  BY <1>1, <1>2, ZeroWireType, ZeroWireConcat
<1>4. /\ this \in Result(Byte)
      /\ this.result = "true" => this.at = p /\ this.out = x
      /\ IsPrefix(this.out, x)
      /\ sure => this.result = "true"
  BY <1>1 DEF WritesPieces
<1>5. /\ r \in Result(Byte)
      /\ r.result = "true" => r.at = p + LeafCount(b) /\ r.out = y
      /\ IsPrefix(r.out, y)
      /\ sure => r.result = "true"
  BY <1>1 DEF WritesPieces
<1>6. /\ c \in Result(Byte)
      /\ this.result # "true" => c = this
      /\ this.result = "true" => c.result = r.result /\ c.at = r.at /\ c.out = this.out \o r.out
  <2>1. this.result = "true" => rest[this.at] = r
    BY <1>1, <1>4
  <2>2. this.result = "true" => rest[this.at] \in Result(Byte)
    BY <1>5, <2>1
  <2>3. /\ Then(this, rest) \in Result(Byte)
        /\ this.result # "true" => Then(this, rest) = this
        /\ this.result = "true" =>
             /\ Then(this, rest).result = rest[this.at].result
             /\ Then(this, rest).at = rest[this.at].at
             /\ Then(this, rest).out = this.out \o rest[this.at].out
    BY <1>4, <2>2, ThenSteps
  <2> QED
    BY <1>1, <2>1, <2>3
<1>7. CASE this.result # "true"
  <2>1. this.out \in Seq(Byte)
    BY <1>4 DEF Result
  <2>2. IsPrefix(this.out, z)
    BY <1>3, <1>4, <2>1, PrefixBefore
  <2>3. c = this
    BY <1>6, <1>7
  <2>4. WritesPieces(c, a \o b, msg, at, sure)
    BY <1>1, <1>4, <1>7, <2>2, <2>3 DEF WritesPieces
  <2> QED
    BY <1>1, <2>4
<1>8. CASE this.result = "true"
  <2>1. r.out \in Seq(Byte)
    BY <1>5 DEF Result
  <2>2. c.result = r.result /\ c.at = r.at /\ c.out = x \o r.out
    BY <1>4, <1>6, <1>8
  <2>3. IsPrefix(x \o r.out, z)
    BY <1>3, <1>5, <2>1, PrefixBehind
  <2>4. r.result = "true" => c.at = at + LeafCount(a \o b) /\ c.out = z
    BY <1>2, <1>3, <1>5, <2>2
  <2>5. WritesPieces(c, a \o b, msg, at, sure)
    BY <1>1, <1>5, <1>6, <2>2, <2>3, <2>4 DEF WritesPieces
  <2> QED
    BY <1>1, <2>5
<1> QED
  BY <1>7, <1>8

\* One piece written for the leaf that is there.
LEMMA WritesOne ==
  ASSUME NEW msg \in Seq(Seq(Byte)), NEW e \in PieceType, NEW at, Room(<<e>>, msg, at), NEW sure,
         NEW n, NEW out, n = at + LeafCount(<<e>>), out = ZeroWire(<<e>>, msg, at)
  PROVE  WritesPieces(Going(n, out), <<e>>, msg, at, sure)
<1>1. <<e>> \in Seq(PieceType)
  OBVIOUS
<1>2. out \in Seq(Byte)
  BY <1>1, ZeroWireType
<1>3. n \in Nat
  <2>1. LeafCount(<<e>>) \in Nat
    BY <1>1, CountTypes
  <2>2. at \in Nat
    BY DEF Room
  <2> QED
    BY <2>1, <2>2
<1>4. Going(n, out) \in Result(Byte)
      /\ Going(n, out).result = "true" /\ Going(n, out).at = n /\ Going(n, out).out = out
  BY <1>2, <1>3, GoingType
<1>5. IsPrefix(out, out)
  BY <1>2, PrefixOfItself
<1> QED
  BY <1>4, <1>5 DEF WritesPieces

\* A layout of a single piece, with nothing omitted.
LEMMA OneFullPiece ==
  ASSUME NEW msg \in Seq(Seq(Byte)), NEW e \in PieceType, NEW at, Room(<<e>>, msg, at)
  PROVE  /\ e.kind = "seq" => LeafCount(<<e>>) = 0 /\ FullWire(<<e>>, msg, at) = LE32(0)
         /\ e.kind # "seq" => LeafCount(<<e>>) = 1 /\ Leaf(msg, at + 1) = msg[at + 1]
         /\ e.kind = "string" =>
              FullWire(<<e>>, msg, at) = LE32(Len(Leaf(msg, at + 1))) \o Leaf(msg, at + 1)
         /\ e.kind = "omitted" => FullWire(<<e>>, msg, at) = <<>>
         /\ e.kind = "scalar" => FullWire(<<e>>, msg, at) = Leaf(msg, at + 1)
<1>1. <<e>> \in Seq(PieceType)
  OBVIOUS
<1>2. Holds(<<e>>, msg, at, Zeros, 0)
  BY <1>1, RoomHolds, 0 \in Nat
<1>3. /\ e.kind = "seq" => LeafCount(<<e>>) = 0
      /\ e.kind # "seq" => LeafCount(<<e>>) = 1
  BY CountsOfOne
<1>4. e.kind # "seq" => Leaf(msg, at + 1) = msg[at + 1]
  <2>1. ASSUME e.kind # "seq" PROVE at + 1 \in DOMAIN msg
    BY <1>3, <2>1 DEF Room
  <2> QED
    BY <2>1 DEF Leaf
<1>5. PICK z, l : z = 0 /\ l = <<e>>
  OBVIOUS
<1>6. Holds(l, msg, at, Zeros, z)
  BY <1>2, <1>5
<1>7. /\ e.kind = "seq" => WireFrom(<<e>>, msg, at, Zeros, z) = Zeros[z + 1]
      /\ e.kind = "string" =>
           WireFrom(<<e>>, msg, at, Zeros, z) = LE32(Len(msg[at + 1])) \o msg[at + 1]
      /\ e.kind = "omitted" => WireFrom(<<e>>, msg, at, Zeros, z) = <<>>
      /\ e.kind = "scalar" => WireFrom(<<e>>, msg, at, Zeros, z) = msg[at + 1]
  <2>1. Holds(<<e>>, msg, at, Zeros, z)
    BY <1>5, <1>6
  <2>2. OneWire(e, msg, at, Zeros, z)
    BY <2>1, WireFromOne
  <2> QED
    BY <2>2 DEF OneWire
<1>8. FullWire(<<e>>, msg, at) = WireFrom(<<e>>, msg, at, Zeros, z)
  BY <1>5 DEF FullWire
<1>9. Zeros[z + 1] = LE32(0)
  BY <1>5 DEF Zeros
<1> QED
  BY <1>3, <1>4, <1>7, <1>8, <1>9

\* A layout of a single piece.
LEMMA OnePiece ==
  ASSUME NEW msg \in Seq(Seq(Byte)), NEW e \in PieceType, NEW at, Room(<<e>>, msg, at)
  PROVE  /\ e.kind = "seq" => LeafCount(<<e>>) = 0 /\ ZeroWire(<<e>>, msg, at) = LE32(0)
         /\ e.kind # "seq" => LeafCount(<<e>>) = 1
         /\ e.kind = "string" =>
              ZeroWire(<<e>>, msg, at) = LE32(Len(Leaf(msg, at + 1))) \o Leaf(msg, at + 1)
         /\ e.kind = "messages" => ZeroWire(<<e>>, msg, at) = <<>>
         /\ e.kind = "scalar" => ZeroWire(<<e>>, msg, at) = Leaf(msg, at + 1)
<1>1. CASE e.kind # "messages"
  <2>1. ZeroWire(<<e>>, msg, at) = FullWire(<<e>>, msg, at)
    BY <1>1, OmittingOne DEF ZeroWire
  <2> QED
    BY <1>1, <2>1, OneFullPiece
<1>2. CASE e.kind = "messages"
  <2>1. PICK o : o = Piece("omitted", 0)
    OBVIOUS
  <2>2. o \in PieceType /\ o.kind = "omitted"
    BY <2>1 DEF Piece, PieceType
  <2>3. ZeroWire(<<e>>, msg, at) = FullWire(<<o>>, msg, at)
    BY <1>2, <2>1, OmittingOne DEF ZeroWire
  <2>4. Room(<<o>>, msg, at)
    <3>1. <<e>> \in Seq(PieceType) /\ Omitting(<<e>>) = <<o>>
      BY <1>2, <2>1, OmittingOne
    <3> QED
      BY <3>1, RoomOmitting
  <2>5. FullWire(<<o>>, msg, at) = <<>>
    BY <2>2, <2>4, OneFullPiece
  <2>6. LeafCount(<<e>>) = 1
    BY <1>2, CountsOfOne
  <2> QED
    BY <1>2, <2>3, <2>5, <2>6
<1> QED
  BY <1>1, <1>2

\* A loop writes as often as it turns.
LEMMA RepeatWrites ==
  ASSUME NEW msg \in Seq(Seq(Byte)), NEW L \in Seq(PieceType), NEW at, NEW sure, NEW n \in Nat,
         NEW each \in [Nat -> Result(Byte)],
         \A p \in Nat : Room(L, msg, p) => WritesPieces(each[p], L, msg, p, sure),
         Room(Copies(L, n), msg, at)
  PROVE  WritesPieces(Repeat(each, n, at), Copies(L, n), msg, at, sure)
<1> DEFINE Good(k) == Room(Copies(L, k), msg, at) =>
                        WritesPieces(Turns(each, n, at)[k], Copies(L, k), msg, at, sure)
           G == {k \in Nat : Good(k)}
<1>1. at \in Nat
  BY DEF Room
<1>2. /\ Repeat(each, n, at) = Turns(each, n, at)[n]
      /\ Turns(each, n, at)[0] = Going(at, <<>>)
      /\ \A k \in 1..n : Turns(each, n, at)[k] = Then(Turns(each, n, at)[k - 1], each)
  BY <1>1, RepeatSteps
<1>3. 0 \in G
  <2>1. Copies(L, 0) = <<>>
    BY CopiesSteps
  <2> QED
    BY <1>1, <1>2, <2>1, WritesNothing
<1>4. ASSUME NEW i \in 1..n, i - 1 \in G
      PROVE  i \in G
  <2>1. PICK k, c : k = i - 1 /\ c = Copies(L, k)
    OBVIOUS
  <2>2. k \in Nat /\ i = k + 1 /\ Good(k)
    BY <1>4, <2>1
  <2>3. Copies(L, i) = c \o L /\ c \in Seq(PieceType)
    BY <2>1, <2>2, CopiesSteps
  <2>4. ASSUME Room(Copies(L, i), msg, at)
        PROVE  WritesPieces(Turns(each, n, at)[i], Copies(L, i), msg, at, sure)
    <3>1. Room(c \o L, msg, at)
      BY <2>3, <2>4
    <3>2. Room(c, msg, at) /\ Room(L, msg, at + LeafCount(c))
      BY <2>3, <3>1, RoomParts
    <3>3. WritesPieces(Turns(each, n, at)[k], c, msg, at, sure)
      BY <2>1, <2>2, <3>2
    <3>4. WritesPieces(each[at + LeafCount(c)], L, msg, at + LeafCount(c), sure)
      <4>1. at + LeafCount(c) \in Nat
        BY <3>2 DEF Room
      <4> QED
        BY <3>2, <4>1
    <3>5. WritesPieces(Then(Turns(each, n, at)[k], each), c \o L, msg, at, sure)
      BY <2>3, <3>1, <3>3, <3>4, ThenWrites
    <3> QED
      BY <1>2, <2>1, <2>3, <3>5
  <2> QED
    BY <2>4
<1>5. Good(n)
  <2>1. n \in G
    <3>1. n \in 0..n
      OBVIOUS
    <3> HIDE DEF G
    <3> QED
      BY <1>3, <1>4, <3>1, InductionUpTo
  <2> HIDE DEF Good
  <2> QED
    BY <2>1
<1> QED
  BY <1>2, <1>5

----------------------------------------------------------------------------
\* The types the writer writes as they are on the wire

\* The types whose headers the code can tell; those the writer writes to the end, which
\* have no members without a conversion; and what a sequence in them may be.
Tidy(t) ==
  \A m \in AllMembers[t] :
    m.type_id = "MESSAGE" => (m.sub = StdHeader <=> IsStdHeader(m)) /\ (IsStdHeader(m) => ~m.is_array)
PassedOver(m) == m.type_id = "MESSAGE" /\ ~m.is_upper_bound
Sure(t) == \A m \in AllMembers[t] : m.type_id # "OTHER" /\ (IsSequence(m) => PassedOver(m))

\* The types nested in a tidy or sure type are that as well.
LEMMA PartsAreToo ==
  ASSUME NEW t \in Types, NEW i \in 1..Len(Definitions[t]), Definitions[t][i].type_id = "MESSAGE"
  PROVE  /\ Tidy(t) => Tidy(Definitions[t][i].sub)
         /\ Sure(t) => Sure(Definitions[t][i].sub)
<1>1. AllMembers[Definitions[t][i].sub] \subseteq AllMembers[t]
  BY MembersWithin
<1> QED
  BY <1>1 DEF Tidy, Sure

\* What is right for a conversion that must succeed is right for one that may fail.
LEMMA LessSure ==
  ASSUME NEW c, NEW L, NEW msg, NEW at, NEW x, NEW y, WritesPieces(c, L, msg, at, x), y => x
  PROVE  WritesPieces(c, L, msg, at, y)
  BY DEF WritesPieces

\* The elements of a message member, alone or in a fixed array.
LEMMA ElementsWrite ==
  ASSUME NEW msg \in Seq(Seq(Byte)), NEW m, ~IsSequence(m), Count(m) \in Nat,
         NEW L \in Seq(PieceType), NEW at, NEW sure,
         NEW nested \in [Nat -> Result(Byte)],
         \A p \in Nat : Room(L, msg, p) => WritesPieces(nested[p], L, msg, p, sure),
         Room(Copies(L, Count(m)), msg, at)
  PROVE  WritesPieces(Elements(m, nested)[at], Copies(L, Count(m)), msg, at, sure)
<1>1. at \in Nat
  BY DEF Room
<1>2. Elements(m, nested)[at] = Repeat(nested, Count(m), at)
  BY <1>1 DEF Elements
<1>3. WritesPieces(Repeat(nested, Count(m), at), Copies(L, Count(m)), msg, at, sure)
  BY RepeatWrites
<1> QED
  BY <1>2, <1>3

\* The elements of a sequence of messages are passed over, or read as they are not.
LEMMA ElementsOmitted ==
  ASSUME NEW msg \in Seq(Seq(Byte)), NEW m, IsSequence(m),
         NEW at, NEW nested, NEW e \in PieceType, e.kind = "messages", Room(<<e>>, msg, at)
  PROVE  WritesPieces(Elements(m, nested)[at], <<e>>, msg, at, ~m.is_upper_bound)
<1>1. at \in Nat /\ <<e>> \in Seq(PieceType)
  BY DEF Room
<1>2. LeafCount(<<e>>) = 1 /\ ZeroWire(<<e>>, msg, at) = <<>>
  BY OnePiece
<1>3. CASE m.is_upper_bound
  <2>1. Elements(m, nested)[at] = Stop(Going(at, <<>>), "undefined")
    BY <1>1, <1>3 DEF Elements
  <2>2. WritesPieces(Elements(m, nested)[at], <<e>>, msg, at, FALSE)
    BY <1>1, <2>1, StopsWriting
  <2> QED
    BY <1>3, <2>2, LessSure
<1>4. CASE ~m.is_upper_bound
  <2>1. PICK n, out : n = at + 1 /\ out = ZeroWire(<<e>>, msg, at)
    OBVIOUS
  <2>2. Elements(m, nested)[at] = Going(n, out)
    BY <1>1, <1>2, <1>4, <2>1 DEF Elements
  <2>3. WritesPieces(Going(n, out), <<e>>, msg, at, ~m.is_upper_bound)
    BY <1>2, <2>1, WritesOne
  <2> QED
    BY <2>2, <2>3
<1> QED
  BY <1>3, <1>4

\* A member that is a sequence of messages.
LEMMA SequenceWrites ==
  ASSUME NEW msg \in Seq(Seq(Byte)), NEW t \in Types, NEW i \in 1..Len(Definitions[t]),
         Definitions[t][i].type_id = "MESSAGE", IsSequence(Definitions[t][i]), Tidy(t), NEW at,
         NEW nested, Room(MemberPieces(Layout, t, i), msg, at)
  PROVE  WritesPieces(write_member(msg, Definitions[t][i], at, nested),
                      MemberPieces(Layout, t, i), msg, at, ~Definitions[t][i].is_upper_bound)
<1>1. PICK m, e, sure : m = Definitions[t][i] /\ e = Piece("messages", 0) /\ sure = ~m.is_upper_bound
  OBVIOUS
<1>2. m.type_id = "MESSAGE" /\ IsSequence(m) /\ m.is_array
  BY <1>1 DEF IsSequence
<1>3. ~IsStdHeader(m)
  BY <1>1, <1>2, MembersWithin DEF Tidy
<1>4. e \in PieceType /\ e.kind = "messages" /\ MemberPieces(Layout, t, i) = <<e>>
  BY <1>1, <1>2 DEF Piece, PieceType, MemberPieces, Pieces
<1>5. write_member(msg, m, at, nested) = Then(Going(at, <<>>), Elements(m, nested))
  BY <1>2, <1>3, WriteCases DEF SeqWritten, WritesSeq
<1>6. PICK n : n = <<>>
  OBVIOUS
<1>7. at \in Nat /\ n \in Seq(PieceType) /\ n \o <<e>> = <<e>> /\ LeafCount(n) = 0 /\ at + LeafCount(n) = at
  BY <1>4, <1>6, CountsOfNone DEF Room
<1>8. WritesPieces(Going(at, <<>>), n, msg, at, sure)
  BY <1>6, <1>7, WritesNothing
<1>9. WritesPieces(Elements(m, nested)[at], <<e>>, msg, at, sure)
  BY <1>1, <1>2, <1>4, ElementsOmitted
<1>10. WritesPieces(Then(Going(at, <<>>), Elements(m, nested)), n \o <<e>>, msg, at, sure)
  <2>1. <<e>> \in Seq(PieceType) /\ Room(<<e>>, msg, at)
    BY <1>4
  <2>2. Room(n \o <<e>>, msg, at)
    BY <1>7, <2>1
  <2>3. WritesPieces(Elements(m, nested)[at + LeafCount(n)], <<e>>, msg, at + LeafCount(n), sure)
    BY <1>7, <1>9
  <2> QED
    BY <1>7, <1>8, <2>1, <2>2, <2>3, ThenWrites
<1> QED
  BY <1>1, <1>4, <1>5, <1>7, <1>10

\* A member that is a message, or a fixed array of messages, writes the pieces of its elements.
LEMMA MessageWrites ==
  ASSUME NEW msg \in Seq(Seq(Byte)), NEW t \in Types, NEW i \in 1..Len(Definitions[t]),
         Definitions[t][i].type_id = "MESSAGE", ~IsSequence(Definitions[t][i]), Tidy(t),
         NEW at, NEW sure,
         NEW nested \in [Nat -> Result(Byte)],
         \A p \in Nat : Room(TailPieces(Definitions[t][i].sub, 1), msg, p) =>
           WritesPieces(nested[p], TailPieces(Definitions[t][i].sub, 1), msg, p, sure),
         Room(MemberPieces(Layout, t, i), msg, at)
  PROVE  WritesPieces(write_member(msg, Definitions[t][i], at, nested),
                      MemberPieces(Layout, t, i), msg, at, sure)
<1>1. PICK m, L, P : m = Definitions[t][i] /\ L = TailPieces(m.sub, 1) /\ P = MemberPieces(Layout, t, i)
  OBVIOUS
<1>2. m.type_id = "MESSAGE" /\ m.sub \in Types /\ Count(m) \in Nat /\ (~m.is_array => m.array_size = 0)
  BY <1>1, MemberFacts, CountFacts
<1>3. ~IsSequence(m) /\ (m.sub = StdHeader <=> IsStdHeader(m)) /\ (IsStdHeader(m) => ~m.is_array)
  BY <1>1, <1>2, MembersWithin DEF Tidy
<1>4. L \in Seq(PieceType) /\ Layout[m.sub] = Header(m.sub) \o L
  <2>1. 1 \in Nat \ {0}
    OBVIOUS
  <2> QED
    BY <1>1, <1>2, <2>1, TailPiecesSteps
<1>5. P = Copies(Layout[m.sub], Count(m))
  BY <1>1, <1>2, <1>3, WidthFacts DEF MemberPieces, Pieces, Copies
<1>6. write_member(msg, m, at, nested) = Then(Going(at, SeqWritten(m)), Elements(m, nested))
  BY <1>2, WriteCases
<1>7. Room(P, msg, at) /\ \A p \in Nat : Room(L, msg, p) => WritesPieces(nested[p], L, msg, p, sure)
  BY <1>1
<1>8. CASE m.sub = StdHeader
  <2>1. PICK e : e = Piece("seq", 4)
    OBVIOUS
  <2>2. e \in PieceType /\ e.kind = "seq" /\ <<e>> \in Seq(PieceType)
    BY <2>1 DEF Piece, PieceType
  <2>3. Header(m.sub) = <<e>>
    BY <1>8, <2>1 DEF Header
  <2>4. SeqWritten(m) = LE32(0) /\ Count(m) = 1
    BY <1>2, <1>3, <1>8 DEF SeqWritten, WritesSeq, Count
  <2>5. Copies(L, 1) = L /\ Copies(Layout[m.sub], 1) = Layout[m.sub]
    <3>2. Layout[m.sub] \in Seq(PieceType)
      BY <1>2, LayoutSteps
    <3> QED
      BY <1>4, <3>2, CopiesOnce
  <2>6. P = <<e>> \o L
    BY <1>4, <1>5, <2>3, <2>4, <2>5
  <2>7. Room(<<e>>, msg, at) /\ Room(L, msg, at + LeafCount(<<e>>))
    BY <1>4, <1>7, <2>2, <2>6, RoomParts
  <2>8. LeafCount(<<e>>) = 0 /\ ZeroWire(<<e>>, msg, at) = LE32(0) /\ at \in Nat
    BY <2>2, <2>7, OnePiece DEF Room
  <2>9. WritesPieces(Going(at, LE32(0)), <<e>>, msg, at, sure)
    <3>1. at = at + LeafCount(<<e>>)
      BY <2>8
    <3> QED
      BY <2>2, <2>7, <2>8, <3>1, WritesOne
  <2>10. at + LeafCount(<<e>>) = at
    BY <2>8
  <2>11. WritesPieces(Elements(m, nested)[at], L, msg, at, sure)
    <3>1. Room(Copies(L, Count(m)), msg, at)
      BY <2>4, <2>5, <2>7, <2>10
    <3>2. WritesPieces(Elements(m, nested)[at], Copies(L, Count(m)), msg, at, sure)
      BY <1>2, <1>3, <1>4, <1>7, <3>1, ElementsWrite
    <3> QED
      BY <2>4, <2>5, <3>2
  <2>12. WritesPieces(Then(Going(at, LE32(0)), Elements(m, nested)), <<e>> \o L, msg, at, sure)
    <3>1. Room(<<e>> \o L, msg, at)
      BY <1>7, <2>6
    <3>2. WritesPieces(Elements(m, nested)[at + LeafCount(<<e>>)], L, msg, at + LeafCount(<<e>>), sure)
      BY <2>10, <2>11
    <3> QED
      BY <1>4, <2>2, <2>9, <3>1, <3>2, ThenWrites
  <2> QED
    BY <1>1, <1>6, <2>4, <2>6, <2>12
<1>9. CASE m.sub # StdHeader
  <2>1. Header(m.sub) = <<>> /\ SeqWritten(m) = <<>>
    BY <1>3, <1>9 DEF Header, SeqWritten, WritesSeq
  <2>2. P = Copies(L, Count(m)) /\ P \in Seq(PieceType)
    <3>1. Layout[m.sub] = L
      BY <1>4, <2>1
    <3> QED
      BY <1>2, <1>4, <1>5, <3>1, CopiesSteps
  <2>3. at \in Nat
    BY <1>7 DEF Room
  <2>4. WritesPieces(Going(at, <<>>), <<>>, msg, at, sure)
    BY <2>3, WritesNothing
  <2>5. WritesPieces(Elements(m, nested)[at], P, msg, at, sure)
    <3>1. Room(Copies(L, Count(m)), msg, at)
      BY <1>7, <2>2
    <3> QED
      BY <1>2, <1>3, <1>4, <1>7, <2>2, <3>1, ElementsWrite
  <2>6. PICK e : e = <<>>
    OBVIOUS
  <2>7. e \in Seq(PieceType) /\ e \o P = P /\ LeafCount(e) = 0 /\ at + LeafCount(e) = at
    BY <2>2, <2>3, <2>6, CountsOfNone
  <2>8. WritesPieces(Then(Going(at, <<>>), Elements(m, nested)), e \o P, msg, at, sure)
    <3>1. Room(e \o P, msg, at)
      BY <1>7, <2>7
    <3>2. WritesPieces(Elements(m, nested)[at + LeafCount(e)], P, msg, at + LeafCount(e), sure)
      BY <2>5, <2>7
    <3>3. WritesPieces(Going(at, <<>>), e, msg, at, sure)
      BY <2>4, <2>6
    <3> QED
      BY <2>2, <2>7, <3>1, <3>2, <3>3, ThenWrites
  <2> QED
    BY <1>1, <1>6, <2>1, <2>7, <2>8
<1> QED
  BY <1>8, <1>9

\* A member of a tidy type.
LEMMA MemberWrites ==
  ASSUME NEW msg \in Seq(Seq(Byte)), NEW t \in Types, NEW i \in 1..Len(Definitions[t]),
         Tidy(t), NEW at, NEW nested,
         Definitions[t][i].type_id = "MESSAGE" =>
           /\ nested \in [Nat -> Result(Byte)]
           /\ \A p \in Nat : Room(TailPieces(Definitions[t][i].sub, 1), msg, p) =>
                WritesPieces(nested[p], TailPieces(Definitions[t][i].sub, 1), msg, p, Sure(t)),
         Room(MemberPieces(Layout, t, i), msg, at)
  PROVE  WritesPieces(write_member(msg, Definitions[t][i], at, nested),
                      MemberPieces(Layout, t, i), msg, at, Sure(t))
<1>1. PICK m, P, c : /\ m = Definitions[t][i] /\ P = MemberPieces(Layout, t, i)
                     /\ c = write_member(msg, m, at, nested)
  OBVIOUS
<1>2. /\ m.type_id \in Scalars \cup {"STRING", "MESSAGE", "OTHER"} /\ Count(m) \in Nat
      /\ Room(P, msg, at) /\ P \in Seq(PieceType) /\ at \in Nat
  BY <1>1, MemberFacts, CountFacts, MemberPiecesType DEF Room
<1>3. m \in AllMembers[t]
  BY <1>1, MembersWithin
<1>4. CASE m.type_id = "MESSAGE"
  <2>1. CASE ~IsSequence(m)
    BY <1>1, <1>4, <2>1, MessageWrites
  <2>2. CASE IsSequence(m)
    <3>1. WritesPieces(c, P, msg, at, ~m.is_upper_bound)
      BY <1>1, <1>2, <1>4, <2>2, SequenceWrites
    <3>2. Sure(t) => ~m.is_upper_bound
      BY <1>3, <2>2 DEF Sure, PassedOver
    <3> QED
      BY <1>1, <3>1, <3>2, LessSure
  <2> QED
    BY <2>1, <2>2
<1>5. CASE m.type_id = "OTHER"
  <2>1. c = Stop(Going(at, <<>>), "false")
    BY <1>1, <1>5, WriteCases
  <2>2. WritesPieces(c, P, msg, at, FALSE)
    BY <1>2, <2>1, StopsWriting
  <2>3. ~Sure(t)
    BY <1>3, <1>5 DEF Sure
  <2> QED
    BY <1>1, <2>2, <2>3, LessSure
<1>6. CASE m.type_id \in Scalars \cup {"STRING"} /\ IsSequence(m)
  <2>1. c = Stop(Going(at, <<>>), "throws")
    BY <1>1, <1>6, WriteCases
  <2>2. WritesPieces(c, P, msg, at, FALSE)
    BY <1>2, <2>1, StopsWriting
  <2>3. ~Sure(t)
    BY <1>3, <1>6, WidthFacts DEF Sure, PassedOver
  <2> QED
    BY <1>1, <2>2, <2>3, LessSure
<1>7. CASE m.type_id \in Scalars /\ ~IsSequence(m)
  <2>1. c = Going(at + 1, Leaf(msg, at + 1))
    BY <1>1, <1>7, WriteCases
  <2>2. PICK e : e = Piece("scalar", Count(m) * Width[m.type_id])
    OBVIOUS
  <2>3. P = <<e>>
    BY <1>1, <1>7, <2>2, WidthFacts DEF MemberPieces, Pieces
  <2>4. e.kind = "scalar" /\ e \in PieceType
    <3>1. PICK k, w : k = Count(m) /\ w = Width[m.type_id]
      OBVIOUS
    <3>2. k \in Nat /\ w \in Nat
      BY <1>2, <1>7, <3>1, WidthFacts
    <3>3. k * w \in Nat
      BY <3>2
    <3> QED
      BY <2>2, <3>1, <3>3 DEF Piece, PieceType
  <2>5. LeafCount(<<e>>) = 1 /\ ZeroWire(<<e>>, msg, at) = Leaf(msg, at + 1)
    BY <1>2, <2>3, <2>4, OnePiece
  <2>6. WritesPieces(Going(at + 1, Leaf(msg, at + 1)), <<e>>, msg, at, Sure(t))
    <3>1. at + 1 = at + LeafCount(<<e>>) /\ Room(<<e>>, msg, at)
      BY <1>2, <2>3, <2>5
    <3> QED
      BY <2>4, <2>5, <3>1, WritesOne
  <2> QED
    BY <1>1, <2>1, <2>3, <2>6
<1>8. CASE m.type_id = "STRING" /\ ~IsSequence(m)
  <2>1. c = Repeat(StringAt(msg), Count(m), at)
    BY <1>1, <1>8, WriteCases
  <2>2. PICK e : e = Piece("string", 0)
    OBVIOUS
  <2>3. e.kind = "string" /\ e \in PieceType /\ <<e>> \in Seq(PieceType)
    BY <2>2 DEF Piece, PieceType
  <2>4. P = Copies(<<e>>, Count(m))
    <3>1. P = [k \in 1..Count(m) |-> e]
      BY <1>1, <1>8, <2>2, WidthFacts DEF MemberPieces, Pieces
    <3> QED
      BY <1>2, <2>3, <3>1, CopiesOfOne
  <2>5. ASSUME NEW p \in Nat, Room(<<e>>, msg, p)
        PROVE  WritesPieces(StringAt(msg)[p], <<e>>, msg, p, Sure(t))
    <3>1. LeafCount(<<e>>) = 1 /\ ZeroWire(<<e>>, msg, p) = LE32(Len(Leaf(msg, p + 1))) \o Leaf(msg, p + 1)
      BY <2>3, <2>5, OnePiece
    <3>2. PICK out : out = LE32(Len(Leaf(msg, p + 1))) \o Leaf(msg, p + 1)
      OBVIOUS
    <3>3. StringAt(msg)[p] = Going(p + 1, out)
      BY <3>2 DEF StringAt
    <3>4. WritesPieces(Going(p + 1, out), <<e>>, msg, p, Sure(t))
      <4>1. p + 1 = p + LeafCount(<<e>>) /\ out = ZeroWire(<<e>>, msg, p)
        BY <3>1, <3>2
      <4> QED
        BY <2>3, <2>5, <4>1, WritesOne
    <3> QED
      BY <3>3, <3>4
  <2>6. WritesPieces(Repeat(StringAt(msg), Count(m), at), Copies(<<e>>, Count(m)), msg, at, Sure(t))
    <3>1. Room(Copies(<<e>>, Count(m)), msg, at)
      BY <1>2, <2>4
    <3> QED
      BY <1>2, <2>3, <2>5, <3>1, StringAtType, RepeatWrites
  <2> QED
    BY <1>1, <2>1, <2>4, <2>6
<1> QED
  BY <1>2, <1>4, <1>5, <1>6, <1>7, <1>8

\* Every call of the writer writes the pieces of its members.
LEMMA CallsWrite ==
  ASSUME NEW msg \in Seq(Seq(Byte))
  PROVE  \A c \in Calls :
           Tidy(c[1]) /\ Room(TailPieces(c[1], c[2]), msg, c[3]) =>
             WritesPieces(Writer(msg)[c], TailPieces(c[1], c[2]), msg, c[3], Sure(c[1]))
<1> DEFINE Good(c) == Tidy(c[1]) /\ Room(TailPieces(c[1], c[2]), msg, c[3]) =>
                        WritesPieces(Writer(msg)[c], TailPieces(c[1], c[2]), msg, c[3], Sure(c[1]))
           T == {c \in Calls : Good(c)}
<1>1. PICK w : w = Writer(msg)
  OBVIOUS
<1>2. \A c \in Calls : w[c] \in Result(Byte) /\ w[c] = WriteCall(msg, w, c)
  BY <1>1, WriterSteps
<1>3. ASSUME NEW c \in Calls, \A y \in Calls : CallRank[y] < CallRank[c] => y \in T
      PROVE  c \in T
  <2>1. PICK t, i, at : t = c[1] /\ i = c[2] /\ at = c[3]
    OBVIOUS
  <2>2. t \in Types /\ i \in Nat \ {0} /\ at \in Nat /\ c = <<t, i, at>> /\ Len(Definitions[t]) \in Nat
    BY <2>1, CallParts, MemberCount
  <2>3. SUFFICES ASSUME Tidy(t), Room(TailPieces(t, i), msg, at)
                 PROVE  WritesPieces(w[c], TailPieces(t, i), msg, at, Sure(t))
    BY <1>1, <2>1
  <2>4. CASE i > Len(Definitions[t])
    <3>1. TailPieces(t, i) = <<>>
      BY <2>2, <2>4, TailPiecesSteps
    <3>2. w[c] = Going(at, <<>>)
      BY <1>2, <2>1, <2>4 DEF WriteCall
    <3> QED
      BY <2>2, <3>1, <3>2, WritesNothing
  <2>5. CASE ~(i > Len(Definitions[t]))
    <3>1. i \in 1..Len(Definitions[t])
      BY <2>2, <2>5
    <3>2. PICK m, a, b, nested, rest, this :
            /\ m = Definitions[t][i]
            /\ a = MemberPieces(Layout, t, i) /\ b = TailPieces(t, i + 1)
            /\ nested = From(w, m.sub, 1) /\ rest = From(w, t, i + 1)
            /\ this = write_member(msg, m, at, nested)
      OBVIOUS
    <3>3. w[c] = Then(this, rest)
      BY <1>2, <2>1, <2>5, <3>2 DEF WriteCall
    <3>4. a \in Seq(PieceType) /\ b \in Seq(PieceType) /\ TailPieces(t, i) = a \o b
      <4>1. i + 1 \in Nat \ {0}
        BY <2>2
      <4> QED
        BY <2>2, <3>1, <3>2, <4>1, MemberPiecesType, TailPiecesSteps
    <3>5. Room(a \o b, msg, at)
      BY <2>3, <3>4
    <3>6. Room(a, msg, at) /\ Room(b, msg, at + LeafCount(a)) /\ at + LeafCount(a) \in Nat
      <4>1. Room(a, msg, at) /\ Room(b, msg, at + LeafCount(a))
        BY <3>4, <3>5, RoomParts
      <4> QED
        BY <4>1 DEF Room
    <3>7. WritesPieces(rest[at + LeafCount(a)], b, msg, at + LeafCount(a), Sure(t))
      <4>1. PICK p, y : p = at + LeafCount(a) /\ y = <<t, i + 1, p>>
        OBVIOUS
      <4>2. y \in Calls /\ CallRank[y] < CallRank[c]
        BY <2>2, <3>1, <3>6, <4>1, CallDescends
      <4>3. Good(y)
        BY <1>3, <4>2
      <4>4. y[1] = t /\ y[2] = i + 1 /\ y[3] = p
        BY <4>1
      <4>5. WritesPieces(w[y], b, msg, p, Sure(t))
        BY <1>1, <2>3, <3>2, <3>6, <4>1, <4>3, <4>4
      <4>6. rest[p] = w[y]
        BY <3>2, <3>6, <4>1 DEF From
      <4> QED
        BY <4>1, <4>5, <4>6
    <3>8. m.type_id = "MESSAGE" =>
            /\ nested \in [Nat -> Result(Byte)]
            /\ \A p \in Nat : Room(TailPieces(m.sub, 1), msg, p) =>
                 WritesPieces(nested[p], TailPieces(m.sub, 1), msg, p, Sure(t))
      <4> SUFFICES ASSUME m.type_id = "MESSAGE"
                   PROVE  /\ nested \in [Nat -> Result(Byte)]
                          /\ \A p \in Nat : Room(TailPieces(m.sub, 1), msg, p) =>
                               WritesPieces(nested[p], TailPieces(m.sub, 1), msg, p, Sure(t))
        OBVIOUS
      <4>1. \A p \in Nat : <<m.sub, 1, p>> \in Calls /\ CallRank[<<m.sub, 1, p>>] < CallRank[c]
        BY <2>2, <3>1, <3>2, CallDescends
      <4>2. \A p \in Nat : nested[p] = w[<<m.sub, 1, p>>]
        BY <3>2 DEF From
      <4>3. nested \in [Nat -> Result(Byte)]
        <5>1. \A p \in Nat : w[<<m.sub, 1, p>>] \in Result(Byte)
          BY <1>2, <4>1
        <5> QED
          BY <3>2, <5>1 DEF From
      <4>4. Tidy(m.sub) /\ (Sure(t) => Sure(m.sub))
        BY <2>2, <2>3, <3>1, <3>2, PartsAreToo
      <4>5. ASSUME NEW p \in Nat, Room(TailPieces(m.sub, 1), msg, p)
            PROVE  WritesPieces(nested[p], TailPieces(m.sub, 1), msg, p, Sure(t))
        <5>1. PICK y : y = <<m.sub, 1, p>>
          OBVIOUS
        <5>2. Good(y)
          BY <1>3, <4>1, <5>1
        <5>3. y[1] = m.sub /\ y[2] = 1 /\ y[3] = p
          BY <5>1
        <5>4. WritesPieces(w[y], TailPieces(m.sub, 1), msg, p, Sure(m.sub))
          BY <1>1, <4>4, <4>5, <5>2, <5>3
        <5>5. WritesPieces(w[y], TailPieces(m.sub, 1), msg, p, Sure(t))
          BY <4>4, <5>4, LessSure
        <5> QED
          BY <4>2, <5>1, <5>5
      <4> QED
        BY <4>3, <4>5
    <3>9. WritesPieces(this, a, msg, at, Sure(t))
      BY <2>2, <2>3, <3>1, <3>2, <3>6, <3>8, MemberWrites
    <3>10. WritesPieces(Then(this, rest), a \o b, msg, at, Sure(t))
      BY <3>4, <3>5, <3>7, <3>9, ThenWrites
    <3> QED
      BY <3>3, <3>4, <3>10
  <2> QED
    BY <2>4, <2>5
<1>4. Calls \subseteq T
  <2> HIDE DEF T
  <2> QED
    BY <1>3, CallRankType, RankInduction
<1> QED
  BY <1>4

\* The message of a type in memory.
LEMMA MessageHolds ==
  ASSUME NEW t \in Types, NEW msg, IsMessage(msg, t)
  PROVE  /\ msg \in Seq(Seq(Byte)) /\ Len(msg) = LeafCount(Layout[t])
         /\ Room(Layout[t], msg, 0)
<1>1. msg \in Seq(Seq(Byte)) /\ Len(msg) = LeafCount(Layout[t])
  BY DEF IsMessage, LeafCount
<1>2. LeafCount(Layout[t]) \in Nat
  BY LayoutSteps, CountTypes
<1> QED
  BY <1>1, <1>2 DEF Room

\* The seqs of the reference form are zero.
LEMMA ZeroWireIsRos1 ==
  ASSUME NEW t \in Types, NEW msg, IsMessage(msg, t), NEW zeros \in SeqChoices(t, {LE32(0)})
  PROVE  Ros1Omitting(msg, t, zeros) = ZeroWire(Layout[t], msg, 0)
<1>1. PICK L : L = Omitting(Layout[t])
  OBVIOUS
<1>2. L \in Seq(PieceType) /\ SeqCount(L) = SeqCount(Layout[t])
  BY <1>1, LayoutSteps, OmittingKeeps
<1>3. zeros \in [1..SeqCount(L) -> {LE32(0)}]
  BY <1>2 DEF SeqChoices, SeqCount
<1>4. \A k \in 1..SeqCount(L) : zeros[0 + k] = Zeros[0 + k]
  <2>1. SeqCount(L) \in Nat
    BY <1>2, CountTypes
  <2>2. \A k \in 1..SeqCount(L) : 0 + k = k /\ k \in Nat
    BY <2>1
  <2>3. \A k \in 1..SeqCount(L) : zeros[k] = LE32(0)
    BY <1>3
  <2> QED
    BY <2>2, <2>3 DEF Zeros
<1>5. WireFrom(L, msg, 0, zeros, 0) = WireFrom(L, msg, 0, Zeros, 0)
  <2>1. PICK z : z = 0
    OBVIOUS
  <2>2. z \in Nat /\ \A k \in 1..SeqCount(L) : zeros[z + k] = Zeros[z + k]
    BY <1>4, <2>1
  <2>3. \A k \in 1..LeafCount(L) : msg[z + k] = msg[z + k]
    OBVIOUS
  <2>4. WireFrom(L, msg, z, zeros, z) = WireFrom(L, msg, z, Zeros, z)
    BY <1>2, <2>2, <2>3, WireFromAgrees
  <2> QED
    BY <2>1, <2>4
<1> QED
  BY <1>1, <1>2, <1>5, WireFromStart DEF Ros1Omitting, ZeroWire, FullWire

\* The conversion to ROS 1 writes what the type says without its sequences of messages,
\* or the beginning of it.
THEOREM ConversionWritesRos1 ==
  ASSUME NEW t \in Types, t # StdHeader, Tidy(t), NEW msg, IsMessage(msg, t),
         NEW zeros \in SeqChoices(t, {LE32(0)})
  PROVE  LET c == serialized_struct_to_ros1(msg, t)
             whole == Ros1Omitting(msg, t, zeros)
         IN  /\ c \in Result(Byte)
             /\ c.result = "true" => c.out = whole
             /\ IsPrefix(c.out, whole)
             /\ Sure(t) => c.result = "true"
<1>1. PICK y, L, c : y = <<t, 1, 0>> /\ L = TailPieces(t, 1) /\ c = serialized_struct_to_ros1(msg, t)
  OBVIOUS
<1>2. L \in Seq(PieceType) /\ Layout[t] = L
  <2>1. 1 \in Nat \ {0}
    OBVIOUS
  <2>2. Header(t) = <<>>
    BY DEF Header
  <2>3. Layout[t] = Header(t) \o L /\ L \in Seq(PieceType)
    BY <1>1, <2>1, TailPiecesSteps
  <2> QED
    BY <2>2, <2>3
<1>3. y \in Calls /\ y[1] = t /\ y[2] = 1 /\ y[3] = 0
  BY <1>1, CallsAre, 1 \in Nat \ {0}, 0 \in Nat
<1>4. msg \in Seq(Seq(Byte)) /\ Room(L, msg, 0)
  BY <1>2, MessageHolds
<1>5. c = Writer(msg)[y]
  BY <1>1, ConversionIsWriter
<1>6. WritesPieces(c, L, msg, 0, Sure(t))
  BY <1>1, <1>3, <1>4, <1>5, CallsWrite
<1>7. ZeroWire(L, msg, 0) = Ros1Omitting(msg, t, zeros)
  BY <1>2, ZeroWireIsRos1
<1> QED
  BY <1>1, <1>6, <1>7 DEF WritesPieces

\* A message and its seqs fill the pieces of a layout.
Fits(L, msg, seqs) ==
  /\ msg \in Seq(Seq(Byte)) /\ Len(msg) = LeafCount(L)
  /\ seqs \in Seq(Seq(Byte)) /\ Len(seqs) = SeqCount(L)

\* Each has the size the reader looks for.
Proper(L, msg, seqs) ==
  \A j \in 1..Len(L) :
    /\ L[j].kind = "seq" => Len(seqs[Seqs(L, j)]) = 4
    /\ L[j].kind = "string" => Len(msg[Leaves(L, j)]) \in 1..MaxString
    /\ L[j].kind = "scalar" => Len(msg[Leaves(L, j)]) = L[j].size

\* What fills a layout has a leaf for every leaf piece and a seq for every seq piece.
LEMMA FitsHolds ==
  ASSUME NEW L \in Seq(PieceType), NEW msg, NEW seqs, Fits(L, msg, seqs)
  PROVE  Holds(L, msg, 0, seqs, 0)
<1>1. /\ LeafCount(L) \in Nat /\ SeqCount(L) \in Nat
      /\ msg \in Seq(Seq(Byte)) /\ Len(msg) = LeafCount(L)
      /\ seqs \in Seq(Seq(Byte)) /\ Len(seqs) = SeqCount(L)
  BY CountTypes DEF Fits
<1>2. \A k \in 1..LeafCount(L) : 0 + k = k /\ msg[k] \in Seq(Byte)
  BY <1>1
<1>3. \A k \in 1..SeqCount(L) : 0 + k = k /\ seqs[k] \in Seq(Byte)
  BY <1>1
<1> QED
  BY <1>2, <1>3 DEF Holds

\* What fills a layout has bytes.
LEMMA FitsWire ==
  ASSUME NEW L \in Seq(PieceType), NEW msg, NEW seqs, Fits(L, msg, seqs)
  PROVE  Wire(L, msg, seqs) \in Seq(Byte)
<1>1. WireFrom(L, msg, 0, seqs, 0) \in Seq(Byte)
  BY FitsHolds, WireFromType
<1> QED
  BY <1>1, WireFromStart

\* Wires of the same leaves and seqs are the same.
Agree(L, msg, p, seqs, q, msg2, p2, seqs2, q2) ==
  /\ p \in Nat /\ q \in Nat /\ p2 \in Nat /\ q2 \in Nat
  /\ \A k \in 1..LeafCount(L) : msg[p + k] = msg2[p2 + k]
  /\ \A k \in 1..SeqCount(L) : seqs[q + k] = seqs2[q2 + k]

\* Leaves and seqs that agree where the layout looks give the same bytes.
LEMMA AgreeingWires ==
  ASSUME NEW L \in Seq(PieceType), NEW msg, NEW p, NEW seqs, NEW q,
         NEW msg2, NEW p2, NEW seqs2, NEW q2, Agree(L, msg, p, seqs, q, msg2, p2, seqs2, q2)
  PROVE  WireFrom(L, msg, p, seqs, q) = WireFrom(L, msg2, p2, seqs2, q2)
<1>1. ASSUME NEW j \in DOMAIN L
      PROVE  WirePiece(L, j, msg, p, seqs, q) = WirePiece(L, j, msg2, p2, seqs2, q2)
  <2>1. j \in 1..Len(L) /\ Len(L) \in Nat
    OBVIOUS
  <2>2. CASE L[j].kind = "seq"
    <3>1. Seqs(L, j) \in 1..SeqCount(L)
      BY <2>1, <2>2, PieceHasItsOwn DEF SeqCount
    <3> QED
      BY <2>2, <3>1 DEF Agree, WirePiece
  <2>3. CASE L[j].kind # "seq"
    <3>1. Leaves(L, j) \in 1..LeafCount(L)
      BY <2>1, <2>3, PieceHasItsOwn DEF LeafCount
    <3>2. msg[p + Leaves(L, j)] = msg2[p2 + Leaves(L, j)]
      BY <3>1 DEF Agree
    <3> QED
      BY <2>3, <3>2 DEF WirePiece
  <2> QED
    BY <2>2, <2>3
<1> QED
  BY <1>1 DEF WireFrom

\* Messages and seqs one behind the other, as a layout of both parts sees them.
Joins(a, b, m1, s1, m2, s2) ==
  /\ Fits(a \o b, m1 \o m2, s1 \o s2)
  /\ Wire(a \o b, m1 \o m2, s1 \o s2) = Wire(a, m1, s1) \o Wire(b, m2, s2)

\* What fills two layouts fills both one behind the other, with the bytes of both.
LEMMA FitsJoin ==
  ASSUME NEW a \in Seq(PieceType), NEW b \in Seq(PieceType),
         NEW m1, NEW s1, NEW m2, NEW s2, Fits(a, m1, s1), Fits(b, m2, s2)
  PROVE  Joins(a, b, m1, s1, m2, s2)
<1>0. PICK S : S = Seq(Byte)
  OBVIOUS
<1>1. PICK n, q, n2, q2 : n = LeafCount(a) /\ q = SeqCount(a) /\ n2 = LeafCount(b) /\ q2 = SeqCount(b)
  OBVIOUS
<1>2. /\ n \in Nat /\ q \in Nat /\ n2 \in Nat /\ q2 \in Nat
      /\ m1 \in Seq(S) /\ Len(m1) = n /\ s1 \in Seq(S) /\ Len(s1) = q
      /\ m2 \in Seq(S) /\ Len(m2) = n2 /\ s2 \in Seq(S) /\ Len(s2) = q2
  BY <1>0, <1>1, CountTypes DEF Fits
<1>3. PICK l, m, s : l = a \o b /\ m = m1 \o m2 /\ s = s1 \o s2
  OBVIOUS
<1>4. /\ m \in Seq(S) /\ Len(m) = n + n2
      /\ (\A k \in 1..n : m[k] = m1[k]) /\ (\A k \in 1..n2 : m[n + k] = m2[k])
  <2>0. m1 \in Seq(S) /\ m2 \in Seq(S)
    BY <1>2
  <2>1. /\ m1 \o m2 \in Seq(S) /\ Len(m1 \o m2) = Len(m1) + Len(m2)
        /\ \A k \in 1..Len(m1) : (m1 \o m2)[k] = m1[k]
        /\ \A k \in 1..Len(m2) : (m1 \o m2)[Len(m1) + k] = m2[k]
    BY <2>0, ConcatElements
  <2> QED
    BY <1>2, <1>3, <2>1
<1>5. /\ s \in Seq(S) /\ Len(s) = q + q2
      /\ (\A k \in 1..q : s[k] = s1[k]) /\ (\A k \in 1..q2 : s[q + k] = s2[k])
  <2>0. s1 \in Seq(S) /\ s2 \in Seq(S)
    BY <1>2
  <2>1. /\ s1 \o s2 \in Seq(S) /\ Len(s1 \o s2) = Len(s1) + Len(s2)
        /\ \A k \in 1..Len(s1) : (s1 \o s2)[k] = s1[k]
        /\ \A k \in 1..Len(s2) : (s1 \o s2)[Len(s1) + k] = s2[k]
    BY <2>0, ConcatElements
  <2> QED
    BY <1>2, <1>3, <2>1
<1>6. l \in Seq(PieceType) /\ LeafCount(l) = n + n2 /\ SeqCount(l) = q + q2
  BY <1>1, <1>3, CountsAdd
<1>7. Fits(l, m, s)
  BY <1>0, <1>4, <1>5, <1>6 DEF Fits
<1>8. PICK z : z = 0
  OBVIOUS
<1>9. Holds(a \o b, m, z, s, z)
  BY <1>3, <1>6, <1>7, <1>8, FitsHolds
<1>10. WireFrom(a \o b, m, z, s, z) = WireFrom(a, m, z, s, z) \o WireFrom(b, m, z + LeafCount(a), s, z + SeqCount(a))
  BY <1>9, WireFromConcat
<1>11. WireFrom(a, m, z, s, z) = WireFrom(a, m1, z, s1, z)
  <2>1. \A k \in 1..LeafCount(a) : m[z + k] = m1[z + k]
    BY <1>1, <1>2, <1>4, <1>8
  <2>2. \A k \in 1..SeqCount(a) : s[z + k] = s1[z + k]
    BY <1>1, <1>2, <1>5, <1>8
  <2>3. z \in Nat
    BY <1>8
  <2>4. Agree(a, m, z, s, z, m1, z, s1, z)
    BY <2>1, <2>2, <2>3 DEF Agree
  <2> QED
    BY <2>4, AgreeingWires
<1>12. WireFrom(b, m, n, s, q) = WireFrom(b, m2, z, s2, z)
  <2>1. \A k \in 1..LeafCount(b) : m[n + k] = m2[z + k]
    BY <1>1, <1>2, <1>4, <1>8
  <2>2. \A k \in 1..SeqCount(b) : s[q + k] = s2[z + k]
    BY <1>1, <1>2, <1>5, <1>8
  <2>3. z \in Nat
    BY <1>8
  <2>4. Agree(b, m, n, s, q, m2, z, s2, z)
    BY <1>2, <2>1, <2>2, <2>3 DEF Agree
  <2> QED
    BY <2>4, AgreeingWires
<1>13. z + LeafCount(a) = n /\ z + SeqCount(a) = q
  BY <1>1, <1>2, <1>8
<1>14. Wire(a, m1, s1) = WireFrom(a, m1, z, s1, z) /\ Wire(b, m2, s2) = WireFrom(b, m2, z, s2, z)
       /\ Wire(l, m, s) = WireFrom(l, m, z, s, z)
  BY <1>6, <1>8, WireFromStart
<1> QED
  BY <1>3, <1>7, <1>10, <1>11, <1>12, <1>13, <1>14 DEF Joins

\* What fills two layouts one after the other comes apart.
Apart(S, s, n, k) == \E x \in Seq(S), y \in Seq(S) : Len(x) = n /\ Len(y) = k /\ s = x \o y

\* The first leaves and seqs fill the first part, the rest the second.
LEMMA ComesApart ==
  ASSUME NEW S, NEW s \in Seq(S), NEW n \in Nat, NEW k \in Nat, Len(s) = n + k
  PROVE  Apart(S, s, n, k)
<1>1. PICK x, y : x = [i \in 1..n |-> s[i]] /\ y = [i \in 1..k |-> s[n + i]]
  OBVIOUS
<1>2. x \in Seq(S) /\ Len(x) = n /\ \A i \in 1..n : x[i] = s[i]
  <2>1. \A i \in 1..n : x[i] \in S /\ x[i] = s[i]
    BY <1>1
  <2>2. x = [i \in 1..n |-> x[i]]
    BY <1>1
  <2> QED
    BY <2>1, <2>2, FunctionIsSeq
<1>3. y \in Seq(S) /\ Len(y) = k /\ \A i \in 1..k : y[i] = s[n + i]
  <2>1. \A i \in 1..k : n + i \in 1..Len(s)
    OBVIOUS
  <2>2. \A i \in 1..k : y[i] \in S /\ y[i] = s[n + i]
    BY <1>1, <2>1
  <2>3. y = [i \in 1..k |-> y[i]]
    BY <1>1
  <2> QED
    BY <2>2, <2>3, FunctionIsSeq
<1>4. PICK z : z = x \o y
  OBVIOUS
<1>5. /\ z \in Seq(S) /\ Len(z) = n + k
      /\ (\A i \in 1..n : z[i] = x[i]) /\ (\A i \in 1..k : z[n + i] = y[i])
  <2>0. x \in Seq(S) /\ y \in Seq(S)
    BY <1>2, <1>3
  <2>1. /\ x \o y \in Seq(S) /\ Len(x \o y) = Len(x) + Len(y)
        /\ \A i \in 1..Len(x) : (x \o y)[i] = x[i]
        /\ \A i \in 1..Len(y) : (x \o y)[Len(x) + i] = y[i]
    BY <2>0, ConcatElements
  <2> QED
    BY <1>2, <1>3, <1>4, <2>1
<1>6. ASSUME NEW i \in 1..Len(s) PROVE s[i] = z[i]
  <2>1. CASE i <= n
    BY <1>2, <1>5, <2>1
  <2>2. CASE i > n
    <3>1. PICK j : j = i - n
      OBVIOUS
    <3>2. j \in 1..k /\ i = n + j
      BY <2>2, <3>1
    <3> QED
      BY <1>3, <1>5, <3>2
  <2> QED
    BY <2>1, <2>2
<1>7. s = z
  BY <1>5, <1>6, SameElements
<1> QED
  BY <1>2, <1>3, <1>4, <1>7 DEF Apart

\* What fills a layout of two parts comes from what fills each.
Splits(a, b, msg, seqs) ==
  \E m1, s1, m2, s2 : /\ Fits(a, m1, s1) /\ Fits(b, m2, s2)
                      /\ msg = m1 \o m2 /\ seqs = s1 \o s2

\* What fills two layouts one behind the other comes apart.
LEMMA FitsSplit ==
  ASSUME NEW a \in Seq(PieceType), NEW b \in Seq(PieceType),
         NEW msg, NEW seqs, Fits(a \o b, msg, seqs)
  PROVE  Splits(a, b, msg, seqs)
<1>0. PICK S : S = Seq(Byte)
  OBVIOUS
<1>1. /\ LeafCount(a) \in Nat /\ SeqCount(a) \in Nat /\ LeafCount(b) \in Nat /\ SeqCount(b) \in Nat
      /\ msg \in Seq(S) /\ Len(msg) = LeafCount(a) + LeafCount(b)
      /\ seqs \in Seq(S) /\ Len(seqs) = SeqCount(a) + SeqCount(b)
  BY <1>0, CountTypes, CountsAdd DEF Fits
<1>2. PICK m1 \in Seq(S), m2 \in Seq(S) :
        Len(m1) = LeafCount(a) /\ Len(m2) = LeafCount(b) /\ msg = m1 \o m2
  <2>1. PICK n, k : n = LeafCount(a) /\ k = LeafCount(b)
    OBVIOUS
  <2>2. n \in Nat /\ k \in Nat /\ msg \in Seq(S) /\ Len(msg) = n + k
    BY <1>1, <2>1
  <2>3. Apart(S, msg, n, k)
    BY <2>2, ComesApart
  <2> QED
    BY <2>1, <2>3 DEF Apart
<1>3. PICK s1 \in Seq(S), s2 \in Seq(S) :
        Len(s1) = SeqCount(a) /\ Len(s2) = SeqCount(b) /\ seqs = s1 \o s2
  <2>1. PICK n, k : n = SeqCount(a) /\ k = SeqCount(b)
    OBVIOUS
  <2>2. n \in Nat /\ k \in Nat /\ seqs \in Seq(S) /\ Len(seqs) = n + k
    BY <1>1, <2>1
  <2>3. Apart(S, seqs, n, k)
    BY <2>2, ComesApart
  <2> QED
    BY <2>1, <2>3 DEF Apart
<1>4. Fits(a, m1, s1) /\ Fits(b, m2, s2)
  BY <1>0, <1>2, <1>3 DEF Fits
<1> QED
  BY <1>2, <1>3, <1>4 DEF Splits

\* The parts of a proper layout are proper.
LEMMA ProperParts ==
  ASSUME NEW a \in Seq(PieceType), NEW b \in Seq(PieceType),
         NEW m1, NEW s1, NEW m2, NEW s2, Fits(a, m1, s1), Fits(b, m2, s2),
         Proper(a \o b, m1 \o m2, s1 \o s2)
  PROVE  Proper(a, m1, s1) /\ Proper(b, m2, s2)
<1>0. PICK S : S = Seq(Byte)
  OBVIOUS
<1>1. PICK n, q, n2, q2, l, m, s :
        /\ n = LeafCount(a) /\ q = SeqCount(a) /\ n2 = LeafCount(b) /\ q2 = SeqCount(b)
        /\ l = a \o b /\ m = m1 \o m2 /\ s = s1 \o s2
  OBVIOUS
<1>2. /\ n \in Nat /\ q \in Nat /\ n2 \in Nat /\ q2 \in Nat
      /\ m1 \in Seq(S) /\ Len(m1) = n /\ s1 \in Seq(S) /\ Len(s1) = q
      /\ m2 \in Seq(S) /\ Len(m2) = n2 /\ s2 \in Seq(S) /\ Len(s2) = q2
  BY <1>0, <1>1, CountTypes DEF Fits
<1>3. (\A k \in 1..n : m[k] = m1[k]) /\ (\A k \in 1..n2 : m[n + k] = m2[k])
  <2>0. m1 \in Seq(S) /\ m2 \in Seq(S)
    BY <1>2
  <2>1. /\ m1 \o m2 \in Seq(S) /\ Len(m1 \o m2) = Len(m1) + Len(m2)
        /\ \A k \in 1..Len(m1) : (m1 \o m2)[k] = m1[k]
        /\ \A k \in 1..Len(m2) : (m1 \o m2)[Len(m1) + k] = m2[k]
    BY <2>0, ConcatElements
  <2> QED
    BY <1>1, <1>2, <2>1
<1>4. (\A k \in 1..q : s[k] = s1[k]) /\ (\A k \in 1..q2 : s[q + k] = s2[k])
  <2>0. s1 \in Seq(S) /\ s2 \in Seq(S)
    BY <1>2
  <2>1. /\ s1 \o s2 \in Seq(S) /\ Len(s1 \o s2) = Len(s1) + Len(s2)
        /\ \A k \in 1..Len(s1) : (s1 \o s2)[k] = s1[k]
        /\ \A k \in 1..Len(s2) : (s1 \o s2)[Len(s1) + k] = s2[k]
    BY <2>0, ConcatElements
  <2> QED
    BY <1>1, <1>2, <2>1
<1>5. PICK x, y : x = Len(a) /\ y = Len(b)
  OBVIOUS
<1>6. /\ x \in Nat /\ y \in Nat /\ Len(l) = x + y
      /\ (\A j \in 1..x : l[j] = a[j]) /\ (\A j \in 1..y : l[x + j] = b[j])
  BY <1>1, <1>5, ConcatElements
<1>7. /\ \A j \in 1..x : Seqs(l, j) = Seqs(a, j) /\ Leaves(l, j) = Leaves(a, j)
      /\ \A j \in 1..y : Seqs(l, x + j) = q + Seqs(b, j) /\ Leaves(l, x + j) = n + Leaves(b, j)
  <2>1. /\ \A j \in 0..x : Seqs(l, j) = Seqs(a, j) /\ Leaves(l, j) = Leaves(a, j)
        /\ \A j \in 0..y : Seqs(l, x + j) = q + Seqs(b, j) /\ Leaves(l, x + j) = n + Leaves(b, j)
    BY <1>1, <1>5, CountsOfBoth
  <2> QED
    BY <1>6, <2>1
<1>8. \A j \in 1..Len(l) :
        /\ l[j].kind = "seq" => Len(s[Seqs(l, j)]) = 4
        /\ l[j].kind = "string" => Len(m[Leaves(l, j)]) \in 1..MaxString
        /\ l[j].kind = "scalar" => Len(m[Leaves(l, j)]) = l[j].size
  BY <1>1 DEF Proper
<1>9. ASSUME NEW j \in 1..x
      PROVE  /\ a[j].kind = "seq" => Len(s1[Seqs(a, j)]) = 4
             /\ a[j].kind = "string" => Len(m1[Leaves(a, j)]) \in 1..MaxString
             /\ a[j].kind = "scalar" => Len(m1[Leaves(a, j)]) = a[j].size
  <2>1. j \in 1..Len(l) /\ l[j] = a[j] /\ Seqs(l, j) = Seqs(a, j) /\ Leaves(l, j) = Leaves(a, j)
    BY <1>6, <1>7
  <2>2. /\ a[j].kind = "seq" => Seqs(a, j) \in 1..q
        /\ a[j].kind # "seq" => Leaves(a, j) \in 1..n
    BY <1>1, <1>5, <1>6, PieceHasItsOwn DEF SeqCount, LeafCount
  <2>3. /\ a[j].kind = "seq" => s[Seqs(a, j)] = s1[Seqs(a, j)]
        /\ a[j].kind # "seq" => m[Leaves(a, j)] = m1[Leaves(a, j)]
    BY <1>3, <1>4, <2>2
  <2> QED
    BY <1>8, <2>1, <2>3
<1>10. ASSUME NEW j \in 1..y
       PROVE  /\ b[j].kind = "seq" => Len(s2[Seqs(b, j)]) = 4
              /\ b[j].kind = "string" => Len(m2[Leaves(b, j)]) \in 1..MaxString
              /\ b[j].kind = "scalar" => Len(m2[Leaves(b, j)]) = b[j].size
  <2>0. PICK i : i = x + j
    OBVIOUS
  <2>1. i \in 1..Len(l) /\ l[i] = b[j] /\ Seqs(l, i) = q + Seqs(b, j) /\ Leaves(l, i) = n + Leaves(b, j)
    BY <1>6, <1>7, <2>0
  <2>2. /\ b[j].kind = "seq" => Seqs(b, j) \in 1..q2
        /\ b[j].kind # "seq" => Leaves(b, j) \in 1..n2
    BY <1>1, <1>5, <1>6, PieceHasItsOwn DEF SeqCount, LeafCount
  <2>3. /\ b[j].kind = "seq" => s[Seqs(l, i)] = s2[Seqs(b, j)]
        /\ b[j].kind # "seq" => m[Leaves(l, i)] = m2[Leaves(b, j)]
    BY <1>3, <1>4, <2>1, <2>2
  <2> QED
    BY <1>8, <2>1, <2>3
<1> QED
  BY <1>5, <1>9, <1>10 DEF Proper

----------------------------------------------------------------------------
\* The bytes of a stream at a place

\* These bytes are at this place of the stream.
At(stream, at, w) == at + Len(w) <= Len(stream) /\ \A k \in 1..Len(w) : stream[at + k] = w[k]

\* Bytes one behind the other are at a place if each is where it should be.
LEMMA AtParts ==
  ASSUME NEW stream \in Seq(Byte), NEW at \in Nat, NEW x \in Seq(Byte), NEW y \in Seq(Byte)
  PROVE  /\ Len(x) \in Nat /\ Len(y) \in Nat /\ Len(x \o y) = Len(x) + Len(y)
         /\ At(stream, at, x \o y) <=> At(stream, at, x) /\ At(stream, at + Len(x), y)
<1>1. PICK n, k, w, l : n = Len(x) /\ k = Len(y) /\ w = x \o y /\ l = Len(stream)
  OBVIOUS
<1>2. n \in Nat /\ k \in Nat /\ l \in Nat
  BY <1>1
<1>3. Len(w) = n + k /\ (\A i \in 1..n : w[i] = x[i]) /\ (\A i \in 1..k : w[n + i] = y[i])
  BY <1>1, ConcatElements
<1>4. ASSUME At(stream, at, w)
      PROVE  At(stream, at, x) /\ At(stream, at + n, y)
  <2>1. at + (n + k) <= l /\ \A i \in 1..(n + k) : stream[at + i] = w[i]
    BY <1>1, <1>3, <1>4 DEF At
  <2>2. at + n <= l /\ (at + n) + k <= l
    BY <1>2, <2>1
  <2>3. \A i \in 1..n : stream[at + i] = x[i]
    BY <1>2, <1>3, <2>1
  <2>4. ASSUME NEW i \in 1..k PROVE stream[(at + n) + i] = y[i]
    <3>1. n + i \in 1..(n + k) /\ at + (n + i) = (at + n) + i
      BY <1>2
    <3> QED
      BY <1>3, <2>1, <3>1
  <2> QED
    BY <1>1, <2>2, <2>3, <2>4 DEF At
<1>5. ASSUME At(stream, at, x), At(stream, at + n, y)
      PROVE  At(stream, at, w)
  <2>1. (at + n) + k <= l /\ (\A i \in 1..n : stream[at + i] = x[i])
        /\ \A i \in 1..k : stream[(at + n) + i] = y[i]
    BY <1>1, <1>5 DEF At
  <2>2. at + (n + k) <= l
    BY <1>2, <2>1
  <2>3. ASSUME NEW i \in 1..(n + k) PROVE stream[at + i] = w[i]
    <3>1. CASE i <= n
      BY <1>2, <1>3, <2>1, <3>1
    <3>2. CASE i > n
      <4>1. PICK j : j = i - n
        OBVIOUS
      <4>2. j \in 1..k /\ i = n + j /\ at + i = (at + n) + j
        BY <1>2, <3>2, <4>1
      <4> QED
        BY <1>3, <2>1, <4>2
    <3> QED
      BY <1>2, <3>1, <3>2
  <2> QED
    BY <1>1, <1>3, <2>2, <2>3 DEF At
<1> QED
  BY <1>1, <1>2, <1>3, <1>4, <1>5

\* What a conversion that reads the pieces of a layout has to do.

\* All the places four bytes can be taken from.
Chunks(stream) == {SubSeq(stream, j, j + 3) : j \in 1..(Len(stream) - 3)}

\* When it succeeds, the stream spells what it returns.
Spells(c, L, stream, at) ==
  c.result = "true" =>
    \E seqs \in Seq(Chunks(stream)) :
      /\ Fits(L, c.out, seqs)
      /\ At(stream, at, Wire(L, c.out, seqs))
      /\ c.at = at + Len(Wire(L, c.out, seqs))

\* What the stream spells it returns.
Follows(c, L, stream, at) ==
  \A msg, seqs :
    Fits(L, msg, seqs) /\ Proper(L, msg, seqs) /\ At(stream, at, Wire(L, msg, seqs)) =>
      c.result = "true" /\ c.at = at + Len(Wire(L, msg, seqs)) /\ c.out = msg

\* A conversion from a place on reads a layout: what it returns is there, and what is there it returns.
Reads(c, L, stream, at, sure) ==
  /\ c \in Result(Seq(Byte))
  /\ Spells(c, L, stream, at)
  /\ sure => Follows(c, L, stream, at)

\* A chunk of a stream is four bytes.
LEMMA ChunkBytes ==
  ASSUME NEW stream \in Seq(Byte)
  PROVE  Chunks(stream) \subseteq Seq(Byte)
<1> SUFFICES ASSUME NEW j \in 1..(Len(stream) - 3)
             PROVE  SubSeq(stream, j, j + 3) \in Seq(Byte)
  BY DEF Chunks
<1> QED
  OBVIOUS

\* Nothing left to read.
LEMMA ReadsNothing ==
  ASSUME NEW stream \in Seq(Byte), NEW at \in 0..Len(stream), NEW sure
  PROVE  Reads(Going(at, <<>>), <<>>, stream, at, sure)
<1>1. PICK e, c : e = <<>> /\ c = Going(at, e)
  OBVIOUS
<1>2. at \in Nat /\ Len(stream) \in Nat
  OBVIOUS
<1>3. c \in Result(Seq(Byte)) /\ c.result = "true" /\ c.at = at /\ c.out = e
  BY <1>1, <1>2, GoingNothing
<1>4. LeafCount(e) = 0 /\ SeqCount(e) = 0
  BY <1>1, CountsOfNone
<1>5. e \in Seq(PieceType) /\ e \in Seq(Seq(Byte)) /\ e \in Seq(Chunks(stream)) /\ Len(e) = 0
  BY <1>1
<1>6. Fits(e, e, e)
  BY <1>4, <1>5 DEF Fits
<1>7. \A msg, seqs : Wire(e, msg, seqs) = e
  <2> SUFFICES ASSUME NEW msg, NEW seqs PROVE Wire(e, msg, seqs) = e
    OBVIOUS
  <2>1. PICK z : z = 0
    OBVIOUS
  <2>2. Wire(e, msg, seqs) = WireFrom(e, msg, z, seqs, z)
    BY <1>5, <2>1, WireFromStart
  <2>3. WireFrom(<<>>, msg, z, seqs, z) = <<>>
    BY WireFromNone
  <2> QED
    BY <1>1, <2>2, <2>3
<1>8. At(stream, at, e) /\ at = at + Len(e)
  BY <1>2, <1>5 DEF At
<1>9. Spells(c, e, stream, at)
  BY <1>3, <1>5, <1>6, <1>7, <1>8 DEF Spells
<1>10. \A msg, seqs : Fits(e, msg, seqs) => msg = e
  <2> SUFFICES ASSUME NEW msg, NEW seqs, Fits(e, msg, seqs) PROVE msg = e
    OBVIOUS
  <2>1. msg \in Seq(Seq(Byte)) /\ Len(msg) = 0
    BY <1>4 DEF Fits
  <2>2. PICK S : S = Seq(Byte)
    OBVIOUS
  <2>3. msg \in Seq(S) /\ Len(msg) = 0
    BY <2>1, <2>2
  <2> QED
    BY <1>1, <2>3, EmptyIsEmpty
<1>11. Follows(c, e, stream, at)
  BY <1>3, <1>7, <1>8, <1>10 DEF Follows
<1> QED
  BY <1>1, <1>3, <1>9, <1>11 DEF Reads

\* A conversion that has failed.
LEMMA ReadsFailing ==
  ASSUME NEW stream, NEW L, NEW at, NEW c \in Result(Seq(Byte)), c.result # "true"
  PROVE  Reads(c, L, stream, at, FALSE)
  BY DEF Reads, Spells

\* What reads surely reads.
LEMMA LessReads ==
  ASSUME NEW stream, NEW L, NEW at, NEW c, NEW x, NEW y, Reads(c, L, stream, at, x), y => x
  PROVE  Reads(c, L, stream, at, y)
  BY DEF Reads

----------------------------------------------------------------------------
\* One piece

\* A piece with its leaf and its seq, and the bytes they make.
OneFits(e, x, msg, seqs) ==
  IF e.kind = "seq" THEN msg = <<>> /\ seqs = <<x>> ELSE msg = <<x>> /\ seqs = <<>>
\* The bytes of a leaf.
PieceWire(e, x) ==
  CASE e.kind = "string" -> LE32(Len(x)) \o x
    [] e.kind = "omitted" -> <<>>
    [] OTHER -> x
\* The size a leaf has.
RightSize(e, x) ==
  /\ e.kind = "seq" => Len(x) = 4
  /\ e.kind = "string" => Len(x) \in 1..MaxString
  /\ e.kind = "scalar" => Len(x) = e.size

\* What fills a single piece, and the bytes it makes.
LEMMA OneThatFits ==
  ASSUME NEW e \in PieceType, NEW x \in Seq(Byte), NEW msg, NEW seqs, OneFits(e, x, msg, seqs)
  PROVE  /\ Fits(<<e>>, msg, seqs)
         /\ Wire(<<e>>, msg, seqs) = PieceWire(e, x)
         /\ Proper(<<e>>, msg, seqs) => RightSize(e, x)
<1>1. PICK L, z : L = <<e>> /\ z = 0
  OBVIOUS
<1>2. L \in Seq(PieceType) /\ Len(L) = 1 /\ L[1] = e /\ z + 1 = 1
  BY <1>1
<1>3. /\ e.kind = "seq" => SeqCount(L) = 1 /\ LeafCount(L) = 0
      /\ e.kind # "seq" => SeqCount(L) = 0 /\ LeafCount(L) = 1
  BY <1>1, CountsOfOne
<1>4. /\ e.kind = "seq" => seqs[1] = x
      /\ e.kind # "seq" => msg[1] = x
      /\ msg \in Seq(Seq(Byte)) /\ seqs \in Seq(Seq(Byte))
      /\ e.kind = "seq" => Len(msg) = 0 /\ Len(seqs) = 1
      /\ e.kind # "seq" => Len(msg) = 1 /\ Len(seqs) = 0
  <2>1. PICK S : S = Seq(Byte)
    OBVIOUS
  <2>2. <<x>> \in Seq(S) /\ Len(<<x>>) = 1 /\ <<x>>[1] = x /\ <<>> \in Seq(S) /\ Len(<<>>) = 0
    BY <2>1
  <2> QED
    BY <2>1, <2>2 DEF OneFits
<1>5. Fits(L, msg, seqs)
  BY <1>3, <1>4 DEF Fits
<1>6. OneWire(e, msg, z, seqs, z)
  <2>1. Holds(<<e>>, msg, z, seqs, z)
    BY <1>1, <1>2, <1>5, FitsHolds
  <2> QED
    BY <2>1, WireFromOne
<1>7. Wire(L, msg, seqs) = WireFrom(<<e>>, msg, z, seqs, z)
  BY <1>1, <1>2, WireFromStart
<1>8. e.kind \in {"seq", "string", "scalar", "messages", "omitted", "other"}
  BY DEF PieceType
<1>9. Wire(L, msg, seqs) = PieceWire(e, x)
  BY <1>2, <1>4, <1>6, <1>7, <1>8 DEF OneWire, PieceWire
<1>10. Proper(L, msg, seqs) => RightSize(e, x)
  <2>1. /\ e.kind = "seq" => Seqs(L, 1) = 1
        /\ e.kind # "seq" => Leaves(L, 1) = 1
    BY <1>2, <1>3 DEF SeqCount, LeafCount
  <2>2. 1 \in 1..Len(L)
    BY <1>2
  <2> QED
    BY <1>2, <1>4, <2>1, <2>2 DEF Proper, RightSize
<1> QED
  BY <1>1, <1>5, <1>9, <1>10

\* A leaf or a seq of the right size fills a single piece.
LEMMA FitsOne ==
  ASSUME NEW e \in PieceType, NEW msg, NEW seqs, Fits(<<e>>, msg, seqs)
  PROVE  \E x \in Seq(Byte) : OneFits(e, x, msg, seqs)
<1>1. PICK S : S = Seq(Byte)
  OBVIOUS
<1>2. /\ e.kind = "seq" => SeqCount(<<e>>) = 1 /\ LeafCount(<<e>>) = 0
      /\ e.kind # "seq" => SeqCount(<<e>>) = 0 /\ LeafCount(<<e>>) = 1
  BY CountsOfOne
<1>3. /\ msg \in Seq(S) /\ Len(msg) = LeafCount(<<e>>)
      /\ seqs \in Seq(S) /\ Len(seqs) = SeqCount(<<e>>)
  BY <1>1 DEF Fits
<1>4. ASSUME NEW s \in Seq(S), Len(s) = 1 PROVE s[1] \in S /\ s = <<s[1]>>
  <2>1. s[1] \in S
    BY <1>4
  <2>2. PICK y : y = <<s[1]>>
    OBVIOUS
  <2>3. y \in Seq(S) /\ Len(y) = 1 /\ y[1] = s[1]
    BY <2>1, <2>2
  <2>4. \A i \in 1..Len(s) : s[i] = y[i]
    BY <1>4, <2>3
  <2>5. s = y
    BY <1>4, <2>3, <2>4, SameElements
  <2> QED
    BY <2>1, <2>2, <2>5
<1>5. CASE e.kind = "seq"
  <2>1. seqs[1] \in S /\ seqs = <<seqs[1]>>
    BY <1>2, <1>3, <1>4, <1>5
  <2>2. msg = <<>>
    <3>1. msg \in Seq(S) /\ Len(msg) = 0
      BY <1>2, <1>3, <1>5
    <3> QED
      BY <3>1, EmptyIsEmpty
  <2> QED
    BY <1>1, <1>5, <2>1, <2>2 DEF OneFits
<1>6. CASE e.kind # "seq"
  <2>1. msg[1] \in S /\ msg = <<msg[1]>>
    BY <1>2, <1>3, <1>4, <1>6
  <2>2. seqs = <<>>
    <3>1. seqs \in Seq(S) /\ Len(seqs) = 0
      BY <1>2, <1>3, <1>6
    <3> QED
      BY <3>1, EmptyIsEmpty
  <2> QED
    BY <1>1, <1>6, <2>1, <2>2 DEF OneFits
<1> QED
  BY <1>5, <1>6

\* A step that reads one piece.
Takes(c, e, x, at) ==
  /\ c.result = "true"
  /\ c.at = at + Len(PieceWire(e, x))
  /\ c.out = IF e.kind = "seq" THEN <<>> ELSE <<x>>

\* A step that returns what is there as one leaf reads a layout of one piece.
LEMMA ReadsOne ==
  ASSUME NEW stream \in Seq(Byte), NEW e \in PieceType, NEW at \in Nat, NEW sure,
         NEW c \in Result(Seq(Byte)),
         c.result = "true" =>
           \E x \in Seq(Byte) : /\ Takes(c, e, x, at) /\ At(stream, at, PieceWire(e, x))
                                /\ e.kind = "seq" => x \in Chunks(stream),
         sure => \A x \in Seq(Byte) :
                   RightSize(e, x) /\ At(stream, at, PieceWire(e, x)) => Takes(c, e, x, at)
  PROVE  Reads(c, <<e>>, stream, at, sure)
<1>1. ASSUME c.result = "true"
      PROVE  \E seqs \in Seq(Chunks(stream)) :
               /\ Fits(<<e>>, c.out, seqs)
               /\ At(stream, at, Wire(<<e>>, c.out, seqs))
               /\ c.at = at + Len(Wire(<<e>>, c.out, seqs))
  <2>1. PICK x \in Seq(Byte) : /\ Takes(c, e, x, at) /\ At(stream, at, PieceWire(e, x))
                               /\ e.kind = "seq" => x \in Chunks(stream)
    BY <1>1
  <2>2. PICK seqs : seqs = IF e.kind = "seq" THEN <<x>> ELSE <<>>
    OBVIOUS
  <2>3. seqs \in Seq(Chunks(stream))
    <3>1. CASE e.kind = "seq"
      BY <2>1, <2>2, <3>1
    <3>2. CASE e.kind # "seq"
      BY <2>2, <3>2
    <3> QED
      BY <3>1, <3>2
  <2>4. OneFits(e, x, c.out, seqs)
    BY <2>1, <2>2 DEF OneFits, Takes
  <2>5. Fits(<<e>>, c.out, seqs) /\ Wire(<<e>>, c.out, seqs) = PieceWire(e, x)
    BY <2>4, OneThatFits
  <2> QED
    BY <2>1, <2>3, <2>5 DEF Takes
<1>2. ASSUME sure, NEW msg, NEW seqs, Fits(<<e>>, msg, seqs), Proper(<<e>>, msg, seqs),
             At(stream, at, Wire(<<e>>, msg, seqs))
      PROVE  c.result = "true" /\ c.at = at + Len(Wire(<<e>>, msg, seqs)) /\ c.out = msg
  <2>1. PICK x \in Seq(Byte) : OneFits(e, x, msg, seqs)
    BY <1>2, FitsOne
  <2>2. Wire(<<e>>, msg, seqs) = PieceWire(e, x) /\ RightSize(e, x)
    BY <1>2, <2>1, OneThatFits
  <2>3. Takes(c, e, x, at)
    BY <1>2, <2>2
  <2> QED
    BY <2>1, <2>2, <2>3 DEF Takes, OneFits
<1> QED
  BY <1>1, <1>2 DEF Reads, Spells, Follows

\* One step and what follows it.
LEMMA ThenReads ==
  ASSUME NEW stream \in Seq(Byte), NEW a \in Seq(PieceType), NEW b \in Seq(PieceType),
         NEW at \in Nat, NEW sure, NEW this, NEW rest,
         Reads(this, a, stream, at, sure),
         this.result = "true" => Reads(rest[this.at], b, stream, this.at, sure)
  PROVE  Reads(Then(this, rest), a \o b, stream, at, sure)
<1>1. PICK c, r, S : c = Then(this, rest) /\ r = rest[this.at] /\ S = Seq(Byte)
  OBVIOUS
<1>2. this \in Result(S) /\ (this.result = "true" => r \in Result(S))
  BY <1>1 DEF Reads
<1>3. /\ c \in Result(S)
      /\ this.result # "true" => c = this
      /\ this.result = "true" => c.result = r.result /\ c.at = r.at /\ c.out = this.out \o r.out
  <2>1. this.result = "true" => rest[this.at] \in Result(S)
    BY <1>1, <1>2
  <2>2. /\ Then(this, rest) \in Result(S)
        /\ this.result # "true" => Then(this, rest) = this
        /\ this.result = "true" =>
             /\ Then(this, rest).result = rest[this.at].result
             /\ Then(this, rest).at = rest[this.at].at
             /\ Then(this, rest).out = this.out \o rest[this.at].out
    BY <1>2, <2>1, ThenSteps
  <2> QED
    BY <1>1, <2>2
<1>4. ASSUME c.result = "true"
      PROVE  \E seqs \in Seq(Chunks(stream)) :
               /\ Fits(a \o b, c.out, seqs)
               /\ At(stream, at, Wire(a \o b, c.out, seqs))
               /\ c.at = at + Len(Wire(a \o b, c.out, seqs))
  <2>1. this.result = "true" /\ r.result = "true"
    BY <1>3, <1>4
  <2>2. PICK s1 \in Seq(Chunks(stream)) :
          /\ Fits(a, this.out, s1) /\ At(stream, at, Wire(a, this.out, s1))
          /\ this.at = at + Len(Wire(a, this.out, s1))
    BY <2>1 DEF Reads, Spells
  <2>3. PICK s2 \in Seq(Chunks(stream)) :
          /\ Fits(b, r.out, s2) /\ At(stream, this.at, Wire(b, r.out, s2))
          /\ r.at = this.at + Len(Wire(b, r.out, s2))
    BY <1>1, <2>1 DEF Reads, Spells
  <2>4. PICK x, y : x = Wire(a, this.out, s1) /\ y = Wire(b, r.out, s2)
    OBVIOUS
  <2>5. x \in Seq(Byte) /\ y \in Seq(Byte)
    BY <2>2, <2>3, <2>4, FitsWire
  <2>6. /\ Fits(a \o b, this.out \o r.out, s1 \o s2)
        /\ Wire(a \o b, this.out \o r.out, s1 \o s2) = x \o y
    <3>1. Joins(a, b, this.out, s1, r.out, s2)
      BY <2>2, <2>3, FitsJoin
    <3> QED
      BY <2>4, <3>1 DEF Joins
  <2>7. /\ Len(x) \in Nat /\ Len(y) \in Nat /\ Len(x \o y) = Len(x) + Len(y)
        /\ At(stream, at, x \o y) <=> At(stream, at, x) /\ At(stream, at + Len(x), y)
    BY <2>5, AtParts
  <2>8. At(stream, at, x \o y) /\ r.at = at + Len(x \o y)
    BY <2>2, <2>3, <2>4, <2>7
  <2>9. s1 \o s2 \in Seq(Chunks(stream))
    OBVIOUS
  <2> QED
    BY <1>3, <2>1, <2>6, <2>8, <2>9
<1>5. ASSUME sure, NEW msg, NEW seqs, Fits(a \o b, msg, seqs), Proper(a \o b, msg, seqs),
             At(stream, at, Wire(a \o b, msg, seqs))
      PROVE  c.result = "true" /\ c.at = at + Len(Wire(a \o b, msg, seqs)) /\ c.out = msg
  <2>1. PICK m1, s1, m2, s2 : /\ Fits(a, m1, s1) /\ Fits(b, m2, s2)
                              /\ msg = m1 \o m2 /\ seqs = s1 \o s2
    <3>1. Splits(a, b, msg, seqs)
      BY <1>5, FitsSplit
    <3> QED
      BY <3>1 DEF Splits
  <2>2. PICK x, y : x = Wire(a, m1, s1) /\ y = Wire(b, m2, s2)
    OBVIOUS
  <2>3. x \in Seq(Byte) /\ y \in Seq(Byte)
    BY <2>1, <2>2, FitsWire
  <2>4. Wire(a \o b, m1 \o m2, s1 \o s2) = x \o y
    <3>1. Joins(a, b, m1, s1, m2, s2)
      BY <2>1, FitsJoin
    <3> QED
      BY <2>2, <3>1 DEF Joins
  <2>5. Proper(a, m1, s1) /\ Proper(b, m2, s2)
    <3>1. Proper(a \o b, m1 \o m2, s1 \o s2)
      BY <1>5, <2>1
    <3> QED
      BY <2>1, <3>1, ProperParts
  <2>6. /\ Len(x) \in Nat /\ Len(y) \in Nat /\ Len(x \o y) = Len(x) + Len(y)
        /\ At(stream, at, x \o y) <=> At(stream, at, x) /\ At(stream, at + Len(x), y)
    BY <2>3, AtParts
  <2>7. At(stream, at, x) /\ At(stream, at + Len(x), y)
    BY <1>5, <2>1, <2>4, <2>6
  <2>8. this.result = "true" /\ this.at = at + Len(x) /\ this.out = m1
    BY <1>5, <2>1, <2>2, <2>5, <2>7 DEF Reads, Follows
  <2>9. r.result = "true" /\ r.at = (at + Len(x)) + Len(y) /\ r.out = m2
    BY <1>1, <1>5, <2>1, <2>2, <2>5, <2>7, <2>8 DEF Reads, Follows
  <2> QED
    BY <1>3, <2>1, <2>4, <2>6, <2>8, <2>9
<1> QED
  BY <1>1, <1>3, <1>4, <1>5 DEF Reads, Spells, Follows

----------------------------------------------------------------------------
\* The reads of Ros_Stream

\* Skip goes on behind the bytes it skips, or stops.
LEMMA SkipSteps ==
  ASSUME NEW stream \in Seq(Byte), NEW at \in Nat, NEW n \in Nat
  PROVE  /\ Skip(stream, at, n) \in Result(Seq(Byte))
         /\ at + n <= Len(stream) => Skip(stream, at, n) = Going(at + n, <<>>)
         /\ ~(at + n <= Len(stream)) => Skip(stream, at, n) = Stop(Going(at, <<>>), "throws")
<1>1. at + n \in Nat
  OBVIOUS
<1>2. CASE at + n <= Len(stream)
  <2>1. Skip(stream, at, n) = Going(at + n, <<>>)
    BY <1>2 DEF Skip
  <2> QED
    BY <1>1, <1>2, <2>1, GoingNothing
<1>3. CASE ~(at + n <= Len(stream))
  <2>1. Skip(stream, at, n) = Stop(Going(at, <<>>), "throws")
    BY <1>3 DEF Skip
  <2> QED
    BY <1>3, <2>1, StopNothing DEF Outcomes
<1> QED
  BY <1>2, <1>3

\* The n bytes from a place on.
BytesAt(stream, at, n) == SubSeq(stream, at + 1, at + n)

\* The n bytes from a place on are bytes of the stream.
LEMMA BytesAtSteps ==
  ASSUME NEW stream \in Seq(Byte), NEW at \in Nat, NEW n \in Nat, at + n <= Len(stream)
  PROVE  /\ BytesAt(stream, at, n) \in Seq(Byte) /\ Len(BytesAt(stream, at, n)) = n
         /\ \A k \in 1..n : BytesAt(stream, at, n)[k] = stream[at + k]
         /\ At(stream, at, BytesAt(stream, at, n))
         /\ \A x \in Seq(Byte) : Len(x) = n /\ At(stream, at, x) => x = BytesAt(stream, at, n)
<1>1. PICK w : w = BytesAt(stream, at, n)
  OBVIOUS
<1>2. w \in Seq(Byte) /\ Len(w) = n /\ \A k \in 1..n : w[k] = stream[at + k]
  <2>1. PICK i, j : i = at + 1 /\ j = at + n
    OBVIOUS
  <2>2. i \in Nat /\ j \in Nat /\ i >= 1 /\ j <= Len(stream) /\ i <= j + 1 /\ j - i + 1 = n
    BY <2>1
  <2>3. w = SubSeq(stream, i, j)
    BY <1>1, <2>1 DEF BytesAt
  <2>4. w \in Seq(Byte)
    BY <2>2, <2>3
  <2>5. Len(w) = n
    BY <2>2, <2>3
  <2>6. \A k \in 1..n : w[k] = stream[i + k - 1]
    BY <2>2, <2>3
  <2>7. \A k \in 1..n : i + k - 1 = at + k
    BY <2>1
  <2> QED
    BY <2>4, <2>5, <2>6, <2>7
<1>3. At(stream, at, w)
  BY <1>2 DEF At
<1>4. ASSUME NEW x \in Seq(Byte), Len(x) = n, At(stream, at, x)
      PROVE  x = w
  <2>1. \A k \in 1..Len(x) : x[k] = w[k]
    BY <1>2, <1>4 DEF At
  <2> QED
    BY <1>2, <1>4, <2>1, SameElements
<1> QED
  BY <1>1, <1>2, <1>3, <1>4

\* Read gives the n bytes that are there, or stops.
LEMMA ReadSteps ==
  ASSUME NEW stream \in Seq(Byte), NEW at \in Nat, NEW n \in Nat
  PROVE  /\ Read(stream, at, n) \in Result(Seq(Byte))
         /\ at + n <= Len(stream) =>
              /\ Read(stream, at, n).result = "true" /\ Read(stream, at, n).at = at + n
              /\ Read(stream, at, n).out = <<BytesAt(stream, at, n)>>
         /\ ~(at + n <= Len(stream)) => Read(stream, at, n).result = "throws"
<1>1. PICK c, r : c = Skip(stream, at, n) /\ r = Read(stream, at, n)
  OBVIOUS
<1>2. CASE at + n <= Len(stream)
  <2>1. PICK leaf : leaf = BytesAt(stream, at, n)
    OBVIOUS
  <2>2. leaf \in Seq(Byte)
    BY <1>2, <2>1, BytesAtSteps
  <2>3. c = Going(at + n, <<>>)
    BY <1>1, <1>2, SkipSteps
  <2>4. c = [result |-> "true", at |-> at + n, out |-> <<>>]
    BY <2>3 DEF Going
  <2>5. r = [c EXCEPT !.out = <<leaf>>]
    BY <1>1, <2>1, <2>4 DEF Read, BytesAt
  <2>6. <<leaf>> \in Seq(Seq(Byte)) /\ at + n \in Nat
    BY <2>2
  <2>7. PICK o : o = <<leaf>>
    OBVIOUS
  <2>8. r = [result |-> "true", at |-> at + n, out |-> o]
    BY <2>4, <2>5, <2>7
  <2>9. r \in Result(Seq(Byte))
    BY <2>6, <2>7, <2>8 DEF Result, Outcomes
  <2> QED
    BY <1>1, <1>2, <2>1, <2>7, <2>8, <2>9
<1>3. CASE ~(at + n <= Len(stream))
  <2>1. c = Stop(Going(at, <<>>), "throws") /\ c \in Result(Seq(Byte))
    BY <1>1, <1>3, SkipSteps
  <2>2. c.result = "throws"
    BY <2>1, StopNothing DEF Outcomes
  <2>3. r = c
    BY <1>1, <2>2 DEF Read
  <2> QED
    BY <1>1, <1>3, <2>1, <2>2, <2>3
<1> QED
  BY <1>2, <1>3

\* A scalar or a fixed array of scalars.
LEMMA ReadReads ==
  ASSUME NEW stream \in Seq(Byte), NEW at \in Nat, NEW n \in Nat, NEW sure,
         NEW e \in PieceType, e.kind = "scalar", e.size = n
  PROVE  Reads(Read(stream, at, n), <<e>>, stream, at, sure)
<1>1. PICK c, w : c = Read(stream, at, n) /\ w = BytesAt(stream, at, n)
  OBVIOUS
<1>2. \A x : PieceWire(e, x) = x
  BY DEF PieceWire
<1>3. CASE at + n <= Len(stream)
  <2>1. c \in Result(Seq(Byte)) /\ c.result = "true" /\ c.at = at + n /\ c.out = <<w>>
    BY <1>1, <1>3, ReadSteps
  <2>2. /\ w \in Seq(Byte) /\ Len(w) = n /\ At(stream, at, w)
        /\ \A x \in Seq(Byte) : Len(x) = n /\ At(stream, at, x) => x = w
    BY <1>1, <1>3, BytesAtSteps
  <2>3. Takes(c, e, w, at)
    BY <1>2, <2>1, <2>2 DEF Takes
  <2>4. \A x \in Seq(Byte) : RightSize(e, x) /\ At(stream, at, PieceWire(e, x)) => Takes(c, e, x, at)
    BY <1>2, <2>2, <2>3 DEF RightSize
  <2>5. Reads(c, <<e>>, stream, at, sure)
    BY <1>2, <2>1, <2>2, <2>3, <2>4, ReadsOne
  <2> QED
    BY <1>1, <2>5
<1>4. CASE ~(at + n <= Len(stream))
  <2>1. c \in Result(Seq(Byte)) /\ c.result = "throws"
    BY <1>1, <1>4, ReadSteps
  <2>2. \A x \in Seq(Byte) : ~(RightSize(e, x) /\ At(stream, at, PieceWire(e, x)))
    BY <1>2, <1>4 DEF RightSize, At
  <2>3. Reads(c, <<e>>, stream, at, sure)
    BY <2>1, <2>2, ReadsOne
  <2> QED
    BY <1>1, <2>3
<1> QED
  BY <1>3, <1>4

\* The seq of a header, passed over.
LEMMA SkipReadsSeq ==
  ASSUME NEW stream \in Seq(Byte), NEW at \in Nat, NEW sure,
         NEW e \in PieceType, e.kind = "seq"
  PROVE  Reads(Skip(stream, at, 4), <<e>>, stream, at, sure)
<1>1. PICK n : n = 4
  OBVIOUS
<1>2. PICK c, w : c = Skip(stream, at, n) /\ w = BytesAt(stream, at, n)
  OBVIOUS
<1>3. \A x : PieceWire(e, x) = x
  BY DEF PieceWire
<1>4. n \in Nat /\ at + n \in Nat
  BY <1>1
<1>5. CASE at + n <= Len(stream)
  <2>1. c = Going(at + n, <<>>) /\ c \in Result(Seq(Byte))
    BY <1>2, <1>4, <1>5, SkipSteps
  <2>2. c.result = "true" /\ c.at = at + n /\ c.out = <<>>
    BY <1>4, <2>1, GoingNothing
  <2>3. /\ w \in Seq(Byte) /\ Len(w) = n /\ At(stream, at, w)
        /\ \A x \in Seq(Byte) : Len(x) = n /\ At(stream, at, x) => x = w
    BY <1>2, <1>4, <1>5, BytesAtSteps
  <2>4. w \in Chunks(stream)
    <3>1. PICK j : j = at + 1
      OBVIOUS
    <3>2. j \in 1..(Len(stream) - 3) /\ at + n = j + 3
      BY <1>1, <1>5, <3>1
    <3>3. w = SubSeq(stream, j, j + 3)
      BY <1>2, <3>1, <3>2 DEF BytesAt
    <3> QED
      BY <3>2, <3>3 DEF Chunks
  <2>5. Takes(c, e, w, at)
    BY <1>3, <2>2, <2>3 DEF Takes
  <2>6. \A x \in Seq(Byte) : RightSize(e, x) /\ At(stream, at, PieceWire(e, x)) => Takes(c, e, x, at)
    BY <1>1, <1>3, <2>3, <2>5 DEF RightSize
  <2>7. Reads(c, <<e>>, stream, at, sure)
    BY <1>3, <2>1, <2>3, <2>4, <2>5, <2>6, ReadsOne
  <2> QED
    BY <1>1, <1>2, <2>7
<1>6. CASE ~(at + n <= Len(stream))
  <2>1. c \in Result(Seq(Byte)) /\ c = Stop(Going(at, <<>>), "throws")
    BY <1>2, <1>4, <1>6, SkipSteps
  <2>2. c.result = "throws"
    BY <2>1, StopNothing DEF Outcomes
  <2>3. \A x \in Seq(Byte) : ~(RightSize(e, x) /\ At(stream, at, PieceWire(e, x)))
    BY <1>1, <1>3, <1>6 DEF RightSize, At
  <2>4. Reads(c, <<e>>, stream, at, sure)
    BY <2>1, <2>2, <2>3, ReadsOne
  <2> QED
    BY <1>1, <1>2, <2>4
<1> QED
  BY <1>5, <1>6

\* The length of a string in two halves and as four bytes.
LEMMA LengthFromBytes ==
  ASSUME NEW b1 \in Byte, NEW b2 \in Byte, NEW b3 \in Byte, NEW b4 \in Byte
  PROVE  b3 + 256 * b4 \in Nat /\ b1 + 256 * b2 \in Nat /\ b1 + 256 * b2 < 65536
         /\ (b3 + 256 * b4 = 0 <=> b3 = 0 /\ b4 = 0)
  BY DEF Byte

\* A length below 65536 has no third and no fourth byte.
LEMMA ShortLength ==
  ASSUME NEW n \in Nat, n < 65536
  PROVE  LE32(n) = <<n % 256, n \div 256, 0, 0>>
<1>1. n \div 256 \in Nat /\ n \div 256 < 256
  OBVIOUS
<1>2. n \div 256 % 256 = n \div 256
  BY <1>1
<1>3. n \div 65536 = 0 /\ n \div 16777216 = 0
  OBVIOUS
<1>4. 0 % 256 = 0
  OBVIOUS
<1> QED
  BY <1>2, <1>3, <1>4 DEF LE32

\* The four bytes of a short length.
LEMMA BytesOfLength ==
  ASSUME NEW b1 \in Byte, NEW b2 \in Byte
  PROVE  LE32(b1 + 256 * b2) = <<b1, b2, 0, 0>>
<1>1. PICK n : n = b1 + 256 * b2
  OBVIOUS
<1>2. n \in Nat /\ n < 65536
  BY <1>1, LengthFromBytes
<1>3. n % 256 = b1 /\ n \div 256 = b2
  BY <1>1 DEF Byte
<1>4. LE32(n) = <<n % 256, n \div 256, 0, 0>>
  BY <1>2, ShortLength
<1> QED
  BY <1>1, <1>3, <1>4

\* Four bytes that spell a short length spell it in only one way.
LEMMA LengthOfBytes ==
  ASSUME NEW n \in Nat, n < 65536, NEW b1, NEW b2, NEW b3, NEW b4, LE32(n) = <<b1, b2, b3, b4>>
  PROVE  n = b1 + 256 * b2 /\ b3 = 0 /\ b4 = 0
<1>1. PICK l, h : l = n % 256 /\ h = n \div 256
  OBVIOUS
<1>2. n = l + 256 * h
  BY <1>1
<1>3. <<b1, b2, b3, b4>> = <<l, h, 0, 0>>
  BY <1>1, ShortLength
<1>4. b1 = l /\ b2 = h /\ b3 = 0 /\ b4 = 0
  BY <1>3
<1> QED
  BY <1>2, <1>4

\* The two halves of the length in four bytes.
High(b) == b[3] + 256 * b[4]
\* The two low bytes.
Low(b) == b[1] + 256 * b[2]

\* The longest string the node takes has a length of two bytes.
LEMMA LimitIsWord == MaxString \in Nat /\ MaxString <= 65535
<1>1. MaxString \in Word
  BY CodecAssumption
<1> QED
  BY <1>1 DEF Word, MaxWord

\* The elements of four bytes.
LEMMA FourBytes ==
  ASSUME NEW b \in Seq(Byte), Len(b) = 4
  PROVE  /\ b[1] \in Byte /\ b[2] \in Byte /\ b[3] \in Byte /\ b[4] \in Byte
         /\ b = <<b[1], b[2], b[3], b[4]>>
         /\ High(b) \in Nat /\ Low(b) \in Nat /\ Low(b) < 65536
         /\ Low(b) = b[1] + 256 * b[2]
         /\ High(b) = 0 <=> b[3] = 0 /\ b[4] = 0
<1>1. b[1] \in Byte /\ b[2] \in Byte /\ b[3] \in Byte /\ b[4] \in Byte
  <2>1. 1 \in 1..Len(b) /\ 2 \in 1..Len(b) /\ 3 \in 1..Len(b) /\ 4 \in 1..Len(b)
    OBVIOUS
  <2>2. \A i \in 1..Len(b) : b[i] \in Byte
    OBVIOUS
  <2> QED
    BY <2>1, <2>2, Zenon
<1>2. PICK b1, b2, b3, b4 : b1 = b[1] /\ b2 = b[2] /\ b3 = b[3] /\ b4 = b[4]
  OBVIOUS
<1>3. PICK y : y = <<b1, b2, b3, b4>>
  OBVIOUS
<1>4. y \in Seq(Byte) /\ Len(y) = 4 /\ y[1] = b1 /\ y[2] = b2 /\ y[3] = b3 /\ y[4] = b4
  BY <1>1, <1>2, <1>3
<1>5. \A i \in 1..4 : i = 1 \/ i = 2 \/ i = 3 \/ i = 4
  OBVIOUS
<1>6. \A i \in 1..Len(b) : b[i] = y[i]
  BY <1>2, <1>4, <1>5
<1>7. b = y
  BY <1>4, <1>6, SameElements
<1>8. /\ b3 + 256 * b4 \in Nat /\ b1 + 256 * b2 \in Nat /\ b1 + 256 * b2 < 65536
      /\ b3 + 256 * b4 = 0 <=> b3 = 0 /\ b4 = 0
  <2>1. b1 \in Byte /\ b2 \in Byte /\ b3 \in Byte /\ b4 \in Byte
    BY <1>1, <1>2
  <2> QED
    BY <2>1, LengthFromBytes
<1> QED
  BY <1>1, <1>2, <1>3, <1>7, <1>8 DEF High, Low

\* What ReadString does, by the length it finds.
LEMMA ReadStringSteps ==
  ASSUME NEW stream \in Seq(Byte), NEW at \in Nat
  PROVE  LET c == ReadString(stream, at)
             b == BytesAt(stream, at, 4)
         IN  /\ ~(at + 4 <= Len(stream)) => c = Read(stream, at, 4)
             /\ at + 4 <= Len(stream) =>
                  IF High(b) > 0 \/ Low(b) > MaxString THEN c = Stop(Going(at + 4, <<>>), "false")
                  ELSE IF High(b) + Low(b) = 0 THEN c = Stop(Going(at + 4, <<>>), "throws")
                  ELSE c = Read(stream, at + 4, Low(b))
<1>1. PICK n : n = 4
  OBVIOUS
<1>2. PICK c, p, b : c = ReadString(stream, at) /\ p = Read(stream, at, n) /\ b = BytesAt(stream, at, n)
  OBVIOUS
<1>3. n \in Nat
  BY <1>1
<1>4. ~(at + n <= Len(stream)) => c = p
  <2> SUFFICES ASSUME ~(at + n <= Len(stream)) PROVE c = p
    OBVIOUS
  <2>1. p.result # "true"
    BY <1>2, <1>3, ReadSteps
  <2> QED
    BY <1>1, <1>2, <2>1 DEF ReadString
<1>5. ASSUME at + n <= Len(stream)
      PROVE  IF High(b) > 0 \/ Low(b) > MaxString THEN c = Stop(Going(at + n, <<>>), "false")
             ELSE IF High(b) + Low(b) = 0 THEN c = Stop(Going(at + n, <<>>), "throws")
             ELSE c = Read(stream, at + n, Low(b))
  <2>1. p.result = "true" /\ p.out = <<b>>
    BY <1>2, <1>3, <1>5, ReadSteps
  <2>2. p.out[1] = b
    BY <2>1
  <2>3. PICK len : len = [low |-> Low(b), high |-> High(b)]
    OBVIOUS
  <2>4. c = CASE p.result # "true" -> p
              [] p.result = "true" /\ TooLong(len) -> Stop(Going(at + n, <<>>), "false")
              [] p.result = "true" /\ len.high + len.low = 0 -> Stop(Going(at + n, <<>>), "throws")
              [] OTHER -> Read(stream, at + n, len.low)
    BY <1>1, <1>2, <2>2, <2>3 DEF ReadString, Low, High
  <2>5. TooLong(len) <=> High(b) > 0 \/ Low(b) > MaxString
    BY <2>3 DEF TooLong
  <2>6. len.high = High(b) /\ len.low = Low(b)
    BY <2>3
  <2>7. CASE TooLong(len)
    <3>1. c = Stop(Going(at + n, <<>>), "false")
      <4>1. TooLong(len) /\ High(b) + Low(b) = 0 => FALSE
        <5>1. b \in Seq(Byte) /\ Len(b) = n
          BY <1>2, <1>3, <1>5, BytesAtSteps
        <5>2. High(b) \in Nat /\ Low(b) \in Nat /\ MaxString \in Nat
          BY <1>1, <5>1, FourBytes, LimitIsWord
        <5> QED
          BY <2>5, <5>2
      <4> QED
        BY <2>1, <2>4, <2>6, <2>7, <4>1
    <3> QED
      BY <2>5, <2>7, <3>1
  <2>8. CASE ~TooLong(len)
    BY <2>1, <2>4, <2>5, <2>6, <2>8
  <2> QED
    BY <2>7, <2>8
<1> QED
  BY <1>1, <1>2, <1>4, <1>5

\* A string.
LEMMA ReadStringReads ==
  ASSUME NEW stream \in Seq(Byte), NEW at \in Nat, NEW sure,
         NEW e \in PieceType, e.kind = "string"
  PROVE  Reads(ReadString(stream, at), <<e>>, stream, at, sure)
<1>1. PICK n : n = 4
  OBVIOUS
<1>2. PICK c, b, l, S : c = ReadString(stream, at) /\ b = BytesAt(stream, at, n) /\ l = Len(stream)
                        /\ S = Seq(Byte)
  OBVIOUS
<1>3. n \in Nat /\ at + n \in Nat /\ l \in Nat
  BY <1>1, <1>2
<1>4. \A x : PieceWire(e, x) = LE32(Len(x)) \o x
  BY DEF PieceWire
<1>5. MaxString \in Nat /\ MaxString <= 65535
  BY LimitIsWord
\* A string of the right size at this place begins with its length.
<1>6. ASSUME NEW x \in Seq(Byte), RightSize(e, x), At(stream, at, PieceWire(e, x))
      PROVE  /\ Len(x) \in Nat /\ Len(x) >= 1 /\ Len(x) <= MaxString /\ at + n <= l
             /\ At(stream, at + n, x) /\ LE32(Len(x)) = b
  <2>1. Len(x) \in Nat /\ Len(x) >= 1 /\ Len(x) <= MaxString
    BY <1>5, <1>6 DEF RightSize
  <2>2. PICK y : y = LE32(Len(x))
    OBVIOUS
  <2>3. y \in Seq(Byte) /\ Len(y) = n
    BY <1>1, <2>1, <2>2, LE32Type
  <2>4. At(stream, at, y \o x)
    BY <1>4, <1>6, <2>2
  <2>5. At(stream, at, y) /\ At(stream, at + Len(y), x)
    BY <2>3, <2>4, AtParts
  <2>6. at + n <= l
    BY <1>2, <2>3, <2>5 DEF At
  <2>7. y = b
    BY <1>2, <1>3, <2>3, <2>5, <2>6, BytesAtSteps
  <2> QED
    BY <2>1, <2>2, <2>3, <2>5, <2>6, <2>7
<1>7. CASE ~(at + n <= l)
  <2>1. c = Read(stream, at, n)
    BY <1>1, <1>2, <1>7, ReadStringSteps
  <2>2. c \in Result(Seq(Byte)) /\ c.result = "throws"
    BY <1>2, <1>3, <1>7, <2>1, ReadSteps
  <2>3. \A x \in Seq(Byte) : ~(RightSize(e, x) /\ At(stream, at, PieceWire(e, x)))
    BY <1>6, <1>7
  <2>4. Reads(c, <<e>>, stream, at, sure)
    BY <2>2, <2>3, ReadsOne
  <2> QED
    BY <1>2, <2>4
<1>8. CASE at + n <= l
  <2>1. b \in Seq(Byte) /\ Len(b) = n /\ At(stream, at, b)
    BY <1>2, <1>3, <1>8, BytesAtSteps
  <2>2. PICK b1, b2, b3, b4 : b1 = b[1] /\ b2 = b[2] /\ b3 = b[3] /\ b4 = b[4]
    OBVIOUS
  <2>3. b1 \in Byte /\ b2 \in Byte /\ b3 \in Byte /\ b4 \in Byte /\ b = <<b1, b2, b3, b4>>
    BY <1>1, <2>1, <2>2, FourBytes
  <2>4. PICK low, high : low = Low(b) /\ high = High(b)
    OBVIOUS
  <2>5. /\ low \in Nat /\ high \in Nat /\ low < 65536 /\ low = b1 + 256 * b2
        /\ high = 0 <=> b3 = 0 /\ b4 = 0
    BY <1>1, <2>1, <2>2, <2>4, FourBytes
  <2>6. ASSUME NEW x \in Seq(Byte), RightSize(e, x), At(stream, at, PieceWire(e, x))
        PROVE  Len(x) = low /\ high = 0 /\ low >= 1 /\ low <= MaxString /\ At(stream, at + n, x)
    <3>1. /\ Len(x) \in Nat /\ Len(x) >= 1 /\ Len(x) <= MaxString
          /\ At(stream, at + n, x) /\ LE32(Len(x)) = <<b1, b2, b3, b4>>
      BY <1>6, <2>3, <2>6
    <3>2. Len(x) < 65536
      BY <1>5, <3>1
    <3>3. Len(x) = b1 + 256 * b2 /\ b3 = 0 /\ b4 = 0
      BY <3>1, <3>2, LengthOfBytes
    <3> QED
      BY <2>5, <3>1, <3>3
  <2>7. IF high > 0 \/ low > MaxString THEN c = Stop(Going(at + n, <<>>), "false")
        ELSE IF high + low = 0 THEN c = Stop(Going(at + n, <<>>), "throws")
        ELSE c = Read(stream, at + n, low)
    BY <1>1, <1>2, <1>8, <2>4, ReadStringSteps
  <2>8. CASE high > 0 \/ low > MaxString \/ high + low = 0
    <3>1. c \in Result(Seq(Byte)) /\ c.result # "true"
      <4>1. c = Stop(Going(at + n, <<>>), "false") \/ c = Stop(Going(at + n, <<>>), "throws")
        BY <2>7, <2>8
      <4> QED
        BY <1>3, <4>1, StopNothing DEF Outcomes
    <3>2. \A x \in Seq(Byte) : ~(RightSize(e, x) /\ At(stream, at, PieceWire(e, x)))
      <4> SUFFICES ASSUME NEW x \in Seq(Byte), RightSize(e, x), At(stream, at, PieceWire(e, x))
                   PROVE  FALSE
        OBVIOUS
      <4> QED
        BY <1>5, <2>5, <2>6, <2>8
    <3>3. Reads(c, <<e>>, stream, at, sure)
      BY <3>1, <3>2, ReadsOne
    <3> QED
      BY <1>2, <3>3
  <2>9. CASE high = 0 /\ low > 0 /\ low <= MaxString
    <3>1. c = Read(stream, at + n, low)
      BY <1>5, <2>5, <2>7, <2>9
    <3>2. LE32(low) = b
      <4>1. LE32(b1 + 256 * b2) = <<b1, b2, 0, 0>>
        BY <2>3, BytesOfLength
      <4> QED
        BY <2>3, <2>5, <2>9, <4>1
    <3>3. CASE (at + n) + low <= l
      <4>1. PICK w : w = BytesAt(stream, at + n, low)
        OBVIOUS
      <4>2. /\ w \in Seq(Byte) /\ Len(w) = low /\ At(stream, at + n, w)
            /\ \A x \in Seq(Byte) : Len(x) = low /\ At(stream, at + n, x) => x = w
        BY <1>2, <1>3, <2>5, <3>3, <4>1, BytesAtSteps
      <4>3. c \in Result(Seq(Byte)) /\ c.result = "true" /\ c.at = (at + n) + low /\ c.out = <<w>>
        BY <1>2, <1>3, <2>5, <3>1, <3>3, <4>1, ReadSteps
      <4>4. PieceWire(e, w) = b \o w
        BY <1>4, <3>2, <4>2
      <4>5. Len(b \o w) = n + low /\ At(stream, at, b \o w)
        <5>1. /\ Len(b) \in Nat /\ Len(w) \in Nat /\ Len(b \o w) = Len(b) + Len(w)
              /\ At(stream, at, b \o w) <=> At(stream, at, b) /\ At(stream, at + Len(b), w)
          BY <2>1, <4>2, AtParts
        <5> QED
          BY <2>1, <4>2, <5>1
      <4>6. Takes(c, e, w, at)
        <5>1. at + (n + low) = (at + n) + low
          BY <1>3, <2>5
        <5> QED
          BY <4>3, <4>4, <4>5, <5>1 DEF Takes
      <4>7. \A x \in Seq(Byte) : RightSize(e, x) /\ At(stream, at, PieceWire(e, x)) => Takes(c, e, x, at)
        <5> SUFFICES ASSUME NEW x \in Seq(Byte), RightSize(e, x), At(stream, at, PieceWire(e, x))
                     PROVE  Takes(c, e, x, at)
          OBVIOUS
        <5>1. Len(x) = low /\ At(stream, at + n, x)
          BY <2>6
        <5>2. x = w
          BY <4>2, <5>1
        <5> QED
          BY <4>6, <5>2
      <4>8. Reads(c, <<e>>, stream, at, sure)
        <5>1. At(stream, at, PieceWire(e, w))
          BY <4>4, <4>5
        <5> QED
          BY <4>2, <4>3, <4>6, <4>7, <5>1, ReadsOne
      <4> QED
        BY <1>2, <4>8
    <3>4. CASE ~((at + n) + low <= l)
      <4>1. c \in Result(Seq(Byte)) /\ c.result = "throws"
        BY <1>2, <1>3, <2>5, <3>1, <3>4, ReadSteps
      <4>2. \A x \in Seq(Byte) : ~(RightSize(e, x) /\ At(stream, at, PieceWire(e, x)))
        <5> SUFFICES ASSUME NEW x \in Seq(Byte), RightSize(e, x), At(stream, at, PieceWire(e, x))
                     PROVE  FALSE
          OBVIOUS
        <5>1. Len(x) = low /\ At(stream, at + n, x)
          BY <2>6
        <5> QED
          BY <1>2, <3>4, <5>1 DEF At
      <4>3. Reads(c, <<e>>, stream, at, sure)
        BY <4>1, <4>2, ReadsOne
      <4> QED
        BY <1>2, <4>3
    <3> QED
      BY <3>3, <3>4
  <2> QED
    BY <1>5, <2>5, <2>8, <2>9
<1> QED
  BY <1>7, <1>8

\* The members read_member has no code for; the bytes it skips before a header.
Refused(m) == m.is_array /\ (IsSequence(m) \/ m.type_id # "DOUBLE")
\* The four bytes of the seq of a header, where they are skipped.
SeqSkipped(m) == IF SkipsSeq(m) THEN 4 ELSE 0

\* What read_member does, by the kind of the member.
LEMMA ReadCases ==
  ASSUME NEW m, NEW stream, NEW at, NEW nested
  PROVE  LET c == read_member(stream, m, at, nested) IN
         /\ Refused(m) \/ m.type_id = "OTHER" => c = Stop(Going(at, <<>>), "false")
         /\ ~Refused(m) /\ m.type_id \in Scalars => c = Read(stream, at, Count(m) * Width[m.type_id])
         /\ ~Refused(m) /\ m.type_id = "STRING" => c = ReadString(stream, at)
         /\ ~Refused(m) /\ m.type_id = "MESSAGE" => c = Then(Skip(stream, at, SeqSkipped(m)), nested)
<1>1. CASE m.type_id = "MESSAGE"
  BY <1>1, WidthFacts DEF read_member, Refused, SeqSkipped
<1>2. CASE m.type_id = "OTHER"
  BY <1>2, WidthFacts DEF read_member, Refused
<1>3. CASE m.type_id \in Scalars
  BY <1>3, WidthFacts DEF read_member, Refused
<1>4. CASE m.type_id = "STRING"
  BY <1>4, WidthFacts DEF read_member, Refused
<1>5. CASE m.type_id \notin Scalars \cup {"MESSAGE", "OTHER", "STRING"}
  BY <1>5 DEF read_member, Refused
<1> QED
  BY <1>1, <1>2, <1>3, <1>4, <1>5

\* A member that is no message reads the same whatever the nested calls return.
LEMMA ReadMemberAlone ==
  ASSUME NEW t \in Types, NEW i \in 1..Len(Definitions[t]),
         Definitions[t][i].type_id # "MESSAGE", NEW stream, NEW at, NEW x, NEW y
  PROVE  read_member(stream, Definitions[t][i], at, x) = read_member(stream, Definitions[t][i], at, y)
<1>1. PICK m : m = Definitions[t][i]
  OBVIOUS
<1>2. m.type_id \in Scalars \cup {"STRING", "OTHER"}
  BY <1>1, MemberFacts
<1>3. CASE Refused(m) \/ m.type_id = "OTHER"
  BY <1>1, <1>3, ReadCases
<1>4. CASE ~Refused(m) /\ m.type_id \in Scalars
  BY <1>1, <1>4, ReadCases
<1>5. CASE ~Refused(m) /\ m.type_id = "STRING"
  BY <1>1, <1>5, ReadCases
<1> QED
  BY <1>2, <1>3, <1>4, <1>5

\* The types whose members the reader has code for.
Readable(t) == Sure(t) /\ \A m \in AllMembers[t] : m.is_array => m.type_id = "DOUBLE"

\* The types nested in a readable type are readable.
LEMMA PartsAreReadable ==
  ASSUME NEW t \in Types, NEW i \in 1..Len(Definitions[t]), Definitions[t][i].type_id = "MESSAGE",
         Readable(t)
  PROVE  Readable(Definitions[t][i].sub)
<1>1. AllMembers[Definitions[t][i].sub] \subseteq AllMembers[t]
  BY MembersWithin
<1> QED
  BY <1>1, PartsAreToo DEF Readable

\* Reading a string or a scalar keeps to the types.
LEMMA ReadMemberType ==
  ASSUME NEW t \in Types, NEW i \in 1..Len(Definitions[t]),
         NEW stream \in Seq(Byte), NEW at \in Nat, NEW nested,
         Definitions[t][i].type_id = "MESSAGE" => nested \in [Nat -> Result(Seq(Byte))]
  PROVE  read_member(stream, Definitions[t][i], at, nested) \in Result(Seq(Byte))
<1>1. PICK m, c, S : m = Definitions[t][i] /\ c = read_member(stream, m, at, nested) /\ S = Seq(Byte)
  OBVIOUS
<1>2. m.type_id \in Scalars \cup {"STRING", "MESSAGE", "OTHER"} /\ Count(m) \in Nat
  BY <1>1, MemberFacts, CountFacts
<1>3. CASE Refused(m) \/ m.type_id = "OTHER"
  <2>1. c = Stop(Going(at, <<>>), "false")
    BY <1>1, <1>3, ReadCases
  <2>2. "false" \in Outcomes
    BY DEF Outcomes
  <2>3. Stop(Going(at, <<>>), "false") \in Result(S)
    BY <2>2, StopNothing
  <2> QED
    BY <1>1, <2>1, <2>3
<1>4. CASE ~Refused(m) /\ m.type_id \in Scalars
  <2>1. PICK k, w, n : k = Count(m) /\ w = Width[m.type_id] /\ n = k * w
    OBVIOUS
  <2>2. k \in Nat /\ w \in Nat
    BY <1>2, <1>4, <2>1, WidthFacts
  <2>3. n \in Nat
    BY <2>1, <2>2
  <2>4. c = Read(stream, at, n)
    BY <1>1, <1>4, <2>1, ReadCases
  <2>5. Read(stream, at, n) \in Result(S)
    <3>1. Read(stream, at, n) \in Result(Seq(Byte))
      BY <2>3, ReadSteps
    <3> QED
      BY <1>1, <3>1
  <2> QED
    BY <1>1, <2>4, <2>5
<1>5. CASE ~Refused(m) /\ m.type_id = "STRING"
  <2>1. c = ReadString(stream, at)
    BY <1>1, <1>5, ReadCases
  <2>2. PICK e : e = Piece("string", 0)
    OBVIOUS
  <2>3. e \in PieceType /\ e.kind = "string"
    BY <2>2 DEF Piece, PieceType
  <2>4. Reads(c, <<e>>, stream, at, FALSE)
    BY <2>1, <2>3, ReadStringReads
  <2> QED
    BY <1>1, <2>4 DEF Reads
<1>6. CASE ~Refused(m) /\ m.type_id = "MESSAGE"
  <2>1. PICK s : s = Skip(stream, at, SeqSkipped(m))
    OBVIOUS
  <2>2. c = Then(s, nested)
    BY <1>1, <1>6, <2>1, ReadCases
  <2>3. SeqSkipped(m) \in Nat
    BY DEF SeqSkipped
  <2>4. s \in Result(S)
    BY <1>1, <2>1, <2>3, SkipSteps
  <2>5. nested[s.at] \in Result(S)
    BY <1>1, <1>6, <2>4 DEF Result
  <2>6. Then(s, nested) \in Result(S)
    BY <2>4, <2>5, ThenSteps
  <2> QED
    BY <1>1, <2>2, <2>6
<1> QED
  BY <1>2, <1>3, <1>4, <1>5, <1>6

\* A call of the reader, given what the calls it makes return.
ReadCall(stream, f, c) ==
  IF c[2] > Len(Definitions[c[1]]) THEN Going(c[3], <<>>)
  ELSE Then(read_member(stream, Definitions[c[1]][c[2]], c[3], From(f, Definitions[c[1]][c[2]].sub, 1)),
            From(f, c[1], c[2] + 1))
\* The equation of the reader, and its solution.
IsReader(f, stream) == f = [c \in Calls |-> ReadCall(stream, f, c)]
Reader(stream) == CHOOSE f : IsReader(f, stream)

\* deserialize_ros1_to_struct is the first call of the reader.
LEMMA ConversionIsReader ==
  ASSUME NEW stream, NEW t
  PROVE  deserialize_ros1_to_struct(stream, t) = Reader(stream)[<<t, 1, 0>>]
  BY DEF deserialize_ros1_to_struct, Reader, IsReader, ReadCall

\* A call of the reader returns a result if the calls it makes do.
LEMMA ReadCallType ==
  ASSUME NEW stream \in Seq(Byte), NEW c \in Calls, NEW f,
         \A y \in Calls : CallRank[y] < CallRank[c] => f[y] \in Result(Seq(Byte))
  PROVE  ReadCall(stream, f, c) \in Result(Seq(Byte))
<1>1. PICK t, i, at, S, V : t = c[1] /\ i = c[2] /\ at = c[3] /\ S = Seq(Byte) /\ V = Result(S)
  OBVIOUS
<1>2. t \in Types /\ i \in Nat \ {0} /\ at \in Nat /\ c = <<t, i, at>> /\ Len(Definitions[t]) \in Nat
  BY <1>1, CallParts, MemberCount
<1>3. CASE i > Len(Definitions[t])
  <2>1. ReadCall(stream, f, c) = Going(at, <<>>)
    BY <1>1, <1>3 DEF ReadCall
  <2> QED
    BY <1>2, <2>1, GoingNothing
<1>4. CASE ~(i > Len(Definitions[t]))
  <2>1. i \in 1..Len(Definitions[t])
    BY <1>2, <1>4
  <2>2. PICK m, w, r : /\ m = Definitions[t][i]
                       /\ w = read_member(stream, m, at, From(f, m.sub, 1))
                       /\ r = From(f, t, i + 1)
    OBVIOUS
  <2>3. ReadCall(stream, f, c) = Then(w, r)
    BY <1>1, <1>4, <2>2 DEF ReadCall
  <2>4. r \in [Nat -> V] /\ (m.type_id = "MESSAGE" => From(f, m.sub, 1) \in [Nat -> V])
    BY <1>1, <1>2, <2>1, <2>2, FromType
  <2>5. w \in V
    <3>1. PICK nested : nested = From(f, m.sub, 1)
      OBVIOUS
    <3>2. Definitions[t][i].type_id = "MESSAGE" => nested \in [Nat -> Result(Seq(Byte))]
      BY <1>1, <2>2, <2>4, <3>1
    <3>3. read_member(stream, Definitions[t][i], at, nested) \in Result(Seq(Byte))
      BY <1>2, <2>1, <3>2, ReadMemberType
    <3> QED
      BY <1>1, <2>2, <3>1, <3>3
  <2>6. r[w.at] \in V
    BY <1>1, <2>4, <2>5 DEF Result
  <2>7. w \in Result(S) /\ r[w.at] \in Result(S)
    BY <1>1, <2>5, <2>6
  <2>8. Then(w, r) \in Result(S)
    BY <2>7, ThenSteps
  <2> QED
    BY <1>1, <2>3, <2>8
<1> QED
  BY <1>3, <1>4

\* A call of the reader depends only on calls that rank lower.
LEMMA ReadCallDescends ==
  ASSUME NEW stream, NEW c \in Calls, NEW f, NEW g,
         \A y \in Calls : CallRank[y] < CallRank[c] => f[y] = g[y]
  PROVE  ReadCall(stream, f, c) = ReadCall(stream, g, c)
<1>1. PICK t, i, at : t = c[1] /\ i = c[2] /\ at = c[3]
  OBVIOUS
<1>2. t \in Types /\ i \in Nat \ {0} /\ at \in Nat /\ c = <<t, i, at>> /\ Len(Definitions[t]) \in Nat
  BY <1>1, CallParts, MemberCount
<1>3. CASE i > Len(Definitions[t])
  BY <1>1, <1>3 DEF ReadCall
<1>4. CASE ~(i > Len(Definitions[t]))
  <2>1. i \in 1..Len(Definitions[t])
    BY <1>2, <1>4
  <2>2. PICK m : m = Definitions[t][i]
    OBVIOUS
  <2>3. /\ From(f, t, i + 1) = From(g, t, i + 1)
        /\ m.type_id = "MESSAGE" => From(f, m.sub, 1) = From(g, m.sub, 1)
    BY <1>2, <2>1, <2>2, FromBelow
  <2>4. read_member(stream, m, at, From(f, m.sub, 1)) = read_member(stream, m, at, From(g, m.sub, 1))
    <3>1. CASE m.type_id = "MESSAGE"
      BY <2>3, <3>1
    <3>2. CASE m.type_id # "MESSAGE"
      BY <2>1, <2>2, <3>2, <1>2, ReadMemberAlone
    <3> QED
      BY <3>1, <3>2
  <2> QED
    BY <1>1, <1>4, <2>2, <2>3, <2>4 DEF ReadCall
<1> QED
  BY <1>3, <1>4

\* The recursion of the reader has a solution: every call ends and returns a result.
LEMMA ReaderSteps ==
  ASSUME NEW stream \in Seq(Byte)
  PROVE  \A c \in Calls : Reader(stream)[c] \in Result(Seq(Byte)) /\ Reader(stream)[c] = ReadCall(stream, Reader(stream), c)
<1> DEFINE V == Result(Seq(Byte))
           F == [f \in [Calls -> V] |-> [c \in Calls |-> ReadCall(stream, f, c)]]
<1>1. Descends(Calls, CallRank, V, F)
  <2>1. CallRank \in [Calls -> Nat] /\ V # {}
    <3>1. Going(0, <<>>) \in V
      BY GoingNothing, 0 \in Nat
    <3> QED
      BY <3>1, CallRankType
  <2>2. F \in [[Calls -> V] -> [Calls -> V]]
    <3> SUFFICES ASSUME NEW f \in [Calls -> V], NEW c \in Calls PROVE ReadCall(stream, f, c) \in V
      OBVIOUS
    <3>1. \A y \in Calls : f[y] \in V
      OBVIOUS
    <3> QED
      BY <3>1, ReadCallType
  <2>3. ASSUME NEW f \in [Calls -> V], NEW g \in [Calls -> V], NEW c \in Calls,
               \A y \in Calls : CallRank[y] < CallRank[c] => f[y] = g[y]
        PROVE  F[f][c] = F[g][c]
    <3> HIDE DEF V
    <3>1. F[f][c] = ReadCall(stream, f, c) /\ F[g][c] = ReadCall(stream, g, c)
      OBVIOUS
    <3> QED
      BY <2>3, <3>1, ReadCallDescends
  <2> HIDE DEF V, F
  <2> QED
    BY <2>1, <2>2, <2>3 DEF Descends
<1>2. PICK f : f = Solution(Calls, V, F)
  OBVIOUS
<1>3. f \in [Calls -> V] /\ f = F[f]
  <2> HIDE DEF V, F
  <2> QED
    BY <1>1, <1>2, RecursionSolved
<1>4. IsReader(f, stream)
  <2> HIDE DEF V
  <2> QED
    BY <1>3 DEF IsReader
<1>5. PICK w : w = Reader(stream)
  OBVIOUS
<1>6. IsReader(w, stream)
  BY <1>4, <1>5 DEF Reader
<1>7. \A c \in Calls : w[c] = ReadCall(stream, w, c)
  BY <1>6 DEF IsReader
<1> DEFINE T == {c \in Calls : w[c] \in V}
<1>8. ASSUME NEW c \in Calls, \A y \in Calls : CallRank[y] < CallRank[c] => y \in T
      PROVE  c \in T
  <2>1. ReadCall(stream, w, c) \in V
    BY <1>8, ReadCallType
  <2> HIDE DEF V
  <2> QED
    BY <1>7, <2>1
<1>9. Calls \subseteq T
  <2> HIDE DEF T
  <2> QED
    BY <1>8, CallRankType, RankInduction
<1> QED
  BY <1>5, <1>7, <1>9

\* What a call reads, the member it is for and those after it.
LEMMA MessageReads ==
  ASSUME NEW stream \in Seq(Byte), NEW t \in Types, NEW i \in 1..Len(Definitions[t]),
         Definitions[t][i].type_id = "MESSAGE", ~Refused(Definitions[t][i]), Tidy(t),
         NEW at \in 0..Len(stream), NEW sure,
         NEW nested \in [Nat -> Result(Seq(Byte))],
         \A p \in 0..Len(stream) : Reads(nested[p], TailPieces(Definitions[t][i].sub, 1), stream, p, sure)
  PROVE  Reads(read_member(stream, Definitions[t][i], at, nested), MemberPieces(Layout, t, i), stream, at, sure)
<1>1. PICK m, L, P : m = Definitions[t][i] /\ L = TailPieces(m.sub, 1) /\ P = MemberPieces(Layout, t, i)
  OBVIOUS
<1>2. m.type_id = "MESSAGE" /\ m.sub \in Types /\ Count(m) \in Nat /\ ~m.is_array
  BY <1>1, MemberFacts, CountFacts DEF Refused
<1>3. ~IsSequence(m) /\ Count(m) = 1 /\ (m.sub = StdHeader <=> IsStdHeader(m))
  BY <1>1, <1>2, MembersWithin DEF Tidy, IsSequence, Count
<1>4. L \in Seq(PieceType) /\ Layout[m.sub] = Header(m.sub) \o L
  <2>1. 1 \in Nat \ {0}
    OBVIOUS
  <2> QED
    BY <1>1, <1>2, <2>1, TailPiecesSteps
<1>5. P = Layout[m.sub]
  <2>1. P = Copies(Layout[m.sub], Count(m))
    BY <1>1, <1>2, <1>3, WidthFacts DEF MemberPieces, Pieces, Copies
  <2>2. PICK x : x = Layout[m.sub]
    OBVIOUS
  <2>3. x \in Seq(PieceType)
    BY <1>2, <2>2, LayoutSteps
  <2>5. Copies(x, 1) = x
    BY <2>3, CopiesOnce
  <2>6. Count(m) = 1
    BY <1>3
  <2>7. P = Copies(x, 1)
    BY <2>1, <2>2, <2>6, Zenon
  <2> QED
    BY <2>2, <2>5, <2>7, Zenon
<1>6. read_member(stream, m, at, nested) = Then(Skip(stream, at, SeqSkipped(m)), nested)
  BY <1>1, <1>2, ReadCases
<1>7. PICK n, s : n = SeqSkipped(m) /\ s = Skip(stream, at, n)
  OBVIOUS
<1>8. at \in Nat /\ at <= Len(stream) /\ n \in Nat
  BY <1>7 DEF SeqSkipped
<1>9. s \in Result(Seq(Byte)) /\ (s.result = "true" => s.at \in 0..Len(stream))
  <2>1. s \in Result(Seq(Byte))
    BY <1>7, <1>8, SkipSteps
  <2>2. CASE at + n <= Len(stream)
    <3>1. s = Going(at + n, <<>>)
      BY <1>7, <1>8, <2>2, SkipSteps
    <3>2. at + n \in Nat
      BY <1>8
    <3>3. s.at = at + n
      BY <3>1, <3>2, GoingNothing
    <3> QED
      BY <1>8, <2>1, <2>2, <3>2, <3>3
  <2>3. CASE ~(at + n <= Len(stream))
    <3>1. s = Stop(Going(at, <<>>), "throws")
      BY <1>7, <1>8, <2>3, SkipSteps
    <3>2. s.result = "throws"
      BY <1>8, <3>1, StopNothing DEF Outcomes
    <3> QED
      BY <2>1, <3>2
  <2> QED
    BY <2>2, <2>3
<1>10. s.result = "true" => Reads(nested[s.at], L, stream, s.at, sure)
  BY <1>1, <1>9
<1>11. Header(m.sub) \in Seq(PieceType)
  BY HeaderType
<1>12. Reads(s, Header(m.sub), stream, at, sure)
  <2>1. CASE m.sub = StdHeader
    <3>1. PICK e : e = Piece("seq", 4)
      OBVIOUS
    <3>2. e \in PieceType /\ e.kind = "seq" /\ Header(m.sub) = <<e>>
      BY <2>1, <3>1 DEF Piece, PieceType, Header
    <3>3. n = 4
      BY <1>3, <1>7, <2>1 DEF SeqSkipped, SkipsSeq
    <3>4. Reads(Skip(stream, at, 4), <<e>>, stream, at, sure)
      BY <1>8, <3>2, SkipReadsSeq
    <3> QED
      BY <1>7, <3>2, <3>3, <3>4
  <2>2. CASE m.sub # StdHeader
    <3>1. n = 0 /\ Header(m.sub) = <<>>
      BY <1>3, <1>7, <2>2 DEF SeqSkipped, SkipsSeq, Header
    <3>2. s = Going(at, <<>>)
      <4>1. at + n <= Len(stream) /\ at + n = at
        BY <1>8, <3>1
      <4>2. s = Going(at + n, <<>>)
        BY <1>7, <1>8, <4>1, SkipSteps
      <4> QED
        BY <4>1, <4>2
    <3>3. Reads(Going(at, <<>>), <<>>, stream, at, sure)
      BY ReadsNothing
    <3> QED
      BY <3>1, <3>2, <3>3
  <2> QED
    BY <2>1, <2>2
<1>13. Reads(Then(s, nested), Header(m.sub) \o L, stream, at, sure)
  BY <1>4, <1>8, <1>10, <1>11, <1>12, ThenReads
<1> QED
  BY <1>1, <1>4, <1>5, <1>6, <1>7, <1>13

\* A member of a tidy type.
LEMMA MemberReads ==
  ASSUME NEW stream \in Seq(Byte), NEW t \in Types, NEW i \in 1..Len(Definitions[t]),
         Tidy(t), NEW at \in 0..Len(stream), NEW nested,
         Definitions[t][i].type_id = "MESSAGE" =>
           /\ nested \in [Nat -> Result(Seq(Byte))]
           /\ \A p \in 0..Len(stream) :
                Reads(nested[p], TailPieces(Definitions[t][i].sub, 1), stream, p, Readable(t))
  PROVE  Reads(read_member(stream, Definitions[t][i], at, nested), MemberPieces(Layout, t, i),
               stream, at, Readable(t))
<1>1. PICK m, P, c : /\ m = Definitions[t][i] /\ P = MemberPieces(Layout, t, i)
                     /\ c = read_member(stream, m, at, nested)
  OBVIOUS
<1>2. /\ m.type_id \in Scalars \cup {"STRING", "MESSAGE", "OTHER"} /\ Count(m) \in Nat
      /\ P \in Seq(PieceType) /\ at \in Nat
  BY <1>1, MemberFacts, CountFacts, MemberPiecesType
<1>3. m \in AllMembers[t] /\ (~m.is_array => m.array_size = 0)
  BY <1>1, MembersWithin, MemberFacts
<1>4. CASE Refused(m) \/ m.type_id = "OTHER"
  <2>1. c = Stop(Going(at, <<>>), "false")
    BY <1>1, <1>4, ReadCases
  <2>2. c \in Result(Seq(Byte)) /\ c.result = "false"
    BY <1>2, <2>1, StopNothing DEF Outcomes
  <2>3. Reads(c, P, stream, at, FALSE)
    BY <2>2, ReadsFailing
  <2>4. ~Readable(t)
    BY <1>3, <1>4, WidthFacts DEF Readable, Sure, PassedOver, Refused, IsSequence
  <2> QED
    BY <1>1, <2>3, <2>4, LessReads
<1>5. CASE ~Refused(m) /\ m.type_id = "MESSAGE"
  BY <1>1, <1>5, MessageReads
<1>6. CASE ~Refused(m) /\ m.type_id \in Scalars
  <2>1. PICK k, w, n : k = Count(m) /\ w = Width[m.type_id] /\ n = k * w
    OBVIOUS
  <2>2. k \in Nat /\ w \in Nat
    BY <1>2, <1>6, <2>1, WidthFacts
  <2>3. n \in Nat
    BY <2>1, <2>2
  <2>4. c = Read(stream, at, n)
    BY <1>1, <1>6, <2>1, ReadCases
  <2>5. PICK e : e = Piece("scalar", n)
    OBVIOUS
  <2>6. e \in PieceType /\ e.kind = "scalar" /\ e.size = n
    BY <2>3, <2>5 DEF Piece, PieceType
  <2>7. ~IsSequence(m)
    BY <1>6 DEF Refused, IsSequence
  <2>8. P = <<e>>
    BY <1>1, <1>6, <2>1, <2>5, <2>7, WidthFacts DEF MemberPieces, Pieces
  <2>9. Reads(Read(stream, at, n), <<e>>, stream, at, Readable(t))
    BY <1>2, <2>3, <2>6, ReadReads
  <2> QED
    BY <1>1, <2>4, <2>8, <2>9
<1>7. CASE ~Refused(m) /\ m.type_id = "STRING"
  <2>1. c = ReadString(stream, at)
    BY <1>1, <1>7, ReadCases
  <2>2. PICK e : e = Piece("string", 0)
    OBVIOUS
  <2>3. e \in PieceType /\ e.kind = "string"
    BY <2>2 DEF Piece, PieceType
  <2>4. ~IsSequence(m) /\ ~m.is_array
    BY <1>7 DEF Refused, IsSequence
  <2>5. P = <<e>>
    <3>1. Count(m) = 1
      BY <2>4 DEF Count
    <3>2. P = [k \in 1..1 |-> e]
      BY <1>1, <1>7, <2>2, <2>4, <3>1, WidthFacts DEF MemberPieces, Pieces
    <3> QED
      BY <3>2
  <2>6. Reads(ReadString(stream, at), <<e>>, stream, at, Readable(t))
    BY <1>2, <2>3, ReadStringReads
  <2> QED
    BY <1>1, <2>1, <2>5, <2>6
<1> QED
  BY <1>2, <1>4, <1>5, <1>6, <1>7

\* Every call of the reader reads the pieces of its members.
LEMMA CallsRead ==
  ASSUME NEW stream \in Seq(Byte)
  PROVE  \A c \in Calls :
           Tidy(c[1]) /\ c[3] \in 0..Len(stream) =>
             Reads(Reader(stream)[c], TailPieces(c[1], c[2]), stream, c[3], Readable(c[1]))
<1> DEFINE Good(c) == Tidy(c[1]) /\ c[3] \in 0..Len(stream) =>
                        Reads(Reader(stream)[c], TailPieces(c[1], c[2]), stream, c[3], Readable(c[1]))
           T == {c \in Calls : Good(c)}
<1>1. PICK w : w = Reader(stream)
  OBVIOUS
<1>2. \A c \in Calls : w[c] \in Result(Seq(Byte)) /\ w[c] = ReadCall(stream, w, c)
  BY <1>1, ReaderSteps
<1>3. ASSUME NEW c \in Calls, \A y \in Calls : CallRank[y] < CallRank[c] => y \in T
      PROVE  c \in T
  <2>1. PICK t, i, at : t = c[1] /\ i = c[2] /\ at = c[3]
    OBVIOUS
  <2>2. t \in Types /\ i \in Nat \ {0} /\ at \in Nat /\ c = <<t, i, at>> /\ Len(Definitions[t]) \in Nat
    BY <2>1, CallParts, MemberCount
  <2>3. SUFFICES ASSUME Tidy(t), at \in 0..Len(stream)
                 PROVE  Reads(w[c], TailPieces(t, i), stream, at, Readable(t))
    BY <1>1, <2>1
  <2>4. CASE i > Len(Definitions[t])
    <3>1. TailPieces(t, i) = <<>>
      BY <2>2, <2>4, TailPiecesSteps
    <3>2. w[c] = Going(at, <<>>)
      BY <1>2, <2>1, <2>4 DEF ReadCall
    <3>3. Reads(Going(at, <<>>), <<>>, stream, at, Readable(t))
      BY <2>3, ReadsNothing
    <3> QED
      BY <3>1, <3>2, <3>3
  <2>5. CASE ~(i > Len(Definitions[t]))
    <3>1. i \in 1..Len(Definitions[t])
      BY <2>2, <2>5
    <3>2. PICK m, a, b, nested, rest, this :
            /\ m = Definitions[t][i]
            /\ a = MemberPieces(Layout, t, i) /\ b = TailPieces(t, i + 1)
            /\ nested = From(w, m.sub, 1) /\ rest = From(w, t, i + 1)
            /\ this = read_member(stream, m, at, nested)
      OBVIOUS
    <3>3. w[c] = Then(this, rest)
      BY <1>2, <2>1, <2>5, <3>2 DEF ReadCall
    <3>4. a \in Seq(PieceType) /\ b \in Seq(PieceType) /\ TailPieces(t, i) = a \o b
      <4>1. i + 1 \in Nat \ {0}
        BY <2>2
      <4> QED
        BY <2>2, <3>1, <3>2, <4>1, MemberPiecesType, TailPiecesSteps
    <3>5. \A p \in 0..Len(stream) : Reads(rest[p], b, stream, p, Readable(t))
      <4> SUFFICES ASSUME NEW p \in 0..Len(stream) PROVE Reads(rest[p], b, stream, p, Readable(t))
        OBVIOUS
      <4>0. p \in Nat
        OBVIOUS
      <4>1. PICK y : y = <<t, i + 1, p>>
        OBVIOUS
      <4>2. y \in Calls /\ CallRank[y] < CallRank[c]
        BY <2>2, <3>1, <4>0, <4>1, CallDescends
      <4>3. Good(y)
        BY <1>3, <4>2
      <4>4. y[1] = t /\ y[2] = i + 1 /\ y[3] = p
        BY <4>1
      <4>5. Reads(w[y], b, stream, p, Readable(t))
        BY <1>1, <2>3, <3>2, <4>3, <4>4
      <4>6. rest[p] = w[y]
        BY <3>2, <4>0, <4>1 DEF From
      <4> QED
        BY <4>5, <4>6
    <3>6. m.type_id = "MESSAGE" =>
            /\ nested \in [Nat -> Result(Seq(Byte))]
            /\ \A p \in 0..Len(stream) : Reads(nested[p], TailPieces(m.sub, 1), stream, p, Readable(t))
      <4> SUFFICES ASSUME m.type_id = "MESSAGE"
                   PROVE  /\ nested \in [Nat -> Result(Seq(Byte))]
                          /\ \A p \in 0..Len(stream) :
                               Reads(nested[p], TailPieces(m.sub, 1), stream, p, Readable(t))
        OBVIOUS
      <4>1. \A p \in Nat : <<m.sub, 1, p>> \in Calls /\ CallRank[<<m.sub, 1, p>>] < CallRank[c]
        BY <2>2, <3>1, <3>2, CallDescends
      <4>2. \A p \in Nat : nested[p] = w[<<m.sub, 1, p>>]
        BY <3>2 DEF From
      <4>3. nested \in [Nat -> Result(Seq(Byte))]
        <5>1. \A p \in Nat : w[<<m.sub, 1, p>>] \in Result(Seq(Byte))
          BY <1>2, <4>1
        <5> QED
          BY <3>2, <5>1 DEF From
      <4>4. Tidy(m.sub) /\ (Readable(t) => Readable(m.sub))
        BY <2>2, <2>3, <3>1, <3>2, PartsAreToo, PartsAreReadable
      <4>5. ASSUME NEW p \in 0..Len(stream)
            PROVE  Reads(nested[p], TailPieces(m.sub, 1), stream, p, Readable(t))
        <5>0. p \in Nat
          OBVIOUS
        <5>1. PICK y : y = <<m.sub, 1, p>>
          OBVIOUS
        <5>2. Good(y)
          BY <1>3, <4>1, <5>0, <5>1
        <5>3. y[1] = m.sub /\ y[2] = 1 /\ y[3] = p
          BY <5>1
        <5>4. Reads(w[y], TailPieces(m.sub, 1), stream, p, Readable(m.sub))
          BY <1>1, <4>4, <5>2, <5>3
        <5>5. Reads(w[y], TailPieces(m.sub, 1), stream, p, Readable(t))
          BY <4>4, <5>4, LessReads
        <5> QED
          BY <4>2, <5>0, <5>1, <5>5
      <4> QED
        BY <4>3, <4>5
    <3>7. Reads(this, a, stream, at, Readable(t))
      BY <2>2, <2>3, <3>1, <3>2, <3>6, MemberReads
    <3>8. this.result = "true" => Reads(rest[this.at], b, stream, this.at, Readable(t))
      <4> SUFFICES ASSUME this.result = "true" PROVE this.at \in 0..Len(stream)
        BY <3>5
      <4>1. PICK seqs : /\ Fits(a, this.out, seqs)
                        /\ At(stream, at, Wire(a, this.out, seqs))
                        /\ this.at = at + Len(Wire(a, this.out, seqs))
        BY <3>7 DEF Reads, Spells
      <4>2. PICK x : x = Wire(a, this.out, seqs)
        OBVIOUS
      <4>3. x \in Seq(Byte)
        BY <3>4, <4>1, <4>2, FitsWire
      <4>4. at + Len(x) <= Len(stream) /\ this.at = at + Len(x) /\ Len(x) \in Nat
        BY <4>1, <4>2, <4>3 DEF At
      <4> QED
        BY <2>2, <4>4
    <3>9. Reads(Then(this, rest), a \o b, stream, at, Readable(t))
      BY <2>2, <3>4, <3>7, <3>8, ThenReads
    <3> QED
      BY <3>3, <3>4, <3>9
  <2> QED
    BY <2>4, <2>5
<1>4. Calls \subseteq T
  <2> HIDE DEF T
  <2> QED
    BY <1>3, CallRankType, RankInduction
<1> QED
  BY <1>4

\* The seqs of a wire are four bytes each.
LEMMA ChosenSeqs ==
  ASSUME NEW n \in Nat, NEW seqs \in [1..n -> [1..4 -> Byte]]
  PROVE  /\ seqs \in Seq(Seq(Byte)) /\ Len(seqs) = n
         /\ \A k \in 1..n : Len(seqs[k]) = 4
<1>1. PICK S : S = Seq(Byte)
  OBVIOUS
<1>2. ASSUME NEW s \in [1..4 -> Byte]
      PROVE  s \in Seq(Byte) /\ Len(s) = 4
  <2>1. s = [k \in 1..4 |-> s[k]] /\ \A k \in 1..4 : s[k] \in Byte
    OBVIOUS
  <2> QED
    BY <2>1, 4 \in Nat, FunctionIsSeq
<1>3. \A k \in 1..n : seqs[k] \in S /\ Len(seqs[k]) = 4
  BY <1>1, <1>2
<1>4. seqs = [k \in 1..n |-> seqs[k]]
  OBVIOUS
<1>5. seqs \in Seq(S) /\ Len(seqs) = n
  BY <1>3, <1>4, FunctionIsSeq
<1> QED
  BY <1>1, <1>3, <1>5

\* A message of a type, with its strings passing, has the sizes the reader looks for.
LEMMA MessageFits ==
  ASSUME NEW t \in Types, NEW msg, IsMessage(msg, t), NEW seqs \in SeqChoices(t, [1..4 -> Byte])
  PROVE  /\ Fits(Layout[t], msg, seqs)
         /\ StringsPass(msg, t) => Proper(Layout[t], msg, seqs)
<1>1. PICK L, n : L = Layout[t] /\ n = SeqCount(L)
  OBVIOUS
<1>2. L \in Seq(PieceType) /\ n \in Nat /\ LeafCount(L) \in Nat
  BY <1>1, LayoutSteps, CountTypes
<1>3. seqs \in [1..n -> [1..4 -> Byte]]
  BY <1>1 DEF SeqChoices, SeqCount
<1>4. seqs \in Seq(Seq(Byte)) /\ Len(seqs) = n /\ \A k \in 1..n : Len(seqs[k]) = 4
  BY <1>2, <1>3, ChosenSeqs
<1>5. msg \in Seq(Seq(Byte)) /\ Len(msg) = LeafCount(L)
  BY <1>1, MessageHolds
<1>6. Fits(L, msg, seqs)
  BY <1>1, <1>4, <1>5 DEF Fits
<1>7. ASSUME StringsPass(msg, t) PROVE Proper(L, msg, seqs)
  <2> SUFFICES ASSUME NEW j \in 1..Len(L)
               PROVE  /\ L[j].kind = "seq" => Len(seqs[Seqs(L, j)]) = 4
                      /\ L[j].kind = "string" => Len(msg[Leaves(L, j)]) \in 1..MaxString
                      /\ L[j].kind = "scalar" => Len(msg[Leaves(L, j)]) = L[j].size
    BY DEF Proper
  <2>1. j \in DOMAIN L /\ Len(L) \in Nat
    BY <1>2
  <2>2. L[j].kind = "seq" => Seqs(L, j) \in 1..n
    BY <1>1, <2>1, PieceHasItsOwn DEF SeqCount
  <2>3. L[j].kind = "string" => Len(msg[Leaves(L, j)]) \in 1..MaxString
    BY <1>1, <1>7, <2>1 DEF StringsPass
  <2>4. L[j].kind = "scalar" => Len(msg[Leaves(L, j)]) = L[j].size
    BY <1>1, <2>1 DEF IsMessage
  <2> QED
    BY <1>4, <2>2, <2>3, <2>4
<1> QED
  BY <1>1, <1>6, <1>7

\* The conversion to ROS 2 returns only what the stream spells from its first byte on;
\* for a type whose members it has code for it returns whatever the stream spells.
THEOREM ConversionReadsRos1 ==
  ASSUME NEW stream \in Seq(Byte), NEW t \in Types, t # StdHeader, Tidy(t)
  PROVE  LET c == deserialize_ros1_to_struct(stream, t)
         IN  /\ c \in Result(Seq(Byte))
             /\ c.result = "true" =>
                  \E seqs \in SeqChoices(t, Chunks(stream)) : IsPrefix(Ros1(c.out, t, seqs), stream)
             /\ Readable(t) =>
                  \A msg : \A seqs \in SeqChoices(t, [1..4 -> Byte]) :
                    IsMessage(msg, t) /\ StringsPass(msg, t) /\ IsPrefix(Ros1(msg, t, seqs), stream) =>
                      c.result = "true" /\ c.out = msg
<1>1. PICK c, L, z : c = deserialize_ros1_to_struct(stream, t) /\ L = Layout[t] /\ z = 0
  OBVIOUS
<1>2. PICK y : y = <<t, 1, z>>
  OBVIOUS
<1>3. y \in Calls /\ y[1] = t /\ y[2] = 1 /\ y[3] = z /\ z \in Nat /\ z \in 0..Len(stream)
  BY <1>1, <1>2, CallsAre
<1>4. Reads(Reader(stream)[y], TailPieces(t, 1), stream, z, Readable(t))
  BY <1>3, CallsRead
<1>5. c = Reader(stream)[y]
  BY <1>1, <1>2, ConversionIsReader
<1>6. L \in Seq(PieceType) /\ L = TailPieces(t, 1)
  <2>1. Layout[t] = Header(t) \o TailPieces(t, 1) /\ Header(t) = <<>>
    BY TailPiecesSteps DEF Header
  <2>2. TailPieces(t, 1) \in Seq(PieceType)
    BY TailPiecesSteps, 1 \in Nat \ {0}
  <2> QED
    BY <1>1, <2>1, <2>2
<1>7. Reads(c, L, stream, z, Readable(t))
  BY <1>4, <1>5, <1>6
\* At the beginning of the stream means a prefix of it.
<1>8. \A w \in Seq(Byte) : At(stream, z, w) <=> IsPrefix(w, stream)
  <2> SUFFICES ASSUME NEW w \in Seq(Byte) PROVE At(stream, z, w) <=> IsPrefix(w, stream)
    OBVIOUS
  <2>1. Len(w) \in Nat /\ \A k \in 1..Len(w) : z + k = k
    BY <1>1
  <2>2. At(stream, z, w) <=> Len(w) <= Len(stream) /\ \A k \in 1..Len(w) : stream[k] = w[k]
    BY <1>1, <2>1 DEF At
  <2>3. IsPrefix(w, stream) <=> Len(w) <= Len(stream) /\ \A i \in 1..Len(w) : w[i] = stream[i]
    BY PrefixElements
  <2> QED
    BY <2>2, <2>3
<1>9. ASSUME c.result = "true"
      PROVE  \E seqs \in SeqChoices(t, Chunks(stream)) : IsPrefix(Ros1(c.out, t, seqs), stream)
  <2>1. PICK seqs \in Seq(Chunks(stream)) : Fits(L, c.out, seqs) /\ At(stream, z, Wire(L, c.out, seqs))
    BY <1>7, <1>9 DEF Reads, Spells
  <2>2. seqs \in SeqChoices(t, Chunks(stream))
    <3>1. Len(seqs) = Seqs(L, Len(L))
      BY <2>1 DEF Fits, SeqCount
    <3>2. PICK Q, n : Q = Chunks(stream) /\ n = Seqs(L, Len(L))
      OBVIOUS
    <3>3. seqs \in Seq(Q) /\ Len(seqs) = n
      BY <3>1, <3>2
    <3>4. seqs \in [1..n -> Q]
      BY <3>3
    <3> QED
      BY <1>1, <3>2, <3>4 DEF SeqChoices
  <2>3. Wire(L, c.out, seqs) \in Seq(Byte)
    BY <1>6, <2>1, FitsWire
  <2>4. IsPrefix(Wire(L, c.out, seqs), stream)
    BY <1>8, <2>1, <2>3
  <2> QED
    BY <1>1, <2>2, <2>4 DEF Ros1
<1>10. ASSUME Readable(t), NEW msg, NEW seqs \in SeqChoices(t, [1..4 -> Byte]),
              IsMessage(msg, t), StringsPass(msg, t), IsPrefix(Ros1(msg, t, seqs), stream)
       PROVE  c.result = "true" /\ c.out = msg
  <2>1. Fits(L, msg, seqs) /\ Proper(L, msg, seqs)
    BY <1>1, <1>10, MessageFits
  <2>2. Wire(L, msg, seqs) \in Seq(Byte)
    BY <1>6, <2>1, FitsWire
  <2>3. At(stream, z, Wire(L, msg, seqs))
    BY <1>1, <1>8, <1>10, <2>2 DEF Ros1
  <2> QED
    BY <1>7, <1>10, <2>1, <2>3 DEF Reads, Follows
<1>11. c \in Result(Seq(Byte))
  BY <1>7 DEF Reads
<1> QED
  BY <1>1, <1>9, <1>10, <1>11

\* The types the properties speak of.
LEMMA ConventionalIsTidy ==
  /\ \A t \in Conventional : t \in Types /\ t # StdHeader /\ Tidy(t)
  /\ \A t \in Types : t \in Sendable <=> Sure(t)
  /\ \A t \in Types : t \in Receivable <=> Readable(t)
  BY DEF Conventional, Tidy, Sendable, Sure, PassedOver, Receivable, Readable

\* The conversion to ROS 1 returns bytes.
LEMMA WriterType ==
  ASSUME NEW msg \in Seq(Seq(Byte)), NEW t \in Types
  PROVE  serialized_struct_to_ros1(msg, t) \in Result(Byte)
<1>1. PICK y : y = <<t, 1, 0>>
  OBVIOUS
<1>2. y \in Calls
  BY <1>1, CallsAre, 1 \in Nat \ {0}, 0 \in Nat
<1> QED
  BY <1>1, <1>2, ConversionIsWriter, WriterSteps

\* The conversion to ROS 2 returns leaves.
LEMMA ReaderType ==
  ASSUME NEW stream \in Seq(Byte), NEW t \in Types
  PROVE  deserialize_ros1_to_struct(stream, t) \in Result(Seq(Byte))
<1>1. PICK y : y = <<t, 1, 0>>
  OBVIOUS
<1>2. y \in Calls
  BY <1>1, CallsAre, 1 \in Nat \ {0}, 0 \in Nat
<1> QED
  BY <1>1, <1>2, ConversionIsReader, ReaderSteps

\* The ROS 1 form of a message is bytes.
LEMMA Ros1Type ==
  ASSUME NEW t \in Types, NEW msg, IsMessage(msg, t), NEW seqs \in SeqChoices(t, [1..4 -> Byte])
  PROVE  Ros1(msg, t, seqs) \in Seq(Byte)
<1>1. Layout[t] \in Seq(PieceType)
  BY LayoutSteps
<1>2. Fits(Layout[t], msg, seqs)
  BY MessageFits
<1> QED
  BY <1>1, <1>2, FitsWire DEF Ros1

\* A device picks the seqs it sends among the bytes of a sequence number.
LEMMA DeviceSeqs ==
  ASSUME NEW t \in Types, NEW seqs \in SeqChoices(t, SeqValues)
  PROVE  seqs \in SeqChoices(t, [1..4 -> Byte])
  BY AdapterAssumption DEF SeqChoices

----------------------------------------------------------------------------
\* What has been sent is what the conversion wrote for a message that was received.
FromConversion(record, t) ==
  record.known =>
    LET c == serialized_struct_to_ros1(record.msg, t)
    IN  /\ record.msg \in Messages[t]
        /\ c.result \in {"true", "false"}
        /\ record.payload = c.out

\* What has been published as parsed is what the conversion made of a body.
FromBody(record, body, t) ==
  record.parsed =>
    LET c == deserialize_ros1_to_struct(body.bytes, t)
    IN  c.result = "true" /\ record.copy = c.out

\* A whole body spells its message.
SpellsMessage(body, t) ==
  body.whole =>
    /\ body.msg \in Messages[t]
    /\ \E seqs \in SeqChoices(t, SeqValues) : body.bytes = Ros1(body.msg, t, seqs)

\* The strengthening: what was sent and published was made by the conversions, and a body
\* that is called whole spells a message; only a publisher gets bodies, only a subscriber sends.
AdapterInv ==
  /\ AdapterTypeOK
  /\ role # "none" => type \in Types /\ support \in {"loaded", "unassigned"}
  /\ role # "publisher" => bodies = <<>> /\ published = <<>>
  /\ role # "subscriber" => sent = <<>>
  /\ \A k \in DOMAIN sent : FromConversion(sent[k], type)
  /\ \A k \in DOMAIN published : FromBody(published[k], bodies[published[k].body], type)
  /\ \A k \in DOMAIN bodies : SpellsMessage(bodies[k], type)

\* The entries of the three histories.
BodyType == [bytes : Seq(Byte), whole : BOOLEAN, msg : Seq(Seq(Byte))]
\* What was published came from one of the first n bodies.
PublishedType(n) == [parsed : BOOLEAN, copy : Seq(Seq(Byte)), body : 1..n]
\* What was sent: for messages the instance chose, which one.
SentType == [known : BOOLEAN, msg : Seq(Seq(Byte)), payload : Seq(Byte)]

\* A registration of a type, under a name that is valid or not.
Registration(t) ==
  \E validName \in BOOLEAN : Serial_Publisher(t, validName) \/ Serial_Subscriber(t, validName)

\* A registration either ends the node or makes the topic.
LEMMA RegistrationSteps ==
  ASSUME NEW t \in Types, Registration(t)
  PROVE  /\ node = "up" /\ role = "none"
         /\ UNCHANGED <<bodies, published, sent>>
         /\ \/ node' \in {"terminated", "crashed"} /\ UNCHANGED <<role, type, support>>
            \/ /\ role' \in {"publisher", "subscriber"} /\ type' = t
               /\ support' \in {"loaded", "unassigned"} /\ UNCHANGED node
<1>1. Installed[t].introspection \in {"library", "symbol", "missing"}
  BY AdapterAssumption
<1>2. load_type_support(t) \in {"crash", "loaded", "unassigned"}
  BY <1>1 DEF load_type_support
<1> QED
  BY <1>2 DEF Registration, Serial_Publisher, Serial_Subscriber, Registering, NotCreated, Created

\* What handle() publishes for a body.
LEMMA PublishSteps ==
  ASSUME AdapterInv, role = "publisher", node = "up", NEW body \in Seq(Byte), publish(body),
         NEW n, n = Len(bodies')
  PROVE  LET c == deserialize_ros1_to_struct(body, type)
         IN  /\ node' \in {"up", "terminated", "crashed"}
             /\ \/ published' = published
                \/ /\ node' = "up"
                   /\ \E p \in [parsed : BOOLEAN, copy : Seq(Seq(Byte)), body : {n}] :
                        /\ published' = Append(published, p)
                        /\ p.parsed => c.result = "true" /\ p.copy = c.out
             /\ support = "loaded" /\ c.result = "true" =>
                  /\ node' = "up"
                  /\ published' = Append(published, [parsed |-> TRUE, copy |-> c.out, body |-> n])
<1>1. PICK c, S : c = deserialize_ros1_to_struct(body, type) /\ S = Seq(Byte)
  OBVIOUS
<1>2. type \in Types /\ support \in {"loaded", "unassigned"}
  BY DEF AdapterInv
<1>3. c \in Result(S)
  BY <1>1, <1>2, ReaderType
<1>4. c.out \in Seq(S) /\ <<>> \in Seq(S)
  BY <1>3 DEF Result
<1>5. ASSUME NEW parsed \in BOOLEAN, NEW copy \in Seq(S), Publishes(parsed, copy),
             parsed => c.result = "true" /\ copy = c.out
      PROVE  /\ node' = "up"
             /\ \E p \in [parsed : BOOLEAN, copy : Seq(S), body : {n}] :
                  /\ published' = Append(published, p)
                  /\ p.parsed => c.result = "true" /\ p.copy = c.out
  <2>1. PICK p : p = [parsed |-> parsed, copy |-> copy, body |-> n]
    OBVIOUS
  <2>2. p \in [parsed : BOOLEAN, copy : Seq(S), body : {n}] /\ p.parsed = parsed /\ p.copy = copy
    BY <2>1
  <2>3. published' = Append(published, p) /\ node' = "up"
    BY <1>5, <2>1 DEF Publishes
  <2> QED
    BY <1>5, <2>2, <2>3
<1>6. Unknown => Publishes(FALSE, <<>>)
  BY DEF Unknown
<1>7. CASE PublishUnassigned
  <2>1. support # "loaded"
    BY <1>7 DEF PublishUnassigned
  <2>2. CASE UNCHANGED <<node, published>>
    BY <1>1, <2>1, <2>2
  <2>3. CASE Unknown
    BY <1>1, <1>4, <1>5, <1>6, <2>1, <2>3
  <2>4. CASE Dies("crashed")
    BY <1>1, <2>1, <2>4 DEF Dies
  <2> QED
    BY <1>7, <2>2, <2>3, <2>4 DEF PublishUnassigned
<1>8. CASE support = "loaded" /\ c.result = "true" /\ Publishes(TRUE, c.out)
  <2>1. published' = Append(published, [parsed |-> TRUE, copy |-> c.out, body |-> n]) /\ node' = "up"
    BY <1>8 DEF Publishes
  <2>2. \E p \in [parsed : BOOLEAN, copy : Seq(S), body : {n}] :
          /\ published' = Append(published, p)
          /\ p.parsed => c.result = "true" /\ p.copy = c.out
    BY <1>4, <1>5, <1>8
  <2> QED
    BY <1>1, <2>1, <2>2
<1>9. CASE support = "loaded" /\ c.result = "throws" /\ Dies("terminated")
  BY <1>1, <1>9 DEF Dies
<1>10. CASE support = "loaded" /\ PublishFinalised(c)
  <2>1. c.result # "true"
    BY <1>10 DEF PublishFinalised
  <2>2. CASE UNCHANGED <<node, published>>
    BY <1>1, <2>1, <2>2
  <2>3. CASE Unknown
    BY <1>1, <1>4, <1>5, <1>6, <2>1, <2>3
  <2>4. CASE Dies("crashed")
    BY <1>1, <2>1, <2>4 DEF Dies
  <2>5. CASE Publishes(FALSE, c.out)
    BY <1>1, <1>4, <1>5, <2>1, <2>5
  <2> QED
    BY <1>10, <2>2, <2>3, <2>4, <2>5 DEF PublishFinalised
<1> QED
  BY <1>1, <1>7, <1>8, <1>9, <1>10 DEF publish

\* What handle() leaves behind for a body.
LEMMA HandleSteps ==
  ASSUME AdapterInv, NEW t \in Types, NEW msg \in Messages[t], NEW seqs \in SeqChoices(t, SeqValues),
         NEW n, handle(t, msg, seqs, n)
  PROVE  /\ node = "up" /\ role = "publisher" /\ UNCHANGED <<role, type, support, sent>>
         /\ node' \in {"up", "terminated", "crashed"}
         /\ \E body \in BodyType :
              LET c == deserialize_ros1_to_struct(body.bytes, type)
              IN  /\ bodies' = Append(bodies, body)
                  /\ SpellsMessage(body, type)
                  /\ \/ published' = published
                     \/ /\ node' = "up"
                        /\ \E p \in [parsed : BOOLEAN, copy : Seq(Seq(Byte)), body : {Len(bodies) + 1}] :
                             /\ published' = Append(published, p)
                             /\ p.parsed => c.result = "true" /\ p.copy = c.out
                  /\ support = "loaded" /\ c.result = "true" =>
                       /\ node' = "up"
                       /\ published' = Append(published, [parsed |-> TRUE, copy |-> c.out,
                                                          body |-> Len(bodies) + 1])
<1>1. PICK wire, bytes, whole, body :
        /\ wire = Ros1(msg, t, seqs)
        /\ bytes = SubSeq(wire, 1, n)
        /\ whole = (t = type /\ n = Len(wire))
        /\ body = [bytes |-> bytes, whole |-> whole, msg |-> IF whole THEN msg ELSE <<>>]
  OBVIOUS
<1>2. IsMessage(msg, t) /\ seqs \in SeqChoices(t, [1..4 -> Byte])
  BY AdapterAssumption, DeviceSeqs
<1>3. wire \in Seq(Byte) /\ msg \in Seq(Seq(Byte))
  BY <1>1, <1>2, Ros1Type DEF IsMessage
<1>4. /\ node = "up" /\ role = "publisher" /\ UNCHANGED <<role, type, support, sent>>
      /\ n \in 0..Len(wire)
      /\ bodies' = Append(bodies, body)
      /\ publish(bytes)
  BY <1>1 DEF handle
<1>5. bytes \in Seq(Byte)
  <2>1. n \in Nat /\ n <= Len(wire) /\ Len(wire) \in Nat
    BY <1>3, <1>4
  <2> QED
    BY <1>1, <1>3, <2>1
<1>6. body \in BodyType /\ body.bytes = bytes /\ body.whole = whole /\ body.msg = IF whole THEN msg ELSE <<>>
  <2>1. PICK S : S = Seq(Byte)
    OBVIOUS
  <2>2. (IF whole THEN msg ELSE <<>>) \in Seq(S) /\ whole \in BOOLEAN /\ bytes \in S
    BY <1>1, <1>3, <1>5, <2>1
  <2> QED
    BY <1>1, <2>1, <2>2 DEF BodyType
<1>7. SpellsMessage(body, type)
  <2> SUFFICES ASSUME whole
               PROVE  body.msg \in Messages[type]
                      /\ \E s \in SeqChoices(type, SeqValues) : body.bytes = Ros1(body.msg, type, s)
    BY <1>6 DEF SpellsMessage
  <2>1. t = type /\ n = Len(wire)
    BY <1>1
  <2>2. bytes = wire
    BY <1>1, <1>3, <2>1
  <2> QED
    BY <1>1, <1>6, <2>1, <2>2
<1>8. Len(bodies') = Len(bodies) + 1
  <2>1. bodies \in Seq(BodyType)
    BY DEF AdapterInv, AdapterTypeOK, BodyType
  <2> QED
    BY <1>4, <1>6, <2>1
<1>9. PICK c : c = deserialize_ros1_to_struct(bytes, type)
  OBVIOUS
<1>10. /\ node' \in {"up", "terminated", "crashed"}
       /\ \/ published' = published
          \/ /\ node' = "up"
             /\ \E p \in [parsed : BOOLEAN, copy : Seq(Seq(Byte)), body : {Len(bodies) + 1}] :
                  /\ published' = Append(published, p)
                  /\ p.parsed => c.result = "true" /\ p.copy = c.out
       /\ support = "loaded" /\ c.result = "true" =>
            /\ node' = "up"
            /\ published' = Append(published, [parsed |-> TRUE, copy |-> c.out, body |-> Len(bodies) + 1])
  <2>1. PICK k : k = Len(bodies')
    OBVIOUS
  <2>2. k = Len(bodies) + 1
    BY <1>8, <2>1
  <2> QED
    BY <1>4, <1>5, <1>9, <2>1, <2>2, PublishSteps
<1> QED
  BY <1>4, <1>6, <1>7, <1>9, <1>10

\* What the callback of a subscription leaves behind.
LEMMA CallbackSteps ==
  ASSUME AdapterInv, (\E msg \in Messages[type] : callback(msg)) \/ CallbackUndecodable
  PROVE  /\ node = "up" /\ role = "subscriber" /\ UNCHANGED <<role, type, support, bodies, published>>
         /\ node' \in {"up", "terminated", "crashed"}
         /\ \/ sent' = sent
            \/ \E r \in SentType : sent' = Append(sent, r) /\ FromConversion(r, type)
         /\ node' = "up" \/ support # "loaded" \/
              \E msg \in Messages[type] : serialized_struct_to_ros1(msg, type).result \in {"throws", "undefined"}
<1>1. CASE CallbackUndecodable
  <2>1. PICK r : r = [known |-> FALSE, msg |-> <<>>, payload |-> <<>>]
    OBVIOUS
  <2>2. r \in SentType /\ FromConversion(r, type)
    <3>1. PICK S : S = Seq(Byte)
      OBVIOUS
    <3>2. <<>> \in Seq(S) /\ <<>> \in S
      BY <3>1
    <3> QED
      BY <2>1, <3>1, <3>2 DEF SentType, FromConversion
  <2> QED
    BY <1>1, <2>1, <2>2 DEF CallbackUndecodable, Subscribed, Writes
<1>2. ASSUME NEW msg \in Messages[type], callback(msg)
      PROVE  /\ node = "up" /\ role = "subscriber" /\ UNCHANGED <<role, type, support, bodies, published>>
             /\ node' \in {"up", "terminated", "crashed"}
             /\ \/ sent' = sent
                \/ \E r \in SentType : sent' = Append(sent, r) /\ FromConversion(r, type)
             /\ node' = "up" \/ support # "loaded"
                \/ serialized_struct_to_ros1(msg, type).result \in {"throws", "undefined"}
  <2>1. PICK c : c = serialized_struct_to_ros1(msg, type)
    OBVIOUS
  <2>2. node = "up" /\ role = "subscriber" /\ UNCHANGED <<role, type, support, bodies, published>>
    BY <1>2 DEF callback, Subscribed
  <2>3. type \in Types /\ support \in {"loaded", "unassigned"}
    BY <2>2 DEF AdapterInv
  <2>4. IsMessage(msg, type) /\ msg \in Seq(Seq(Byte))
    BY <2>3, AdapterAssumption DEF IsMessage
  <2>5. c \in Result(Byte)
    BY <2>1, <2>3, <2>4, WriterType
  <2>6. c.out \in Seq(Byte) /\ c.result \in Outcomes
    BY <2>5 DEF Result
  <2>7. CASE WritesUnknown /\ (support = "unassigned" \/ c.result = "undefined")
    <3>1. CASE node' = "crashed" /\ UNCHANGED sent
      BY <2>1, <2>2, <2>7, <3>1
    <3>2. ASSUME NEW payload \in Garbage, Writes(FALSE, <<>>, payload)
          PROVE  node' = "up" /\ \E r \in SentType : sent' = Append(sent, r) /\ FromConversion(r, type)
      <4>1. PICK r : r = [known |-> FALSE, msg |-> <<>>, payload |-> payload]
        OBVIOUS
      <4>2. r \in SentType /\ FromConversion(r, type)
        <5>1. PICK S : S = Seq(Byte)
          OBVIOUS
        <5>2. <<>> \in Seq(S) /\ payload \in S
          BY <5>1, AdapterAssumption
        <5> QED
          BY <4>1, <5>1, <5>2 DEF SentType, FromConversion
      <4> QED
        BY <2>2, <3>2, <4>1, <4>2 DEF Writes
    <3> QED
      BY <2>1, <2>2, <2>7, <3>1, <3>2 DEF WritesUnknown
  <2>8. CASE c.result = "throws" /\ node' = "terminated" /\ UNCHANGED sent
    BY <2>1, <2>2, <2>8
  <2>9. CASE c.result \in {"true", "false"} /\ Writes(TRUE, msg, c.out)
    <3>1. PICK r : r = [known |-> TRUE, msg |-> msg, payload |-> c.out]
      OBVIOUS
    <3>2. r \in SentType /\ FromConversion(r, type)
      <4>1. PICK S : S = Seq(Byte)
        OBVIOUS
      <4>2. msg \in Seq(S) /\ c.out \in S
        BY <2>4, <2>6, <4>1
      <4> QED
        BY <2>1, <2>9, <3>1, <4>1, <4>2 DEF SentType, FromConversion
    <3> QED
      BY <2>2, <2>9, <3>1, <3>2 DEF Writes
  <2> QED
    BY <1>2, <2>1, <2>3, <2>6, <2>7, <2>8, <2>9 DEF callback, Outcomes
<1> QED
  BY <1>1, <1>2

\* What holds of all the entries of a history holds of one more that has it too.
LEMMA OneMore ==
  ASSUME NEW S, NEW s \in Seq(S), NEW x \in S
  PROVE  /\ Append(s, x) \in Seq(S) /\ Len(Append(s, x)) = Len(s) + 1 /\ Len(s) \in Nat
         /\ DOMAIN Append(s, x) = 1..(Len(s) + 1) /\ DOMAIN s = 1..Len(s)
         /\ \A k \in 1..Len(s) : Append(s, x)[k] = s[k]
         /\ Append(s, x)[Len(s) + 1] = x
  OBVIOUS

\* Before the topic is registered there is no history.
LEMMA AdapterStarts == AdapterInit => AdapterInv
<1> SUFFICES ASSUME AdapterInit PROVE AdapterInv
  OBVIOUS
<1>1. PICK e : e = <<>>
  OBVIOUS
<1>2. (\A S : e \in Seq(S)) /\ DOMAIN e = {}
  BY <1>1
<1>3. bodies = e /\ published = e /\ sent = e
  BY <1>1 DEF AdapterInit
<1>4. AdapterTypeOK
  BY <1>2, <1>3 DEF AdapterInit, AdapterTypeOK
<1> QED
  BY <1>2, <1>3, <1>4 DEF AdapterInit, AdapterInv

\* A body is handled: its record, and what is published of it.
LEMMA AdapterHandles ==
  ASSUME AdapterInv, NEW t \in Types, NEW msg \in Messages[t], NEW seqs \in SeqChoices(t, SeqValues),
         NEW n, handle(t, msg, seqs, n)
  PROVE  AdapterInv'
<1>1. PICK body, c :
        /\ body \in BodyType /\ c = deserialize_ros1_to_struct(body.bytes, type)
        /\ bodies' = Append(bodies, body)
        /\ SpellsMessage(body, type)
        /\ \/ published' = published
           \/ /\ node' = "up"
              /\ \E p \in [parsed : BOOLEAN, copy : Seq(Seq(Byte)), body : {Len(bodies) + 1}] :
                   /\ published' = Append(published, p)
                   /\ p.parsed => c.result = "true" /\ p.copy = c.out
  BY HandleSteps
<1>2. /\ node = "up" /\ role = "publisher" /\ UNCHANGED <<role, type, support, sent>>
      /\ node' \in {"up", "terminated", "crashed"}
  BY HandleSteps
<1>3. /\ bodies \in Seq(BodyType) /\ published \in Seq(PublishedType(Len(bodies)))
      /\ sent \in Seq(SentType) /\ sent = <<>> /\ type \in Types /\ support \in {"loaded", "unassigned"}
  <2>1. bodies \in Seq(BodyType)
    BY DEF AdapterInv, AdapterTypeOK, BodyType
  <2>2. DOMAIN bodies = 1..Len(bodies)
    BY <2>1
  <2> QED
    BY <1>2, <2>1, <2>2 DEF AdapterInv, AdapterTypeOK, PublishedType, SentType
<1>4. /\ bodies' \in Seq(BodyType) /\ Len(bodies') = Len(bodies) + 1 /\ Len(bodies) \in Nat
      /\ DOMAIN bodies = 1..Len(bodies) /\ DOMAIN bodies' = 1..(Len(bodies) + 1)
      /\ \A k \in 1..Len(bodies) : bodies'[k] = bodies[k]
      /\ bodies'[Len(bodies) + 1] = body
  BY <1>1, <1>3, OneMore
<1>5. \A k \in DOMAIN bodies' : SpellsMessage(bodies'[k], type)
  <2>1. \A k \in DOMAIN bodies : SpellsMessage(bodies[k], type)
    BY DEF AdapterInv
  <2>2. \A k \in 1..(Len(bodies) + 1) : k \in 1..Len(bodies) \/ k = Len(bodies) + 1
    BY <1>4
  <2> QED
    BY <1>1, <1>4, <2>1, <2>2
<1>6. /\ published \in Seq(PublishedType(Len(bodies) + 1))
      /\ \A k \in DOMAIN published : FromBody(published[k], bodies'[published[k].body], type)
  <2>1. PublishedType(Len(bodies)) \subseteq PublishedType(Len(bodies) + 1)
    <3>1. 1..Len(bodies) \subseteq 1..(Len(bodies) + 1)
      BY <1>4
    <3> QED
      BY <3>1 DEF PublishedType
  <2>2. published \in Seq(PublishedType(Len(bodies) + 1))
    BY <1>3, <2>1
  <2>3. \A k \in DOMAIN published : published[k].body \in 1..Len(bodies)
    <3>1. \A k \in DOMAIN published : published[k] \in PublishedType(Len(bodies))
      BY <1>3
    <3> QED
      BY <3>1 DEF PublishedType
  <2>4. \A k \in DOMAIN published : FromBody(published[k], bodies[published[k].body], type)
    BY DEF AdapterInv
  <2> QED
    BY <1>4, <2>2, <2>3, <2>4
<1>7. /\ published' \in Seq(PublishedType(Len(bodies) + 1))
      /\ \A k \in DOMAIN published' : FromBody(published'[k], bodies'[published'[k].body], type)
  <2>1. CASE published' = published
    BY <1>6, <2>1
  <2>2. ASSUME NEW p \in [parsed : BOOLEAN, copy : Seq(Seq(Byte)), body : {Len(bodies) + 1}],
               published' = Append(published, p), p.parsed => c.result = "true" /\ p.copy = c.out
        PROVE  /\ published' \in Seq(PublishedType(Len(bodies) + 1))
               /\ \A k \in DOMAIN published' : FromBody(published'[k], bodies'[published'[k].body], type)
    <3>1. p \in PublishedType(Len(bodies) + 1) /\ p.body = Len(bodies) + 1
      <4>1. Len(bodies) + 1 \in 1..(Len(bodies) + 1)
        BY <1>4
      <4> QED
        BY <4>1 DEF PublishedType
    <3>2. /\ published' \in Seq(PublishedType(Len(bodies) + 1))
          /\ DOMAIN published' = 1..(Len(published) + 1) /\ DOMAIN published = 1..Len(published)
          /\ \A k \in 1..Len(published) : published'[k] = published[k]
          /\ published'[Len(published) + 1] = p /\ Len(published) \in Nat
      BY <1>6, <2>2, <3>1, OneMore
    <3>3. FromBody(p, bodies'[p.body], type)
      BY <1>1, <1>4, <2>2, <3>1 DEF FromBody
    <3>4. \A k \in 1..(Len(published) + 1) : k \in 1..Len(published) \/ k = Len(published) + 1
      BY <3>2
    <3> QED
      BY <1>6, <3>2, <3>3, <3>4
  <2> QED
    BY <1>1, <2>1, <2>2
<1>8. AdapterTypeOK'
  <2>1. bodies' \in Seq([bytes : Seq(Byte), whole : BOOLEAN, msg : Seq(Seq(Byte))])
    BY <1>4 DEF BodyType
  <2>2. published' \in Seq([parsed : BOOLEAN, copy : Seq(Seq(Byte)), body : DOMAIN bodies'])
    BY <1>4, <1>7 DEF PublishedType
  <2>3. sent' \in Seq([known : BOOLEAN, msg : Seq(Seq(Byte)), payload : Seq(Byte)])
    BY <1>2, <1>3 DEF SentType
  <2> QED
    BY <1>2, <1>3, <2>1, <2>2, <2>3 DEF AdapterTypeOK
<1> QED
  BY <1>2, <1>3, <1>5, <1>7, <1>8 DEF AdapterInv

\* A message arrives from ROS 2: what is sent of it.
LEMMA AdapterCallsBack ==
  ASSUME AdapterInv, (\E msg \in Messages[type] : callback(msg)) \/ CallbackUndecodable
  PROVE  AdapterInv'
<1>1. /\ role = "subscriber" /\ UNCHANGED <<role, type, support, bodies, published>>
      /\ node' \in {"up", "terminated", "crashed"}
      /\ \/ sent' = sent
         \/ \E r \in SentType : sent' = Append(sent, r) /\ FromConversion(r, type)
  BY CallbackSteps
<1>2. /\ sent \in Seq(SentType) /\ bodies = <<>> /\ published = <<>> /\ type \in Types
      /\ support \in {"loaded", "unassigned"}
      /\ \A k \in DOMAIN sent : FromConversion(sent[k], type)
  BY <1>1 DEF AdapterInv, AdapterTypeOK, SentType
<1>3. sent' \in Seq(SentType) /\ \A k \in DOMAIN sent' : FromConversion(sent'[k], type)
  <2>1. CASE sent' = sent
    BY <1>2, <2>1
  <2>2. ASSUME NEW r \in SentType, sent' = Append(sent, r), FromConversion(r, type)
        PROVE  sent' \in Seq(SentType) /\ \A k \in DOMAIN sent' : FromConversion(sent'[k], type)
    <3>1. /\ sent' \in Seq(SentType)
          /\ DOMAIN sent' = 1..(Len(sent) + 1) /\ DOMAIN sent = 1..Len(sent)
          /\ \A k \in 1..Len(sent) : sent'[k] = sent[k]
          /\ sent'[Len(sent) + 1] = r /\ Len(sent) \in Nat
      BY <1>2, <2>2, OneMore
    <3>2. \A k \in 1..(Len(sent) + 1) : k \in 1..Len(sent) \/ k = Len(sent) + 1
      BY <3>1
    <3> QED
      BY <1>2, <2>2, <3>1, <3>2
  <2> QED
    BY <1>1, <2>1, <2>2
<1>4. AdapterTypeOK'
  <2>1. sent' \in Seq([known : BOOLEAN, msg : Seq(Seq(Byte)), payload : Seq(Byte)])
    BY <1>3 DEF SentType
  <2>2. /\ role' = role /\ type' = type /\ support' = support
        /\ bodies' = bodies /\ published' = published
    BY <1>1
  <2> QED
    BY <1>1, <2>1, <2>2 DEF AdapterInv, AdapterTypeOK
<1> QED
  BY <1>1, <1>2, <1>3, <1>4 DEF AdapterInv

\* The topic is registered: its type and role are chosen, its support loaded.
LEMMA AdapterRegisters ==
  ASSUME AdapterInv, NEW t \in Types, Registration(t)
  PROVE  AdapterInv'
<1>1. /\ role = "none" /\ bodies' = bodies /\ published' = published /\ sent' = sent
      /\ \/ node' \in {"terminated", "crashed"} /\ UNCHANGED <<role, type, support>>
         \/ /\ role' \in {"publisher", "subscriber"} /\ type' = t
            /\ support' \in {"loaded", "unassigned"} /\ node' = "up"
  BY RegistrationSteps
<1>2. bodies = <<>> /\ published = <<>> /\ sent = <<>>
  BY <1>1 DEF AdapterInv
<1>3. AdapterTypeOK'
  <2>1. /\ bodies' \in Seq([bytes : Seq(Byte), whole : BOOLEAN, msg : Seq(Seq(Byte))])
        /\ published' \in Seq([parsed : BOOLEAN, copy : Seq(Seq(Byte)), body : DOMAIN bodies'])
        /\ sent' \in Seq([known : BOOLEAN, msg : Seq(Seq(Byte)), payload : Seq(Byte)])
    BY <1>1 DEF AdapterInv, AdapterTypeOK
  <2> QED
    BY <1>1, <2>1 DEF AdapterInv, AdapterTypeOK
<1>4. DOMAIN bodies' = {} /\ DOMAIN published' = {} /\ DOMAIN sent' = {}
  BY <1>1, <1>2
<1> QED
  BY <1>1, <1>2, <1>3, <1>4 DEF AdapterInv

\* When nothing of the adapter changes, nothing changes.
LEMMA AdapterStays ==
  ASSUME AdapterInv, UNCHANGED adapterVars
  PROVE  AdapterInv'
<1>1. /\ node' = node /\ role' = role /\ type' = type /\ support' = support
      /\ bodies' = bodies /\ published' = published /\ sent' = sent
  BY DEF adapterVars
<1>2. AdapterTypeOK'
  BY <1>1 DEF AdapterInv, AdapterTypeOK
<1> QED
  BY <1>1, <1>2 DEF AdapterInv

\* Every step of the adapter keeps the invariant.
LEMMA AdapterKeeps ==
  ASSUME AdapterInv, AdapterNext
  PROVE  AdapterInv'
  BY AdapterRegisters, AdapterHandles, AdapterCallsBack DEF AdapterNext, Registration

\* What the conversion wrote is the ROS 1 form of the message or the beginning of it.
LEMMA InvSentIsRos1 == AdapterInv => SentIsRos1
<1> SUFFICES ASSUME AdapterInv, type \in Conventional, NEW k \in DOMAIN sent, sent[k].known,
                    NEW zeros \in SeqChoices(type, {LE32(0)})
             PROVE  LET whole == Ros1Omitting(sent[k].msg, type, zeros)
                    IN  IF type \in Sendable THEN sent[k].payload = whole
                        ELSE IsPrefix(sent[k].payload, whole)
  BY DEF SentIsRos1
<1>1. type \in Types /\ type # StdHeader /\ Tidy(type) /\ (type \in Sendable <=> Sure(type))
  BY ConventionalIsTidy
<1>2. PICK msg, c : msg = sent[k].msg /\ c = serialized_struct_to_ros1(msg, type)
  OBVIOUS
<1>3. msg \in Messages[type] /\ c.result \in {"true", "false"} /\ sent[k].payload = c.out
  BY <1>2 DEF AdapterInv, FromConversion
<1>4. IsMessage(msg, type)
  BY <1>1, <1>3, AdapterAssumption
<1>5. /\ c.result = "true" => c.out = Ros1Omitting(msg, type, zeros)
      /\ IsPrefix(c.out, Ros1Omitting(msg, type, zeros))
      /\ Sure(type) => c.result = "true"
  BY <1>1, <1>2, <1>4, ConversionWritesRos1
<1> QED
  BY <1>1, <1>2, <1>3, <1>5

\* What the conversion returned is spelt by the body it came from.
LEMMA InvParsedIsInBody == AdapterInv => ParsedIsInBody
<1> SUFFICES ASSUME AdapterInv, type \in Conventional, NEW k \in DOMAIN published, published[k].parsed
             PROVE  LET p == published[k]
                        bytes == bodies[p.body].bytes
                    IN  \E seqs \in SeqChoices(type, {SubSeq(bytes, j, j + 3) : j \in 1..(Len(bytes) - 3)}) :
                          IsPrefix(Ros1(p.copy, type, seqs), bytes)
  BY DEF ParsedIsInBody
<1>1. type \in Types /\ type # StdHeader /\ Tidy(type)
  BY ConventionalIsTidy
<1>2. PICK p, bytes, c : /\ p = published[k] /\ bytes = bodies[p.body].bytes
                         /\ c = deserialize_ros1_to_struct(bytes, type)
  OBVIOUS
<1>3. c.result = "true" /\ p.copy = c.out
  <2>1. FromBody(published[k], bodies[published[k].body], type)
    BY DEF AdapterInv
  <2> QED
    BY <1>2, <2>1 DEF FromBody
<1>4. bytes \in Seq(Byte)
  <2>1. bodies \in Seq(BodyType)
    BY DEF AdapterInv, AdapterTypeOK, BodyType
  <2>2. DOMAIN bodies = 1..Len(bodies)
    BY <2>1
  <2>3. published \in Seq(PublishedType(Len(bodies)))
    BY <2>2 DEF AdapterInv, AdapterTypeOK, PublishedType
  <2>4. p \in PublishedType(Len(bodies))
    BY <1>2, <2>3
  <2>5. p.body \in DOMAIN bodies
    BY <2>2, <2>4 DEF PublishedType
  <2>6. bodies[p.body] \in BodyType
    BY <2>1, <2>5
  <2> QED
    BY <1>2, <2>6 DEF BodyType
<1>5. \E seqs \in SeqChoices(type, Chunks(bytes)) : IsPrefix(Ros1(c.out, type, seqs), bytes)
  BY <1>1, <1>2, <1>3, <1>4, ConversionReadsRos1
<1> QED
  BY <1>2, <1>3, <1>5 DEF Chunks

\* Of a whole message that can be received, the conversion makes the message again.
LEMMA WholeIsParsed ==
  ASSUME type \in Conventional, type \in Receivable, NEW body \in BodyType, SpellsMessage(body, type),
         body.whole, StringsPass(body.msg, type)
  PROVE  LET c == deserialize_ros1_to_struct(body.bytes, type)
         IN  c.result = "true" /\ c.out = body.msg
<1>1. type \in Types /\ type # StdHeader /\ Tidy(type) /\ Readable(type)
  BY ConventionalIsTidy
<1>2. PICK msg, bytes, c : /\ msg = body.msg /\ bytes = body.bytes
                           /\ c = deserialize_ros1_to_struct(bytes, type)
  OBVIOUS
<1>3. msg \in Messages[type] /\ \E seqs \in SeqChoices(type, SeqValues) : bytes = Ros1(msg, type, seqs)
  BY <1>2 DEF SpellsMessage
<1>4. PICK seqs \in SeqChoices(type, [1..4 -> Byte]) : bytes = Ros1(msg, type, seqs)
  BY <1>1, <1>3, DeviceSeqs
<1>5. IsMessage(msg, type) /\ StringsPass(msg, type)
  BY <1>1, <1>2, <1>3, AdapterAssumption
<1>6. bytes \in Seq(Byte)
  BY <1>2 DEF BodyType
<1>7. IsPrefix(Ros1(msg, type, seqs), bytes)
  BY <1>4, <1>6, PrefixOfItself
<1>8. c.result = "true" /\ c.out = msg
  BY <1>1, <1>2, <1>4, <1>5, <1>6, <1>7, ConversionReadsRos1
<1> QED
  BY <1>2, <1>8

\* A subscription of a type that can be sent outlives its callback.
LEMMA SendableIsSent ==
  ASSUME AdapterInv, type \in Conventional, type \in Sendable, NEW msg \in Messages[type]
  PROVE  serialized_struct_to_ros1(msg, type).result = "true"
<1>1. type \in Types /\ type # StdHeader /\ Tidy(type) /\ Sure(type)
  BY ConventionalIsTidy
<1>2. IsMessage(msg, type)
  BY <1>1, AdapterAssumption
<1>3. PICK n, zeros : n = Seqs(Layout[type], Len(Layout[type])) /\ zeros = [k \in 1..n |-> LE32(0)]
  OBVIOUS
<1>4. zeros \in SeqChoices(type, {LE32(0)})
  BY <1>3 DEF SeqChoices
<1> QED
  BY <1>1, <1>2, <1>4, ConversionWritesRos1

\* A body that is handled when all before it were published.
LEMMA SoundHandled ==
  ASSUME AdapterInv, SoundTrafficArrives, NEW t \in Types, NEW msg \in Messages[t],
         NEW seqs \in SeqChoices(t, SeqValues), NEW n, handle(t, msg, seqs, n)
  PROVE  SoundTrafficArrives'
<1>1. PICK body, c :
        /\ body \in BodyType /\ c = deserialize_ros1_to_struct(body.bytes, type)
        /\ bodies' = Append(bodies, body)
        /\ SpellsMessage(body, type)
        /\ support = "loaded" /\ c.result = "true" =>
             /\ node' = "up"
             /\ published' = Append(published, [parsed |-> TRUE, copy |-> c.out, body |-> Len(bodies) + 1])
  BY HandleSteps
<1>2. node = "up" /\ role = "publisher" /\ role' = role /\ type' = type /\ support' = support
  BY HandleSteps
<1>3. bodies \in Seq(BodyType)
  BY DEF AdapterInv, AdapterTypeOK, BodyType
<1>4. /\ Len(bodies) \in Nat
      /\ DOMAIN bodies = 1..Len(bodies) /\ DOMAIN bodies' = 1..(Len(bodies) + 1)
      /\ \A k \in 1..Len(bodies) : bodies'[k] = bodies[k]
      /\ bodies'[Len(bodies) + 1] = body
  BY <1>1, <1>3, OneMore
<1> SUFFICES ASSUME support = "loaded", type \in Conventional, type \in Receivable,
                    \A i \in DOMAIN bodies' : bodies'[i].whole /\ StringsPass(bodies'[i].msg, type)
             PROVE  node' = "up"
                    /\ published' = [i \in DOMAIN bodies' |->
                                       [parsed |-> TRUE, copy |-> bodies'[i].msg, body |-> i]]
  BY <1>2 DEF SoundTrafficArrives
<1>5. published = [i \in 1..Len(bodies) |-> [parsed |-> TRUE, copy |-> bodies[i].msg, body |-> i]]
  <2>1. \A i \in DOMAIN bodies : bodies[i].whole /\ StringsPass(bodies[i].msg, type)
    <3> SUFFICES ASSUME NEW i \in DOMAIN bodies PROVE bodies[i].whole /\ StringsPass(bodies[i].msg, type)
      OBVIOUS
    <3>1. i \in DOMAIN bodies' /\ bodies'[i] = bodies[i]
      BY <1>4
    <3> QED
      BY <3>1
  <2> QED
    BY <1>2, <1>4, <2>1 DEF SoundTrafficArrives
<1>6. c.result = "true" /\ c.out = body.msg
  <2>1. Len(bodies) + 1 \in DOMAIN bodies'
    BY <1>4
  <2>2. body.whole /\ StringsPass(body.msg, type)
    BY <1>4, <2>1
  <2> QED
    BY <1>1, <2>2, WholeIsParsed
<1>7. PICK p, n1 : p = [parsed |-> TRUE, copy |-> body.msg, body |-> Len(bodies) + 1] /\ n1 = Len(bodies) + 1
  OBVIOUS
<1>8. published' = Append(published, p) /\ node' = "up"
  BY <1>1, <1>6, <1>7
<1>9. PICK all : all = [i \in 1..n1 |-> [parsed |-> TRUE, copy |-> bodies'[i].msg, body |-> i]]
  OBVIOUS
<1>10. published \in Seq(PublishedType(Len(bodies))) /\ Len(published) = Len(bodies)
  <2>1. published \in Seq(PublishedType(Len(bodies)))
    BY <1>4 DEF AdapterInv, AdapterTypeOK, PublishedType
  <2>2. DOMAIN published = 1..Len(bodies)
    BY <1>5
  <2> QED
    BY <1>4, <2>1, <2>2
<1>11. Append(published, p) = all
  <2>1. Append(published, p) = [i \in 1..n1 |-> IF i = n1 THEN p ELSE published[i]]
    BY <1>4, <1>7, <1>10
  <2>2. ASSUME NEW i \in 1..n1
        PROVE  (IF i = n1 THEN p ELSE published[i]) = all[i]
    <3>1. CASE i = n1
      BY <1>4, <1>7, <1>9, <3>1
    <3>2. CASE i # n1
      <4>1. i \in 1..Len(bodies)
        BY <1>4, <1>7, <3>2
      <4>2. published[i] = [parsed |-> TRUE, copy |-> bodies[i].msg, body |-> i]
        BY <1>5, <4>1
      <4> QED
        BY <1>4, <1>9, <3>2, <4>1, <4>2
    <3> QED
      BY <3>1, <3>2
  <2>3. all = [i \in 1..n1 |-> all[i]]
    BY <1>9
  <2> QED
    BY <2>1, <2>2, <2>3
<1> QED
  BY <1>4, <1>7, <1>8, <1>9, <1>11

\* The other steps of the adapter.
LEMMA SoundKept ==
  ASSUME AdapterInv, SoundTrafficArrives, AdapterNext \/ UNCHANGED adapterVars
  PROVE  SoundTrafficArrives'
<1>1. CASE UNCHANGED adapterVars
  BY <1>1 DEF adapterVars, SoundTrafficArrives
<1>2. ASSUME NEW t \in Types, Registration(t)
      PROVE  SoundTrafficArrives'
  <2>1. role = "none" /\ bodies = <<>> /\ published = <<>>
    BY <1>2, RegistrationSteps DEF AdapterInv
  <2>2. bodies' = <<>> /\ published' = <<>> /\ (role' = "none" \/ node' = "up")
    BY <1>2, <2>1, RegistrationSteps
  <2>3. published' = [i \in DOMAIN bodies' |-> [parsed |-> TRUE, copy |-> bodies'[i].msg, body |-> i]]
    <3>1. DOMAIN bodies' = {}
      BY <2>2
    <3>2. PICK x : x = [i \in DOMAIN bodies' |-> [parsed |-> TRUE, copy |-> bodies'[i].msg, body |-> i]]
      OBVIOUS
    <3>3. DOMAIN x = {} /\ x = [i \in {} |-> x[i]]
      BY <3>1, <3>2
    <3>4. x = <<>>
      BY <3>3
    <3> QED
      BY <2>2, <3>2, <3>4
  <2> QED
    BY <2>2, <2>3 DEF SoundTrafficArrives
<1>3. ASSUME NEW t \in Types, NEW msg \in Messages[t], NEW seqs \in SeqChoices(t, SeqValues),
             NEW n, handle(t, msg, seqs, n)
      PROVE  SoundTrafficArrives'
  BY <1>3, SoundHandled
<1>4. CASE (\E msg \in Messages[type] : callback(msg)) \/ CallbackUndecodable
  <2>1. /\ role = "subscriber" /\ role' = role /\ type' = type /\ support' = support
        /\ node' = "up" \/ support # "loaded" \/
             \E msg \in Messages[type] : serialized_struct_to_ros1(msg, type).result \in {"throws", "undefined"}
    BY <1>4, CallbackSteps
  <2>2. support = "loaded" /\ type \in Conventional /\ type \in Sendable => node' = "up"
    BY <2>1, SendableIsSent
  <2> QED
    BY <2>1, <2>2 DEF SoundTrafficArrives
<1> QED
  BY <1>1, <1>2, <1>3, <1>4 DEF AdapterNext, Registration
=================================================================================
