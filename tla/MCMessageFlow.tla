------------------------------ MODULE MCMessageFlow ------------------------------
(***************************************************************************)
(* Instance of MessageFlow: small types after those of std_msgs,           *)
(* geometry_msgs and sensor_msgs, with every kind of member and array, and *)
(* installations that lack a part of the type support.                     *)
(***************************************************************************)
EXTENDS MessageFlow

Member(name, type_id, sub) ==
  [name |-> name, type_id |-> type_id, is_array |-> FALSE, array_size |-> 0,
   is_upper_bound |-> FALSE, sub |-> sub]

One(type_id) == Member("data", type_id, "")
Part(name, sub) == Member(name, "MESSAGE", sub)
Fixed(m, n) == [m EXCEPT !.is_array = TRUE, !.array_size = n]
Unbounded(m) == [m EXCEPT !.is_array = TRUE]
Bounded(m, n) == [Fixed(m, n) EXCEPT !.is_upper_bound = TRUE]

MCDefinitions ==
  [ Header  |-> <<Member("stamp", "INT32", ""), Member("frame_id", "STRING", "")>>,
    MyStamp |-> <<Member("stamp", "BYTE", "")>>,
    Flag    |-> <<One("BOOL"), One("BYTE")>>,
    Text    |-> <<One("STRING")>>,
    Imu     |-> <<Part("header", "Header"), One("FLOAT")>>,
    Pair    |-> <<Part("header", "Header"), Part("imu", "Imu")>>,
    Matrix  |-> <<Fixed(One("DOUBLE"), 2)>>,
    Twist   |-> <<Part("linear", "Flag"), Part("angular", "Flag")>>,
    Image   |-> <<One("BYTE"), One("OTHER"), One("BYTE")>>,
    Words   |-> <<Fixed(One("STRING"), 2), Fixed(Part("header", "MyStamp"), 2)>>,
    Scan    |-> <<One("BYTE"), Unbounded(One("FLOAT"))>>,
    Path    |-> <<Unbounded(Part("poses", "Flag")), One("BYTE")>>,
    Short   |-> <<Bounded(Part("poses", "Flag"), 1)>>,
    Stamped |-> <<Part("info", "Header")>>,
    Custom  |-> <<Part("header", "MyStamp")>>,
    Absent  |-> <<One("BYTE")>>,
    Partial |-> <<One("BYTE")>>,
    Foreign |-> <<One("BYTE")>> ]

MCDepth ==
  LET depth[t \in DOMAIN MCDefinitions] ==
        LET subs == {MCDefinitions[t][i].sub : i \in DOMAIN MCDefinitions[t]} \ {""}
        IN  Len(MCDefinitions[t]) + Max({depth[s] : s \in subs} \cup {0})
  IN  depth

\* The sync flags of a frame may occur in data, and a seq may look like a length.
SyncWord == <<255, 254, 0, 0>>
Number == <<2, 0, 0, 0, 1, 0, 0, 0>>

MCMessages ==
  [ Header  |-> {<<SyncWord, <<7>>>>},
    MyStamp |-> {<<<<7>>>>},
    Flag    |-> {<<<<1>>, <<9>>>>, <<<<1>>, <<254>>>>},
    Text    |-> {<<<<>>>>, <<<<7, 8>>>>, <<<<7, 8, 9>>>>},
    Imu     |-> {<<SyncWord, <<7>>, <<1, 2, 3, 4>>>>, <<SyncWord, <<>>, <<0, 0, 0, 0>>>>},
    Pair    |-> {<<SyncWord, <<7>>, <<0, 0, 0, 0>>, <<8>>, <<1, 2, 3, 4>>>>},
    Matrix  |-> {<<Number \o Number>>},
    Twist   |-> {<<<<1>>, <<2>>, <<0>>, <<4>>>>},
    Image   |-> {<<<<1>>, <<2, 3>>, <<4>>>>},
    Words   |-> {<<<<7>>, <<>>, <<5>>, <<6>>>>},
    Scan    |-> {<<<<1>>, <<1, 0, 0, 0>> \o SyncWord>>},
    Path    |-> {<<<<1, 0, 0, 0, 1, 9>>, <<4>>>>},
    Short   |-> {<<<<1, 0, 0, 0, 1, 9>>>>},
    Stamped |-> {<<SyncWord, <<7>>>>},
    Custom  |-> {<<<<7>>>>},
    Absent  |-> {<<<<7>>>>},
    Partial |-> {<<<<7>>>>},
    Foreign |-> {<<<<7>>>>} ]

MCInstalled ==
  [t \in DOMAIN MCDefinitions |->
     CASE t = "Absent"  -> [introspection |-> "library", cpp |-> FALSE]
       [] t = "Partial" -> [introspection |-> "missing", cpp |-> TRUE]
       [] t = "Foreign" -> [introspection |-> "library", cpp |-> TRUE]
       [] t = "MyStamp" -> [introspection |-> "symbol", cpp |-> FALSE]
       [] OTHER         -> [introspection |-> "symbol", cpp |-> TRUE]]

MCSeqValues == {<<1, 0, 0, 0>>, <<0, 0, 0, 0>>}
MCGarbage == {<<7>>}
=============================================================================
