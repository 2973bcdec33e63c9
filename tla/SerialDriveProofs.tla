---------------------------- MODULE SerialDriveProofs ----------------------------
(***************************************************************************)
(* Proofs about SerialDrive, for all launch parameters, parameter requests *)
(* of any length and failures of the port at any of its openings: types,   *)
(* an open port runs with the settings the drive remembers, and a request  *)
(* takes effect up to the setting that failed, for ROS whole or not at all.*)
(*                                                                         *)
(* What a reload does is stated of the record the reload works on (Drive). *)
(* parameter_callback is followed setting by setting, by induction.        *)
(***************************************************************************)
EXTENDS SerialDrive, RosserialFrameProofs

PortStates == {Closed} \cup [open : {TRUE}, port : KnownPorts, baud : KnownBauds]
Configs == [port : KnownPorts, baud : KnownBauds]
Parameters == [port : KnownPorts, baud : Int]
ChainPlaces == Ended \cup {"reading", "completed", "aborted", "failed", "posted"}
WritingStates == {"none", "piece", "completed", "aborted", "failed"} \cup Underway

\* What a reload works on, and the reader of the chain is one there has been.
DriveStates ==
  [port : PortStates, reader : Nat, chain : [at : ChainPlaces, of : Nat],
   writing : WritingStates, config : Configs, ok : BOOLEAN, throws : BOOLEAN]

ReaderExisted(d) == d.chain.of <= d.reader
AsConfigured(d) == d.port.open => d.port = Open(d.config.port, d.config.baud)

Valid == [name : {"port"}, value : Ports] \cup [name : {"baud"}, value : Bauds]

LEMMA HalfIsInt == IntValues \in Nat /\ IntValues > 0 /\ IntValues % 2 = 0 /\ IntValues \div 2 \in Int
<1>1. IntValues \in Nat \ {0} /\ IntValues % 2 = 0
  BY DriveAssumption, Zenon
<1> QED
  BY <1>1

\* What a request may ask for is known.
LEMMA ValidIsKnown == Ports \subseteq KnownPorts /\ Bauds \subseteq KnownBauds
  BY HalfIsInt DEF KnownPorts, KnownBauds, Bauds

LEMMA OpenIsPort ==
  ASSUME NEW p \in KnownPorts, NEW b \in KnownBauds
  PROVE  Open(p, b) \in PortStates /\ Open(p, b).open
  BY DEF Open, PortStates

LEMMA CloseOutcome ==
  ASSUME NEW d \in DriveStates, ReaderExisted(d)
  PROVE  LET c == CloseDrive(d) IN
           /\ c \in DriveStates /\ ReaderExisted(c)
           /\ c.port = Closed
           /\ c.reader = d.reader /\ c.config = d.config
           /\ c.ok = d.ok /\ c.throws = d.throws
           /\ c.writing = "none" <=> d.writing = "none"
<1> DEFINE at == IF d.chain.at = "reading" THEN "aborted" ELSE d.chain.at
           writing2 == IF d.writing \in Underway THEN "aborted" ELSE d.writing
           c == [d EXCEPT !.port = Closed, !.chain.at = at, !.writing = writing2]
           e == [d EXCEPT !.port = Closed, !.chain = [@ EXCEPT !.at = at], !.writing = writing2]
<1>1. at \in ChainPlaces /\ writing2 \in WritingStates /\ (writing2 = "none" <=> d.writing = "none")
  BY DEF DriveStates, ChainPlaces, WritingStates, Underway
<1>2. CloseDrive(d) = c
  BY DEF CloseDrive
<1> HIDE DEF at, writing2
<1>3. c = e
  BY DEF DriveStates
<1>4. [d.chain EXCEPT !.at = at] \in [at : ChainPlaces, of : Nat]
      /\ [d.chain EXCEPT !.at = at].of = d.chain.of
  BY <1>1 DEF DriveStates
<1>5. e \in DriveStates /\ Closed \in PortStates
  BY <1>1, <1>4 DEF DriveStates, PortStates
<1>6. /\ e.port = Closed /\ e.reader = d.reader /\ e.config = d.config
      /\ e.ok = d.ok /\ e.throws = d.throws /\ e.writing = writing2
      /\ e.chain.of = d.chain.of
  BY <1>4 DEF DriveStates
<1> QED
  BY <1>1, <1>2, <1>3, <1>5, <1>6 DEF ReaderExisted

\* open_serial on a port that is closed.
LEMMA OpenOutcome ==
  ASSUME NEW d \in DriveStates, ReaderExisted(d), d.port = Closed, ~d.throws,
         NEW p \in KnownPorts, NEW b \in KnownBauds, NEW opens \in BOOLEAN
  PROVE  LET c == open_serial(d, p, b, opens) IN
           /\ c \in DriveStates /\ ReaderExisted(c)
           /\ c.config = d.config /\ c.writing = d.writing /\ c.chain = d.chain
           /\ c.port \in {Closed, Open(p, b)}
           /\ c.throws \/ (c.ok <=> c.port # Closed)
<1> DEFINE c == open_serial(d, p, b, opens)
<1>1. Open(p, b) \in PortStates /\ Open(p, b) # Closed
  BY OpenIsPort DEF Closed, Open
<1>2. CASE ~opens \/ p = ""
  BY <1>2 DEF open_serial, DriveStates, ReaderExisted
<1>3. CASE opens /\ p # "" /\ b \in Unsupported
  <2>1. c = [d EXCEPT !.port = Open(p, b), !.throws = TRUE]
    BY <1>3 DEF open_serial
  <2> HIDE DEF c
  <2> QED
    BY <1>1, <2>1 DEF DriveStates, ReaderExisted, c
<1>4. CASE opens /\ p # "" /\ b \notin Unsupported
  <2>1. c = [d EXCEPT !.port = Open(p, b), !.reader = @ + 1, !.ok = TRUE]
    BY <1>4 DEF open_serial
  <2>2. d.reader + 1 \in Nat /\ d.chain.of <= d.reader + 1
    BY DEF DriveStates, ReaderExisted
  <2> HIDE DEF c
  <2> QED
    BY <1>1, <2>1, <2>2 DEF DriveStates, ReaderExisted, c
<1> QED
  BY <1>2, <1>3, <1>4

\* A reload that succeeds leaves the port open with the settings asked for; one that
\* fails leaves it closed; an option that is refused throws.
LEMMA ReloadOutcome ==
  ASSUME NEW d \in DriveStates, ReaderExisted(d), ~d.throws,
         NEW p \in KnownPorts, NEW b \in KnownBauds, NEW opens \in BOOLEAN
  PROVE  LET c == reload_hardware(d, p, b, opens) IN
           /\ c \in DriveStates /\ ReaderExisted(c)
           /\ c.config = d.config
           /\ c.writing = "none" <=> d.writing = "none"
           /\ c.port \in {Closed, Open(p, b)}
           /\ c.throws \/ (c.ok <=> c.port # Closed)
<1> DEFINE e == CloseDrive(d)
<1>1. /\ e \in DriveStates /\ ReaderExisted(e) /\ e.port = Closed /\ ~e.throws
      /\ e.config = d.config /\ (e.writing = "none" <=> d.writing = "none")
  BY CloseOutcome
<1> HIDE DEF e
<1>2. reload_hardware(d, p, b, opens) = open_serial(e, p, b, opens)
  BY DEF reload_hardware, e
<1> QED
  BY <1>1, <1>2, OpenOutcome

LEMMA LuckIsTwoOutcomes ==
  ASSUME NEW luck \in Luck
  PROVE  luck.new \in BOOLEAN /\ luck.old \in BOOLEAN
<1>1. CASE luck = [new |-> TRUE, old |-> TRUE]
  BY <1>1
<1>2. CASE luck = [new |-> FALSE, old |-> TRUE]
  BY <1>2
<1>3. CASE luck = [new |-> FALSE, old |-> FALSE]
  BY <1>3
<1> QED
  BY <1>1, <1>2, <1>3 DEF Luck

\* One setting: the port follows the configuration whether the reload succeeds, or
\* fails and the old settings are restored, or that fails too.
LEMMA ChangeOutcome ==
  ASSUME NEW d \in DriveStates, ReaderExisted(d), d.ok, ~d.throws, AsConfigured(d),
         NEW setting \in Valid, NEW luck \in Luck
  PROVE  LET c == Change(d, setting, luck) IN
           /\ c \in DriveStates /\ ReaderExisted(c)
           /\ c.writing = "none" <=> d.writing = "none"
           /\ c.throws \/ AsConfigured(c)
           /\ c.config = IF c.ok /\ ~c.throws THEN [d.config EXCEPT ![setting.name] = setting.value]
                                              ELSE d.config
<1> DEFINE wanted == [d.config EXCEPT ![setting.name] = setting.value]
           tried == reload_hardware(d, wanted.port, wanted.baud, luck.new)
           c == Change(d, setting, luck)
<1>1. d.config \in Configs
  BY DEF DriveStates
<1>2. wanted \in Configs
  <2>1. CASE setting \in [name : {"port"}, value : Ports]
    BY <1>1, <2>1, ValidIsKnown DEF Configs
  <2>2. CASE setting \in [name : {"baud"}, value : Bauds]
    BY <1>1, <2>2, ValidIsKnown DEF Configs
  <2> QED
    BY <2>1, <2>2 DEF Valid
<1>3. luck.new \in BOOLEAN /\ luck.old \in BOOLEAN
  BY LuckIsTwoOutcomes
<1>4. c = IF tried.throws THEN tried
          ELSE IF tried.ok THEN [tried EXCEPT !.config = wanted]
          ELSE [reload_hardware(tried, d.config.port, d.config.baud, luck.old) EXCEPT !.ok = FALSE]
  BY DEF Change
<1> HIDE DEF wanted
<1>5. wanted.port \in KnownPorts /\ wanted.baud \in KnownBauds
  BY <1>2 DEF Configs
<1>6. /\ tried \in DriveStates /\ ReaderExisted(tried)
      /\ tried.config = d.config
      /\ tried.writing = "none" <=> d.writing = "none"
      /\ tried.port \in {Closed, Open(wanted.port, wanted.baud)}
      /\ tried.throws \/ (tried.ok <=> tried.port # Closed)
  BY <1>3, <1>5, ReloadOutcome
<1> HIDE DEF c, tried
<1>7. c \in DriveStates /\ ReaderExisted(c)
      /\ (c.writing = "none" <=> d.writing = "none")
      /\ (c.throws \/ AsConfigured(c))
      /\ c.config = IF c.ok /\ ~c.throws THEN wanted ELSE d.config
  <2>1. CASE tried.throws
    BY <1>4, <1>6, <2>1
  <2>2. CASE ~tried.throws /\ tried.ok
    <3>1. c = [tried EXCEPT !.config = wanted]
      BY <1>4, <2>2
    <3>2. c \in DriveStates
      BY <1>2, <1>6, <3>1 DEF DriveStates
    <3>3. /\ c.config = wanted /\ c.port = tried.port /\ c.ok = tried.ok /\ c.throws = tried.throws
          /\ c.chain = tried.chain /\ c.reader = tried.reader /\ c.writing = tried.writing
      BY <1>6, <3>1 DEF DriveStates
    <3>4. c.port = Open(wanted.port, wanted.baud)
      BY <1>6, <2>2, <3>3
    <3> QED
      BY <1>6, <2>2, <3>2, <3>3, <3>4 DEF AsConfigured, ReaderExisted
  <2>3. CASE ~tried.throws /\ ~tried.ok
    <3> DEFINE back == reload_hardware(tried, d.config.port, d.config.baud, luck.old)
    <3>1. d.config.port \in KnownPorts /\ d.config.baud \in KnownBauds
      BY <1>1 DEF Configs
    <3>2. /\ back \in DriveStates /\ ReaderExisted(back)
          /\ back.config = tried.config
          /\ back.writing = "none" <=> tried.writing = "none"
          /\ back.port \in {Closed, Open(d.config.port, d.config.baud)}
      BY <1>3, <1>6, <2>3, <3>1, ReloadOutcome
    <3>3. c = [back EXCEPT !.ok = FALSE]
      BY <1>4, <2>3
    <3> HIDE DEF back
    <3>4. c \in DriveStates
      BY <3>2, <3>3 DEF DriveStates
    <3>5. /\ c.config = back.config /\ c.port = back.port /\ c.ok = FALSE
          /\ c.chain = back.chain /\ c.reader = back.reader /\ c.writing = back.writing
      BY <3>2, <3>3 DEF DriveStates
    <3>6. ~Closed.open
      BY DEF Closed
    <3>7. AsConfigured(c)
      BY <1>6, <3>2, <3>5, <3>6 DEF AsConfigured
    <3> QED
      BY <1>6, <3>2, <3>4, <3>5, <3>7 DEF ReaderExisted
  <2> QED
    BY <1>6, <2>1, <2>2, <2>3
<1> QED
  BY <1>7 DEF wanted, c

----------------------------------------------------------------------------
\* parameter_callback

LEMMA EvenHalves ==
  ASSUME NEW m \in Nat, m > 0, m % 2 = 0
  PROVE  m \div 2 \in Int /\ m = (m \div 2) + (m \div 2)
  OBVIOUS

\* A number cut to an int is one, and a baud rate if it is positive.
LEMMA AsIntFits ==
  ASSUME NEW n \in Int
  PROVE  AsInt(n) \in Int /\ (AsInt(n) > 0 => AsInt(n) \in Bauds)
<1> DEFINE half == IntValues \div 2
<1>0. IntValues \in Nat /\ IntValues > 0 /\ IntValues % 2 = 0
  BY HalfIsInt
<1>1. IntValues = half + half /\ half \in Int
  BY <1>0, EvenHalves
<1> HIDE DEF half
<1>2. (n + half) % IntValues \in 0..(IntValues - 1)
  BY <1>0, <1>1
<1>3. AsInt(n) = ((n + half) % IntValues) - half
  BY DEF AsInt, half
<1>4. AsInt(n) \in Int /\ (AsInt(n) > 0 => AsInt(n) \in 1..(half - 1))
  BY <1>0, <1>1, <1>2, <1>3
<1> QED
  BY <1>4 DEF Bauds, half

\* What the callback does not reject is a port with a name or a positive int.
LEMMA AcceptedIsValid ==
  ASSUME NEW setting \in Settings, ~Invalid(Narrowed(setting))
  PROVE  Narrowed(setting) \in Valid
<1>1. CASE setting \in [name : {"port"}, value : Ports \cup {""}]
  BY <1>1 DEF Invalid, Narrowed, Valid
<1>2. CASE setting \in [name : {"baud"}, value : Int]
  <2>1. Narrowed(setting) = [setting EXCEPT !.value = AsInt(setting.value)]
    BY <1>2 DEF Narrowed
  <2>2. AsInt(setting.value) \in Int
    BY <1>2, AsIntFits
  <2>3. AsInt(setting.value) > 0
    BY <1>2, <2>1, <2>2 DEF Invalid
  <2>4. AsInt(setting.value) \in Bauds
    BY <1>2, <2>3, AsIntFits
  <2> QED
    BY <1>2, <2>1, <2>4 DEF Valid
<1> QED
  BY <1>1, <1>2 DEF Settings

\* The drive may be left so by the callback: used from its start to its end.
Sound(d, d0) ==
  /\ d \in DriveStates /\ ReaderExisted(d)
  /\ d.writing = "none" <=> d0.writing = "none"
  /\ d.throws \/ AsConfigured(d)

Accepts(d) == d.ok /\ ~d.throws

\* c is what the setting v, cut to an int, makes of d.
Applied(c, d, v) ==
  /\ Accepts(c) => /\ Accepts(d) /\ ~Invalid(v)
                   /\ c.config = [d.config EXCEPT ![v.name] = v.value]
  /\ Accepts(d) /\ ~Accepts(c) => c.config = d.config
  /\ ~Accepts(d) => c = d

LEMMA OneSettingOutcome ==
  ASSUME NEW d0, NEW d, Sound(d, d0), NEW setting \in Settings, NEW luck \in Luck
  PROVE  /\ Sound(OneSetting(d, setting, luck), d0)
         /\ Applied(OneSetting(d, setting, luck), d, Narrowed(setting))
<1> DEFINE v == Narrowed(setting)
           c == OneSetting(d, setting, luck)
<1>1. d \in DriveStates /\ ReaderExisted(d)
  BY DEF Sound
<1>2. CASE ~d.ok \/ d.throws
  BY <1>2 DEF OneSetting, Accepts, Applied
<1>3. CASE Accepts(d) /\ Invalid(v)
  <2>1. c = [d EXCEPT !.ok = FALSE]
    BY <1>3 DEF OneSetting, Accepts
  <2> HIDE DEF c, v
  <2>2. c \in DriveStates /\ c.ok = FALSE /\ c.config = d.config /\ c.port = d.port
        /\ c.writing = d.writing /\ c.chain = d.chain /\ c.reader = d.reader /\ c.throws = d.throws
    BY <1>1, <2>1 DEF DriveStates
  <2>3. Sound(c, d0) /\ ~Accepts(c)
    BY <2>2 DEF Sound, ReaderExisted, AsConfigured, Accepts
  <2> QED
    BY <1>3, <2>2, <2>3 DEF Applied, c
<1>4. CASE Accepts(d) /\ ~Invalid(v)
  <2>1. c = Change(d, v, luck) /\ v \in Valid
    BY <1>4, AcceptedIsValid DEF OneSetting, Accepts
  <2> HIDE DEF c, v
  <2>2. /\ c \in DriveStates /\ ReaderExisted(c)
        /\ c.writing = "none" <=> d.writing = "none"
        /\ c.throws \/ AsConfigured(c)
        /\ c.config = IF c.ok /\ ~c.throws THEN [d.config EXCEPT ![v.name] = v.value]
                                           ELSE d.config
    BY <1>1, <1>4, <2>1, ChangeOutcome DEF Accepts, Sound
  <2> QED
    BY <1>4, <2>2 DEF Sound, Accepts, Applied, c, v
<1> QED
  BY <1>2, <1>3, <1>4 DEF Accepts

\* The states the callback leaves the drive in after each setting, from d on.
IsCallback(run, settings, d, luck) ==
  run = [i \in 0..Len(settings) |->
           IF i = 0 THEN d ELSE OneSetting(run[i - 1], settings[i], luck[i])]

\* The recursion of parameter_callback has a solution: it is extended setting by setting.
LEMMA CallbackExists ==
  ASSUME NEW settings \in Seq(Settings), NEW d, NEW luck
  PROVE  \E run : IsCallback(run, settings, d, luck)
<1> DEFINE UpTo(run, m) ==
             run = [i \in 0..m |-> IF i = 0 THEN d ELSE OneSetting(run[i - 1], settings[i], luck[i])]
           Good == {m \in Nat : \E run : UpTo(run, m)}
<1>1. 0 \in Good
  <2> DEFINE start == [i \in 0..0 |-> d]
  <2>1. UpTo(start, 0)
    OBVIOUS
  <2> QED
    BY <2>1
<1>2. ASSUME NEW i \in 1..Len(settings), i - 1 \in Good
      PROVE  i \in Good
  <2>1. PICK run : UpTo(run, i - 1)
    BY <1>2
  <2> DEFINE next == [j \in 0..i |-> IF j = i THEN OneSetting(run[i - 1], settings[i], luck[i]) ELSE run[j]]
             from == [j \in 0..i |-> IF j = 0 THEN d ELSE OneSetting(next[j - 1], settings[j], luck[j])]
  <2>2. ASSUME NEW j \in 0..i
        PROVE  next[j] = from[j]
    <3>1. CASE j = i
      <4>1. next[i - 1] = run[i - 1]
        OBVIOUS
      <4> QED
        BY <3>1, <4>1
    <3>2. CASE j # i
      <4>1. j \in 0..(i - 1) /\ next[j] = run[j]
        BY <3>2
      <4>2. j # 0 => next[j - 1] = run[j - 1]
        BY <4>1
      <4>3. run[j] = IF j = 0 THEN d ELSE OneSetting(run[j - 1], settings[j], luck[j])
        BY <2>1, <4>1
      <4> QED
        BY <4>1, <4>2, <4>3
    <3> QED
      BY <3>1, <3>2
  <2>3. next = from
    BY <2>2
  <2>4. UpTo(next, i)
    BY <2>3
  <2>5. \E run2 : UpTo(run2, i)
    <3> HIDE DEF next
    <3> QED
      BY <2>4
  <2> QED
    BY <2>5
<1> HIDE DEF Good
<1>3. 0..Len(settings) \subseteq Good
  <2>1. Len(settings) \in Nat
    OBVIOUS
  <2> QED
    BY <1>1, <1>2, <2>1, InductionUpTo
<1>4. Len(settings) \in Good
  BY <1>3
<1> QED
  BY <1>4 DEF IsCallback, Good

\* The callback leaves the drive as its last setting does.
LEMMA CallbackEndsRun ==
  ASSUME NEW settings \in Seq(Settings), NEW d, NEW luck
  PROVE  \E run : /\ IsCallback(run, settings, d, luck)
                  /\ parameter_callback(settings, d, luck) = run[Len(settings)]
<1> DEFINE run == CHOOSE r : IsCallback(r, settings, d, luck)
<1>1. IsCallback(run, settings, d, luck)
  BY CallbackExists
<1>2. parameter_callback(settings, d, luck) = run[Len(settings)]
  BY DEF parameter_callback, IsCallback
<1> QED
  BY <1>1, <1>2

\* What the first i settings, if none failed, made of the setting called name: the
\* last of them with that name counts.
TookEffect(settings, d, i, c) ==
  \A name \in {"port", "baud"} :
    /\ (\A j \in 1..i : settings[j].name # name) => c.config[name] = d.config[name]
    /\ \A j \in 1..i :
         settings[j].name = name /\ (\A k \in (j + 1)..i : settings[k].name # name)
           => c.config[name] = Narrowed(settings[j]).value

\* Of the settings, the first n took effect; all of them if c accepts.
FirstTookEffect(settings, d, n, c) ==
  TookEffect(settings, d, n, c) /\ (Accepts(c) <=> n = Len(settings))

LEMMA NarrowedName ==
  ASSUME NEW setting \in Settings
  PROVE  Narrowed(setting).name = setting.name /\ setting.name \in {"port", "baud"}
<1>1. CASE setting \in [name : {"port"}, value : Ports \cup {""}]
  BY <1>1 DEF Narrowed
<1>2. CASE setting \in [name : {"baud"}, value : Int]
  <2>1. Narrowed(setting) = [setting EXCEPT !.value = AsInt(setting.value)]
    BY <1>2 DEF Narrowed
  <2> QED
    BY <1>2, <2>1
<1> QED
  BY <1>1, <1>2 DEF Settings

LEMMA CallbackOutcome ==
  ASSUME NEW settings \in Seq(Settings), NEW luck \in [DOMAIN settings -> Luck],
         NEW d, Sound(d, d), Accepts(d)
  PROVE  LET c == parameter_callback(settings, d, luck) IN
           /\ Sound(c, d)
           /\ Accepts(c) => \A j \in 1..Len(settings) : ~Invalid(Narrowed(settings[j]))
           /\ \E n \in 0..Len(settings) : FirstTookEffect(settings, d, n, c)
<1>1. PICK run : /\ IsCallback(run, settings, d, luck)
                 /\ parameter_callback(settings, d, luck) = run[Len(settings)]
  BY CallbackEndsRun
<1>2. Len(settings) \in Nat /\ DOMAIN settings = 1..Len(settings)
  OBVIOUS
<1>3. run[0] = d
  BY <1>1, <1>2 DEF IsCallback
<1>4. ASSUME NEW i \in 1..Len(settings)
      PROVE  /\ run[i] = OneSetting(run[i - 1], settings[i], luck[i])
             /\ settings[i] \in Settings /\ luck[i] \in Luck
  <2>1. i \in 0..Len(settings) /\ i # 0
    OBVIOUS
  <2> QED
    BY <1>1, <1>2, <2>1, SMTT(30) DEF IsCallback
<1> DEFINE P(i) == /\ Sound(run[i], d)
                   /\ Accepts(run[i]) => \A j \in 1..i : ~Invalid(Narrowed(settings[j]))
                   /\ \E n \in 0..i : /\ TookEffect(settings, d, n, run[i])
                                      /\ Accepts(run[i]) <=> n = i
           Good == {i \in Nat : i <= Len(settings) => P(i)}
<1>5. 0 \in Good
  <2>1. TookEffect(settings, d, 0, d)
    BY DEF TookEffect
  <2>2. Sound(run[0], d) /\ Accepts(run[0]) /\ TookEffect(settings, d, 0, run[0])
    BY <1>3, <2>1
  <2>3. 0 \in 0..0 /\ \A j \in 1..0 : ~Invalid(Narrowed(settings[j]))
    OBVIOUS
  <2> QED
    BY <2>2, <2>3
<1>6. ASSUME NEW i \in 1..Len(settings), i - 1 \in Good
      PROVE  i \in Good
  <2> DEFINE before == run[i - 1]
             after == run[i]
             v == Narrowed(settings[i])
  <2>1. P(i - 1)
    BY <1>2, <1>6
  <2>2. Sound(after, d) /\ Applied(after, before, v)
    <3>1. /\ Sound(before, d) /\ settings[i] \in Settings /\ luck[i] \in Luck
          /\ after = OneSetting(before, settings[i], luck[i])
      BY <1>4, <2>1
    <3> HIDE DEF before, after
    <3> QED
      BY <3>1, OneSettingOutcome
  <2>3. before.config \in Configs
    BY <2>1 DEF Sound, DriveStates
  <2>4. v.name = settings[i].name /\ v.name \in {"port", "baud"}
    BY <1>4, NarrowedName
  <2>5. \A j \in 1..i : j = i \/ j \in 1..(i - 1)
    BY <1>2
  <2> HIDE DEF before, after, v
  <2>6. ASSUME Accepts(after)
        PROVE  \A j \in 1..i : ~Invalid(Narrowed(settings[j]))
    BY <2>1, <2>2, <2>5, <2>6 DEF before, v, Applied
  <2>7. PICK n \in 0..(i - 1) : /\ TookEffect(settings, d, n, before)
                                /\ Accepts(before) <=> n = i - 1
    BY <2>1 DEF before
  <2>8. ASSUME Accepts(after)
        PROVE  TookEffect(settings, d, i, after)
    <3>1. TookEffect(settings, d, i - 1, before)
      BY <2>2, <2>7, <2>8 DEF Applied
    <3>2. \A name \in {"port", "baud"} :
            after.config[name] = IF name = v.name THEN v.value ELSE before.config[name]
      BY <2>2, <2>3, <2>4, <2>8 DEF Configs, Applied
    <3>3. ASSUME NEW name \in {"port", "baud"}, \A j \in 1..i : settings[j].name # name
          PROVE  after.config[name] = d.config[name]
      <4>1. settings[i].name # name /\ \A j \in 1..(i - 1) : settings[j].name # name
        BY <1>2, <3>3
      <4> QED
        BY <2>4, <3>1, <3>2, <4>1 DEF TookEffect
    <3>4. ASSUME NEW name \in {"port", "baud"}, NEW j \in 1..i, settings[j].name = name,
                 \A k \in (j + 1)..i : settings[k].name # name
          PROVE  after.config[name] = Narrowed(settings[j]).value
      <4>1. CASE j = i
        BY <2>4, <3>2, <3>4, <4>1 DEF v
      <4>2. CASE j \in 1..(i - 1)
        <5>1. i \in (j + 1)..i /\ \A k \in (j + 1)..(i - 1) : k \in (j + 1)..i
          BY <1>2, <4>2
        <5>2. settings[i].name # name /\ \A k \in (j + 1)..(i - 1) : settings[k].name # name
          BY <3>4, <5>1
        <5>3. before.config[name] = Narrowed(settings[j]).value
          BY <3>1, <3>4, <4>2, <5>2 DEF TookEffect
        <5> QED
          BY <2>4, <3>2, <5>2, <5>3
      <4> QED
        BY <2>5, <4>1, <4>2
    <3> QED
      BY <3>3, <3>4 DEF TookEffect
  <2>9. \E m \in 0..i : TookEffect(settings, d, m, after) /\ (Accepts(after) <=> m = i)
    <3>1. CASE Accepts(after)
      BY <1>2, <2>8, <3>1
    <3>2. CASE ~Accepts(after)
      <4>1. after.config = before.config
        BY <2>2, <3>2 DEF Applied
      <4>2. TookEffect(settings, d, n, after)
        BY <2>7, <4>1 DEF TookEffect
      <4> QED
        BY <2>7, <3>2, <4>2
    <3> QED
      BY <3>1, <3>2
  <2> QED
    BY <2>2, <2>6, <2>9 DEF after
<1> HIDE DEF Good, P
<1>7. 0..Len(settings) \subseteq Good
  BY <1>2, <1>5, <1>6, InductionUpTo
<1>8. P(Len(settings))
  BY <1>2, <1>7 DEF Good
<1> DEFINE c == parameter_callback(settings, d, luck)
<1>9. c = run[Len(settings)]
  BY <1>1
<1> HIDE DEF c
<1>10. /\ Sound(c, d)
       /\ Accepts(c) => \A j \in 1..Len(settings) : ~Invalid(Narrowed(settings[j]))
       /\ \E n \in 0..Len(settings) : FirstTookEffect(settings, d, n, c)
  BY <1>8, <1>9 DEF P, FirstTookEffect
<1> QED
  BY <1>10 DEF c

----------------------------------------------------------------------------
\* What rclcpp makes of the parameters when it agrees, and a request of the configuration

\* The first n settings, as parameter_callback cuts them.
NarrowedFirst(settings, n) == [i \in 1..n |-> Narrowed(settings[i])]

\* value is what the last of the n settings with this name says, or else the old one.
IsLast(value, name, settings, n, old) ==
  \/ (\A j \in 1..n : settings[j].name # name) /\ value = old
  \/ \E m \in 1..n :
       /\ settings[m].name = name
       /\ \A k \in (m + 1)..n : settings[k].name # name
       /\ value = settings[m].value

LEMMA OverriddenIsLast ==
  ASSUME NEW n \in Nat, NEW settings, DOMAIN settings = 1..n,
         NEW values, DOMAIN values = {"port", "baud"},
         NEW name \in {"port", "baud"}
  PROVE  IsLast(Overridden(values, settings)[name], name, settings, n, values[name])
<1> DEFINE set == {i \in DOMAIN settings : settings[i].name = name}
<1>2. Overridden(values, settings)[name] =
        IF set = {} THEN values[name]
        ELSE settings[CHOOSE i \in set : \A j \in set : j <= i].value
  BY DEF Overridden
<1>3. CASE set = {}
  BY <1>2, <1>3 DEF IsLast
<1>4. CASE set # {}
  <2>1. set \in SUBSET (0..n)
    OBVIOUS
  <2>2. \E m \in set : \A k \in set : k <= m
    BY <1>4, <2>1, GreatestElement
  <2> DEFINE m == CHOOSE i \in set : \A j \in set : j <= i
  <2>3. m \in set /\ \A k \in set : k <= m
    BY <2>2
  <2>4. Overridden(values, settings)[name] = settings[m].value
    BY <1>2, <1>4
  <2> HIDE DEF m
  <2>5. m \in 1..n /\ settings[m].name = name
    BY <2>3
  <2>6. ASSUME NEW k \in (m + 1)..n
        PROVE  settings[k].name # name
    <3>1. k \in 1..n /\ ~(k <= m)
      BY <2>5
    <3> QED
      BY <2>3, <3>1
  <2> QED
    BY <2>4, <2>5, <2>6 DEF IsLast
<1> QED
  BY <1>3, <1>4

LEMMA OverriddenIsRecord ==
  ASSUME NEW values, DOMAIN values = {"port", "baud"}, NEW settings
  PROVE  LET o == Overridden(values, settings)
         IN  o = [name \in {"port", "baud"} |-> o[name]]
  BY DEF Overridden

LEMMA OverriddenType ==
  ASSUME NEW settings \in Seq(Settings), NEW values \in Parameters,
         \A j \in 1..Len(settings) : ~Invalid(Narrowed(settings[j]))
  PROVE  Overridden(values, settings) \in Parameters
<1> DEFINE P == Overridden(values, settings)
<1>1. ASSUME NEW j \in 1..Len(settings)
      PROVE  /\ settings[j].name = "port" => settings[j].value \in KnownPorts
             /\ settings[j].name = "baud" => settings[j].value \in Int
  <2>1. settings[j] \in Settings
    OBVIOUS
  <2>2. CASE settings[j] \in [name : {"port"}, value : Ports \cup {""}]
    BY <2>2, ValidIsKnown, ~Invalid(Narrowed(settings[j])) DEF Invalid, Narrowed
  <2>3. CASE settings[j] \in [name : {"baud"}, value : Int]
    BY <2>3
  <2> QED
    BY <2>1, <2>2, <2>3 DEF Settings
<1>2. values.port \in KnownPorts /\ values.baud \in Int /\ DOMAIN values = {"port", "baud"}
      /\ Len(settings) \in Nat /\ DOMAIN settings = 1..Len(settings)
  BY DEF Parameters
<1>3. P["port"] \in KnownPorts
  <2>1. "port" \in {"port", "baud"}
    OBVIOUS
  <2> QED
    BY <1>1, <1>2, <2>1, OverriddenIsLast DEF IsLast
<1>4. P["baud"] \in Int
  <2>1. "baud" \in {"port", "baud"}
    OBVIOUS
  <2> QED
    BY <1>1, <1>2, <2>1, OverriddenIsLast DEF IsLast
<1>5. P = [name \in {"port", "baud"} |-> P[name]]
  BY <1>2, OverriddenIsRecord
<1> HIDE DEF P
<1>6. P \in Parameters
  BY <1>3, <1>4, <1>5 DEF Parameters
<1> QED
  BY <1>6 DEF P

\* A configuration after the first n settings is what those settings, cut to ints, make
\* of the one before.
LEMMA EffectIsOverriding ==
  ASSUME NEW settings \in Seq(Settings), NEW d \in DriveStates, NEW c \in DriveStates,
         NEW n \in 0..Len(settings), TookEffect(settings, d, n, c)
  PROVE  c.config = Overridden(d.config, NarrowedFirst(settings, n))
<1> DEFINE first == NarrowedFirst(settings, n)
           o == Overridden(d.config, first)
<1>0. n \in Nat
  OBVIOUS
<1>1. DOMAIN first = 1..n
  BY DEF NarrowedFirst
<1>2. ASSUME NEW j \in 1..n
      PROVE  first[j] = Narrowed(settings[j]) /\ first[j].name = settings[j].name
  <2>1. settings[j] \in Settings
    OBVIOUS
  <2>2. first[j] = Narrowed(settings[j])
    BY DEF NarrowedFirst
  <2> QED
    BY <2>1, <2>2, NarrowedName
<1>3. c.config \in Configs
  BY DEF DriveStates
<1>6. DOMAIN d.config = {"port", "baud"}
  BY DEF DriveStates, Configs
<1>4. ASSUME NEW name \in {"port", "baud"}
      PROVE  c.config[name] = o[name]
  <2> HIDE DEF first
  <2>1. IsLast(o[name], name, first, n, d.config[name])
    BY <1>0, <1>1, <1>6, OverriddenIsLast
  <2>2. ASSUME NEW m \in 1..n, NEW k \in (m + 1)..n
        PROVE  k \in 1..n
    BY <1>1
  <2> HIDE DEF o
  <2>3. CASE /\ \A j \in 1..n : first[j].name # name
             /\ o[name] = d.config[name]
    BY <1>2, <2>3 DEF TookEffect
  <2>4. ASSUME NEW m \in 1..n, first[m].name = name,
               \A k \in (m + 1)..n : first[k].name # name,
               o[name] = first[m].value
        PROVE  c.config[name] = o[name]
    <3>1. settings[m].name = name /\ \A k \in (m + 1)..n : settings[k].name # name
      BY <1>2, <2>2, <2>4
    <3> QED
      BY <1>2, <2>4, <3>1 DEF TookEffect
  <2> QED
    BY <2>1, <2>3, <2>4 DEF IsLast
<1>5. o = [name \in {"port", "baud"} |-> o[name]]
  BY <1>6, OverriddenIsRecord
<1> HIDE DEF o
<1>7. c.config = o
  BY <1>3, <1>4, <1>5 DEF Configs
<1> QED
  BY <1>7 DEF o

\* If parameters are in force and a request is accepted, they are in force after it.
LEMMA OverriddenInForce ==
  ASSUME NEW settings \in Seq(Settings), NEW values \in Parameters
  PROVE  Overridden(InForce(values), NarrowedFirst(settings, Len(settings)))
           = InForce(Overridden(values, settings))
<1> DEFINE n == Len(settings)
           first == NarrowedFirst(settings, n)
           P == Overridden(values, settings)
           C == Overridden(InForce(values), first)
<1>1. n \in Nat /\ DOMAIN settings = 1..n /\ DOMAIN first = 1..n
  BY DEF NarrowedFirst
<1>2. /\ DOMAIN values = {"port", "baud"} /\ DOMAIN InForce(values) = {"port", "baud"}
      /\ InForce(values).port = values.port /\ InForce(values).baud = AsInt(values.baud)
  BY DEF InForce, Parameters
<1> HIDE DEF n
<1>3. ASSUME NEW m \in 1..n
      PROVE  /\ first[m].name = settings[m].name
             /\ first[m].value = IF settings[m].name = "baud" THEN AsInt(settings[m].value)
                                                              ELSE settings[m].value
  <2>1. settings[m] \in Settings /\ first[m] = Narrowed(settings[m])
    BY DEF NarrowedFirst, n
  <2>2. CASE settings[m] \in [name : {"port"}, value : Ports \cup {""}]
    BY <2>1, <2>2 DEF Narrowed
  <2>3. CASE settings[m] \in [name : {"baud"}, value : Int]
    BY <2>1, <2>3 DEF Narrowed
  <2> QED
    BY <2>1, <2>2, <2>3 DEF Settings
<1> HIDE DEF first
<1>5. ASSUME NEW name \in {"port", "baud"}
      PROVE  C[name] = IF name = "baud" THEN AsInt(P[name]) ELSE P[name]
  <2>1. IsLast(P[name], name, settings, n, values[name])
    BY <1>1, <1>2, OverriddenIsLast
  <2>2. IsLast(C[name], name, first, n, InForce(values)[name])
    BY <1>1, <1>2, OverriddenIsLast
  <2>3. \A m \in 1..n, k \in 1..n : m = k \/ k \in (m + 1)..n \/ m \in (k + 1)..n
    BY <1>1
  <2> HIDE DEF P, C
  <2>4. CASE \A j \in 1..n : settings[j].name # name
    BY <1>2, <1>3, <2>1, <2>2, <2>4 DEF IsLast
  <2>5. CASE \E j \in 1..n : settings[j].name = name
    <3>1. PICK m \in 1..n : /\ settings[m].name = name
                            /\ \A k \in (m + 1)..n : settings[k].name # name
                            /\ P[name] = settings[m].value
      BY <2>1, <2>5 DEF IsLast
    <3>2. PICK j \in 1..n : /\ first[j].name = name
                            /\ \A k \in (j + 1)..n : first[k].name # name
                            /\ C[name] = first[j].value
      BY <1>3, <2>2, <2>5 DEF IsLast
    <3>3. m = j
      BY <1>3, <2>3, <3>1, <3>2
    <3> QED
      BY <1>3, <3>1, <3>2, <3>3
  <2> QED
    BY <2>4, <2>5
<1>6. /\ P = [name \in {"port", "baud"} |-> P[name]]
      /\ C = [name \in {"port", "baud"} |-> C[name]]
  BY <1>2, OverriddenIsRecord
<1> HIDE DEF P, C
<1>7. C = [P EXCEPT !.baud = AsInt(P.baud)]
  <2> DEFINE F == [P EXCEPT !.baud = AsInt(P.baud)]
  <2>1. DOMAIN F = {"port", "baud"} /\ F["port"] = P["port"] /\ F["baud"] = AsInt(P["baud"])
    BY <1>6
  <2>2. C["port"] = P["port"] /\ C["baud"] = AsInt(P["baud"])
    BY <1>5
  <2>3. F = [name \in {"port", "baud"} |-> F[name]]
    BY <2>1
  <2> HIDE DEF F
  <2>4. F = C
    BY <1>6, <2>1, <2>2, <2>3
  <2> QED
    BY <2>4 DEF F
<1> QED
  BY <1>7 DEF InForce, P, C, first, n

----------------------------------------------------------------------------
\* The inductive invariant

\* Until the constructor runs the port is closed.
NotBuilt == node = "constructed" => port = Closed

\* A frame is in the queue exactly while an async_write is under way or its handler
\* is to be run.
WriterBusy == writing = "none" <=> send_bufs = <<>>

IInv ==
  /\ TypeOK
  /\ PortFollowsConfig
  /\ NotBuilt
  /\ WriterBusy

LEMMA Bounds == PollLimit \in Nat /\ MaxRequests \in Nat /\ MaxWrites \in Nat
<1>1. {PollLimit, MaxRequests, MaxWrites} \subseteq Nat
  BY DriveAssumption, Zenon
<1> QED
  BY <1>1

LEMMA LaunchedTypes == Launched \subseteq [port : Ports \cup {""}, baud : Int]
  BY DriveAssumption, Zenon

LEMMA RequestTypes ==
  ASSUME TypeOK
  PROVE  request \in Seq(Settings)
<1>1. Requests \subseteq Seq(Settings)
  BY DriveAssumption, Zenon
<1>2. request \in Requests \/ request = <<>>
  BY DEF TypeOK
<1>3. <<>> \in Seq(Settings)
  OBVIOUS
<1>4. CASE request \in Requests
  BY <1>1, <1>4, Zenon
<1>5. CASE request = <<>>
  BY <1>3, <1>5, Zenon
<1> QED
  BY <1>2, <1>4, <1>5

LEMMA InitInvariant == Init => IInv
<1> SUFFICES ASSUME Init PROVE IInv
  OBVIOUS
<1> USE DEF Init
<1>1. launched \in Launched /\ params \in Parameters /\ config \in Configs
  <2>1. params \in [port : Ports \cup {""}, baud : Int]
    BY LaunchedTypes
  <2>2. params.port \in KnownPorts /\ AsInt(params.baud) \in KnownBauds
    BY <2>1, AsIntFits DEF KnownPorts, KnownBauds
  <2>3. config = [params EXCEPT !.baud = AsInt(params.baud)]
    BY DEF InForce
  <2> QED
    BY <2>1, <2>2, <2>3 DEF Parameters, Configs
<1>2. TypeOK
  <2>1. chain \in [at : ChainPlaces, of : 0..reader] /\ writing \in WritingStates
    BY DEF ChainPlaces, Ended, WritingStates
  <2>2. send_bufs \in Seq(1..MaxWrites) /\ queued \in Seq({"reader", "writer"})
    OBVIOUS
  <2>3. requests \in 0..MaxRequests /\ writes \in 0..MaxWrites /\ polled \in 0..(PollLimit + 1)
    BY Bounds
  <2> QED
    BY <1>1, <2>1, <2>2, <2>3 DEF TypeOK, ChainPlaces, WritingStates, Parameters, Configs
<1>3. PortFollowsConfig /\ NotBuilt /\ WriterBusy
  BY DEF PortFollowsConfig, NotBuilt, WriterBusy
<1> QED
  BY <1>2, <1>3 DEF IInv

LEMMA DriveIsSound ==
  ASSUME IInv
  PROVE  /\ Drive \in DriveStates /\ ReaderExisted(Drive) /\ Accepts(Drive)
         /\ node = "up" => Sound(Drive, Drive)
<1>1. /\ port \in PortStates /\ reader \in Nat /\ config \in Configs
      /\ chain \in [at : ChainPlaces, of : 0..reader] /\ writing \in WritingStates
  BY DEF IInv, TypeOK, PortStates, Configs, ChainPlaces, WritingStates
<1>2. chain \in [at : ChainPlaces, of : Nat] /\ chain.of <= reader
  BY <1>1
<1>3. Drive \in DriveStates /\ ReaderExisted(Drive) /\ Accepts(Drive)
  BY <1>1, <1>2 DEF Drive, DriveStates, ReaderExisted, Accepts
<1>4. node = "up" => AsConfigured(Drive)
  BY DEF IInv, PortFollowsConfig, AsConfigured, Drive
<1> QED
  BY <1>3, <1>4 DEF Sound

\* The handlers made ready go behind those that are.
LEMMA EnqueueKeeps ==
  ASSUME NEW rest \in Seq({"reader", "writer"}), Enqueue(rest)
  PROVE  queued' \in Seq({"reader", "writer"})
<1> DEFINE H == {"reader", "writer"}
           behind(handler, ready) ==
             IF ready /\ \A i \in DOMAIN rest : rest[i] # handler THEN <<handler>> ELSE <<>>
           r == behind("reader", ReaderReady')
           w == behind("writer", WriterReady')
<1>1. queued' = rest \o r \o w
  BY DEF Enqueue
<1>2. r \in {<<"reader">>, <<>>} /\ w \in {<<"writer">>, <<>>}
  OBVIOUS
<1> HIDE DEF r, w
<1>3. r \in Seq(H) /\ w \in Seq(H)
  <2>1. <<"reader">> \in Seq(H) /\ <<"writer">> \in Seq(H) /\ <<>> \in Seq(H)
    OBVIOUS
  <2> HIDE DEF H
  <2> QED
    BY <1>2, <2>1
<1> HIDE DEF H
<1>4. rest \in Seq(H)
  BY DEF H
<1>5. rest \o r \o w \in Seq(H)
  BY <1>3, <1>4
<1> QED
  BY <1>1, <1>5 DEF H

\* What can be known does not change.
LEMMA KnownStays ==
  ASSUME launched' = launched
  PROVE  KnownPorts' = KnownPorts /\ KnownBauds' = KnownBauds
  BY DEF KnownPorts, KnownBauds

LEMMA ConstructKeeps ==
  ASSUME IInv, Construct
  PROVE  IInv'
<1> USE DEF Construct, writeVars, rosVars, pollVars
<1>1. PICK opens \in BOOLEAN :
        LET d == open_serial(Drive, config.port, config.baud, opens) IN
          /\ port' = d.port
          /\ reader' = d.reader
          /\ \/ d.throws /\ node' = "terminated" /\ UNCHANGED chain
             \/ ~d.throws /\ ~d.ok /\ node' = "crashed" /\ UNCHANGED chain
             \/ /\ ~d.throws /\ d.ok
                /\ node' = "up"
                /\ chain' = [at |-> "reading", of |-> reader']
  OBVIOUS
<1> DEFINE d == open_serial(Drive, config.port, config.baud, opens)
<1>2. port = Closed /\ config \in Configs
  BY DEF IInv, NotBuilt, TypeOK, Configs
<1>3. /\ Drive \in DriveStates /\ ReaderExisted(Drive) /\ Drive.port = Closed /\ ~Drive.throws
      /\ Drive.chain = chain
  BY <1>2, DriveIsSound DEF Drive, Accepts
<1>4. config.port \in KnownPorts /\ config.baud \in KnownBauds
  BY <1>2 DEF Configs
<1>5. /\ d \in DriveStates /\ ReaderExisted(d) /\ d.chain = chain
      /\ d.port \in {Closed, Open(config.port, config.baud)}
  BY <1>3, <1>4, OpenOutcome
<1> HIDE DEF d
<1>6. /\ port' = d.port /\ reader' = d.reader
      /\ node' \in {"terminated", "crashed", "up"}
      /\ chain' = chain \/ chain' = [at |-> "reading", of |-> reader']
  BY <1>1 DEF d
<1>7. /\ port' \in PortStates /\ reader' \in Nat
      /\ chain' \in [at : ChainPlaces, of : 0..reader']
  <2>1. d.port \in PortStates /\ d.reader \in Nat /\ chain \in [at : ChainPlaces, of : Nat]
        /\ chain.of <= d.reader
    BY <1>5 DEF DriveStates, ReaderExisted
  <2> QED
    <3>1. chain' \in [at : ChainPlaces, of : 0..reader']
      BY <1>6, <2>1 DEF ChainPlaces
    <3> QED
      BY <1>6, <2>1, <3>1
<1>8. TypeOK'
  BY <1>6, <1>7, KnownStays DEF IInv, TypeOK, ChainPlaces, PortStates
<1>9. PortFollowsConfig'
  BY <1>2, <1>5, <1>6 DEF PortFollowsConfig, Closed
<1>10. NotBuilt' /\ WriterBusy'
  BY <1>6 DEF IInv, NotBuilt, WriterBusy
<1> QED
  BY <1>8, <1>9, <1>10 DEF IInv

LEMMA RequestKeeps ==
  ASSUME IInv, NEW settings \in Requests, Request(settings)
  PROVE  IInv'
<1> USE DEF Request, writeVars, pollVars
<1>1. requests + 1 \in 0..MaxRequests
  BY Bounds DEF IInv, TypeOK
<1>2. TypeOK'
  BY <1>1, KnownStays DEF IInv, TypeOK
<1>3. PortFollowsConfig' /\ NotBuilt' /\ WriterBusy'
  BY DEF IInv, PortFollowsConfig, NotBuilt, WriterBusy
<1> QED
  BY <1>2, <1>3 DEF IInv

\* What a served request does to the drive and to the parameters.
ServedBy(d) ==
  /\ Becomes(d)
  /\ params' = IF ~d.ok \/ d.throws THEN params ELSE Overridden(params, request)

LEMMA ServedOutcome ==
  ASSUME IInv, SetParameters
  PROVE  \E d : /\ ServedBy(d) /\ Sound(d, Drive)
                /\ Accepts(d) => Overridden(params, request) \in Parameters
                /\ \E n \in 0..Len(request) : FirstTookEffect(request, Drive, n, d)
<1>1. PICK luck \in [DOMAIN request -> Luck] : ServedBy(parameter_callback(request, Drive, luck))
  BY DEF SetParameters, ServedBy
<1>2. request \in Seq(Settings) /\ params \in Parameters
  BY RequestTypes DEF IInv, TypeOK, Parameters
<1>3. Sound(Drive, Drive) /\ Accepts(Drive)
  BY DriveIsSound DEF SetParameters, Idle
<1> DEFINE d == parameter_callback(request, Drive, luck)
<1>4. /\ Sound(d, Drive)
      /\ Accepts(d) => \A j \in 1..Len(request) : ~Invalid(Narrowed(request[j]))
      /\ \E n \in 0..Len(request) : FirstTookEffect(request, Drive, n, d)
  BY <1>2, <1>3, CallbackOutcome
<1>5. ServedBy(d)
  BY <1>1
<1> HIDE DEF d
<1>6. Accepts(d) => Overridden(params, request) \in Parameters
  BY <1>2, <1>4, OverriddenType
<1> QED
  BY <1>4, <1>5, <1>6

LEMMA SetParametersKeeps ==
  ASSUME IInv, SetParameters
  PROVE  IInv'
<1>1. PICK d : /\ ServedBy(d) /\ Sound(d, Drive)
               /\ Accepts(d) => Overridden(params, request) \in Parameters
  BY ServedOutcome
<1>2. /\ d.port \in PortStates /\ d.reader \in Nat /\ d.config \in Configs
      /\ d.chain \in [at : ChainPlaces, of : Nat] /\ d.chain.of <= d.reader
      /\ d.writing \in WritingStates /\ d.throws \in BOOLEAN
  BY <1>1 DEF Sound, DriveStates, ReaderExisted
<1>3. /\ port' = d.port /\ reader' = d.reader /\ chain' = d.chain
      /\ writing' = d.writing /\ config' = d.config
      /\ node' = IF d.throws THEN "terminated" ELSE "up"
  BY <1>1 DEF ServedBy, Becomes
<1>4. chain' \in [at : ChainPlaces, of : 0..reader']
  BY <1>2, <1>3
<1>5. params' \in Parameters
  BY <1>1 DEF ServedBy, Accepts, IInv, TypeOK, Parameters
<1>6. queued' \in Seq({"reader", "writer"})
  BY EnqueueKeeps DEF SetParameters, IInv, TypeOK
<1>7. request' = <<>> /\ UNCHANGED <<launched, send_bufs, settled, requests, writes, pollVars>>
  BY DEF SetParameters
<1>8. TypeOK'
  BY <1>2, <1>3, <1>4, <1>5, <1>6, <1>7, KnownStays
     DEF IInv, TypeOK, pollVars, PortStates, Configs, Parameters, ChainPlaces, WritingStates
<1>9. PortFollowsConfig'
  BY <1>1, <1>2, <1>3 DEF Sound, AsConfigured, PortFollowsConfig
<1>10. NotBuilt' /\ WriterBusy'
  BY <1>1, <1>3, <1>7 DEF Sound, Drive, IInv, NotBuilt, WriterBusy
<1> QED
  BY <1>8, <1>9, <1>10 DEF IInv

\* The parts of the type invariant that a handler may change.
LEMMA HandlerTypes ==
  ASSUME IInv
  PROVE  /\ reader \in Nat /\ chain \in [at : ChainPlaces, of : 0..reader]
         /\ writing \in WritingStates
         /\ send_bufs \in Seq(1..MaxWrites) /\ settled \subseteq 1..MaxWrites
         /\ queued \in Seq({"reader", "writer"})
  BY DEF IInv, TypeOK, ChainPlaces, WritingStates

\* A step that leaves parameters, configuration and port alone keeps the invariant if
\* it keeps these.
LEMMA OthersKeep ==
  ASSUME IInv, UNCHANGED <<launched, params, config, port, reader, request, requests>>,
         node' \in {"up", "crashed", "terminated"}, node = "up",
         chain' \in [at : ChainPlaces, of : 0..reader], writing' \in WritingStates,
         send_bufs' \in Seq(1..MaxWrites), settled' \subseteq 1..MaxWrites,
         writing' = "none" <=> send_bufs' = <<>>,
         queued' \in Seq({"reader", "writer"}), writes' \in 0..MaxWrites,
         polling' \in BOOLEAN, polled' \in 0..(PollLimit + 1), stopped' \in BOOLEAN
  PROVE  IInv'
<1>1. TypeOK'
  BY KnownStays DEF IInv, TypeOK, ChainPlaces, WritingStates
<1>2. PortFollowsConfig'
  BY DEF IInv, PortFollowsConfig
<1>3. NotBuilt' /\ WriterBusy'
  BY DEF NotBuilt, WriterBusy
<1> QED
  BY <1>1, <1>2, <1>3 DEF IInv

LEMMA CountersKeep ==
  ASSUME IInv
  PROVE  /\ writes \in 0..MaxWrites /\ polling \in BOOLEAN /\ stopped \in BOOLEAN
         /\ polled \in 0..(PollLimit + 1)
  BY DEF IInv, TypeOK

LEMMA WriteKeeps ==
  ASSUME IInv, write_to_serial
  PROVE  IInv'
<1> USE HandlerTypes, CountersKeep DEF write_to_serial, pollVars
<1>1. node = "up" /\ writes' \in 0..MaxWrites /\ writes' \in 1..MaxWrites
  BY Bounds DEF Idle
<1>2. send_bufs' \in Seq(1..MaxWrites) /\ send_bufs' # <<>>
  BY <1>1
<1>3. writing' \in WritingStates /\ writing' # "none"
  BY DEF do_write, IInv, WriterBusy, WritingStates, Underway
<1>4. queued' \in Seq({"reader", "writer"})
  BY EnqueueKeeps
<1> QED
  BY <1>1, <1>2, <1>3, <1>4, OthersKeep

LEMMA ReadEndsKeeps ==
  ASSUME IInv, NEW outcome \in {"completed", "failed"}, ReadEnds(outcome)
  PROVE  IInv'
<1> USE HandlerTypes, CountersKeep DEF ReadEnds, writeVars, rosVars, pollVars
<1>1. chain' \in [at : ChainPlaces, of : 0..reader]
  BY DEF ChainPlaces
<1>2. queued' \in Seq({"reader", "writer"})
  BY EnqueueKeeps
<1>3. writing' = "none" <=> send_bufs' = <<>>
  BY DEF IInv, WriterBusy
<1> QED
  BY <1>1, <1>2, <1>3, OthersKeep

LEMMA WriteEndsKeeps ==
  ASSUME IInv, NEW outcome \in WriteOutcomes, WriteEnds(outcome)
  PROVE  IInv'
<1> USE HandlerTypes, CountersKeep DEF WriteEnds, rosVars, pollVars
<1>1. writing' \in WritingStates /\ writing' # "none" /\ writing # "none"
  BY DEF WriteOutcomes, WritingStates, Underway
<1>2. queued' \in Seq({"reader", "writer"})
  BY EnqueueKeeps
<1>3. send_bufs' # <<>>
  BY <1>1 DEF IInv, WriterBusy
<1> QED
  BY <1>1, <1>2, <1>3, OthersKeep

\* What one handler may leave behind.
Handled ==
  /\ node' \in {"up", "crashed", "terminated"}
  /\ chain' \in [at : ChainPlaces, of : 0..reader]
  /\ writing' \in WritingStates
  /\ send_bufs' \in Seq(1..MaxWrites) /\ settled' \subseteq 1..MaxWrites
  /\ writing' = "none" <=> send_bufs' = <<>>

LEMMA ReaderHandlers ==
  ASSUME IInv, node = "up", read_callback \/ SessionCallback
  PROVE  Handled
<1> USE HandlerTypes
<1>1. UNCHANGED writeVars /\ (writing = "none" <=> send_bufs = <<>>)
  BY DEF read_callback, SessionCallback, IInv, WriterBusy
<1>2. node' \in {"up", "crashed", "terminated"}
  BY DEF read_callback, SessionCallback, OnReader
<1>3. chain' \in [at : ChainPlaces, of : 0..reader]
  <2>1. CASE read_callback
    BY <2>1 DEF read_callback, ChainPlaces, Ended
  <2>2. CASE SessionCallback
    <3>1. \/ chain' = [at |-> "posted", of |-> reader]
          \/ chain' = [at |-> "reading", of |-> reader]
          \/ chain' = [at |-> "failed", of |-> reader]
          \/ chain' = [at |-> "broken", of |-> reader]
          \/ chain' = chain
      BY <2>2 DEF SessionCallback, StartsRead
    <3>2. reader \in 0..reader
      OBVIOUS
    <3> QED
      BY <3>1, <3>2 DEF ChainPlaces, Ended
  <2> QED
    BY <2>1, <2>2
<1> QED
  BY <1>1, <1>2, <1>3 DEF Handled, writeVars

LEMMA TailFacts ==
  ASSUME NEW S, NEW s \in Seq(S), s # <<>>
  PROVE  /\ Head(s) \in S /\ Tail(s) \in Seq(S)
         /\ Tail(s) = <<>> <=> ~(Len(s) > 1)
<1>1. Head(s) \in S /\ Tail(s) \in Seq(S) /\ Len(s) \in Nat /\ Len(s) > 0
  OBVIOUS
<1>2. Len(Tail(s)) = Len(s) - 1
  BY <1>1
<1>3. Tail(s) = <<>> <=> Len(Tail(s)) = 0
  <2> DEFINE t == Tail(s)
  <2>1. t \in Seq(S)
    BY <1>1
  <2> HIDE DEF t
  <2>2. t = <<>> <=> Len(t) = 0
    BY <2>1
  <2> QED
    BY <2>2 DEF t
<1> QED
  BY <1>1, <1>2, <1>3

LEMMA ElementsOf ==
  ASSUME NEW S, NEW s \in Seq(S)
  PROVE  {s[i] : i \in DOMAIN s} \subseteq S
  OBVIOUS

LEMMA WriterHandlers ==
  ASSUME IInv, node = "up", ResumeWrite \/ write_ec_callback
  PROVE  Handled
<1> USE HandlerTypes
<1>1. writing # "none" /\ send_bufs # <<>> /\ UNCHANGED <<node, chain>>
  BY DEF ResumeWrite, write_ec_callback, IInv, WriterBusy
<1>2. CASE ResumeWrite
  BY <1>1, <1>2 DEF ResumeWrite, Handled, WritingStates, Underway
<1>3. CASE write_ec_callback /\ writing = "completed"
  <2>1. /\ Tail(send_bufs) \in Seq(1..MaxWrites) /\ Head(send_bufs) \in 1..MaxWrites
        /\ Tail(send_bufs) = <<>> <=> ~(Len(send_bufs) > 1)
    BY <1>1, TailFacts
  <2>3. /\ send_bufs' = Tail(send_bufs) /\ settled' = settled \cup {Head(send_bufs)}
        /\ IF Len(send_bufs) > 1 THEN do_write ELSE writing' = "none"
    BY <1>3 DEF write_ec_callback
  <2>4. writing' \in WritingStates /\ (writing' = "none" <=> ~(Len(send_bufs) > 1))
    BY <2>3 DEF do_write, WritingStates, Underway
  <2>5. settled' \subseteq 1..MaxWrites /\ send_bufs' \in Seq(1..MaxWrites)
    BY <2>1, <2>3
  <2> QED
    BY <1>1, <2>1, <2>3, <2>4, <2>5 DEF Handled
<1>4. CASE write_ec_callback /\ writing # "completed"
  <2>1. /\ send_bufs' = <<>> /\ writing' = "none"
        /\ settled' = settled \cup {send_bufs[i] : i \in DOMAIN send_bufs}
    BY <1>4 DEF write_ec_callback
  <2>2. settled' \subseteq 1..MaxWrites
    BY <2>1, ElementsOf
  <2>3. <<>> \in Seq(1..MaxWrites)
    OBVIOUS
  <2> QED
    BY <1>1, <2>1, <2>2, <2>3 DEF Handled, WritingStates
<1> QED
  BY <1>2, <1>3, <1>4

LEMMA PollOneKeeps ==
  ASSUME IInv, PollOne
  PROVE  IInv'
<1> USE DEF PollOne, rosVars
<1>1. Handled
  BY ReaderHandlers, WriterHandlers
<1>2. queued' \in Seq({"reader", "writer"})
  <2>1. Tail(queued) \in Seq({"reader", "writer"})
    BY HandlerTypes
  <2> QED
    BY <2>1, EnqueueKeeps
<1>3. polled' \in 0..(PollLimit + 1)
  BY CountersKeep, Bounds DEF Count
<1> QED
  BY <1>1, <1>2, <1>3, CountersKeep, OthersKeep DEF Handled

LEMMA BatchKeeps ==
  ASSUME IInv, Tick \/ EndBatch
  PROVE  IInv'
<1>1. /\ node = "up" /\ UNCHANGED <<launched, node, params, config, port, reader, chain, writeVars, rosVars, queued>>
      /\ polling' \in BOOLEAN /\ polled' \in 0..(PollLimit + 1)
  <2>1. CASE Tick
    BY <2>1, CountersKeep DEF Tick, Idle
  <2>2. CASE EndBatch
    <3>1. 0 \in 0..(PollLimit + 1)
      BY Bounds
    <3> QED
      BY <2>2, <3>1 DEF EndBatch
  <2> QED
    BY <2>1, <2>2
<1>2. stopped' \in BOOLEAN
  BY CountersKeep DEF Tick, EndBatch, Restarted
<1>3. writing' = "none" <=> send_bufs' = <<>>
  BY <1>1 DEF IInv, WriterBusy, writeVars
<1> QED
  BY <1>1, <1>2, <1>3, HandlerTypes, CountersKeep, OthersKeep DEF writeVars, rosVars

LEMMA ShutdownKeeps ==
  ASSUME IInv, Shutdown
  PROVE  IInv'
<1> USE DEF Shutdown, rosVars
<1> DEFINE c == CloseDrive(Drive)
<1>1. /\ c \in DriveStates /\ ReaderExisted(c) /\ c.reader = Drive.reader
      /\ c.writing = "none" <=> Drive.writing = "none"
  BY DriveIsSound, CloseOutcome
<1>2. chain' = c.chain /\ writing' = c.writing /\ port' = Closed /\ node' = "shutdown"
  OBVIOUS
<1> HIDE DEF c
<1>3. Drive.reader = reader /\ Drive.writing = writing
  BY DEF Drive
<1>4. writing' \in WritingStates /\ chain' \in [at : ChainPlaces, of : 0..reader]
  <2>1. c.chain \in [at : ChainPlaces, of : Nat] /\ c.chain.of <= reader /\ c.writing \in WritingStates
    BY <1>1, <1>3 DEF DriveStates, ReaderExisted
  <2> QED
    BY <1>2, <2>1, HandlerTypes
<1>5. queued' \in Seq({"reader", "writer"})
  BY HandlerTypes, EnqueueKeeps
<1>6. TypeOK'
  BY <1>2, <1>4, <1>5, KnownStays DEF IInv, TypeOK, ChainPlaces, WritingStates
<1>7. PortFollowsConfig' /\ NotBuilt' /\ WriterBusy'
  BY <1>1, <1>2, <1>3 DEF IInv, PortFollowsConfig, NotBuilt, WriterBusy
<1> QED
  BY <1>6, <1>7 DEF IInv

LEMMA StutterKeeps ==
  ASSUME IInv, UNCHANGED vars
  PROVE  IInv'
<1>1. /\ UNCHANGED <<launched, node, params, config, port, reader, chain, queued>>
      /\ UNCHANGED writeVars /\ UNCHANGED rosVars /\ UNCHANGED pollVars
  BY DEF vars
<1>2. TypeOK'
  <2>1. /\ launched' = launched /\ KnownPorts' = KnownPorts /\ KnownBauds' = KnownBauds
        /\ node' = node /\ params' = params /\ config' = config /\ port' = port
        /\ reader' = reader /\ chain' = chain /\ queued' = queued
    BY <1>1, KnownStays
  <2>2. writing' = writing /\ send_bufs' = send_bufs /\ settled' = settled
    BY <1>1 DEF writeVars
  <2>3. request' = request /\ requests' = requests /\ writes' = writes
    BY <1>1 DEF rosVars
  <2>4. polling' = polling /\ polled' = polled /\ stopped' = stopped
    BY <1>1 DEF pollVars
  <2>5. TypeOK
    BY DEF IInv
  <2>6. /\ launched' \in Launched
        /\ node' \in {"constructed", "up", "crashed", "terminated", "shutdown"}
        /\ params' \in [port : KnownPorts', baud : Int]
        /\ config' \in [port : KnownPorts', baud : KnownBauds']
    BY <2>1, <2>5 DEF TypeOK
  <2>7. port' \in {Closed} \cup [open : {TRUE}, port : KnownPorts', baud : KnownBauds']
    BY <2>1, <2>5 DEF TypeOK
  <2>8. chain' \in [at : Ended \cup {"reading", "completed", "aborted", "failed", "posted"},
                   of : 0..reader']
    BY <2>1, <2>5 DEF TypeOK
  <2>9. reader' \in Nat /\ queued' \in Seq({"reader", "writer"})
    BY <2>1, <2>5 DEF TypeOK
  <2>10. /\ writing' \in {"none", "piece", "completed", "aborted", "failed"} \cup Underway
         /\ send_bufs' \in Seq(1..MaxWrites) /\ settled' \subseteq 1..MaxWrites
    BY <2>2, <2>5 DEF TypeOK
  <2>11. /\ request' \in Requests \cup {<<>>}
         /\ requests' \in 0..MaxRequests /\ writes' \in 0..MaxWrites
    BY <2>3, <2>5 DEF TypeOK
  <2>12. polling' \in BOOLEAN /\ polled' \in 0..(PollLimit + 1) /\ stopped' \in BOOLEAN
    BY <2>4, <2>5 DEF TypeOK
  <2> QED
    BY <2>6, <2>7, <2>8, <2>9, <2>10, <2>11, <2>12 DEF TypeOK
<1>3. PortFollowsConfig' /\ NotBuilt' /\ WriterBusy'
  BY <1>1 DEF IInv, PortFollowsConfig, NotBuilt, WriterBusy, writeVars
<1> QED
  BY <1>2, <1>3 DEF IInv

\* Every reachable state satisfies the inductive invariant.
THEOREM Invariance == Spec => []IInv
<1>1. IInv /\ [Next]_vars => IInv'
  <2> SUFFICES ASSUME IInv, [Next]_vars PROVE IInv'
    OBVIOUS
  <2>1. CASE Construct
    BY <2>1, ConstructKeeps
  <2>2. CASE \E settings \in Requests : Request(settings)
    BY <2>2, RequestKeeps
  <2>3. CASE SetParameters
    BY <2>3, SetParametersKeeps
  <2>4. CASE write_to_serial
    BY <2>4, WriteKeeps
  <2>5. CASE Tick \/ EndBatch
    BY <2>5, BatchKeeps
  <2>6. CASE \E outcome \in {"completed", "failed"} : ReadEnds(outcome)
    BY <2>6, ReadEndsKeeps
  <2>7. CASE \E outcome \in WriteOutcomes : WriteEnds(outcome)
    BY <2>7, WriteEndsKeeps
  <2>8. CASE PollOne
    BY <2>8, PollOneKeeps
  <2>9. CASE Shutdown
    BY <2>9, ShutdownKeeps
  <2>10. CASE UNCHANGED vars
    BY <2>10, StutterKeeps
  <2> QED
    BY <2>1, <2>2, <2>3, <2>4, <2>5, <2>6, <2>7, <2>8, <2>9, <2>10 DEF Next
<1> QED
  BY <1>1, InitInvariant, PTL DEF Spec

\* Every variable keeps its type; whatever numbers and strings the node is launched with
\* and is asked for, the configuration and the port hold a name and a positive int, or
\* else what the launch gave them, cut to an int.
THEOREM TypesHold == Spec => []TypeOK
  BY Invariance, PTL DEF IInv

\* While the node is up, an open port has the settings of serial_config_.
THEOREM ConfigDescribesPort == Spec => []PortFollowsConfig
  BY Invariance, PTL DEF IInv

\* Only parameter_callback changes the configuration, only with it do the parameters
\* change, and only it takes a request.
LEMMA OthersLeaveSettings ==
  ASSUME [Next]_vars, ~SetParameters
  PROVE  UNCHANGED <<params, config>> /\ (request # <<>> => request' = request)
<1>1. CASE Construct \/ write_to_serial \/ Tick \/ PollOne \/ EndBatch \/ Shutdown
  BY <1>1 DEF Construct, write_to_serial, Tick, PollOne, EndBatch, Shutdown, rosVars
<1>2. CASE \E settings \in Requests : Request(settings)
  BY <1>2 DEF Request
<1>3. CASE \E outcome \in {"completed", "failed"} : ReadEnds(outcome)
  BY <1>3 DEF ReadEnds, rosVars
<1>4. CASE \E outcome \in WriteOutcomes : WriteEnds(outcome)
  BY <1>4 DEF WriteEnds, rosVars
<1>5. CASE UNCHANGED vars
  BY <1>5 DEF vars, rosVars
<1> QED
  BY <1>1, <1>2, <1>3, <1>4, <1>5 DEF Next

\* What a served request leaves in force: its first settings, and for ROS all or nothing.
LEMMA RequestOutcome ==
  ASSUME IInv, SetParameters
  PROVE  \E n \in 0..Len(request) :
           /\ config' = Overridden(config, NarrowedFirst(request, n))
           /\ params' = IF n = Len(request) THEN Overridden(params, request) ELSE params
<1>1. PICK d : /\ ServedBy(d) /\ Sound(d, Drive)
               /\ \E n \in 0..Len(request) : FirstTookEffect(request, Drive, n, d)
  BY ServedOutcome
<1>2. PICK n \in 0..Len(request) : FirstTookEffect(request, Drive, n, d)
  BY <1>1
<1>3. /\ request \in Seq(Settings) /\ Drive \in DriveStates /\ d \in DriveStates
      /\ Drive.config = config
  BY <1>1, RequestTypes, DriveIsSound DEF IInv, Drive, Sound
<1>4. config' = d.config /\ params' = IF Accepts(d) THEN Overridden(params, request) ELSE params
  BY <1>1 DEF ServedBy, Becomes, Accepts
<1>5. d.config = Overridden(config, NarrowedFirst(request, n))
  BY <1>2, <1>3, EffectIsOverriding DEF FirstTookEffect
<1> QED
  BY <1>2, <1>4, <1>5 DEF FirstTookEffect

\* A served request, of any length and whichever of its reloads fail, leaves the drive
\* with its settings up to the first that failed, and ROS with all of it or none.
THEOREM RequestTakesEffect == Spec => RequestTakesEffectInOrder
<1> DEFINE A == request # <<>> /\ request' = <<>> /\ node' = "up" =>
                  \E k \in 0..Len(request) :
                    /\ config' = Overridden(config, [i \in 1..k |-> Narrowed(request[i])])
                    /\ params' = IF k = Len(request) THEN Overridden(params, request) ELSE params
<1>1. ASSUME IInv, [Next]_vars PROVE A
  <2> SUFFICES ASSUME request # <<>>, request' = <<>>, node' = "up"
               PROVE  \E k \in 0..Len(request) :
                        /\ config' = Overridden(config, [i \in 1..k |-> Narrowed(request[i])])
                        /\ params' = IF k = Len(request) THEN Overridden(params, request) ELSE params
    OBVIOUS
  <2>1. SetParameters
    BY <1>1, OthersLeaveSettings
  <2> QED
    BY <1>1, <2>1, RequestOutcome DEF NarrowedFirst
<1>2. IInv /\ [Next]_vars => [A]_vars
  BY <1>1
<1> QED
  BY <1>2, Invariance, PTL DEF Spec, RequestTakesEffectInOrder

\* Of a request of any length: if it changes a parameter that ROS shows, all of it is
\* in force, the last setting of each name with what an int keeps of a baud rate.
AcceptedIsInForce ==
  [][config = InForce(params) /\ params' # params => config' = InForce(params')]_vars

\* Once drive and parameters agree, ROS never comes to show a parameter the drive does
\* not use: a request for several that is half applied is not shown at all.
THEOREM AcceptedTakesEffect == Spec => AcceptedIsInForce
<1> DEFINE A == config = InForce(params) /\ params' # params => config' = InForce(params')
<1>1. ASSUME IInv, [Next]_vars PROVE A
  <2> SUFFICES ASSUME config = InForce(params), params' # params
               PROVE  config' = InForce(params')
    OBVIOUS
  <2>1. SetParameters
    BY <1>1, OthersLeaveSettings
  <2>2. PICK n \in 0..Len(request) :
               /\ config' = Overridden(config, NarrowedFirst(request, n))
               /\ params' = IF n = Len(request) THEN Overridden(params, request) ELSE params
    BY <1>1, <2>1, RequestOutcome
  <2>3. request \in Seq(Settings) /\ params \in Parameters
    BY <1>1, RequestTypes DEF IInv, TypeOK, Parameters
  <2> QED
    BY <2>2, <2>3, OverriddenInForce
<1>2. IInv /\ [Next]_vars => [A]_vars
  BY <1>1
<1> QED
  BY <1>2, Invariance, PTL DEF Spec, AcceptedIsInForce
====
