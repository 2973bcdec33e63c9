------------------------------- MODULE SerialDrive -------------------------------
(***************************************************************************)
(* The life of the serial port: the constructor, parameter_callback with   *)
(* its reloads, the destructor and the polling of the io_context           *)
(* (session/serial_session.hpp), driven by the node of serial_node.cpp.    *)
(*                                                                         *)
(* rclcpp::spin runs the timer, the parameter callback and the             *)
(* subscription callbacks on one thread: outside a batch of io handlers    *)
(* each is a single step.  Reading is reduced to the one chain of          *)
(* operations and callbacks that AsyncReadBuffer and SerialSession detail, *)
(* writing to the queue of AsyncWriteBuffer.                               *)
(***************************************************************************)
EXTENDS Integers, Sequences

CONSTANTS
  Ports,            \* the names of ports, without the empty one
  IntValues,        \* how many values an int has, 2^32
  Launched,         \* the parameters the node may be launched with, which nothing checks
  Unsupported,      \* ints set_option refuses as a baud
  Requests,         \* the parameter requests: sequences of settings
  PollLimit,        \* 50 in run_io_contect
  MaxRequests,      \* bound: how many parameter requests are made
  MaxWrites         \* bound: how many frames are written

\* The bauds parameter_callback lets pass: the positive numbers of an int.
Bauds == 1..(IntValues \div 2 - 1)

\* One entry of a request: any string, any number.
Settings == [name : {"port"}, value : Ports \cup {""}] \cup [name : {"baud"}, value : Int]

ASSUME DriveAssumption ==
  /\ IntValues \in Nat \ {0} /\ IntValues % 2 = 0
  /\ "" \notin Ports
  /\ Launched \subseteq [port : Ports \cup {""}, baud : Int]
  /\ Unsupported \subseteq Int
  /\ Requests \subseteq Seq(Settings)
  /\ {PollLimit, MaxRequests, MaxWrites} \subseteq Nat

VARIABLES
  launched,  \* history: the parameters the node was launched with
  node,      \* "constructed", "up", "crashed", "terminated" or "shutdown"
  params,    \* the ROS parameters of the node
  config,    \* serial_config_
  port,      \* serial_: is it open, and with what settings
  reader,    \* the number of the reader object in async_reader_, 0 for none
  chain,     \* the read operation or callback under way, and its reader
  writing,   \* the async_write under way
  send_bufs, \* the writer's queue
  settled,   \* history: the frames sent or dropped
  request,   \* the parameter request that waits for the executor, or <<>>
  requests, writes,   \* how many were made
  queued,    \* the handlers the io_context has ready, first come first run
  polling,   \* is run_io_contect under way?
  polled,    \* poll_handle, the handlers run in its batch
  stopped    \* service_io_.stopped()

writeVars == <<writing, send_bufs, settled>>
rosVars == <<request, requests, writes>>
pollVars == <<polling, polled, stopped>>
vars == <<launched, node, params, config, port, reader, chain, writeVars, rosVars, queued, pollVars>>

Closed == [open |-> FALSE]
Open(p, b) == [open |-> TRUE, port |-> p, baud |-> b]

\* async_write at its first piece, or at the rest.
Underway == {"writing", "resumed"}

\* No operation of the chain is left: "lost" after an abort, "broken" after an error.
Ended == {"lost", "broken"}

\* A parameter is 64 bits wide; the drive keeps an int of it, the low half.
AsInt(n) == ((n + IntValues \div 2) % IntValues) - IntValues \div 2
InForce(values) == [values EXCEPT !.baud = AsInt(@)]

Init ==
  /\ node = "constructed"
  /\ launched \in Launched
  /\ params = launched
  /\ config = InForce(params)
  /\ port = Closed
  /\ reader = 0
  /\ chain = [at |-> "lost", of |-> 0]
  /\ writing = "none" /\ send_bufs = <<>> /\ settled = {}
  /\ request = <<>> /\ requests = 0 /\ writes = 0
  /\ queued = <<>>
  /\ polling = FALSE /\ polled = 0 /\ stopped = FALSE

Idle == node = "up" /\ ~polling

\* Handlers whose operation has ended, or that were posted.
ReaderReady == chain.at \in {"completed", "aborted", "failed", "posted"}
WriterReady == writing \in {"piece", "completed", "aborted", "failed"}

\* Behind those in the queue come the handlers that the step makes ready.
Enqueue(rest) ==
  LET behind(handler, ready) ==
        IF ready /\ \A i \in DOMAIN rest : rest[i] # handler THEN <<handler>> ELSE <<>>
  IN  queued' = rest \o behind("reader", ReaderReady') \o behind("writer", WriterReady')

----------------------------------------------------------------------------
\* The port, as a function of the state d of everything a reload touches

\* close() aborts the operations waiting for the port; those that have completed
\* keep their handlers in the queue.
CloseDrive(d) ==
  [d EXCEPT !.port = Closed,
            !.chain.at = IF @ = "reading" THEN "aborted" ELSE @,
            !.writing = IF @ \in Underway THEN "aborted" ELSE @]

\* open_serial: the port opens or not, and one without a name never does; an option it
\* refuses throws; success replaces the reader, and the new one is not told to read.
open_serial(d, p, b, opens) ==
  IF ~opens \/ p = "" THEN [d EXCEPT !.ok = FALSE]
  ELSE IF b \in Unsupported THEN [d EXCEPT !.port = Open(p, b), !.throws = TRUE]
  ELSE [d EXCEPT !.port = Open(p, b), !.reader = @ + 1, !.ok = TRUE]

\* reload_hardware: close, then open.  An error of either leaves the port closed, for
\* asio gives up the descriptor whatever close() returns.
reload_hardware(d, p, b, opens) == open_serial(CloseDrive(d), p, b, opens)

\* Do the reload of a new setting and the reload of the old one, if it comes to that,
\* succeed?
Luck == {[new |-> TRUE, old |-> TRUE], [new |-> FALSE, old |-> TRUE], [new |-> FALSE, old |-> FALSE]}

----------------------------------------------------------------------------
\* parameter_callback, one setting after the other

\* Wrong variants: the configuration is changed before the reload; after a failure
\* the port is reopened with the value that failed.
ChangeConfigFirst(d, setting, luck) ==
  LET wanted == [d.config EXCEPT ![setting.name] = setting.value]
      tried == reload_hardware([d EXCEPT !.config = wanted], wanted.port, wanted.baud, luck.new)
  IN  IF tried.ok \/ tried.throws THEN tried
      ELSE [reload_hardware(tried, d.config.port, d.config.baud, luck.old) EXCEPT !.ok = FALSE]

ChangeFallsBackToNew(d, setting, luck) ==
  LET wanted == [d.config EXCEPT ![setting.name] = setting.value]
      tried == reload_hardware(d, wanted.port, wanted.baud, luck.new)
  IN  IF tried.throws THEN tried
      ELSE IF tried.ok THEN [tried EXCEPT !.config = wanted]
      ELSE [reload_hardware(tried, wanted.port, wanted.baud, luck.old) EXCEPT !.ok = FALSE]

\* A new port or baud: reload, then remember it; or go back to the old settings.
Change(d, setting, luck) ==
  LET wanted == [d.config EXCEPT ![setting.name] = setting.value]
      tried == reload_hardware(d, wanted.port, wanted.baud, luck.new)
  IN  IF tried.throws THEN tried
      ELSE IF tried.ok THEN [tried EXCEPT !.config = wanted]
      ELSE [reload_hardware(tried, d.config.port, d.config.baud, luck.old) EXCEPT !.ok = FALSE]

\* Wrong variant: values are not validated.
NothingInvalid(setting) == FALSE
Invalid(setting) == IF setting.name = "baud" THEN setting.value <= 0 ELSE setting.value = ""

\* new_baud is an int.
Narrowed(setting) == IF setting.name = "baud" THEN [setting EXCEPT !.value = AsInt(@)] ELSE setting

\* The first setting that fails returns, and leaves those before it in force.
OneSetting(d, setting, luck) ==
  IF ~d.ok \/ d.throws THEN d
  ELSE IF Invalid(Narrowed(setting)) THEN [d EXCEPT !.ok = FALSE]
  ELSE Change(d, Narrowed(setting), luck)

parameter_callback(settings, d, luck) ==
  LET after[i \in 0..Len(settings)] ==
        IF i = 0 THEN d ELSE OneSetting(after[i - 1], settings[i], luck[i])
  IN  after[Len(settings)]

Drive == [port |-> port, reader |-> reader, chain |-> chain, writing |-> writing,
          config |-> config, ok |-> TRUE, throws |-> FALSE]

Becomes(d) ==
  /\ port' = d.port /\ reader' = d.reader /\ chain' = d.chain
  /\ writing' = d.writing /\ config' = d.config
  /\ node' = IF d.throws THEN "terminated" ELSE "up"

\* A client asks for new parameters; the request waits for the executor.
Request(settings) ==
  /\ node = "up"
  /\ request = <<>>
  /\ requests < MaxRequests
  /\ request' = settings
  /\ requests' = requests + 1
  /\ UNCHANGED <<launched, node, params, config, port, reader, chain, writeVars, writes, queued, pollVars>>

\* Values after a sequence of settings: the last with its name gives a parameter its value.
Overridden(values, settings) ==
  [name \in DOMAIN values |->
     LET set == {i \in DOMAIN settings : settings[i].name = name}
     IN  IF set = {} THEN values[name]
         ELSE settings[CHOOSE i \in set : \A j \in set : j <= i].value]

\* rclcpp calls parameter_callback, and sets the parameters when it agrees.
SetParameters ==
  /\ Idle
  /\ request # <<>>
  /\ \E luck \in [DOMAIN request -> Luck] :
       LET d == parameter_callback(request, Drive, luck) IN
         /\ Becomes(d)
         /\ params' = IF ~d.ok \/ d.throws THEN params ELSE Overridden(params, request)
  /\ request' = <<>>
  /\ UNCHANGED <<launched, send_bufs, settled, requests, writes, pollVars>>
  /\ Enqueue(queued)

----------------------------------------------------------------------------
\* Reading

\* read() on the current reader: its bytes are buffered, or it turns to the port.
StartsRead ==
  \/ chain' = [at |-> "posted", of |-> reader]
  \/ chain' = [at |-> IF port.open THEN "reading" ELSE "failed", of |-> reader]

\* The constructor: open_serial, whose result it ignores, then start_read.  Without a
\* reader read() runs on a null pointer.
Construct ==
  /\ node = "constructed"
  /\ \E opens \in BOOLEAN :
       LET d == open_serial(Drive, config.port, config.baud, opens) IN
         /\ port' = d.port
         /\ reader' = d.reader
         /\ \/ d.throws /\ node' = "terminated" /\ UNCHANGED chain
            \/ ~d.throws /\ ~d.ok /\ node' = "crashed" /\ UNCHANGED chain
            \/ /\ ~d.throws /\ d.ok
               /\ node' = "up"
               /\ chain' = [at |-> "reading", of |-> reader']
  /\ UNCHANGED <<launched, params, config, writeVars, rosVars, queued, pollVars>>

\* asio performs the read while it is polled; or the port reports an error.
ReadEnds(outcome) ==
  /\ node = "up"
  /\ polling
  /\ chain.at = "reading"
  /\ chain' = [chain EXCEPT !.at = outcome]
  /\ UNCHANGED <<launched, node, params, config, port, reader, writeVars, rosVars, pollVars>>
  /\ Enqueue(queued)

\* A handler bound to a reader that a reload has destroyed may do as if nothing
\* happened, or crash.
OnReader == node' = "up" \/ (chain.of # reader /\ node' = "crashed")

read_callback ==
  /\ OnReader
  /\ \/ chain.at = "completed" /\ chain' = [chain EXCEPT !.at = "posted"]
     \/ chain.at = "aborted" /\ chain' = [chain EXCEPT !.at = "lost"]
     \/ chain.at = "failed" /\ chain' = [chain EXCEPT !.at = "broken"]
  /\ UNCHANGED writeVars

\* A posted callback of the session reads its view, then asks for the next bytes; the
\* buffer refuses too many, and what it read may have thrown.
SessionCallback ==
  /\ chain.at = "posted"
  /\ \/ OnReader /\ StartsRead
     \/ OnReader /\ chain' = [at |-> "broken", of |-> reader]
     \/ node' = "terminated" /\ UNCHANGED chain
  /\ UNCHANGED writeVars

----------------------------------------------------------------------------
\* Writing

do_write == writing' = IF port.open THEN "writing" ELSE "failed"

\* A subscription callback hands over a frame.
write_to_serial ==
  /\ Idle
  /\ writes < MaxWrites
  /\ writes' = writes + 1
  /\ send_bufs' = Append(send_bufs, writes')
  /\ IF send_bufs = <<>> THEN do_write ELSE UNCHANGED writing
  /\ UNCHANGED <<launched, node, params, config, port, reader, chain, settled, request, requests,
                 pollVars>>
  /\ Enqueue(queued)

\* The port takes the rest of the frame, or a piece of it, or reports an error.
WriteEnds(outcome) ==
  /\ node = "up"
  /\ writing \in Underway
  /\ outcome = "piece" => writing = "writing"
  /\ writing' = outcome
  /\ UNCHANGED <<launched, node, params, config, port, reader, chain, send_bufs, settled, rosVars,
                 pollVars>>
  /\ Enqueue(queued)

WriteOutcomes == {"piece", "completed", "failed"}

\* Wrong variant: an aborted write leaves the queue as it is.
AbortKeepsQueue ==
  /\ writing \in {"completed", "aborted", "failed"}
  /\ IF writing = "completed"
       THEN /\ send_bufs' = Tail(send_bufs)
            /\ settled' = settled \cup {Head(send_bufs)}
            /\ IF Len(send_bufs) > 1 THEN do_write ELSE writing' = "none"
       ELSE writing' = "none" /\ UNCHANGED <<send_bufs, settled>>
  /\ UNCHANGED <<node, chain>>

\* asio goes on with the rest, on the port that is open now.
ResumeWrite ==
  /\ writing = "piece"
  /\ writing' = IF port.open THEN "resumed" ELSE "failed"
  /\ UNCHANGED <<node, chain, send_bufs, settled>>

write_ec_callback ==
  /\ writing \in {"completed", "aborted", "failed"}
  /\ IF writing = "completed"
       THEN /\ send_bufs' = Tail(send_bufs)
            /\ settled' = settled \cup {Head(send_bufs)}
            /\ IF Len(send_bufs) > 1 THEN do_write ELSE writing' = "none"
       ELSE /\ send_bufs' = <<>>
            /\ settled' = settled \cup {send_bufs[i] : i \in DOMAIN send_bufs}
            /\ writing' = "none"
  /\ UNCHANGED <<node, chain>>

----------------------------------------------------------------------------
\* run_io_contect

\* What keeps the io_context from running out of work.
Outstanding == chain.at \notin Ended \/ writing # "none"

Tick ==
  /\ Idle
  /\ polling' = TRUE
  /\ UNCHANGED <<launched, node, params, config, port, reader, chain, writeVars, rosVars, queued, polled, stopped>>

\* Wrong variant: the batch goes on while a handler is ready.
NoLimit(n) == TRUE
BelowLimit(n) == n <= PollLimit

\* The counter stops at its limit: past it, the batch is over whatever its value.
Count(n) == IF n <= PollLimit THEN n + 1 ELSE n

\* poll_one runs the first handler of the queue.
PollOne ==
  /\ node = "up"
  /\ polling /\ BelowLimit(polled)
  /\ ~stopped /\ queued # <<>>
  /\ IF Head(queued) = "reader" THEN read_callback \/ SessionCallback
                               ELSE ResumeWrite \/ write_ec_callback
  /\ Enqueue(Tail(queued))
  /\ polled' = Count(polled)
  /\ UNCHANGED <<launched, params, config, port, reader, rosVars, polling, stopped>>

\* Wrong variant: a context that ran out of work stays stopped.
NotRestarted(wasStopped) == wasStopped
Restarted(wasStopped) == FALSE

EndBatch ==
  /\ node = "up"
  /\ polling
  /\ ~BelowLimit(polled) \/ queued = <<>> \/ stopped
  /\ polling' = FALSE
  /\ polled' = 0
  /\ stopped' = Restarted(stopped \/ ~Outstanding)
  /\ UNCHANGED <<launched, node, params, config, port, reader, chain, writeVars, rosVars, queued>>

\* The node is destroyed: ~SerialDrive stops the io_context and closes the port.
Shutdown ==
  /\ Idle
  /\ node' = "shutdown"
  /\ stopped' = TRUE
  /\ port' = Closed
  /\ chain' = CloseDrive(Drive).chain
  /\ writing' = CloseDrive(Drive).writing
  /\ UNCHANGED <<launched, params, config, reader, send_bufs, settled, rosVars, polling, polled>>
  /\ Enqueue(queued)

Next ==
  \/ Construct
  \/ \E settings \in Requests : Request(settings)
  \/ SetParameters
  \/ write_to_serial
  \/ Tick
  \/ \E outcome \in {"completed", "failed"} : ReadEnds(outcome)
  \/ \E outcome \in WriteOutcomes : WriteEnds(outcome)
  \/ PollOne
  \/ EndBatch
  \/ Shutdown

Spec == Init /\ [][Next]_vars

\* The timer fires for ever, a batch goes on to its end, and a port without flow
\* control takes the bytes.  The executor serves every callback that waits before it
\* collects new ones, so that the timer does not starve the parameter service: it is
\* served if it can be again and again.
FairSpec ==
  /\ Spec
  /\ WF_vars(Construct) /\ WF_vars(Tick) /\ WF_vars(PollOne) /\ WF_vars(EndBatch)
  /\ WF_vars(\E outcome \in WriteOutcomes : WriteEnds(outcome))
  /\ SF_vars(SetParameters)

----------------------------------------------------------------------------
\* What a port and a baud can be: what parameter_callback lets pass, or what the node was
\* launched with, which nothing checks.
KnownPorts == Ports \cup {launched.port}
KnownBauds == {b \in Int : b \in Bauds \/ b = AsInt(launched.baud)}

TypeOK ==
  /\ launched \in Launched
  /\ node \in {"constructed", "up", "crashed", "terminated", "shutdown"}
  /\ params \in [port : KnownPorts, baud : Int]
  /\ config \in [port : KnownPorts, baud : KnownBauds]
  /\ port \in {Closed} \cup [open : {TRUE}, port : KnownPorts, baud : KnownBauds]
  /\ reader \in Nat
  /\ chain \in [at : Ended \cup {"reading", "completed", "aborted", "failed", "posted"}, of : 0..reader]
  /\ writing \in {"none", "piece", "completed", "aborted", "failed"} \cup Underway
  /\ send_bufs \in Seq(1..MaxWrites)
  /\ settled \subseteq 1..MaxWrites
  /\ request \in Requests \cup {<<>>}
  /\ requests \in 0..MaxRequests
  /\ writes \in 0..MaxWrites
  /\ queued \in Seq({"reader", "writer"})
  /\ polling \in BOOLEAN
  /\ polled \in 0..(PollLimit + 1)
  /\ stopped \in BOOLEAN

\* An open port runs with the settings of serial_config_, after any sequence of
\* accepted, rejected and half-applied requests, failed reopenings and fallbacks.
PortFollowsConfig == node = "up" /\ port.open => port = Open(config.port, config.baud)

\* The node and the drive share one Serial_Config (Readme.md:223), while ROS shows clients
\* the parameters.  A request leaves the drive with the settings before the first that
\* failed, in the order asked and cut to an int; ROS shows all of it if none failed, and
\* else nothing of it.  So the two part only after a rejected request for several, and by
\* its first settings.
RequestTakesEffectInOrder ==
  [][request # <<>> /\ request' = <<>> /\ node' = "up" =>
       \E k \in 0..Len(request) :
         /\ config' = Overridden(config, [i \in 1..k |-> Narrowed(request[i])])
         /\ params' = IF k = Len(request) THEN Overridden(params, request) ELSE params]_vars

\* Every frame handed over is sent or dropped, whatever reloads, failures and idle
\* periods of the io_context come between.
WriterNeverStuck ==
  \A f \in 1..MaxWrites :
    (\E i \in DOMAIN send_bufs : send_bufs[i] = f) ~> (f \in settled \/ node # "up")

\* Readme.md:156: a batch of handlers does not keep the executor from the parameter
\* callback, however fast the device sends.
ParametersServed == request # <<>> ~> (request = <<>> \/ node # "up")

\* Readme.md:46: changing port or baud at run time re-initialises the port.  So an
\* open port is being read, unless the port itself reported an error.
ReloadedPortIsRead == node = "up" /\ port.open => chain.at # "lost"

\* The comment above the post() in callSussessCallback: the queued callback may hold
\* a pointer into the buffer.  So the reader it points into is still there.
QueuedViewAlive == node = "up" /\ chain.at = "posted" => chain.of = reader
=============================================================================
