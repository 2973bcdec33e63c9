------------------------------ MODULE MCSerialDrive ------------------------------
(***************************************************************************)
(* Instance of SerialDrive: requests for one setting and for two, with     *)
(* values that are valid, rejected by the callback, refused by the port    *)
(* and wider than an int.                                                  *)
(***************************************************************************)
EXTENDS SerialDrive

Baud(b) == [name |-> "baud", value |-> b]
Port(p) == [name |-> "port", value |-> p]

\* An int scaled down: just wide enough for the bauds, so that a number can exceed it.
MCIntValues == 262144

\* What the node is launched with is not checked: also a baud an int cuts to 0 (B0, which
\* opens), bauds the port refuses, no port name.
MCLaunched ==
  [port : {"A"}, baud : {MCIntValues, 12345, MCIntValues - 1}]
    \cup {[port |-> "", baud |-> 115200]}
MCUnsupported == {12345, -1}

MCRequests ==
  { <<Baud(9600)>>, <<Baud(12345)>>, <<Baud(0)>>,
    <<Baud(MCIntValues + 9600)>>, <<Baud(MCIntValues - 1)>>,
    <<Port("B")>>, <<Port("")>>,
    <<Baud(9600), Port("B")>>, <<Baud(9600), Port("")>> }
=============================================================================
