-------------------------------- MODULE MCFraming --------------------------------
(***************************************************************************)
(* Instance of Framing: topic ids and bytes at the boundaries of their     *)
(* types, payload sizes at the boundaries of the 16-bit length.            *)
(***************************************************************************)
EXTENDS Framing

MCTopics == {0, 1, 125, 255, 256, 65535}
MCNoise == {0, 1, 128, 254, 255}

Heads == {<<>>} \cup [1..1 -> MCNoise] \cup [1..2 -> MCNoise]
Tails == {0, 255, 65525, 65526, 65533, 65535, 65536}

MCPayloads == [bytes : Heads, zeros : Tails]
=============================================================================
