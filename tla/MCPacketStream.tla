--------------------------- MODULE MCPacketStream ---------------------------
(***************************************************************************)
(* A byte has five values, so sizes end at 24.  The longest packet sent    *)
(* has a size of 22 or 23; relayed it has one of 25, which is too much.    *)
(* What is sent in part ends within the size, or behind an empty address.  *)
(***************************************************************************)
EXTENDS PacketStream

Name(n) == [i \in 1 .. n |-> i % Base]

MCSender == Name(2)
MCReceivers == {Name(1), Name(2)}

\* An invitation, and statuses with names of several lengths.
MCFields == {<<2, <<>>>>} \cup {<<5, WriteStatus(Name(n), 1)>> : n \in {1, 9, 11}}

Player(n, status) == [name |-> Name(n), status |-> status]

MCPlayers == { <<>>, <<Player(3, 1)>>, <<Player(1, 1), Player(2, 2)>> }
=============================================================================
