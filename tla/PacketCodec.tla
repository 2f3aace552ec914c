----------------------------- MODULE PacketCodec -----------------------------
(***************************************************************************)
(* The bytes of a packet of PktTcpServerClient (TicTacPacketUtils.h,       *)
(* TicTacClientPackets.h): what PacketWriter writes, what PacketReader     *)
(* makes of it, and the envelopes built of both.  A byte is a number below *)
(* Base, which is 256 in the code and smaller where TLC looks for what     *)
(* happens near the end of a uint16_t.                                     *)
(*                                                                         *)
(*   size of all (2) | length of name (2) | name | type (2) | fields       *)
(*                                                                         *)
(* The name is the player the packet is for or, from the server, the one   *)
(* it is from.                                                             *)
(***************************************************************************)
EXTENDS Integers, Sequences

CONSTANT Base

ASSUME BaseAssumption == Base \in Nat /\ Base > 1

Byte == 0 .. Base - 1

\* What a uint16_t holds, and what a larger number is cast to.
MaxNumber == Base * Base - 1
Uint16(n) == n % (Base * Base)

-----------------------------------------------------------------------------
(* PacketWriter and PacketSize. *)

\* Faulty: the number is not cast before it is taken apart.
WriteWideNumber(n) == <<n % Base, n \div Base>>

\* Least significant byte first.
WriteNumber(n) == <<Uint16(n) % Base, Uint16(n) \div Base>>

\* Faulty: the length counts the terminator of the C string.
WriteCString(s) == WriteNumber(Len(s) + 1) \o s

WriteString(s) == WriteNumber(Len(s)) \o s

\* Faulty: the two bytes of the length are forgotten.
BareSize(s) == Len(s)

StringSize(s) == Len(s) + 2

WriteStatus(name, status) == WriteString(name) \o WriteNumber(status)

WritePlayers(players) ==
    LET write[i \in 0 .. Len(players)] ==
          IF i = 0 THEN WriteNumber(Len(players))
          ELSE write[i - 1] \o WriteStatus(players[i].name, players[i].status)
    IN  write[Len(players)]

\* What follows the size of a packet.
Content(name, type, fields) == WriteString(name) \o WriteNumber(type) \o fields

\* createEnvelope.
Envelope(name, type, fields) ==
    LET size == 2 + StringSize(name) + 2 + Len(fields)
    IN  WriteNumber(size) \o Content(name, type, fields)

\* Faulty: the name that is replaced is still counted.
Envelope2Long(name, data, offset) ==
    WriteNumber(2 + StringSize(name) + Len(data))
        \o WriteString(name) \o SubSeq(data, offset + 1, Len(data))

\* createEnvelope2: data from offset on, under another name.
Envelope2(name, data, offset) ==
    LET size == 2 + StringSize(name) + Len(data) - offset
    IN  WriteNumber(size) \o WriteString(name)
            \o SubSeq(data, offset + 1, Len(data))

-----------------------------------------------------------------------------
(* PacketReader.  What a read finds at a position of the buffer is a set:  *)
(* one result, with the position that follows it, or none where the read   *)
(* runs past the end and throws.                                           *)

Result(v, at) == [val |-> v, next |-> at]

ReadNumber(buf, at) ==
    IF at + 1 > Len(buf) THEN {}
    ELSE {Result(buf[at] + Base * buf[at + 1], at + 2)}

ReadString(buf, at) ==
    { Result(SubSeq(buf, n.next, n.next + n.val - 1), n.next + n.val) :
        n \in {m \in ReadNumber(buf, at) : m.next + m.val - 1 <= Len(buf)} }

ReadStatus(buf, at) ==
    UNION { { Result([name |-> name.val, status |-> status.val], status.next) :
                status \in ReadNumber(buf, name.next) } :
            name \in ReadString(buf, at) }

ReadPlayers(buf, at) ==
    LET More(before) ==
          { Result(Append(before.val, player.val), player.next) :
              player \in ReadStatus(buf, before.next) }
        Count(n) ==
          LET read[i \in 0 .. n.val] ==
                IF i = 0 THEN {Result(<<>>, n.next)}
                ELSE UNION {More(before) : before \in read[i - 1]}
          IN  read[n.val]
    IN  UNION {Count(n) : n \in ReadNumber(buf, at)}
=============================================================================
