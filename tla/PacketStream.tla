---------------------------- MODULE PacketStream ----------------------------
(***************************************************************************)
(* The bytes of packets on their way from a player called Sender through   *)
(* its session in the server to another player, who has just been sent the *)
(* list of players.  async_read completes when it has all the bytes it was *)
(* asked for, so how TCP splits the stream makes no difference; what the   *)
(* server does not send at all does.                                       *)
(***************************************************************************)
EXTENDS PacketCodec, SequencesExt

CONSTANTS
    Sender,         \* the name of the player who sends
    Receivers,      \* the names the other player may go by
    Fields,         \* <<type, fields>> of the packets sent
    Players,        \* the lists of players the other may have been sent
    SptPlayerList,  \* the type of such a list
    MaxSent,        \* bound on the packets sent
    Cuts            \* how many bytes of a packet the server may send, and no more

ASSUME SenderAssumption == Sender \in Seq(Byte) \ {<<>>}
ASSUME ReceiversAssumption == Receivers \subseteq Seq(Byte) \ {<<>>}
ASSUME FieldsAssumption ==
    \A f \in Fields : f[1] \in 0 .. MaxNumber /\ f[2] \in Seq(Byte)
\* PacketWriter asserts it of a list too.
ASSUME PlayersAssumption ==
    \A list \in Players :
        /\ list \in Seq([name : Seq(Byte), status : 0 .. MaxNumber])
        /\ Len(Envelope(<<>>, SptPlayerList, WritePlayers(list))) <= MaxNumber
ASSUME TypeAssumption == SptPlayerList \in 0 .. MaxNumber
ASSUME MaxSentAssumption == MaxSent \in Nat
ASSUME CutsAssumption == Cuts \subseteq Nat \ {0}

VARIABLES
    receiver,   \* the name of the player the packets are for
    players,    \* the list it was sent
    sent,       \* what has been sent to it since
    toServer,   \* the bytes on their way to the server
    session,    \* the session of the sender: next read, m_dataLength, m_packetData
    toReceiver, \* the bytes on their way to the other player
    client,     \* the TcpClient of that player, and the size of m_packetData
    got,        \* what its onPacketReceived has been given
    oversized,  \* a relayed packet was longer than its size field can say
    torn        \* the server has sent less than a whole packet

serverVars == <<toServer, session>>
clientVars == <<toReceiver, client, got>>
damage == <<oversized, torn>>
vars == <<receiver, players, sent, serverVars, clientVars, damage>>

\* "down": a read has thrown, or refuses to go on.
Next2Read == {"header", "data", "down"}

TypeOK ==
    /\ receiver \in Receivers
    /\ players \in Players
    /\ sent \in Seq(Fields)
    /\ toServer \in Seq(Byte)
    /\ session \in [need : Next2Read, length : 0 .. MaxNumber, data : Seq(Byte)]
    /\ toReceiver \in Seq(Byte)
    /\ client \in [need : Next2Read, length : 0 .. MaxNumber, size : Nat]
    /\ oversized \in BOOLEAN
    /\ torn \in BOOLEAN

First(s, n) == SubSeq(s, 1, n)
Rest(s, n) == SubSeq(s, n + 1, Len(s))

\* async_send completes as soon as it has sent anything, and nobody sends the
\* rest.  (The clients write with async_write, which sends all.)
Written(packet) == {packet} \cup {First(packet, k) : k \in {j \in Cuts : j < Len(packet)}}

Init ==
    /\ receiver \in Receivers
    /\ players \in Players
    /\ sent = <<>>
    /\ toServer = <<>>
    /\ session = [need |-> "header", length |-> 0, data |-> <<>>]
    /\ LET list == Envelope(<<>>, SptPlayerList, WritePlayers(players))
       IN  /\ toReceiver \in Written(list)
           /\ torn = (toReceiver # list)
    /\ client = [need |-> "header", length |-> 0, size |-> 0]
    /\ got = <<>>
    /\ oversized = FALSE

-----------------------------------------------------------------------------
\* sendPacketTo of the sending player.  PacketWriter asserts that the packet
\* is not too large; so large a one is never sent.
SendPacket(f) ==
    LET packet == Envelope(receiver, f[1], f[2])
    IN  /\ Len(sent) < MaxSent
        /\ Len(packet) <= MaxNumber
        /\ sent' = Append(sent, f)
        /\ toServer' = toServer \o packet
        /\ UNCHANGED <<receiver, players, session, clientVars, damage>>

\* vector::resize keeps what is there; what it adds is zero.
Resized(data, n) == [i \in 1 .. n |-> IF i <= Len(data) THEN data[i] ELSE 0]

\* doReadPacketHeader.  The buffer has room for the whole packet, though the
\* two bytes of its size have been read; its last two bytes stay as they are.
ServerHeader ==
    /\ session.need = "header"
    /\ \E n \in ReadNumber(toServer, 1) :
         session' = [need |-> "data", length |-> n.val,
                     data |-> Resized(session.data, n.val)]
    /\ toServer' = Rest(toServer, 2)
    /\ UNCHANGED <<receiver, players, sent, clientVars, damage>>

\* readPacketData and onPacketReceived of a packet for another player: it is
\* sent on from where its address ends, with the sender in its place.
ServerData ==
    LET length == session.length - 2
        data   == First(toServer, length) \o Rest(session.data, length)
        names  == {n.val : n \in ReadString(data, 1)}
        packet(name) == Envelope2(Sender, data, StringSize(name))
    IN  /\ session.need = "data" /\ Len(toServer) >= length
        /\ toServer' = Rest(toServer, length)
        /\ session' = [session EXCEPT !.data = data,
                          !.need = IF names = {} THEN "down" ELSE "header"]
        /\ IF receiver \in names
           THEN \E part \in Written(packet(receiver)) :
                /\ toReceiver' = toReceiver \o part
                /\ oversized' = (oversized \/ Len(packet(receiver)) > MaxNumber)
                /\ torn' = (torn \/ part # packet(receiver))
           ELSE UNCHANGED <<toReceiver, damage>>
        /\ UNCHANGED <<receiver, players, sent, client, got>>

\* onReadPacketHeader: m_dataLength becomes that of the tail, and the buffer
\* two bytes smaller than that.
ClientHeader ==
    /\ client.need = "header"
    /\ \E n \in ReadNumber(toReceiver, 1) :
         LET tail == Uint16(n.val - 2)
         IN  client' = IF tail < 2
                       THEN [client EXCEPT !.need = "down", !.length = tail]
                       ELSE [need |-> "data", length |-> tail, size |-> tail - 2]
    /\ toReceiver' = Rest(toReceiver, 2)
    /\ UNCHANGED <<receiver, players, sent, serverVars, got, damage>>

\* What onPacketReceived sees: a list, or the name and the type of a packet
\* of another player, whose fields are left unread.
Understood(data) ==
    LET From(name, type) ==
          IF name.val = <<>> /\ type.val = SptPlayerList
          THEN {list.val : list \in ReadPlayers(data, type.next)}
          ELSE {<<name.val, type.val, Rest(data, type.next - 1)>>}
    IN  UNION { UNION { From(name, type) : type \in ReadNumber(data, name.next) } :
                name \in ReadString(data, 1) }

ClientData ==
    LET seen == Understood(First(toReceiver, client.length))
    IN  /\ client.need = "data" /\ Len(toReceiver) >= client.length
        /\ toReceiver' = Rest(toReceiver, client.length)
        /\ client' = [client EXCEPT
                        !.need = IF seen = {} THEN "down" ELSE "header"]
        /\ IF seen = {} THEN UNCHANGED got
           ELSE \E packet \in seen : got' = Append(got, packet)
        /\ UNCHANGED <<receiver, players, sent, serverVars, damage>>

Next ==
    \/ \E f \in Fields : SendPacket(f)
    \/ ServerHeader \/ ServerData
    \/ ClientHeader \/ ClientData

\* Reads that can complete do: io_context runs their handlers.
Fairness ==
    /\ WF_vars(ServerHeader) /\ WF_vars(ServerData)
    /\ WF_vars(ClientHeader) /\ WF_vars(ClientData)

Spec == Init /\ [][Next]_vars /\ Fairness

-----------------------------------------------------------------------------
\* Every packet the server has sent was sent whole, and had the size it says.
Intact == ~oversized /\ ~torn

(* What the receiver understands is what was sent, in order: the list as   *)
(* written, then each packet under the sender's name with its type and its *)
(* fields.  More may follow the fields: the two bytes ServerHeader adds.   *)
RelayFaithful ==
    Intact =>
        \A i \in DOMAIN got :
            IF i = 1 THEN got[i] = players
            ELSE /\ got[i][1] = Sender
                 /\ got[i][2] = sent[i - 1][1]
                 /\ IsPrefix(sent[i - 1][2], got[i][3])

(* No read throws on what PacketWriter wrote, whatever bytes of an earlier *)
(* packet m_packetData still holds; in the server's session never, in the  *)
(* receiver as long as its stream is intact.                               *)
NothingThrown ==
    session.need # "down" /\ (Intact => client.need # "down")

(* Every packet is understood in the end, unless the server sent one in    *)
(* part or with a wrong size: no reader waits for bytes that a size        *)
(* announced and nobody wrote.                                             *)
AllDelivered == <>[](~Intact \/ Len(got) = 1 + Len(sent))

(* "tail lenght is packet_len-2" (TcpClient.h): the buffer has room for    *)
(* the tail that is read into it.                                          *)
TailFits == client.need = "data" => client.length <= client.size

-----------------------------------------------------------------------------
\* The list and the packets as one sequence of messages.
Entrusted ==
    <<players>> \o [i \in DOMAIN sent |-> <<Sender, sent[i][1], sent[i][2]>>]

\* What has been understood, without the bytes behind the fields of a packet.
Received ==
    [i \in DOMAIN got |->
        IF i = 1 THEN got[i] ELSE <<got[i][1], got[i][2], First(got[i][3], Len(sent[i - 1][2]))>>]

Channel == INSTANCE FifoChannel
    WITH Messages <- {<<Sender, f[1], f[2]>> : f \in Fields},
         Greetings <- Players,
         entrusted <- IF Intact THEN Entrusted ELSE <<>>,
         received <- IF Intact THEN Received ELSE <<>>,
         broken <- ~Intact

(* The readers and the server make a channel of the stream: each read of   *)
(* the receiver completes at most the next message, none is lost, doubled  *)
(* or changed, and only what the server sends in part, or relays though it *)
(* is too large for its size field, ends that.                             *)
ChannelSpec == Channel!CSpec
=============================================================================
