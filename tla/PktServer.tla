------------------------------ MODULE PktServer ------------------------------
(***************************************************************************)
(* The packet server of PktTcpServerClient (TcpServer.h, TicTacServer.h)   *)
(* between TCP connections whose far ends are arbitrary clients.           *)
(*                                                                         *)
(* As in EasyServer the server is one thread running an io_context, one    *)
(* handler is one action, and a connection is used once.  Packets carry    *)
(* their length, so no two are ever taken for one; PacketStream models     *)
(* their bytes, here a packet is a record.                                 *)
(***************************************************************************)
EXTENDS Naturals, Sequences, FiniteSets

CONSTANTS
    Conns,      \* TCP connections, one session object each
    NoConn,     \* "no entry" in m_playerStatusMap
    Names,      \* the non-empty player names clients use
    NoName,     \* the empty string: the server's own address, and "unnamed"
    SendBuf,    \* packets the kernel takes for a far end that does not read
    QueueBound  \* bound on the packets in flight to the server, per connection

ASSUME NoConnAssumption == NoConn \notin Conns
ASSUME NoNameAssumption == NoName \notin Names
ASSUME SendBufAssumption == SendBuf \in Nat \ {0}
ASSUME QueueBoundAssumption == QueueBound \in Nat

PlainNames == Names \cup {NoName}

\* What a player may send to another, which the server does not look into:
\* the server's own answers too ("exists", "list"), what the receiver's
\* PacketReader throws at ("broken"), and what does not fit the uint16_t that
\* createEnvelope2 writes for its size, under the sender's name ("huge").
Bodies == {"invite", "other", "exists", "list", "broken", "huge"}

\* "envelope": addressed to the player name.  The others are addressed to the
\* server: "hi" gives a name; "other" is of a type the server ignores;
\* "short" ends before the fields it should have.  `names` is what a "list" has.
Packets == [kind : {"envelope", "hi", "other", "short"},
            name : PlainNames, body : Bodies, names : SUBSET Names]

Packet(k, n, b) == [kind |-> k, name |-> n, body |-> b, names |-> {}]

\* "torn": not as many bytes as its size field says, so where it ends, and
\* what follows it, is not what it seems.
Envelopes == [from : PlainNames, body : Bodies \cup {"torn"}, names : SUBSET Names]

Envelope(n, b) == [from |-> n, body |-> b, names |-> {}]

Torn == Envelope(NoName, "torn")

VARIABLES
    up,         \* the server process runs
    accepting,  \* an async_accept is outstanding
    peer,       \* the far end of a connection: "idle", "up" or "down"
    accepted,   \* the session object of the connection has been created
    playerName, \* m_playerName of the session
    reading,    \* an async_read of the session is outstanding
    sending,    \* a completion handler of a write still holds the session
    statusMap,  \* m_playerStatusMap: the session of a name, or NoConn
    toServer,   \* packets sent and not read yet
    toClient    \* envelopes written and not read by the far end yet

vars == <<up, accepting, peer, accepted, playerName, reading, sending,
          statusMap, toServer, toClient>>

TypeOK ==
    /\ up \in BOOLEAN
    /\ accepting \in BOOLEAN
    /\ peer \in [Conns -> {"idle", "up", "down"}]
    /\ accepted \in [Conns -> BOOLEAN]
    /\ playerName \in [Conns -> PlainNames]
    /\ reading \in [Conns -> BOOLEAN]
    /\ sending \in [Conns -> BOOLEAN]
    /\ statusMap \in [Names -> Conns \cup {NoConn}]
    /\ toServer \in [Conns -> Seq(Packets)]
    /\ toClient \in [Conns -> Seq(Envelopes)]

Init ==
    /\ up = TRUE
    /\ accepting = TRUE
    /\ peer = [c \in Conns |-> "idle"]
    /\ accepted = [c \in Conns |-> FALSE]
    /\ playerName = [c \in Conns |-> NoName]
    /\ reading = [c \in Conns |-> FALSE]
    /\ sending = [c \in Conns |-> FALSE]
    /\ statusMap = [n \in Names |-> NoConn]
    /\ toServer = [c \in Conns |-> <<>>]
    /\ toClient = [c \in Conns |-> <<>>]

-----------------------------------------------------------------------------
(***************************************************************************)
(* Writing.  The packet is on the heap until the send completes, so it is  *)
(* never replaced as in EasyServer; but async_send is done when it has     *)
(* sent anything at all, so a packet the kernel has no room for may go out *)
(* in part.  Nothing reaches a far end that is gone.                       *)
(***************************************************************************)
Write(c, m) ==
    /\ sending' = [sending EXCEPT ![c] = TRUE]
    /\ \E sent \in {m} \cup IF Len(toClient[c]) >= SendBuf THEN {Torn} ELSE {} :
         toClient' = IF peer[c] = "up"
                     THEN [toClient EXCEPT ![c] = Append(@, sent)]
                     ELSE toClient

Silent == UNCHANGED <<sending, toClient>>

\* A session exists while a pending operation holds a shared_ptr to it.
Alive(c) == reading[c] \/ sending[c]

Exists(n) == statusMap[n] # NoConn

-----------------------------------------------------------------------------
(* The acceptor: the server does not greet, it waits for a packet. *)

Accept(c) ==
    /\ up /\ accepting
    /\ peer[c] # "idle" /\ ~accepted[c]
    /\ accepted' = [accepted EXCEPT ![c] = TRUE]
    /\ reading' = [reading EXCEPT ![c] = TRUE]
    /\ UNCHANGED <<up, accepting, peer, playerName, statusMap, toServer>>
    /\ Silent

\* The error branch logs and does not call asyncAccept again.
AcceptError ==
    /\ up /\ accepting
    /\ accepting' = FALSE
    /\ UNCHANGED <<up, peer, accepted, playerName, reading, statusMap, toServer>>
    /\ Silent

-----------------------------------------------------------------------------
(* The handlers of a session: onPacketReceived, by address and type. *)

\* Faulty: the value of each entry in place of its key.
SessionsOfPlayers == {statusMap[n] : n \in {m \in Names : Exists(m)}}

Players == {n \in Names : Exists(n)}

\* Faulty: the name is registered whether it exists or not.
RegisterAnyway(c, p) ==
    /\ p.kind = "hi" /\ p.name # NoName /\ playerName[c] = NoName
    /\ playerName' = [playerName EXCEPT ![c] = p.name]
    /\ statusMap' = [statusMap EXCEPT ![p.name] = c]
    /\ Write(c, [Envelope(NoName, "list") EXCEPT !.names = Players])
    /\ UNCHANGED up

\* Faulty: the list is made after the registration.
RegisterFirst(c, p) ==
    /\ p.kind = "hi" /\ p.name # NoName
    /\ playerName[c] = NoName /\ ~Exists(p.name)
    /\ playerName' = [playerName EXCEPT ![c] = p.name]
    /\ statusMap' = [statusMap EXCEPT ![p.name] = c]
    /\ Write(c, [Envelope(NoName, "list") EXCEPT !.names = Players \cup {p.name}])
    /\ UNCHANGED up

\* The list is that of the players before this one.
Register(c, p) ==
    /\ p.kind = "hi" /\ p.name # NoName
    /\ playerName[c] = NoName /\ ~Exists(p.name)
    /\ playerName' = [playerName EXCEPT ![c] = p.name]
    /\ statusMap' = [statusMap EXCEPT ![p.name] = c]
    /\ Write(c, [Envelope(NoName, "list") EXCEPT !.names = Players])
    /\ UNCHANGED up

\* Faulty: the name is not kept, so the client may try again.
RefuseAndForget(c, p) ==
    /\ p.kind = "hi" /\ p.name # NoName
    /\ playerName[c] = NoName /\ Exists(p.name)
    /\ Write(c, Envelope(NoName, "exists"))
    /\ UNCHANGED <<up, playerName, statusMap>>

\* Faulty: the refusal is not sent.
RefuseSilently(c, p) ==
    /\ p.kind = "hi" /\ p.name # NoName
    /\ playerName[c] = NoName /\ Exists(p.name)
    /\ playerName' = [playerName EXCEPT ![c] = p.name]
    /\ UNCHANGED <<up, statusMap>>
    /\ Silent

\* m_playerName was read from the packet before the name was looked up, and
\* the result of onPacketReceived is not looked at: the session goes on.
RefuseName(c, p) ==
    /\ p.kind = "hi" /\ p.name # NoName
    /\ playerName[c] = NoName /\ Exists(p.name)
    /\ playerName' = [playerName EXCEPT ![c] = p.name]
    /\ Write(c, Envelope(NoName, "exists"))
    /\ UNCHANGED <<up, statusMap>>

\* createEnvelope2: the bytes behind the address are copied behind the name n.
Readdressed(n, p) ==
    IF p.body = "huge" THEN Torn ELSE [Envelope(n, p.body) EXCEPT !.names = p.names]

\* Faulty: the envelope names its receiver.
RelayAsReceiver(c, p) ==
    /\ p.kind = "envelope" /\ p.name # NoName
    /\ Exists(p.name) /\ Alive(statusMap[p.name])
    /\ Write(statusMap[p.name], Readdressed(p.name, p))
    /\ UNCHANGED <<up, playerName, statusMap>>

\* sendEnvelopTo: createEnvelope2 puts m_playerName where the address was.  A
\* session without one puts the empty name, by which clients know the server.
Relay(c, p) ==
    /\ p.kind = "envelope" /\ p.name # NoName
    /\ Exists(p.name) /\ Alive(statusMap[p.name])
    /\ Write(statusMap[p.name], Readdressed(playerName[c], p))
    /\ UNCHANGED <<up, playerName, statusMap>>

\* There is no such player, or its session is gone: nobody is told.
Undeliverable(p) ==
    /\ p.kind = "envelope" /\ p.name # NoName
    /\ Exists(p.name) => ~Alive(statusMap[p.name])

\* A Hi without a name, or of a session that has one, changes nothing.
NotForServer(c, p) ==
    \/ p.kind = "other"
    \/ p.kind = "envelope" /\ p.name = NoName
    \/ p.kind = "hi" /\ (p.name = NoName \/ playerName[c] # NoName)

Ignore(c, p) ==
    /\ Undeliverable(p) \/ NotForServer(c, p)
    /\ UNCHANGED <<up, playerName, statusMap>>
    /\ Silent

\* PacketReader throws; nothing between it and the thread's function catches.
Throw(p) ==
    /\ p.kind = "short"
    /\ up' = FALSE
    /\ UNCHANGED <<playerName, statusMap>>
    /\ Silent

\* Header and data of one packet have been read; the next is read whatever
\* became of this one.
Handle(c) ==
    /\ up /\ reading[c]
    /\ toServer[c] # <<>>
    /\ toServer' = [toServer EXCEPT ![c] = Tail(@)]
    /\ LET p == Head(toServer[c])
       IN  \/ Register(c, p) \/ RefuseName(c, p) \/ Relay(c, p)
           \/ Ignore(c, p) \/ Throw(p)
    /\ UNCHANGED <<accepting, peer, accepted, reading>>

\* Faulty: the name of the session is forgotten with its connection.
ReadErrorForgets(c) ==
    /\ up /\ reading[c]
    /\ peer[c] = "down" /\ toServer[c] = <<>>
    /\ reading' = [reading EXCEPT ![c] = FALSE]
    /\ statusMap' = [n \in Names |-> IF n = playerName[c] THEN NoConn
                                     ELSE statusMap[n]]
    /\ UNCHANGED <<up, accepting, peer, accepted, playerName, toServer>>
    /\ Silent

\* Faulty: the session forgets its name, the map does not.
ReadErrorUnnames(c) ==
    /\ up /\ reading[c]
    /\ peer[c] = "down" /\ toServer[c] = <<>>
    /\ reading' = [reading EXCEPT ![c] = FALSE]
    /\ playerName' = [playerName EXCEPT ![c] = NoName]
    /\ UNCHANGED <<up, accepting, peer, accepted, statusMap, toServer>>
    /\ Silent

\* The read fails.  Nothing is told: onDisconnect and forgotPlayer have no
\* caller, so the name stays taken.
ReadError(c) ==
    /\ up /\ reading[c]
    /\ peer[c] = "down" /\ toServer[c] = <<>>
    /\ reading' = [reading EXCEPT ![c] = FALSE]
    /\ UNCHANGED <<up, accepting, peer, accepted, playerName, statusMap, toServer>>
    /\ Silent

\* The last of the write completions queued for c has run.
SendsDone(c) ==
    /\ up /\ sending[c]
    /\ peer[c] = "up" => Len(toClient[c]) <= SendBuf
    /\ sending' = [sending EXCEPT ![c] = FALSE]
    /\ UNCHANGED <<up, accepting, peer, accepted, playerName, reading,
                   statusMap, toServer, toClient>>

ServerNext ==
    \/ AcceptError
    \/ \E c \in Conns : Accept(c) \/ Handle(c) \/ ReadError(c) \/ SendsDone(c)

-----------------------------------------------------------------------------
(* The far ends: any client of the protocol. *)

serverVars == <<up, accepting, accepted, playerName, reading, sending, statusMap>>

Connect(c) ==
    /\ peer[c] = "idle"
    /\ peer' = [peer EXCEPT ![c] = "up"]
    /\ UNCHANGED <<serverVars, toServer, toClient>>

ClientSend(c, p) ==
    /\ peer[c] = "up"
    /\ Len(toServer[c]) < QueueBound
    /\ toServer' = [toServer EXCEPT ![c] = Append(@, p)]
    /\ UNCHANGED <<serverVars, peer, toClient>>

ClientReceive(c) ==
    /\ peer[c] = "up" /\ toClient[c] # <<>>
    /\ toClient' = [toClient EXCEPT ![c] = Tail(@)]
    /\ UNCHANGED <<serverVars, peer, toServer>>

\* The connection ends; what was still on its way may be lost.
Disconnect(c) ==
    /\ peer[c] = "up"
    /\ peer' = [peer EXCEPT ![c] = "down"]
    /\ \E k \in 0 .. Len(toServer[c]) :
         toServer' = [toServer EXCEPT ![c] = SubSeq(@, 1, k)]
    /\ toClient' = [toClient EXCEPT ![c] = <<>>]
    /\ UNCHANGED serverVars

EnvNext ==
    \E c \in Conns :
        \/ Connect(c)
        \/ \E p \in Packets : ClientSend(c, p)
        \/ ClientReceive(c)
        \/ Disconnect(c)

Next == ServerNext \/ EnvNext

\* The io_context runs every handler that is ready; the clients are free.
Fairness ==
    \A c \in Conns : /\ WF_vars(Accept(c))
                     /\ WF_vars(Handle(c))
                     /\ WF_vars(ReadError(c))
                     /\ WF_vars(SendsDone(c))

Spec == Init /\ [][Next]_vars /\ Fairness

-----------------------------------------------------------------------------
(***************************************************************************)
(* Names.                                                                  *)
(***************************************************************************)

(* m_playerStatusMap and m_playerName agree: the session of an entry goes  *)
(* by the name of that entry, so it has no other, and what it sends to     *)
(* other players reaches them under the name they can answer to.           *)
MapAgrees ==
    \A n \in Names : Exists(n) => playerName[statusMap[n]] = n

(* A session whose name is not its own in the map, a refused one, goes by  *)
(* a name that is another's: no name is carried that nobody owns.  A       *)
(* refused session may still write under the name; that it belongs to      *)
(* somebody is what keeps anyone from being registered under it later.     *)
CarriedNameExists ==
    \A c \in Conns : playerName[c] # NoName => Exists(playerName[c])

(* A name once registered is that session's for good, connection or none   *)
(* (forgotPlayer is never called): whoever comes back under it is refused. *)
NamesForever ==
    [][\A n \in Names : Exists(n) => statusMap'[n] = statusMap[n]]_vars

\* This step handles what a session that has given no name sends a player.
NamelessRelay ==
    \E d \in Conns : /\ playerName[d] = NoName
                     /\ toServer[d] # <<>> /\ Head(toServer[d]).kind = "envelope"
                     /\ toServer'[d] = Tail(toServer[d])

(* Hi has one answer: what a client takes for a list or a refusal of the   *)
(* server's goes to it in the step that names its session, so never twice  *)
(* and never both, unless it is the relay of somebody who has no name.     *)
AnsweredOnce ==
    [][\A c \in Conns : \A i \in Len(toClient[c]) + 1 .. Len(toClient'[c]) :
          toClient'[c][i].from = NoName /\ toClient'[c][i].body \in {"exists", "list"} =>
              \/ playerName[c] = NoName /\ playerName'[c] # NoName
              \/ NamelessRelay]_vars

(***************************************************************************)
(* The server keeps the promise of NameRegistry in its own way: nothing is *)
(* ever given back.                                                        *)
(***************************************************************************)
Registry == INSTANCE NameRegistry
    WITH AllNames <- Names,
         owner <- statusMap,
         phase <- [c \in Conns |-> IF ~accepted[c] THEN "new"
                                   ELSE IF reading[c] THEN "live"
                                   ELSE "gone"]

(* The steps of the packet server are steps of the registry.               *)
RegistrySpec == Registry!RSpec
=============================================================================
