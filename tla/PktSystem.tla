------------------------------ MODULE PktSystem ------------------------------
(***************************************************************************)
(* The packet server with its test clients (DbgUiClient, Client and        *)
(* TcpClient), as main.cpp runs them, and perhaps other clients beside.    *)
(*                                                                         *)
(* A test client is one thread running an io_context of its own: it says   *)
(* Hi when connected, and invites the last player of the list it is sent.  *)
(***************************************************************************)
EXTENDS PktServer

CONSTANTS
    Testers,    \* the connections of test clients; the others are open
    MyName,     \* the name given to each test client
    NameOrder,  \* Names in the order std::map keeps them
    Leavers     \* the test clients whose process may end

ASSUME TestersAssumption == Testers \subseteq Conns
ASSUME MyNameAssumption == MyName \in [Testers -> Names]
ASSUME NameOrderAssumption == NameOrder \in [1 .. Cardinality(Names) -> Names]
ASSUME LeaversAssumption == Leavers \subseteq Testers

VARIABLES
    phase,      \* "start", "waiting" for the answer to Hi, "answered", or
                \* "misled" by what somebody without a name sent as a list
    toInvite,   \* the player invited, NoName before and when there is none
    heard,      \* the players whose invitations have been logged
    lost        \* the client is no longer at the start of a packet, or has
                \* thrown and reads no more

clientVars == <<phase, toInvite, heard, lost>>

sysVars == <<vars, clientVars>>

SysInit ==
    /\ Init
    /\ phase = [c \in Testers |-> "start"]
    /\ toInvite = [c \in Testers |-> NoName]
    /\ heard = [c \in Testers |-> {}]
    /\ lost = [c \in Testers |-> FALSE]

-----------------------------------------------------------------------------
\* onConnect.  The write is asynchronous and of the whole packet.
SayHi(c) ==
    /\ peer[c] = "up" /\ phase[c] = "start"
    /\ phase' = [phase EXCEPT ![c] = "waiting"]
    /\ ClientSend(c, Packet("hi", MyName[c], "other"))
    /\ UNCHANGED <<toInvite, heard, lost>>

\* The client has read a whole envelope, header and data, from n.
Gets(c, n, b) ==
    /\ phase[c] # "start" /\ ~lost[c]
    /\ toClient[c] # <<>>
    /\ Head(toClient[c]).from = n /\ Head(toClient[c]).body = b

\* The last player of the list, in map order; all are cst_accesible.
LastOf(S) ==
    { NameOrder[i] : i \in {j \in DOMAIN NameOrder :
        /\ NameOrder[j] \in S
        /\ \A k \in j + 1 .. Len(NameOrder) : NameOrder[k] \notin S} }

\* onPlayerListReceived with players on the list: receive, and send.  Only to
\* a client that is registered is anything relayed, so the first list is the
\* server's and in map order; any other is somebody's, and in any order.
OnList(c) ==
    /\ Gets(c, NoName, "list")
    /\ phase' = [phase EXCEPT ![c] = IF @ = "waiting" THEN "answered" ELSE "misled"]
    /\ Len(toServer[c]) < QueueBound
    /\ \E n \in IF phase[c] = "waiting" THEN LastOf(Head(toClient[c]).names)
               ELSE Head(toClient[c]).names :
         /\ toInvite' = [toInvite EXCEPT ![c] = n]
         /\ toServer' = [toServer EXCEPT
              ![c] = Append(@, Packet("envelope", n, "invite"))]
    /\ toClient' = [toClient EXCEPT ![c] = Tail(@)]
    /\ peer[c] = "up"
    /\ UNCHANGED <<serverVars, peer, heard, lost>>

\* Nobody else is there, or the name is taken: the client does nothing.
OnAnswer(c) ==
    /\ \/ Gets(c, NoName, "exists")
       \/ Gets(c, NoName, "list") /\ Head(toClient[c]).names = {}
    /\ phase' = [phase EXCEPT ![c] = IF @ = "waiting" THEN "answered" ELSE @]
    /\ ClientReceive(c)
    /\ UNCHANGED <<toInvite, heard, lost>>

OnInvite(c) ==
    \E n \in Names :
        /\ Gets(c, n, "invite")
        /\ heard' = [heard EXCEPT ![c] = @ \cup {n}]
        /\ ClientReceive(c)
        /\ UNCHANGED <<phase, toInvite, lost>>

\* Of the types of its two switches a client looks for one where the name is
\* empty, and for the other where it is not; it ignores the rest.
OnOther(c) ==
    /\ \/ \E n \in PlainNames : Gets(c, n, "other")
       \/ Gets(c, NoName, "invite")
       \/ \E n \in Names : Gets(c, n, "exists") \/ Gets(c, n, "list")
    /\ ClientReceive(c)
    /\ UNCHANGED clientVars

\* From a packet that is not whole on, lengths are read where none are; what
\* the reader throws at ends run(), which catches it and returns.
OnTorn(c) ==
    /\ \/ Gets(c, NoName, "torn")
       \/ \E n \in PlainNames : Gets(c, n, "broken")
    /\ lost' = [lost EXCEPT ![c] = TRUE]
    /\ ClientReceive(c)
    /\ UNCHANGED <<phase, toInvite, heard>>

Reading(c) ==
    OnList(c) \/ OnAnswer(c) \/ OnInvite(c) \/ OnOther(c) \/ OnTorn(c)

\* What a client that lost its place may find in the bytes it goes on reading:
\* anybody's invitation, or a list with anybody on it.
Finds(c) ==
    /\ lost[c] /\ peer[c] = "up" /\ toClient[c] # <<>>
    /\ \E n \in Names :
          \/ /\ heard' = [heard EXCEPT ![c] = @ \cup {n}]
             /\ UNCHANGED <<vars, phase, toInvite, lost>>
          \/ /\ toInvite' = [toInvite EXCEPT ![c] = n]
             /\ ClientSend(c, Packet("envelope", n, "invite"))
             /\ UNCHANGED <<phase, heard, lost>>

\* Or it reads past a packet.
PassesOver(c) ==
    /\ lost[c]
    /\ ClientReceive(c)
    /\ UNCHANGED clientVars

Start(c) == Connect(c) /\ UNCHANGED clientVars

\* The process is killed, or ends because onReadPacketHeader made the buffer
\* two bytes too small for what is read into it (see PacketStream).
Die(c) ==
    /\ c \in Leavers
    /\ Disconnect(c)
    /\ UNCHANGED clientVars

OpenClient(c) ==
    /\ c \notin Testers
    /\ \/ \E p \in Packets : ClientSend(c, p)
       \/ Connect(c) \/ ClientReceive(c) \/ Disconnect(c)
    /\ UNCHANGED clientVars

SysNext ==
    \/ ServerNext /\ UNCHANGED clientVars
    \/ \E c \in Testers : \/ Start(c) \/ SayHi(c) \/ Reading(c) \/ Die(c)
                        \/ Finds(c) \/ PassesOver(c)
    \/ \E c \in Conns : OpenClient(c)

\* Every client thread that has something to do is scheduled.
ClientFairness ==
    \A c \in Testers : /\ WF_sysVars(SayHi(c))
                       /\ WF_sysVars(Reading(c))

SysSpec == SysInit /\ [][SysNext]_sysVars /\ Fairness /\ ClientFairness

-----------------------------------------------------------------------------
\* The client may have read a list that the server did not send.
Misled(c) == phase[c] = "misled" \/ lost[c]

(* Of two test clients only the one registered later knows of the other, so *)
(* no two invite each other, and none invites itself, unless one was given  *)
(* a list by somebody without a name, or lost its place in the stream.      *)
NoMutualInvite ==
    \A c, d \in Testers :
        toInvite[c] = MyName[d] /\ toInvite[d] = MyName[c] => Misled(c) \/ Misled(d)

(* A test client the acceptor has let in gets an answer to its Hi, if its  *)
(* name is taken too, and however busy the relays of others keep it.       *)
HelloAnswered ==
    \A c \in Testers :
        accepted[c] /\ phase[c] = "waiting"
            ~> phase[c] # "waiting" \/ peer[c] = "down" \/ ~up

(* The invitation of a player on the server's list is heard by the client   *)
(* it is for, under the name of the one that sent it, unless one of them    *)
(* leaves, or the receiver was sent a packet that is not whole, or that its *)
(* reader throws at.                                                       *)
InviteArrives ==
    \A c, d \in Testers :
        toInvite[c] = MyName[d] /\ statusMap[MyName[d]] = d /\ ~Misled(c)
            ~> \/ MyName[c] \in heard[d]
               \/ peer[c] = "down" \/ peer[d] = "down" \/ lost[d] \/ ~up
=============================================================================
