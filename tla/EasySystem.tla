----------------------------- MODULE EasySystem -----------------------------
(***************************************************************************)
(* The game server with its own test clients (DbgTicTacClient on top of    *)
(* TicTacClient and TcpClient), one on each connection: what main.cpp runs *)
(* when STANDALONE_TEST is defined, with any number of clients.            *)
(*                                                                         *)
(* A client has one thread that reads and calls onMessageReceived, and     *)
(* detached threads that each send one invitation.  A send locks m_mutex   *)
(* from setting m_partnerName to the end of write, so it is one step.      *)
(* Client code is built with DEBUG: an unknown message ends in assert(0).  *)
(***************************************************************************)
EXTENDS EasyServer

CONSTANTS
    MyName,     \* the name given to the client of each connection
    NameOrder,  \* Names in the order std::map keeps them
    Leavers,    \* the clients whose process may be killed
    Whims,      \* requests of a client that has read what nobody wrote
    Pile        \* bound on what is unread anywhere when it sends one

ASSUME MyNameAssumption == MyName \in [Conns -> Names]
ASSUME NameOrderAssumption == NameOrder \in [1 .. Cardinality(Names) -> Names]
ASSUME LeaversAssumption == Leavers \subseteq Conns
ASSUME WhimsAssumption == Whims \subseteq ClientRequests
ASSUME PileAssumption == Pile \in Nat

VARIABLES
    state,      \* m_currentState of the client
    partner,    \* m_partnerName
    threads,    \* how many threads are about to invite each player
    task,       \* what the reading thread is about to send, after a sleep
    skew,       \* whether the next message read starts in the middle
    aborted,    \* the client has run into assert(0)
    astray      \* the client has read what nobody wrote

clientVars == <<state, partner, threads, task, skew, aborted, astray>>

sysVars == <<vars, clientVars>>

Idle == [do |-> "read", to |-> NoName]

ClientTypeOK ==
    /\ state \in [Conns -> {"initial", "handshaking", "registered"}]
    /\ partner \in [Conns -> PlainNames]
    /\ threads \in [Conns -> [Names -> Nat]]
    /\ task \in [Conns -> [do : {"read", "name", "accept", "step"}, to : PlainNames]]
    /\ skew \in [Conns -> {"none", "cut", "stray"}]
    /\ aborted \in [Conns -> BOOLEAN]
    /\ astray \in [Conns -> BOOLEAN]

SysInit ==
    /\ Init
    /\ state = [c \in Conns |-> "initial"]
    /\ partner = [c \in Conns |-> NoName]
    /\ threads = [c \in Conns |-> [n \in Names |-> 0]]
    /\ task = [c \in Conns |-> Idle]
    /\ skew = [c \in Conns |-> "none"]
    /\ aborted = [c \in Conns |-> FALSE]
    /\ astray = [c \in Conns |-> FALSE]

-----------------------------------------------------------------------------
(* Sending. *)

\* Faulty: text follows the request, so the server splits it wrongly.
SendUnended(c, t, n) == ClientSend(c, [Request(t, n) EXCEPT !.tail = TRUE])

SendTo(c, t, n) == ClientSend(c, Request(t, n))

\* Faulty: the thread is not used up by its one call.
SendAgain(c, n) ==
    /\ threads' = [threads EXCEPT ![c][n] = @ - 1]
    /\ partner' = [partner EXCEPT ![c] = n]
    /\ SendTo(c, "Invite", n)
    /\ UNCHANGED <<state, task, skew, aborted, astray>>

\* Faulty: m_partnerName is not set.
SendSilently(c, n) ==
    /\ threads[c][n] > 0
    /\ threads' = [threads EXCEPT ![c][n] = @ - 1]
    /\ SendTo(c, "Invite", n)
    /\ UNCHANGED <<state, partner, task, skew, aborted, astray>>

\* A detached thread calls sendInvitaion.
SendInvitation(c, n) ==
    /\ threads[c][n] > 0
    /\ threads' = [threads EXCEPT ![c][n] = @ - 1]
    /\ partner' = [partner EXCEPT ![c] = n]
    /\ SendTo(c, "Invite", n)
    /\ UNCHANGED <<state, task, skew, aborted, astray>>

\* The reading thread answers the greeting of the server.
SendName(c) ==
    /\ task[c].do = "name"
    /\ task' = [task EXCEPT ![c] = Idle]
    /\ SendTo(c, "PlayerName", MyName[c])
    /\ UNCHANGED <<state, partner, threads, skew, aborted, astray>>

\* Faulty: the accepted game is not opened by a step.
AcceptOnly(c) ==
    /\ task[c].do = "accept"
    /\ task' = [task EXCEPT ![c] = Idle]
    /\ partner' = [partner EXCEPT ![c] = task[c].to]
    /\ SendTo(c, "Accept", task[c].to)
    /\ UNCHANGED <<state, threads, skew, aborted, astray>>

\* onInvitation: sendInvitaionResponse with true, a short sleep, sendStep.
SendAccept(c) ==
    /\ task[c].do = "accept"
    /\ task' = [task EXCEPT ![c].do = "step"]
    /\ partner' = [partner EXCEPT ![c] = task[c].to]
    /\ SendTo(c, "Accept", task[c].to)
    /\ UNCHANGED <<state, threads, skew, aborted, astray>>

SendStep(c) ==
    /\ task[c].do = "step"
    /\ task' = [task EXCEPT ![c] = Idle]
    /\ partner' = [partner EXCEPT ![c] = task[c].to]
    /\ SendTo(c, "Step", task[c].to)
    /\ UNCHANGED <<state, threads, skew, aborted, astray>>

-----------------------------------------------------------------------------
(***************************************************************************)
(* Reading.  TcpClient::run handles every complete message of a chunk and  *)
(* drops the beginning of the last one, whose end then comes first in the  *)
(* next chunk ("cut").  A message with a ';' inside is followed by a stray *)
(* piece.  What is not in one piece, or garbled, is left to the sections   *)
(* that follow.                                                            *)
(***************************************************************************)
Sane == \A c \in Conns : ~astray[c]

(* Bytes nobody wrote; a list of players that ends at the ';' of a name, of *)
(* which onMessageReceived reads one token too many (undefined); or, once a *)
(* client went astray, a list, where any name may stand, and a step, whose  *)
(* coordinates need not be numbers (stoi throws, the client stops reading). *)
Garbled(m) ==
    \/ m.type = "Junk"
    \/ m.type = "PlayerList" /\ m.tail
    \/ m.type \in {"PlayerList", "OnStep"} /\ ~Sane

Listens(c) == ~aborted[c] /\ ~astray[c] /\ task[c] = Idle

\* The reading thread takes a message of type t in one piece.
Gets(c, t) ==
    /\ Listens(c) /\ skew[c] = "none"
    /\ toClient[c] # <<>> /\ Head(toClient[c]).type = t
    /\ ~(t = "PlayerList" /\ Head(toClient[c]).tail)
    /\ ClientReceive(c)
    /\ \E s \in {"none", "cut", "stray"} :
         /\ s = "stray" <=> Head(toClient[c]).tail
         /\ s = "cut" => Coalesce /\ Len(toClient[c]) > 1
         /\ skew' = [skew EXCEPT ![c] = s]
    /\ UNCHANGED <<aborted, astray>>

OnHi(c) ==
    /\ Gets(c, "Hi")
    /\ state[c] = "initial"
    /\ state' = [state EXCEPT ![c] = "handshaking"]
    /\ task' = [task EXCEPT ![c].do = "name"]
    /\ UNCHANGED <<partner, threads>>

OnOk(c) ==
    /\ Gets(c, "Ok")
    /\ state' = [state EXCEPT ![c] = "registered"]
    /\ UNCHANGED <<partner, threads, task>>

\* The first player on the list, in map order, that is not this client.
FirstOther(c, S) ==
    LET Other(i) == NameOrder[i] \in S \ {MyName[c]}
    IN  { NameOrder[i] : i \in {j \in DOMAIN NameOrder :
                                  Other(j) /\ \A k \in 1 .. j - 1 : ~Other(k)} }

\* onPlayerListChanged starts a thread that invites that player.
OnPlayerList(c) ==
    /\ Gets(c, "PlayerList")
    /\ LET chosen == FirstOther(c, Head(toClient[c]).names)
       IN  threads' = [threads EXCEPT ![c] =
                         [n \in Names |-> @[n] + IF n \in chosen THEN 1 ELSE 0]]
    /\ UNCHANGED <<state, partner, task>>

OnInvitation(c) ==
    /\ Gets(c, "Invitation")
    /\ \E p \in Head(toClient[c]).names :
         task' = [task EXCEPT ![c] = [do |-> "accept", to |-> p]]
    /\ UNCHANGED <<state, partner, threads>>

\* onPartnerStep is given m_partnerName, not a name from the message.
OnStep(c) ==
    /\ Gets(c, "OnStep")
    /\ task' = [task EXCEPT ![c] = [do |-> "step", to |-> partner[c]]]
    /\ UNCHANGED <<state, partner, threads>>

\* The callbacks for these are empty in DbgTicTacClient.
OnNotice(c) ==
    /\ \E t \in {"PlayerOfflined", "InvitationRejected", "InvitationAccepted"} :
         Gets(c, t)
    /\ UNCHANGED <<state, partner, threads, task>>

\* Faulty: the branch for an accepted invitation is missing.
UnknownAccepted(c) ==
    \/ skew[c] # "none"
    \/ /\ toClient[c] # <<>>
       /\ Head(toClient[c]).type \in {"OnError", "InvitationAccepted"}

\* What follows a skewed chunk, or a type the client does not know: assert(0).
Unknown(c) ==
    \/ skew[c] = "stray"
    \/ toClient[c] # <<>> /\ skew[c] = "cut"
    \/ toClient[c] # <<>> /\ Head(toClient[c]).type = "OnError"

OnUnknown(c) ==
    /\ Listens(c) /\ Unknown(c)
    /\ Disconnect(c)
    /\ aborted' = [aborted EXCEPT ![c] = TRUE]
    /\ UNCHANGED <<state, partner, threads, task, skew, astray>>

\* Nothing but the ';' may be left of a skewed message, which is ignored.
OnEmptyStray(c) ==
    /\ Listens(c) /\ skew[c] = "stray"
    /\ skew' = [skew EXCEPT ![c] = "none"]
    /\ UNCHANGED <<vars, state, partner, threads, task, aborted, astray>>

OnEmptyCut(c) ==
    /\ Listens(c) /\ skew[c] = "cut"
    /\ ClientReceive(c)
    /\ skew' = [skew EXCEPT ![c] = "none"]
    /\ UNCHANGED <<state, partner, threads, task, aborted, astray>>

\* The server has dropped the session, which closes the socket: run returns.
OnEof(c) ==
    /\ Listens(c) /\ skew[c] # "stray"
    /\ accepted[c] /\ ~Alive(c) /\ toClient[c] = <<>>
    /\ Disconnect(c)
    /\ UNCHANGED clientVars

Reading(c) ==
    \/ SendName(c) \/ SendAccept(c) \/ SendStep(c)
    \/ OnHi(c) \/ OnOk(c) \/ OnPlayerList(c) \/ OnInvitation(c)
    \/ OnStep(c) \/ OnNotice(c)
    \/ OnUnknown(c) \/ OnEmptyStray(c) \/ OnEmptyCut(c) \/ OnEof(c)

Inviting(c) == \E n \in Names : SendInvitation(c, n)

(***************************************************************************)
(* A client that has read something garbled.  It may take it for any       *)
(* message and answer it, stop reading, or be stopped; what it sends from  *)
(* then on is left open, and it may send requests that no test client      *)
(* sends.                                                                  *)
(***************************************************************************)
GoAstray(c) ==
    /\ Listens(c)
    /\ toClient[c] # <<>> /\ Garbled(Head(toClient[c]))
    /\ ClientReceive(c)
    /\ astray' = [astray EXCEPT ![c] = TRUE]
    /\ UNCHANGED <<state, partner, threads, task, skew, aborted>>

Wander(c) ==
    /\ astray[c]
    /\ \/ /\ \A d \in Conns : Len(toServer[d]) + Len(toClient[d]) <= Pile
          /\ \E m \in Whims : ClientSend(c, m)
       \/ ClientReceive(c)
       \/ Disconnect(c)
    /\ UNCHANGED clientVars

Start(c) == Connect(c) /\ UNCHANGED clientVars

\* The process of the client is killed.
Kill(c) ==
    /\ c \in Leavers
    /\ Disconnect(c)
    /\ UNCHANGED clientVars

TameNext ==
    \/ ServerNext /\ UNCHANGED clientVars
    \/ \E c \in Conns : Start(c) \/ Reading(c) \/ Inviting(c) \/ Kill(c)

SysNext == TameNext \/ \E c \in Conns : GoAstray(c) \/ Wander(c)

\* Every thread of a client is scheduled and every sleep ends.
SysFairness ==
    /\ Fairness
    /\ \A c \in Conns : /\ WF_sysVars(Start(c))
                        /\ WF_sysVars(Reading(c))
                        /\ WF_sysVars(Inviting(c))

SysSpec == SysInit /\ [][SysNext]_sysVars /\ SysFairness

-----------------------------------------------------------------------------
(***************************************************************************)
(* Properties.                                                             *)
(***************************************************************************)

(* onMessageReceived meets no message it does not know: the assert(0) of   *)
(* TicTacClient.h is not reached.                                          *)
NoUnknownMessage == \A c \in Conns : ~aborted[c]

(* A client that reads a step has a partner, so the move it answers with   *)
(* goes to somebody: the invitation that set m_partnerName, its own or one *)
(* it read, is never overtaken by the game it starts.  So it is as long as *)
(* no client has read what nobody wrote.                                   *)
StepHasPartner ==
    Sane => \A c \in Conns :
        Listens(c) /\ toClient[c] # <<>> /\ Head(toClient[c]).type = "OnStep"
            => partner[c] # NoName

(* Clients that behave leave no name behind: an entry of m_clientMap is    *)
(* that of a session that still reads, and so will notice its connection's *)
(* end and free the name.                                                  *)
NoStaleEntry ==
    Sane => \A n \in AllNames : clientMap[n] # NoConn => reading[clientMap[n]]

(* "OnStep,<stepped_player_name>,(x/0),x,y" (docs/Protocol.drawio): the    *)
(* step relayed to a player carries the name of the one who made it.       *)
OnStepNamesOther ==
    \A c \in Conns : \A i \in DOMAIN toClient[c] :
        toClient[c][i].type = "OnStep" => playerName[c] \notin toClient[c][i].names

(* The game goes on: once the acceptor has let every client in, each one   *)
(* is given the move again and again, however invitations cross.           *)
PlayGoesOn ==
    <>(\A c \in Conns : accepted[c]) =>
        \A c \in Conns : []<>(task[c].do = "step")

(* The clients are among those EasyServer allows for: what holds of the    *)
(* server among arbitrary clients holds here.                              *)
OpenServer == Init /\ [][Next]_vars
=============================================================================
