----------------------------- MODULE EasyServer -----------------------------
(***************************************************************************)
(* The game server of EasyTcpServerClient (TcpServer.h, TicTacTcpServer.h) *)
(* between TCP connections whose far ends are arbitrary clients.           *)
(*                                                                         *)
(* The server is one thread running an io_context: each completion handler *)
(* runs to its end before the next, so one handler is one action.  A       *)
(* connection is a connection for good: when it is lost the client comes   *)
(* back on another one.                                                    *)
(*                                                                         *)
(* A request is "Type,name;" on the wire.  The model keeps its type, the   *)
(* one name the server looks at, and whether stray text follows (tail).    *)
(***************************************************************************)
EXTENDS Naturals, Sequences, FiniteSets

CONSTANTS
    Conns,      \* TCP connections, one session object each
    NoConn,     \* "no entry": what find() == end() means for m_clientMap
    Names,      \* the non-empty player names clients use
    NoName,     \* the empty string, the value m_playerName starts with
    Tails,      \* what may follow a name when two requests are read as one
    SendBuf,    \* messages the kernel takes before async_send must wait
    QueueBound, \* bound on the requests in flight on one connection
    Coalesce    \* may one read return bytes past the first ';'?

ASSUME NoConnAssumption == NoConn \notin Conns
ASSUME NoNameAssumption == NoName \notin Names
ASSUME FiniteNamesAssumption == IsFiniteSet(Names) /\ IsFiniteSet(Tails)
ASSUME SendBufAssumption == SendBuf \in Nat
ASSUME QueueBoundAssumption == QueueBound \in Nat
ASSUME CoalesceAssumption == Coalesce \in BOOLEAN

PlainNames == Names \cup {NoName}

\* "Bob;Step": a name read together with the request that followed it
GluedNames == PlainNames \X Tails

\* No name a client uses holds a ';' of its own.
ASSUME UngluedAssumption == PlainNames \cap GluedNames = {}

AllNames == PlainNames \cup GluedNames

NamedTypes == {"PlayerName", "Invite", "Accept", "Reject", "Step", "CloseGame"}

\* "NoOp": an unknown type, the fragment of a request, or PlayerStep.
\* "Bad": a request with the wrong number of tokens.
\* "Empty": nothing before the ';', or one bare word that is a type.
RequestTypes == NamedTypes \cup {"NoOp", "Bad", "Empty"}

\* A request as the server sees it, and as a client may put it on the wire:
\* no name a client sends holds a ';'.
Requests == [type : RequestTypes, name : AllNames, tail : BOOLEAN]
ClientRequests == [type : RequestTypes, name : PlainNames, tail : {FALSE}]

Request(t, n) == [type |-> t, name |-> n, tail |-> FALSE]

NoOp  == Request("NoOp", NoName)
Bad   == Request("Bad", NoName)
Empty == Request("Empty", NoName)

ReplyTypes == {"Hi", "Ok", "OnError", "PlayerList", "Invitation",
               "InvitationAccepted", "InvitationRejected", "OnStep",
               "PlayerOfflined", "Junk"}

\* What is read where n is written: a client's message ends at the ';' that
\* "bob;x" holds, so that one reads as "bob".
Spoken(n) == IF n \in GluedNames THEN n[1] ELSE n

\* A message by the names that are read from it.  tail: its text holds a ';' of
\* its own, so it ends early and the client sees a stray message after it.
Replies == [type : ReplyTypes, names : SUBSET PlainNames, tail : BOOLEAN]

Reply(t, S) == [type  |-> t,
                names |-> {Spoken(n) : n \in S},
                tail  |-> S \cap GluedNames # {}]

\* Not what was written: the bytes of a string that is gone by the time they
\* are sent, or the beginning of a message whose rest never is.  It may read as
\* any message, or run into what is sent after it.
Junk == Reply("Junk", {})

VARIABLES
    up,         \* the server process runs
    accepting,  \* an async_accept is outstanding
    peer,       \* the far end of a connection: "idle", "up" or "down"
    accepted,   \* the session object of the connection has been created
    playerName, \* m_playerName of the session
    reading,    \* an async_read_until of the session is outstanding
    sending,    \* a completion handler of a write still holds the session
    clientMap,  \* m_clientMap, NoConn where there is no entry
    toServer,   \* requests sent and not read yet
    toClient    \* messages written and not read by the far end yet

vars == <<up, accepting, peer, accepted, playerName, reading, sending,
          clientMap, toServer, toClient>>

sessionVars == <<playerName, reading, clientMap>>

TypeOK ==
    /\ up \in BOOLEAN
    /\ accepting \in BOOLEAN
    /\ peer \in [Conns -> {"idle", "up", "down"}]
    /\ accepted \in [Conns -> BOOLEAN]
    /\ playerName \in [Conns -> AllNames]
    /\ reading \in [Conns -> BOOLEAN]
    /\ sending \in [Conns -> BOOLEAN]
    /\ clientMap \in [AllNames -> Conns \cup {NoConn}]
    /\ toServer \in [Conns -> Seq(ClientRequests)]
    /\ toClient \in [Conns -> Seq(Replies)]

Init ==
    /\ up = TRUE
    /\ accepting = TRUE
    /\ peer = [c \in Conns |-> "idle"]
    /\ accepted = [c \in Conns |-> FALSE]
    /\ playerName = [c \in Conns |-> NoName]
    /\ reading = [c \in Conns |-> FALSE]
    /\ sending = [c \in Conns |-> FALSE]
    /\ clientMap = [n \in AllNames |-> NoConn]
    /\ toServer = [c \in Conns |-> <<>>]
    /\ toClient = [c \in Conns |-> <<>>]

-----------------------------------------------------------------------------
(***************************************************************************)
(* Reading.  async_read_until completes when the buffer holds a ';', but   *)
(* the buffer then holds whatever the last recv brought, and the handler   *)
(* passes all of it on but its last byte.  So the request the session sees *)
(* is the first one of the connection, possibly glued to the following     *)
(* ones and to a piece of one more, which are lost to the next read.       *)
(***************************************************************************)
HasComma(q, i, j) == \E k \in i .. j : q[k].type \in NamedTypes

\* A request with too few tokens may have the right number with the glue.
Completed == {NoOp, Bad} \cup {r \in Requests : r.type = "Step"}

\* What the first request m reads as; comma: the glue is sure to hold a comma,
\* as a request that names somebody does, while an unknown one may.  With one
\* more comma a Step no longer splits into 5 tokens; without, the glue lands
\* in its last token, not in its name.
Seen(m, glued, comma) ==
    IF ~glued THEN {m}
    ELSE IF m.type = "Step"
         THEN {Bad} \cup IF comma THEN {} ELSE {[m EXCEPT !.tail = TRUE]}
    ELSE IF m.type \in NamedTypes
         THEN {[m EXCEPT !.name = <<m.name, t>>] : t \in Tails}
    ELSE IF m.type = "Bad" THEN Completed
    ELSE {NoOp}

\* The read brought the first k requests and nothing else.
Whole(q, k) ==
    { [req |-> r, rest |-> SubSeq(q, k + 1, Len(q))] :
        r \in Seen(q[1], k > 1, HasComma(q, 2, k)) }

\* The read also brought a piece of request k + 1, which may or may not reach
\* its comma; what stays is a fragment f, of which only the ';', or the end of
\* a name that happens to be a type, may be left.
Cut(q, k, f) ==
    { [req |-> r, rest |-> <<f>> \o SubSeq(q, k + 2, Len(q))] :
        r \in Seen(q[1], TRUE, HasComma(q, 2, k))
               \cup Seen(q[1], TRUE, HasComma(q, 2, k + 1)) }

Chunks(q) ==
    UNION { Whole(q, k) \cup IF Coalesce /\ k < Len(q)
                              THEN Cut(q, k, NoOp) \cup Cut(q, k, Empty)
                              ELSE {} :
            k \in {j \in 1 .. Len(q) : Coalesce \/ j = 1} }

(***************************************************************************)
(* Writing.  async_send is given a pointer into a string local to the      *)
(* caller and sends some of it, not all.  It is tried at once, so what     *)
(* goes out is the message while the kernel has room for the whole of it.  *)
(* Past SendBuf it may be sent only in part, or wait for the far end to    *)
(* read and find other bytes where the string was: bad is the set of       *)
(* places, the i-th message written to c now, where that happens.  Nothing *)
(* reaches a far end that is gone.                                         *)
(***************************************************************************)
Late(w) ==
    UNION { {c} \X {i \in DOMAIN w[c] : Len(toClient[c]) + i > SendBuf} : c \in Conns }

Buffered(c, ms, bad) ==
    [i \in 1 .. Len(ms) |-> IF <<c, i>> \in bad THEN Junk ELSE ms[i]]

Post(w) ==
    /\ sending' = [c \in Conns |-> sending[c] \/ w[c] # <<>>]
    /\ \E bad \in SUBSET Late(w) :
         toClient' = [c \in Conns |->
                        IF peer[c] = "up"
                        THEN toClient[c] \o Buffered(c, w[c], bad)
                        ELSE toClient[c]]

To(c, m) == [d \in Conns |-> IF d = c THEN <<m>> ELSE <<>>]

\* A session exists while a pending operation holds a shared_ptr to it.
Alive(c) == reading[c] \/ sending[c]

\* find() and lock() both succeed.
Online(n) == clientMap[n] # NoConn /\ Alive(clientMap[n])

-----------------------------------------------------------------------------
(* The acceptor. *)

\* TcpClientSession::start on a new session, then asyncAccept again.
Accept(c) ==
    /\ up /\ accepting
    /\ peer[c] # "idle" /\ ~accepted[c]
    /\ accepted' = [accepted EXCEPT ![c] = TRUE]
    /\ reading' = [reading EXCEPT ![c] = TRUE]
    /\ Post(To(c, Reply("Hi", {})))
    /\ UNCHANGED <<up, accepting, peer, playerName, clientMap, toServer>>

\* The error branch logs and does not call asyncAccept again.
AcceptError ==
    /\ up /\ accepting
    /\ accepting' = FALSE
    /\ UNCHANGED <<up, peer, accepted, sessionVars, sending, toServer, toClient>>

-----------------------------------------------------------------------------
(* The handlers of a session: onMessage by type of request. *)

\* The outstanding read of c completed with chunk ch.
Take(c, ch) ==
    /\ toServer' = [toServer EXCEPT ![c] = ch.rest]
    /\ UNCHANGED <<accepting, peer, accepted>>

\* read() at the end of onMessage: the session goes on.
ReadAgain == UNCHANGED reading

\* A return before read(): no operation is outstanding any more.
StopReading(c) == reading' = [reading EXCEPT ![c] = FALSE]

\* Faulty: the value of each entry in place of its key.
PlayerListOfSessions(map) ==
    [d \in Conns |-> IF Alive(d)
                     THEN <<Reply("PlayerList", {map[n] : n \in AllNames})>>
                     ELSE <<>>]

\* sendPlayerListToAll writes once per entry, to every session still alive.
PlayerListWrites(map) ==
    LET list == Reply("PlayerList", {n \in AllNames : map[n] # NoConn})
    IN  [d \in Conns |->
            IF Alive(d)
            THEN [i \in 1 .. Cardinality({n \in AllNames : map[n] = d}) |-> list]
            ELSE <<>>]

\* Faulty: the entry is written whether there is one or not.
RegisterAnyway(c, ch) ==
    /\ ch.req.type = "PlayerName"
    /\ playerName' = [playerName EXCEPT ![c] = ch.req.name]
    /\ clientMap' = [clientMap EXCEPT ![ch.req.name] = c]
    /\ Post(To(c, Reply("Ok", {})))
    /\ ReadAgain
    /\ UNCHANGED up

Register(c, ch) ==
    LET n    == ch.req.name
        map  == [clientMap EXCEPT ![n] = c]
        list == PlayerListWrites(map)
    IN  /\ ch.req.type = "PlayerName"
        /\ clientMap[n] = NoConn
        /\ playerName' = [playerName EXCEPT ![c] = n]
        /\ clientMap' = map
        /\ Post([d \in Conns |-> To(c, Reply("Ok", {}))[d] \o list[d]])
        /\ ReadAgain
        /\ UNCHANGED up

\* Faulty: the session goes on after the refusal.
RefuseAndRead(c, ch) ==
    /\ ch.req.type = "PlayerName"
    /\ clientMap[ch.req.name] # NoConn
    /\ playerName' = [playerName EXCEPT ![c] = ch.req.name]
    /\ Post(To(c, Reply("OnError", {})))
    /\ ReadAgain
    /\ UNCHANGED <<up, clientMap>>

\* m_playerName is set before addClient refuses the name.
RefuseName(c, ch) ==
    /\ ch.req.type = "PlayerName"
    /\ clientMap[ch.req.name] # NoConn
    /\ playerName' = [playerName EXCEPT ![c] = ch.req.name]
    /\ Post(To(c, Reply("OnError", {})))
    /\ StopReading(c)
    /\ UNCHANGED <<up, clientMap>>

\* Send m to the player called n or, when there is none alive, back to c.
Relay(c, n, m, back) ==
    /\ Post(IF Online(n) THEN To(clientMap[n], m) ELSE To(c, back))
    /\ ReadAgain
    /\ UNCHANGED <<up, playerName, clientMap>>

Invite(c, ch) ==
    /\ ch.req.type = "Invite"
    /\ Relay(c, ch.req.name, Reply("Invitation", {playerName[c]}),
                             Reply("InvitationRejected", {ch.req.name}))

Answer(c, ch) ==
    LET t == IF ch.req.type = "Accept" THEN "InvitationAccepted"
                                       ELSE "InvitationRejected"
    IN  /\ ch.req.type \in {"Accept", "Reject"}
        /\ Relay(c, ch.req.name, Reply(t, {playerName[c]}),
                                 Reply("PlayerOfflined", {ch.req.name}))

\* The relayed OnStep carries the name of its receiver.
Step(c, ch) ==
    LET onStep == Reply("OnStep", {ch.req.name})
    IN  /\ ch.req.type = "Step"
        /\ Relay(c, ch.req.name, [onStep EXCEPT !.tail = @ \/ ch.req.tail],
                                 Reply("PlayerOfflined", {ch.req.name}))

\* sendCloseGame looks its sender up and does nothing when it is found.
CloseGame(c, ch) ==
    /\ ch.req.type = "CloseGame"
    /\ clientMap[playerName[c]] # NoConn
    /\ ReadAgain
    /\ UNCHANGED <<up, playerName, clientMap, sending, toClient>>

\* Faulty: the other player is looked up, not the sender.
CloseGameOther(c, ch) ==
    /\ ch.req.type = "CloseGame"
    /\ clientMap[ch.req.name] = NoConn
    /\ up' \in BOOLEAN
    /\ ReadAgain
    /\ UNCHANGED <<playerName, clientMap, sending, toClient>>

\* Not found: end() is dereferenced.  The process dies, or the memory it
\* reads looks like an expired pointer and the call returns false.
CloseGameUnknown(c, ch) ==
    /\ ch.req.type = "CloseGame"
    /\ clientMap[playerName[c]] = NoConn
    /\ up' \in BOOLEAN
    /\ ReadAgain
    /\ UNCHANGED <<playerName, clientMap, sending, toClient>>

Ignore(c, ch) ==
    /\ ch.req.type = "NoOp"
    /\ ReadAgain
    /\ UNCHANGED <<up, playerName, clientMap, sending, toClient>>

Malformed(c, ch) ==
    /\ ch.req.type \in {"Bad", "Empty"}
    /\ StopReading(c)
    /\ UNCHANGED <<up, playerName, clientMap, sending, toClient>>

Handle(c) ==
    /\ up /\ reading[c]
    /\ \E ch \in Chunks(toServer[c]) :
         /\ Take(c, ch)
         /\ \/ Register(c, ch) \/ RefuseName(c, ch)
            \/ Invite(c, ch) \/ Answer(c, ch) \/ Step(c, ch)
            \/ CloseGame(c, ch) \/ CloseGameUnknown(c, ch)
            \/ Ignore(c, ch) \/ Malformed(c, ch)

\* Faulty: a failed read is followed by another.
ReadErrorRetries(c) ==
    /\ up /\ reading[c]
    /\ peer[c] = "down" /\ toServer[c] = <<>>
    /\ ReadAgain
    /\ clientMap' = [clientMap EXCEPT ![playerName[c]] = NoConn]
    /\ UNCHANGED <<up, accepting, peer, accepted, playerName, sending,
                   toServer, toClient>>

\* Faulty: connectionLost is not called.
ReadErrorForgets(c) ==
    /\ up /\ reading[c]
    /\ peer[c] = "down" /\ toServer[c] = <<>>
    /\ StopReading(c)
    /\ UNCHANGED <<up, accepting, peer, accepted, playerName, sending,
                   clientMap, toServer, toClient>>

\* The read fails: connectionLost, that is removeClient by name.
ReadError(c) ==
    /\ up /\ reading[c]
    /\ peer[c] = "down" /\ toServer[c] = <<>>
    /\ StopReading(c)
    /\ clientMap' = [clientMap EXCEPT ![playerName[c]] = NoConn]
    /\ UNCHANGED <<up, accepting, peer, accepted, playerName, sending,
                   toServer, toClient>>

\* The last of the write completions queued for c has run.
SendsDone(c) ==
    /\ up /\ sending[c]
    /\ peer[c] = "up" => Len(toClient[c]) <= SendBuf
    /\ sending' = [sending EXCEPT ![c] = FALSE]
    /\ UNCHANGED <<up, accepting, peer, accepted, sessionVars, toServer, toClient>>

ServerNext ==
    \/ AcceptError
    \/ \E c \in Conns : Accept(c) \/ Handle(c) \/ ReadError(c) \/ SendsDone(c)

-----------------------------------------------------------------------------
(* The far ends: any client of the protocol. *)

serverVars == <<up, accepting, accepted, sessionVars, sending>>

Connect(c) ==
    /\ peer[c] = "idle"
    /\ peer' = [peer EXCEPT ![c] = "up"]
    /\ UNCHANGED <<serverVars, toServer, toClient>>

ClientSend(c, m) ==
    /\ peer[c] = "up"
    /\ Len(toServer[c]) < QueueBound
    /\ toServer' = [toServer EXCEPT ![c] = Append(@, m)]
    /\ UNCHANGED <<serverVars, peer, toClient>>

ClientReceive(c) ==
    /\ peer[c] = "up" /\ toClient[c] # <<>>
    /\ toClient' = [toClient EXCEPT ![c] = Tail(@)]
    /\ UNCHANGED <<serverVars, peer, toServer>>

\* The connection ends; what was still on its way may be lost.
Disconnect(c) ==
    /\ peer[c] = "up"
    /\ peer' = [peer EXCEPT ![c] = "down"]
    /\ \E k \in 0 .. Len(toServer[c]) :
         toServer' = [toServer EXCEPT ![c] = SubSeq(@, 1, k)]
    /\ toClient' = [toClient EXCEPT ![c] = <<>>]
    /\ UNCHANGED serverVars

EnvNext ==
    \E c \in Conns :
        \/ Connect(c)
        \/ \E m \in ClientRequests : ClientSend(c, m)
        \/ ClientReceive(c)
        \/ Disconnect(c)

Next == ServerNext \/ EnvNext

\* The io_context runs every handler that is ready; the clients are free.
Fairness ==
    \A c \in Conns : /\ WF_vars(Accept(c))
                     /\ WF_vars(Handle(c))
                     /\ WF_vars(ReadError(c))
                     /\ WF_vars(SendsDone(c))

Spec == Init /\ [][Next]_vars /\ Fairness

-----------------------------------------------------------------------------
(***************************************************************************)
(* The registry of names.                                                  *)
(***************************************************************************)

(* A session that still reads and has given a name is the one m_clientMap   *)
(* has under that name, so two such sessions never share one.  connectionLost *)
(* erases by name alone (removeClient), and is right to only because of this. *)
OwnEntry ==
    \A c \in Conns :
        reading[c] /\ playerName[c] # NoName => clientMap[playerName[c]] = c

(* Once the session of an entry has stopped reading (a refused or malformed *)
(* request) nothing ever frees the entry: its name is taken for good.       *)
DeadEntryStays ==
    [][\A n \in AllNames \ {NoName} :
          clientMap[n] # NoConn /\ ~reading[clientMap[n]]
             => clientMap'[n] = clientMap[n]]_vars

(* An invitation that is sent as it was written, or its acceptance, is read  *)
(* under the name that a registered session gave, the one whose request is  *)
(* being handled, or under none: a client whose name was refused cannot     *)
(* invite under it.  The name read is the session's own only as far as the  *)
(* ';' it may have swallowed: "bob;x" is registered beside "bob" and reads  *)
(* as "bob" (Spoken).                                                       *)
InviterRegistered ==
    [][\A d \in Conns : \A i \in Len(toClient[d]) + 1 .. Len(toClient'[d]) :
          LET m == toClient'[d][i]
          IN  m.type \in {"Invitation", "InvitationAccepted"} =>
                \A n \in m.names \ {NoName} :
                   \E c \in Conns : /\ Spoken(playerName[c]) = n
                                    /\ clientMap[playerName[c]] = c
                                    /\ reading[c] /\ toServer'[c] # toServer[c]]_vars

(* The end() that sendCloseGame dereferences brings the server down only    *)
(* when a client without a name closes a game: no registered client can.    *)
CrashNeedsUnnamed ==
    [][up /\ ~up' =>
         \E c \in Conns : /\ reading[c] /\ playerName[c] = NoName
                          /\ clientMap[NoName] = NoConn]_vars

(***************************************************************************)
(* Progress.                                                               *)
(***************************************************************************)

(* When a connection is lost its session is destroyed, whatever state its  *)
(* requests left it in, and no relay to its name brings it back to life.   *)
SessionReclaimed ==
    \A c \in Conns :
        accepted[c] /\ peer[c] = "down" ~> ~up \/ [](~Alive(c))

(***************************************************************************)
(* What the server promises about names, as a specification of its own.    *)
(***************************************************************************)
Registry == INSTANCE NameRegistry
    WITH owner <- clientMap,
         phase <- [c \in Conns |-> IF ~accepted[c] THEN "new"
                                   ELSE IF reading[c] THEN "live"
                                   ELSE "gone"]

(* The steps of the server are steps of the registry: a name is given only *)
(* when free, to a live session, and leaves it only when that session goes. *)
RegistrySpec == Registry!RSpec
=============================================================================
