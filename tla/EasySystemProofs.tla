-------------------------- MODULE EasySystemProofs --------------------------
(***************************************************************************)
(* Proofs about EasyServer, for any connections, names and bounds, and     *)
(* about EasySystem: the server among its own test clients, for any number *)
(* of clients, any names, buffers and queue bounds.                        *)
(***************************************************************************)
EXTENDS EasySystem, SequenceTheorems, FiniteSetTheorems, TLAPS

(***************************************************************************)
(* The server by itself.                                                   *)
(***************************************************************************)

(* What the server may see of a connection is a well-formed request, and   *)
(* what the read leaves in the socket are requests again (Whole, Cut).     *)
LEMMA SeenType ==
    ASSUME NEW m \in ClientRequests, NEW glued, NEW comma,
           NEW r \in Seen(m, glued, comma)
    PROVE  r \in Requests
  <1>1. m \in Requests
    BY DEF ClientRequests, Requests, AllNames
  <1>2. Bad \in Requests /\ NoOp \in Requests
    BY DEF Bad, NoOp, Request, Requests, RequestTypes, AllNames, PlainNames
  <1>5. Completed \subseteq Requests
    BY <1>2 DEF Completed
  <1>3. [m EXCEPT !.tail = TRUE] \in Requests
    BY <1>1 DEF Requests
  <1>4. ASSUME NEW t \in Tails
        PROVE  [m EXCEPT !.name = <<m.name, t>>] \in Requests
    BY <1>1, <1>4 DEF ClientRequests, Requests, AllNames, GluedNames
  <1> QED
    BY <1>1, <1>2, <1>3, <1>4, <1>5 DEF Seen

(* A read takes a request, and what it leaves are requests.                *)
LEMMA ChunkType ==
    ASSUME NEW q \in Seq(ClientRequests), NEW ch \in Chunks(q)
    PROVE  /\ q # <<>>
           /\ ch.req \in Requests
           /\ ch.rest \in Seq(ClientRequests)
           /\ Len(ch.rest) < Len(q)
  <1>1. Len(q) \in Nat /\ \A i \in 1 .. Len(q) : q[i] \in ClientRequests
    OBVIOUS
  <1>2. ASSUME NEW k \in Nat \ {0}
        PROVE  /\ SubSeq(q, k + 1, Len(q)) \in Seq(ClientRequests)
               /\ Len(SubSeq(q, k + 1, Len(q))) = IF k + 1 <= Len(q)
                                                  THEN Len(q) - k ELSE 0
    <2>1. \A i \in k + 1 .. Len(q) : q[i] \in ClientRequests
      BY <1>1
    <2> QED
      BY <2>1, <1>1, SubSeqProperties, k + 1 \in Int, Len(q) \in Int
  <1>3. Empty \in ClientRequests /\ NoOp \in ClientRequests
    BY DEF Empty, NoOp, Request, ClientRequests, RequestTypes, PlainNames
  <1>4. ASSUME NEW k \in 1 .. Len(q), ch \in Whole(q, k)
        PROVE  /\ ch.req \in Requests
               /\ ch.rest \in Seq(ClientRequests)
               /\ Len(ch.rest) < Len(q)
    <2>1. PICK r \in Seen(q[1], k > 1, HasComma(q, 2, k)) :
             ch = [req |-> r, rest |-> SubSeq(q, k + 1, Len(q))]
      BY <1>4 DEF Whole
    <2>2. q[1] \in ClientRequests /\ k \in Nat \ {0}
      BY <1>1
    <2>3. r \in Requests
      BY <2>2, SeenType
    <2> QED
      BY <1>2, <2>1, <2>2, <2>3
  <1>5. ASSUME NEW k \in 1 .. Len(q) - 1, NEW f \in {NoOp, Empty}, ch \in Cut(q, k, f)
        PROVE  /\ ch.req \in Requests
               /\ ch.rest \in Seq(ClientRequests)
               /\ Len(ch.rest) < Len(q)
    <2>1. PICK r \in Seen(q[1], TRUE, HasComma(q, 2, k))
                    \cup Seen(q[1], TRUE, HasComma(q, 2, k + 1)) :
             ch = [req |-> r, rest |-> <<f>> \o SubSeq(q, k + 2, Len(q))]
      BY <1>5 DEF Cut
    <2>2. q[1] \in ClientRequests
      BY <1>1
    <2>3. r \in Requests
      BY <2>2, SeenType
    <2>4. <<f>> \in Seq(ClientRequests) /\ Len(<<f>>) = 1
      BY <1>3
    <2>5. /\ SubSeq(q, k + 2, Len(q)) \in Seq(ClientRequests)
          /\ Len(SubSeq(q, k + 2, Len(q))) = IF k + 2 <= Len(q)
                                             THEN Len(q) - (k + 1) ELSE 0
      BY <1>2, k + 1 \in Nat \ {0}, (k + 1) + 1 = k + 2
    <2>6. /\ <<f>> \o SubSeq(q, k + 2, Len(q)) \in Seq(ClientRequests)
          /\ Len(<<f>> \o SubSeq(q, k + 2, Len(q)))
               = 1 + Len(SubSeq(q, k + 2, Len(q)))
      BY <2>4, <2>5, ConcatProperties
    <2> QED
      BY <1>1, <1>5, <2>1, <2>3, <2>5, <2>6
  <1>6. \/ \E k \in 1 .. Len(q) : ch \in Whole(q, k)
        \/ \E k \in 1 .. Len(q) - 1, f \in {NoOp, Empty} : ch \in Cut(q, k, f)
    BY <1>1 DEF Chunks
  <1>7. q # <<>>
    BY <1>1, <1>6
  <1> QED
    BY <1>4, <1>5, <1>6, <1>7

(* Only a plain name is read, whatever a name is glued to (Spoken). *)
LEMMA SpokenType ==
    ASSUME NEW n \in AllNames
    PROVE  Spoken(n) \in PlainNames /\ (n \in PlainNames => Spoken(n) = n)
  BY UngluedAssumption DEF Spoken, AllNames, GluedNames

(* A reply built from names is one a connection may carry (Reply). *)
LEMMA ReplyType ==
    ASSUME NEW t \in ReplyTypes, NEW S \in SUBSET AllNames
    PROVE  Reply(t, S) \in Replies
  BY SpokenType DEF Reply, Replies

(* One message to one connection is a legal argument of Post. *)
LEMMA ToType ==
    ASSUME NEW S, NEW c \in Conns, NEW m \in S
    PROVE  To(c, m) \in [Conns -> Seq(S)]
  BY <<m>> \in Seq(S), <<>> \in Seq(S) DEF To

(* Writing keeps the outgoing messages well formed, whatever becomes of the *)
(* buffers handed to async_send.                                           *)
LEMMA PostType ==
    ASSUME TypeOK, NEW w \in [Conns -> Seq(Replies)], Post(w)
    PROVE  /\ sending' \in [Conns -> BOOLEAN]
           /\ toClient' \in [Conns -> Seq(Replies)]
  <1>1. sending' \in [Conns -> BOOLEAN]
    BY DEF Post, TypeOK
  <1>2. Junk \in Replies
    BY ReplyType, "Junk" \in ReplyTypes DEF Junk, ReplyTypes
  <1>3. ASSUME NEW c \in Conns, NEW b
        PROVE  toClient[c] \o Buffered(c, w[c], b) \in Seq(Replies)
    <2>1. toClient[c] \in Seq(Replies) /\ w[c] \in Seq(Replies)
      BY DEF TypeOK
    <2>2. Len(w[c]) \in Nat /\ \A i \in 1 .. Len(w[c]) : w[c][i] \in Replies
      BY <2>1
    <2>3. Buffered(c, w[c], b) \in [1 .. Len(w[c]) -> Replies]
      BY <1>2, <2>2 DEF Buffered
    <2>4. Buffered(c, w[c], b) \in Seq(Replies)
      BY <2>2, <2>3, SeqDef
    <2> QED
      BY <2>1, <2>4, ConcatProperties
  <1>4. toClient' \in [Conns -> Seq(Replies)]
    <2>1. PICK bad : toClient' = [c \in Conns |->
                        IF peer[c] = "up"
                        THEN toClient[c] \o Buffered(c, w[c], bad)
                        ELSE toClient[c]]
      BY DEF Post
    <2>2. \A c \in Conns : toClient[c] \o Buffered(c, w[c], bad) \in Seq(Replies)
      BY <1>3
    <2> QED
      BY <2>1, <2>2 DEF TypeOK
  <1> QED
    BY <1>1, <1>4

-----------------------------------------------------------------------------
(***************************************************************************)
(* Type correctness.                                                       *)
(***************************************************************************)

(* What a relaying handler does keeps the types, whether the message goes   *)
(* to the player named or an answer goes back to the sender.               *)
LEMMA RelayType ==
    ASSUME TypeOK, NEW c \in Conns, NEW n \in AllNames,
           NEW m \in Replies, NEW back \in Replies,
           Relay(c, n, m, back)
    PROVE  /\ sending' \in [Conns -> BOOLEAN]
           /\ toClient' \in [Conns -> Seq(Replies)]
           /\ UNCHANGED <<up, playerName, reading, clientMap>>
  <1>1. CASE Online(n)
    <2>1. clientMap[n] \in Conns
      BY <1>1 DEF Online, TypeOK
    <2>2. To(clientMap[n], m) \in [Conns -> Seq(Replies)]
      BY <2>1, ToType
    <2>3. Post(To(clientMap[n], m))
      BY <1>1 DEF Relay
    <2> QED
      BY <2>2, <2>3, PostType DEF Relay, ReadAgain
  <1>2. CASE ~Online(n)
    <2>1. To(c, back) \in [Conns -> Seq(Replies)]
      BY ToType
    <2>2. Post(To(c, back))
      BY <1>2 DEF Relay
    <2> QED
      BY <2>1, <2>2, PostType DEF Relay, ReadAgain
  <1> QED
    BY <1>1, <1>2

(* m_clientMap has finitely many keys, so its entries can be counted. *)
LEMMA FiniteNames == IsFiniteSet(AllNames)
  <1>1. IsFiniteSet({NoName})
    BY FS_Singleton
  <1>2. IsFiniteSet(PlainNames)
    BY <1>1, FiniteNamesAssumption, FS_Union DEF PlainNames
  <1>3. IsFiniteSet(GluedNames)
    BY <1>2, FiniteNamesAssumption, FS_Product DEF GluedNames
  <1> QED
    BY <1>2, <1>3, FS_Union DEF AllNames

(* The writes of sendPlayerListToAll are messages to connections. *)
LEMMA PlayerListType ==
    ASSUME NEW S, \A N \in SUBSET AllNames : Reply("PlayerList", N) \in S,
           NEW map \in [AllNames -> Conns \cup {NoConn}]
    PROVE  PlayerListWrites(map) \in [Conns -> Seq(S)]
  <1> DEFINE list == Reply("PlayerList", {n \in AllNames : map[n] # NoConn})
             copies(d) == Cardinality({n \in AllNames : map[n] = d})
  <1>1. list \in S
    BY {n \in AllNames : map[n] # NoConn} \in SUBSET AllNames
  <1> HIDE DEF list, copies
  <1>2. ASSUME NEW d \in Conns
        PROVE  [i \in 1 .. copies(d) |-> list] \in Seq(S)
    <2>1. copies(d) \in Nat
      <3>1. IsFiniteSet({n \in AllNames : map[n] = d})
        BY FiniteNames, FS_Subset, {n \in AllNames : map[n] = d} \subseteq AllNames
      <3> QED
        BY <3>1, FS_CardinalityType DEF copies
    <2>2. [i \in 1 .. copies(d) |-> list] \in [1 .. copies(d) -> S]
      BY <1>1
    <2> QED
      BY <2>1, <2>2, SeqDef
  <1> QED
    BY <1>1, <1>2, <<>> \in Seq(S) DEF PlayerListWrites, list, copies

(* Every handler of a request keeps the types. *)
LEMMA HandleType ==
    ASSUME TypeOK, NEW c \in Conns, Handle(c)
    PROVE  TypeOK'
  <1>1. PICK ch \in Chunks(toServer[c]) :
           /\ Take(c, ch)
           /\ \/ Register(c, ch) \/ RefuseName(c, ch)
              \/ Invite(c, ch) \/ Answer(c, ch) \/ Step(c, ch)
              \/ CloseGame(c, ch) \/ CloseGameUnknown(c, ch)
              \/ Ignore(c, ch) \/ Malformed(c, ch)
    BY DEF Handle
  <1>2. ch.req \in Requests /\ ch.rest \in Seq(ClientRequests)
    BY ChunkType DEF TypeOK
  <1>3. /\ toServer' \in [Conns -> Seq(ClientRequests)]
        /\ UNCHANGED <<accepting, peer, accepted>>
    BY <1>1, <1>2 DEF Take, TypeOK
  <1>4. ch.req.name \in AllNames /\ playerName[c] \in AllNames
    BY <1>2 DEF Requests, TypeOK
  <1>5. CASE Register(c, ch)
    <2> DEFINE map  == [clientMap EXCEPT ![ch.req.name] = c]
               list == PlayerListWrites(map)
               w    == [d \in Conns |-> To(c, Reply("Ok", {}))[d] \o list[d]]
    <2>1. map \in [AllNames -> Conns \cup {NoConn}]
      BY <1>4 DEF TypeOK
    <2>2. list \in [Conns -> Seq(Replies)]
      BY <2>1, PlayerListType, ReplyType, "PlayerList" \in ReplyTypes DEF ReplyTypes
    <2>3. To(c, Reply("Ok", {})) \in [Conns -> Seq(Replies)]
      BY ToType, ReplyType, "Ok" \in ReplyTypes DEF ReplyTypes
    <2>4. Post(w) /\ clientMap' = map
      BY <1>5 DEF Register
    <2>5. w \in [Conns -> Seq(Replies)]
      <3> HIDE DEF list
      <3> QED
        BY <2>2, <2>3, ConcatProperties
    <2>6. /\ sending' \in [Conns -> BOOLEAN]
          /\ toClient' \in [Conns -> Seq(Replies)]
      BY <2>4, <2>5, PostType
    <2> QED
      BY <1>3, <1>4, <1>5, <2>1, <2>4, <2>6 DEF Register, ReadAgain, TypeOK
  <1>6. CASE RefuseName(c, ch)
    <2>1. To(c, Reply("OnError", {})) \in [Conns -> Seq(Replies)]
      BY ToType, ReplyType, "OnError" \in ReplyTypes DEF ReplyTypes
    <2>2. /\ sending' \in [Conns -> BOOLEAN]
          /\ toClient' \in [Conns -> Seq(Replies)]
      BY <1>6, <2>1, PostType DEF RefuseName
    <2> QED
      BY <1>3, <1>4, <1>6, <2>2 DEF RefuseName, StopReading, TypeOK
  <1>7. ASSUME Invite(c, ch) \/ Answer(c, ch) \/ Step(c, ch)
        PROVE  TypeOK'
    <2>1. ASSUME NEW t \in ReplyTypes, NEW n \in AllNames
          PROVE  Reply(t, {n}) \in Replies
      BY ReplyType
    <2>2. [Reply("OnStep", {ch.req.name}) EXCEPT !.tail = @ \/ ch.req.tail] \in Replies
      BY <1>2, <1>4, <2>1, "OnStep" \in ReplyTypes DEF Replies, Requests, ReplyTypes
    <2>3. \E m, back \in Replies : Relay(c, ch.req.name, m, back)
      <3>1. CASE Invite(c, ch)
        BY <1>4, <2>1, <3>1, "Invitation" \in ReplyTypes,
           "InvitationRejected" \in ReplyTypes DEF Invite, ReplyTypes
      <3>2. CASE Answer(c, ch)
        BY <1>4, <2>1, <3>2, "InvitationAccepted" \in ReplyTypes,
           "InvitationRejected" \in ReplyTypes,
           "PlayerOfflined" \in ReplyTypes DEF Answer, ReplyTypes
      <3>3. CASE Step(c, ch)
        BY <1>4, <2>1, <2>2, <3>3, "PlayerOfflined" \in ReplyTypes
           DEF Step, ReplyTypes
      <3> QED
        BY <1>7, <3>1, <3>2, <3>3
    <2>4. /\ sending' \in [Conns -> BOOLEAN]
          /\ toClient' \in [Conns -> Seq(Replies)]
          /\ UNCHANGED <<up, playerName, reading, clientMap>>
      BY <1>4, <2>3, RelayType
    <2> QED
      BY <1>3, <2>4 DEF TypeOK
  <1>8. CASE CloseGame(c, ch)
    BY <1>3, <1>8 DEF CloseGame, ReadAgain, TypeOK
  <1>9. CASE CloseGameUnknown(c, ch)
    BY <1>3, <1>9 DEF CloseGameUnknown, ReadAgain, TypeOK
  <1>10. CASE Ignore(c, ch)
    BY <1>3, <1>10 DEF Ignore, ReadAgain, TypeOK
  <1>11. CASE Malformed(c, ch)
    BY <1>3, <1>11 DEF Malformed, StopReading, TypeOK
  <1> QED
    BY <1>1, <1>5, <1>6, <1>7, <1>8, <1>9, <1>10, <1>11

(* The server starts well typed. *)
LEMMA InitType == Init => TypeOK
  BY <<>> \in Seq(Replies), <<>> \in Seq(ClientRequests)
     DEF Init, TypeOK, AllNames, PlainNames

(* Every step of the server or of a far end keeps the types. *)
LEMMA TypePreserved ==
    ASSUME TypeOK, [Next]_vars
    PROVE  TypeOK'
  <1>1. CASE AcceptError
    BY <1>1 DEF AcceptError, TypeOK, sessionVars
  <1>2. ASSUME NEW c \in Conns, Accept(c)
        PROVE  TypeOK'
    <2>1. To(c, Reply("Hi", {})) \in [Conns -> Seq(Replies)]
      BY ToType, ReplyType, "Hi" \in ReplyTypes DEF ReplyTypes
    <2>2. /\ sending' \in [Conns -> BOOLEAN]
          /\ toClient' \in [Conns -> Seq(Replies)]
      BY <1>2, <2>1, PostType DEF Accept
    <2> QED
      BY <1>2, <2>2 DEF Accept, TypeOK
  <1>3. ASSUME NEW c \in Conns, Handle(c)
        PROVE  TypeOK'
    BY <1>3, HandleType
  <1>4. ASSUME NEW c \in Conns, ReadError(c)
        PROVE  TypeOK'
    BY <1>4 DEF ReadError, StopReading, TypeOK
  <1>5. ASSUME NEW c \in Conns, SendsDone(c)
        PROVE  TypeOK'
    BY <1>5 DEF SendsDone, sessionVars, TypeOK
  <1>6. ASSUME NEW c \in Conns, Connect(c)
        PROVE  TypeOK'
    BY <1>6 DEF Connect, serverVars, sessionVars, TypeOK
  <1>7. ASSUME NEW c \in Conns, NEW m \in ClientRequests, ClientSend(c, m)
        PROVE  TypeOK'
    <2>1. Append(toServer[c], m) \in Seq(ClientRequests)
      BY AppendProperties DEF TypeOK
    <2> QED
      BY <1>7, <2>1 DEF ClientSend, serverVars, sessionVars, TypeOK
  <1>8. ASSUME NEW c \in Conns, ClientReceive(c)
        PROVE  TypeOK'
    <2>1. Tail(toClient[c]) \in Seq(Replies)
      BY <1>8, HeadTailProperties DEF ClientReceive, TypeOK
    <2> QED
      BY <1>8, <2>1 DEF ClientReceive, serverVars, sessionVars, TypeOK
  <1>9. ASSUME NEW c \in Conns, Disconnect(c)
        PROVE  TypeOK'
    <2>1. PICK k \in 0 .. Len(toServer[c]) :
             toServer' = [toServer EXCEPT ![c] = SubSeq(@, 1, k)]
      BY <1>9 DEF Disconnect
    <2>2. SubSeq(toServer[c], 1, k) \in Seq(ClientRequests)
      <3>1. toServer[c] \in Seq(ClientRequests)
        BY DEF TypeOK
      <3>2. k \in Int /\ \A i \in 1 .. k : toServer[c][i] \in ClientRequests
        BY <3>1
      <3> QED
        BY <3>2, SubSeqProperties
    <2>3. toServer' \in [Conns -> Seq(ClientRequests)]
      BY <2>1, <2>2 DEF TypeOK
    <2>4. toClient' \in [Conns -> Seq(Replies)]
      BY <1>9, <<>> \in Seq(Replies) DEF Disconnect, TypeOK
    <2> QED
      BY <1>9, <2>3, <2>4 DEF Disconnect, serverVars, sessionVars, TypeOK
  <1>10. CASE UNCHANGED vars
    BY <1>10 DEF vars, TypeOK
  <1> QED
    BY <1>1, <1>2, <1>3, <1>4, <1>5, <1>6, <1>7, <1>8, <1>9, <1>10
       DEF Next, ServerNext, EnvNext

(* The state variables keep their types for any connections, names, buffer  *)
(* sizes and ways of cutting the stream (every handler of the server).      *)
THEOREM TypeCorrect == Spec => []TypeOK
  BY InitType, TypePreserved, PTL DEF Spec

-----------------------------------------------------------------------------
(***************************************************************************)
(* The registry of names.  Of all that a step does, only five effects on   *)
(* sessions and names matter to it.                                        *)
(***************************************************************************)
Arrives(c) ==
    /\ ~accepted[c]
    /\ accepted' = [accepted EXCEPT ![c] = TRUE]
    /\ reading' = [reading EXCEPT ![c] = TRUE]
    /\ UNCHANGED <<playerName, clientMap>>

IsGiven(c, n) ==
    /\ reading[c] /\ clientMap[n] = NoConn
    /\ playerName' = [playerName EXCEPT ![c] = n]
    /\ clientMap' = [clientMap EXCEPT ![n] = c]
    /\ UNCHANGED <<accepted, reading>>

IsRefused(c, n) ==
    /\ reading[c]
    /\ playerName' = [playerName EXCEPT ![c] = n]
    /\ reading' = [reading EXCEPT ![c] = FALSE]
    /\ UNCHANGED <<accepted, clientMap>>

Stops(c) ==
    /\ reading[c]
    /\ reading' = [reading EXCEPT ![c] = FALSE]
    /\ UNCHANGED <<accepted, playerName, clientMap>>

Leaves(c) ==
    /\ reading[c]
    /\ reading' = [reading EXCEPT ![c] = FALSE]
    /\ clientMap' = [clientMap EXCEPT ![playerName[c]] = NoConn]
    /\ UNCHANGED <<accepted, playerName>>

RegistryStep ==
    \/ \E c \in Conns :
          \/ Arrives(c) \/ Stops(c) \/ Leaves(c)
          \/ \E n \in AllNames : IsGiven(c, n) \/ IsRefused(c, n)
    \/ UNCHANGED <<accepted, reading, playerName, clientMap>>

(* What any handler does to the sessions and to m_clientMap is one of the  *)
(* few things RegistryStep lists, or nothing.                              *)
LEMMA StepEffect ==
    ASSUME TypeOK, [Next]_vars
    PROVE  RegistryStep
  <1>1. CASE AcceptError
    BY <1>1 DEF AcceptError, sessionVars, RegistryStep
  <1>2. ASSUME NEW c \in Conns, Accept(c)
        PROVE  RegistryStep
    BY <1>2 DEF Accept, Arrives, RegistryStep
  <1>3. ASSUME NEW c \in Conns, Handle(c)
        PROVE  RegistryStep
    <2>1. PICK ch \in Chunks(toServer[c]) :
             /\ Take(c, ch)
             /\ \/ Register(c, ch) \/ RefuseName(c, ch)
                \/ Invite(c, ch) \/ Answer(c, ch) \/ Step(c, ch)
                \/ CloseGame(c, ch) \/ CloseGameUnknown(c, ch)
                \/ Ignore(c, ch) \/ Malformed(c, ch)
      BY <1>3 DEF Handle
    <2>2. ch.req.name \in AllNames /\ reading[c] /\ UNCHANGED accepted
      BY <1>3, <2>1, ChunkType DEF Handle, Take, Requests, TypeOK
    <2>3. CASE Register(c, ch)
      BY <2>2, <2>3 DEF Register, ReadAgain, IsGiven, RegistryStep
    <2>4. CASE RefuseName(c, ch)
      BY <2>2, <2>4 DEF RefuseName, StopReading, IsRefused, RegistryStep
    <2>5. CASE Invite(c, ch) \/ Answer(c, ch) \/ Step(c, ch)
      BY <2>2, <2>5 DEF Invite, Answer, Step, Relay, ReadAgain, RegistryStep
    <2>6. CASE CloseGame(c, ch) \/ CloseGameUnknown(c, ch) \/ Ignore(c, ch)
      BY <2>2, <2>6 DEF CloseGame, CloseGameUnknown, Ignore, ReadAgain, RegistryStep
    <2>7. CASE Malformed(c, ch)
      BY <2>2, <2>7 DEF Malformed, StopReading, Stops, RegistryStep
    <2> QED
      BY <2>1, <2>3, <2>4, <2>5, <2>6, <2>7
  <1>4. ASSUME NEW c \in Conns, ReadError(c)
        PROVE  RegistryStep
    BY <1>4 DEF ReadError, StopReading, Leaves, RegistryStep
  <1>5. ASSUME NEW c \in Conns, SendsDone(c)
        PROVE  RegistryStep
    BY <1>5 DEF SendsDone, sessionVars, RegistryStep
  <1>6. CASE EnvNext
    BY <1>6 DEF EnvNext, Connect, ClientSend, ClientReceive, Disconnect,
                serverVars, sessionVars, RegistryStep
  <1>7. CASE UNCHANGED vars
    BY <1>7 DEF vars, RegistryStep
  <1> QED
    BY <1>1, <1>2, <1>3, <1>4, <1>5, <1>6, <1>7 DEF Next, ServerNext

(* OwnEntry alone is not inductive: a session that is about to be accepted  *)
(* must have no name yet, or it would start reading under one.             *)
NewSession ==
    \A c \in Conns : ~accepted[c] => ~reading[c] /\ playerName[c] = NoName

IInv == TypeOK /\ NewSession /\ OwnEntry

(* No session reads yet, so none has a name to be wrong about. *)
LEMMA InitIInv == Init => IInv
  BY InitType DEF Init, IInv, NewSession, OwnEntry

(* A reading session keeps its entry: others are given free names only, and *)
(* connectionLost erases the name of a session that reads, which is its own. *)
LEMMA NextIInv ==
    ASSUME IInv, [Next]_vars
    PROVE  IInv'
  <1>1. TypeOK /\ TypeOK' /\ NewSession /\ OwnEntry /\ RegistryStep
    BY StepEffect, TypePreserved DEF IInv
  <1>2. ASSUME NEW c \in Conns, Arrives(c)
        PROVE  NewSession' /\ OwnEntry'
    BY <1>1, <1>2 DEF Arrives, NewSession, OwnEntry, TypeOK
  <1>3. ASSUME NEW c \in Conns, NEW n \in AllNames, IsGiven(c, n)
        PROVE  NewSession' /\ OwnEntry'
    BY <1>1, <1>3, NoConnAssumption DEF IsGiven, NewSession, OwnEntry, TypeOK
  <1>4. ASSUME NEW c \in Conns, NEW n \in AllNames, IsRefused(c, n)
        PROVE  NewSession' /\ OwnEntry'
    BY <1>1, <1>4 DEF IsRefused, NewSession, OwnEntry, TypeOK
  <1>5. ASSUME NEW c \in Conns, Stops(c)
        PROVE  NewSession' /\ OwnEntry'
    BY <1>1, <1>5 DEF Stops, NewSession, OwnEntry, TypeOK
  <1>6. ASSUME NEW c \in Conns, Leaves(c)
        PROVE  NewSession' /\ OwnEntry'
    BY <1>1, <1>6 DEF Leaves, NewSession, OwnEntry, TypeOK
  <1>7. ASSUME UNCHANGED <<accepted, reading, playerName, clientMap>>
        PROVE  NewSession' /\ OwnEntry'
    BY <1>1, <1>7 DEF NewSession, OwnEntry
  <1> QED
    BY <1>1, <1>2, <1>3, <1>4, <1>5, <1>6, <1>7 DEF RegistryStep, IInv

(* The inductive invariant holds in every reachable state. *)
LEMMA Inductive == Spec => []IInv
  BY InitIInv, NextIInv, PTL DEF Spec

(* Two reading sessions never share a non-empty name, and each one's entry  *)
(* in m_clientMap is its own (addClient, removeClient).                    *)
THEOREM OwnEntryInvariant == Spec => []OwnEntry
  BY Inductive, PTL DEF IInv

(* The entry of a session that stopped reading is neither erased nor given  *)
(* to another session, in any step (removeClient, addClient).              *)
THEOREM DeadEntryStaysHolds == Spec => DeadEntryStays
  <1> DEFINE Stays ==
        \A n \in AllNames \ {NoName} :
           clientMap[n] # NoConn /\ ~reading[clientMap[n]]
              => clientMap'[n] = clientMap[n]
  <1>1. ASSUME IInv, [Next]_vars
        PROVE  [Stays]_vars
    <2>1. RegistryStep /\ TypeOK /\ OwnEntry
      BY <1>1, StepEffect DEF IInv
    <2>2. ASSUME NEW c \in Conns, Leaves(c)
          PROVE  Stays
      BY <2>1, <2>2 DEF Leaves, OwnEntry, TypeOK
    <2>3. ASSUME NEW c \in Conns, NEW n \in AllNames, IsGiven(c, n)
          PROVE  Stays
      BY <2>1, <2>3 DEF IsGiven, TypeOK
    <2> QED
      BY <2>1, <2>2, <2>3 DEF RegistryStep, Arrives, Stops, IsRefused
  <1> QED
    BY <1>1, Inductive, PTL DEF Spec, DeadEntryStays

(* Only the CloseGame of a session without a name, while m_clientMap has no *)
(* entry for the empty name, can end the process (sendCloseGame).          *)
THEOREM CrashNeedsUnnamedHolds == Spec => CrashNeedsUnnamed
  <1> DEFINE Crash ==
        up /\ ~up' =>
           \E c \in Conns : /\ reading[c] /\ playerName[c] = NoName
                            /\ clientMap[NoName] = NoConn
  <1>1. ASSUME IInv, [Next]_vars
        PROVE  [Crash]_vars
    <2> SUFFICES ASSUME up, ~up'
                 PROVE  \E c \in Conns : /\ reading[c] /\ playerName[c] = NoName
                                         /\ clientMap[NoName] = NoConn
      OBVIOUS
    <2>1. PICK c \in Conns : Handle(c)
      BY <1>1 DEF Next, ServerNext, EnvNext, AcceptError, Accept, ReadError,
                  SendsDone, Connect, ClientSend, ClientReceive, Disconnect,
                  serverVars, vars
    <2>2. PICK ch \in Chunks(toServer[c]) : CloseGameUnknown(c, ch)
      BY <2>1 DEF Handle, Register, RefuseName, Invite, Answer, Step, Relay,
                  CloseGame, Ignore, Malformed
    <2>3. reading[c] /\ clientMap[playerName[c]] = NoConn
      BY <2>1, <2>2 DEF Handle, CloseGameUnknown
    <2>4. playerName[c] = NoName
      BY <1>1, <2>3, NoConnAssumption DEF IInv, OwnEntry
    <2> QED
      BY <2>3, <2>4
  <1> QED
    BY <1>1, Inductive, PTL DEF Spec, CrashNeedsUnnamed

(* The empty name apart, the server keeps the promise of NameRegistry: names *)
(* are given only when free and leave a session only when it goes.         *)
THEOREM RegistryRefined == Spec => RegistrySpec
  <1> DEFINE Phase == [c \in Conns |-> IF ~accepted[c] THEN "new"
                                      ELSE IF reading[c] THEN "live"
                                      ELSE "gone"]
  <1>1. Init => Registry!RInit
    BY DEF Init, Registry!RInit
  <1>2. ASSUME IInv, [Next]_vars
        PROVE  [Registry!RNext]_(Registry!rvars)
    <2>1. RegistryStep /\ TypeOK /\ NewSession /\ OwnEntry
      BY <1>2, StepEffect DEF IInv
    <2>2. \A c \in Conns : reading[c] => accepted[c]
      BY <2>1 DEF NewSession
    <2>3. ASSUME NEW c \in Conns, Arrives(c)
          PROVE  Registry!Arrive(c)
      BY <2>1, <2>3 DEF Arrives, TypeOK, Registry!Arrive
    <2>4. ASSUME NEW c \in Conns, NEW n \in AllNames, IsGiven(c, n)
          PROVE  Registry!Give(c, n)
      BY <2>2, <2>4 DEF IsGiven, Registry!Give
    <2>5. ASSUME NEW c \in Conns, reading[c],
                 reading' = [reading EXCEPT ![c] = FALSE], UNCHANGED accepted
          PROVE  /\ Phase[c] = "live"
                 /\ Phase' = [Phase EXCEPT ![c] = "gone"]
      BY <2>1, <2>2, <2>5 DEF TypeOK
    <2>6. ASSUME NEW c \in Conns, NEW n \in AllNames, IsRefused(c, n)
          PROVE  Registry!Abandon(c)
      BY <2>5, <2>6 DEF IsRefused, Registry!Abandon
    <2>7. ASSUME NEW c \in Conns, Stops(c)
          PROVE  Registry!Abandon(c)
      BY <2>5, <2>7 DEF Stops, Registry!Abandon
    <2>8. ASSUME NEW c \in Conns, NEW n \in AllNames, n = playerName[c], Leaves(c)
          PROVE  Registry!Leave(c, n)
      BY <2>1, <2>5, <2>8 DEF Leaves, OwnEntry, Registry!Leave
    <2>9. CASE UNCHANGED <<accepted, reading, playerName, clientMap>>
      <3>1. UNCHANGED Registry!rvars
        BY <2>9 DEF Registry!rvars
      <3> QED
        BY <3>1
    <2>10. CASE \E c \in Conns : Arrives(c) \/ Stops(c) \/ Leaves(c)
      <3>1. PICK c \in Conns : Arrives(c) \/ Stops(c) \/ Leaves(c)
        BY <2>10
      <3>2. PICK n \in AllNames : n = playerName[c]
        BY <2>1 DEF TypeOK
      <3>3. Registry!Arrive(c) \/ Registry!Abandon(c) \/ Registry!Leave(c, n)
        BY <2>3, <2>7, <2>8, <3>1, <3>2
      <3> QED
        BY <3>3 DEF Registry!RNext
    <2>11. CASE \E c \in Conns, n \in AllNames : IsGiven(c, n) \/ IsRefused(c, n)
      BY <2>4, <2>6, <2>11 DEF Registry!RNext
    <2> QED
      BY <2>1, <2>9, <2>10, <2>11 DEF RegistryStep
  <1> QED
    BY <1>1, <1>2, Inductive, PTL DEF Spec, RegistrySpec, Registry!RSpec

-----------------------------------------------------------------------------
(***************************************************************************)
(* Under whose name a player is invited.                                   *)
(***************************************************************************)

(* What Post appends to a connection is what it was given, or junk. *)
LEMMA PostAppends ==
    ASSUME TypeOK, NEW S, Junk \in S, NEW w \in [Conns -> Seq(S)], Post(w),
           NEW d \in Conns, NEW i \in Len(toClient[d]) + 1 .. Len(toClient'[d])
    PROVE  toClient'[d][i] \in S
  <1>1. PICK bad : toClient' = [c \in Conns |->
                      IF peer[c] = "up"
                      THEN toClient[c] \o Buffered(c, w[c], bad)
                      ELSE toClient[c]]
    BY DEF Post
  <1>2. toClient[d] \in Seq(Replies) /\ w[d] \in Seq(S)
    BY DEF TypeOK
  <1>3. CASE peer[d] # "up"
    BY <1>1, <1>2, <1>3
  <1>4. CASE peer[d] = "up"
    <2> DEFINE new == Buffered(d, w[d], bad)
    <2>1. Len(w[d]) \in Nat /\ \A j \in 1 .. Len(w[d]) : w[d][j] \in S
      BY <1>2
    <2>2. new \in [1 .. Len(w[d]) -> S]
      BY <2>1 DEF Buffered
    <2>3. new \in Seq(S)
      BY <2>1, <2>2, SeqDef
    <2>4. toClient'[d] = toClient[d] \o new
      BY <1>1, <1>4
    <2> HIDE DEF new
    <2>5. /\ toClient[d] \in Seq(Replies \cup S)
          /\ new \in Seq(Replies \cup S)
      BY <1>2, <2>3
    <2>6. /\ Len(toClient[d] \o new) = Len(toClient[d]) + Len(new)
          /\ \A k \in 1 .. Len(toClient[d]) + Len(new) :
               (toClient[d] \o new)[k] = IF k <= Len(toClient[d])
                                        THEN toClient[d][k]
                                        ELSE new[k - Len(toClient[d])]
      BY <2>5, ConcatProperties
    <2>7. /\ i \in 1 .. Len(toClient[d]) + Len(new)
          /\ i - Len(toClient[d]) \in 1 .. Len(new)
          /\ ~(i <= Len(toClient[d]))
      BY <1>2, <2>3, <2>4, <2>6
    <2>8. toClient'[d][i] = new[i - Len(toClient[d])]
      BY <2>4, <2>6, <2>7
    <2> QED
      BY <2>3, <2>7, <2>8
  <1> QED
    BY <1>3, <1>4

(* The messages that name no sender. *)
Anonymous == { m \in Replies : m.type \notin {"Invitation", "InvitationAccepted"} }

(* Greetings, answers of the server itself and relayed steps name no sender. *)
LEMMA AnonymousReply ==
    ASSUME NEW t \in ReplyTypes \ {"Invitation", "InvitationAccepted"},
           NEW S \in SUBSET AllNames
    PROVE  Reply(t, S) \in Anonymous
  BY ReplyType DEF Reply, Anonymous

(* A handler writes, apart from such messages, only ones that name its own *)
(* session (onMessage passes m_playerName to sendInvitaion and             *)
(* sendInvitaionAccepted).                                                 *)
LEMMA HandleAppends ==
    ASSUME TypeOK, NEW c \in Conns, Handle(c),
           NEW d \in Conns, NEW i \in Len(toClient[d]) + 1 .. Len(toClient'[d])
    PROVE  toClient'[d][i].type \in {"Invitation", "InvitationAccepted"}
             => toClient'[d][i].names = {Spoken(playerName[c])}
  <1>1. PICK ch \in Chunks(toServer[c]) :
           \/ Register(c, ch) \/ RefuseName(c, ch)
           \/ Invite(c, ch) \/ Answer(c, ch) \/ Step(c, ch)
           \/ CloseGame(c, ch) \/ CloseGameUnknown(c, ch)
           \/ Ignore(c, ch) \/ Malformed(c, ch)
    BY DEF Handle
  <1>2. ch.req \in Requests /\ ch.req.name \in AllNames /\ playerName[c] \in AllNames
    BY ChunkType DEF TypeOK, Requests
  <1> DEFINE Own == Anonymous \cup
                      { Reply(t, {playerName[c]}) :
                          t \in {"Invitation", "InvitationAccepted"} }
  <1>3. \A m \in Own : m.type \in {"Invitation", "InvitationAccepted"}
                         => m.names = {Spoken(playerName[c])}
    BY DEF Anonymous, Reply
  <1>4. ASSUME NEW t \in ReplyTypes \ {"Invitation", "InvitationAccepted"},
               NEW S \in SUBSET AllNames
        PROVE  Reply(t, S) \in Own
    BY AnonymousReply
  <1>5. Junk \in Own
    BY <1>4, "Junk" \in ReplyTypes DEF Junk, ReplyTypes
  <1>6. Reply("Invitation", {playerName[c]}) \in Own
    OBVIOUS
  <1>7. Reply("InvitationAccepted", {playerName[c]}) \in Own
    OBVIOUS
  <1>8. [Reply("OnStep", {ch.req.name}) EXCEPT !.tail = @ \/ ch.req.tail] \in Own
    <2>1. Reply("OnStep", {ch.req.name}) \in Anonymous
      BY <1>2, AnonymousReply, "OnStep" \in ReplyTypes DEF ReplyTypes
    <2> QED
      BY <1>2, <2>1 DEF Anonymous, Replies, Requests
  <1> HIDE DEF Own
  <1>9. ASSUME NEW m \in Own, NEW back \in Own, Relay(c, ch.req.name, m, back)
        PROVE  toClient'[d][i] \in Own
    <2> DEFINE w == IF Online(ch.req.name) THEN To(clientMap[ch.req.name], m)
                                           ELSE To(c, back)
    <2>1. Online(ch.req.name) => clientMap[ch.req.name] \in Conns
      BY <1>2 DEF Online, TypeOK
    <2>2. w \in [Conns -> Seq(Own)]
      BY <2>1, ToType
    <2>3. Post(w)
      BY <1>9 DEF Relay
    <2> QED
      BY <1>5, <2>2, <2>3, PostAppends
  <1>10. CASE Register(c, ch)
    <2> DEFINE map  == [clientMap EXCEPT ![ch.req.name] = c]
               list == PlayerListWrites(map)
               w    == [e \in Conns |-> To(c, Reply("Ok", {}))[e] \o list[e]]
    <2>1. map \in [AllNames -> Conns \cup {NoConn}]
      BY <1>2 DEF TypeOK
    <2>2. list \in [Conns -> Seq(Own)]
      BY <1>4, <2>1, PlayerListType, "PlayerList" \in ReplyTypes DEF ReplyTypes
    <2>3. To(c, Reply("Ok", {})) \in [Conns -> Seq(Own)]
      BY <1>4, ToType, "Ok" \in ReplyTypes DEF ReplyTypes
    <2>4. Post(w)
      BY <1>10 DEF Register
    <2>5. w \in [Conns -> Seq(Own)]
      <3> HIDE DEF list
      <3> QED
        BY <2>2, <2>3, ConcatProperties
    <2> QED
      BY <1>3, <1>5, <2>4, <2>5, PostAppends
  <1>11. CASE RefuseName(c, ch)
    <2>1. To(c, Reply("OnError", {})) \in [Conns -> Seq(Own)]
      BY <1>4, ToType, "OnError" \in ReplyTypes DEF ReplyTypes
    <2> QED
      BY <1>3, <1>5, <1>11, <2>1, PostAppends DEF RefuseName
  <1>12. CASE Invite(c, ch)
    BY <1>2, <1>3, <1>4, <1>6, <1>9, <1>12,
       "InvitationRejected" \in ReplyTypes DEF Invite, ReplyTypes
  <1>13. CASE Answer(c, ch)
    BY <1>2, <1>3, <1>4, <1>7, <1>9, <1>13,
       "InvitationRejected" \in ReplyTypes, "PlayerOfflined" \in ReplyTypes
       DEF Answer, ReplyTypes
  <1>14. CASE Step(c, ch)
    BY <1>2, <1>3, <1>4, <1>8, <1>9, <1>14,
       "PlayerOfflined" \in ReplyTypes DEF Step, ReplyTypes
  <1>15. CASE UNCHANGED toClient
    BY <1>15 DEF TypeOK
  <1> QED
    BY <1>1, <1>10, <1>11, <1>12, <1>13, <1>14, <1>15
       DEF CloseGame, CloseGameUnknown, Ignore, Malformed

(* An invitation, or the acceptance of one, is read under the name of the   *)
(* session being handled, whose entry m_clientMap has, up to the ';' that   *)
(* name may have swallowed, or under none: a client whose name was refused  *)
(* never gets to use it.                                                   *)
THEOREM InviterRegisteredHolds == Spec => InviterRegistered
  <1> DEFINE Honest ==
        \A d \in Conns : \A i \in Len(toClient[d]) + 1 .. Len(toClient'[d]) :
           LET m == toClient'[d][i]
           IN  m.type \in {"Invitation", "InvitationAccepted"} =>
                 \A n \in m.names \ {NoName} :
                    \E c \in Conns : /\ Spoken(playerName[c]) = n
                                     /\ clientMap[playerName[c]] = c
                                     /\ reading[c] /\ toServer'[c] # toServer[c]
  <1>1. ASSUME IInv, [Next]_vars
        PROVE  [Honest]_vars
    <2>1. TypeOK /\ OwnEntry
      BY <1>1 DEF IInv
    <2>2. CASE UNCHANGED toClient
      BY <2>1, <2>2 DEF TypeOK
    <2>3. ASSUME NEW c \in Conns, Handle(c)
          PROVE  Honest
      <3>1. SUFFICES ASSUME NEW d \in Conns,
                            NEW i \in Len(toClient[d]) + 1 .. Len(toClient'[d]),
                            toClient'[d][i].type
                              \in {"Invitation", "InvitationAccepted"},
                            NEW n \in toClient'[d][i].names \ {NoName}
                     PROVE  /\ Spoken(playerName[c]) = n
                            /\ clientMap[playerName[c]] = c
                            /\ reading[c] /\ toServer'[c] # toServer[c]
        BY <2>3
      <3>2. n = Spoken(playerName[c]) /\ reading[c]
        BY <2>1, <2>3, <3>1, HandleAppends DEF Handle
      <3>3. clientMap[playerName[c]] = c
        <4>1. playerName[c] # NoName
          BY <3>1, <3>2, SpokenType DEF PlainNames, AllNames
        <4> QED
          BY <2>1, <3>2, <4>1 DEF OwnEntry
      <3>4. PICK ch \in Chunks(toServer[c]) :
               toServer' = [toServer EXCEPT ![c] = ch.rest]
        BY <2>3 DEF Handle, Take
      <3>5. Len(ch.rest) # Len(toServer[c])
        <4>1. /\ Len(ch.rest) < Len(toServer[c])
              /\ Len(ch.rest) \in Nat /\ Len(toServer[c]) \in Nat
          BY <2>1, ChunkType DEF TypeOK
        <4> QED
          BY <4>1
      <3>6. toServer'[c] = ch.rest
        BY <2>1, <3>4 DEF TypeOK
      <3> QED
        BY <3>2, <3>3, <3>5, <3>6
    <2>4. ASSUME NEW c \in Conns, Accept(c)
          PROVE  Honest
      <3>1. To(c, Reply("Hi", {})) \in [Conns -> Seq(Anonymous)]
        BY AnonymousReply, ToType, "Hi" \in ReplyTypes DEF ReplyTypes
      <3>2. Junk \in Anonymous
        BY AnonymousReply, "Junk" \in ReplyTypes DEF Junk, ReplyTypes
      <3>3. \A d \in Conns : \A i \in Len(toClient[d]) + 1 .. Len(toClient'[d]) :
               toClient'[d][i] \in Anonymous
        BY <2>1, <2>4, <3>1, <3>2, PostAppends DEF Accept
      <3> QED
        BY <3>3 DEF Anonymous
    <2>5. ASSUME NEW c \in Conns, ClientReceive(c) \/ Disconnect(c)
          PROVE  Honest
      <3>1. \A d \in Conns : Len(toClient'[d]) <= Len(toClient[d])
        <4>1. toClient \in [Conns -> Seq(Replies)]
          BY <2>1 DEF TypeOK
        <4>2. toClient[c] # <<>> => Len(Tail(toClient[c])) = Len(toClient[c]) - 1
          BY <4>1, HeadTailProperties
        <4>3. CASE ClientReceive(c)
          BY <4>1, <4>2, <4>3 DEF ClientReceive
        <4>4. CASE Disconnect(c)
          BY <4>1, <4>4 DEF Disconnect
        <4> QED
          BY <2>5, <4>3, <4>4
      <3>2. \A d \in Conns : Len(toClient[d]) \in Nat
        BY <2>1 DEF TypeOK
      <3>3. \A d \in Conns : Len(toClient'[d]) \in Nat
        BY <1>1, <2>5, <3>1, TypePreserved DEF IInv, TypeOK
      <3> QED
        BY <3>1, <3>2, <3>3
    <2> QED
      BY <1>1, <2>2, <2>3, <2>4, <2>5
         DEF Next, ServerNext, EnvNext, AcceptError, ReadError, SendsDone,
             Connect, ClientSend, vars
  <1> QED
    BY <1>1, Inductive, PTL DEF Spec, InviterRegistered

-----------------------------------------------------------------------------
(***************************************************************************)
(* What a read takes.                                                      *)
(***************************************************************************)

(* What a request may read as by its type: split wrongly, it is malformed   *)
(* or unknown, and a malformed one may be completed by what is glued to it. *)
ReadAs(t) == {t, "Bad", "NoOp"} \cup IF t = "Bad" THEN {"Step"} ELSE {}

(* A request is never read as one of another name (Seen).                  *)
LEMMA SeenKeeps ==
    ASSUME NEW m \in ClientRequests, NEW glued, NEW comma,
           NEW r \in Seen(m, glued, comma)
    PROVE  r.type \in ReadAs(m.type)
  <1>1. m = [type |-> m.type, name |-> m.name, tail |-> m.tail]
    BY DEF ClientRequests
  <1>2. \A x : [m EXCEPT !.name = x].type = m.type
    BY <1>1
  <1>3. [m EXCEPT !.tail = TRUE].type = m.type
    BY <1>1
  <1>4. \/ r \in {m, Bad, NoOp, [m EXCEPT !.tail = TRUE]}
        \/ \E t \in Tails : r = [m EXCEPT !.name = <<m.name, t>>]
        \/ m.type = "Bad" /\ r.type = "Step"
    BY Zenon DEF Seen, Completed
  <1>5. Bad.type = "Bad" /\ NoOp.type = "NoOp"
    BY DEF Bad, NoOp, Request
  <1> QED
    BY <1>2, <1>3, <1>4, <1>5 DEF ReadAs

(* What a read leaves in the socket is some of what was there, or a fragment. *)
LEMMA ChunkKeeps ==
    ASSUME NEW q \in Seq(ClientRequests), NEW ch \in Chunks(q),
           NEW S \in SUBSET ClientRequests, q \in Seq(S), Empty \in S, NoOp \in S
    PROVE  ch.rest \in Seq(S) /\ ch.req.type \in ReadAs(q[1].type)
  <1>1. Len(q) \in Nat /\ \A i \in 1 .. Len(q) : q[i] \in S
    OBVIOUS
  <1>2. ASSUME NEW k \in Nat \ {0}
        PROVE  SubSeq(q, k + 1, Len(q)) \in Seq(S)
    <2>1. \A i \in k + 1 .. Len(q) : q[i] \in S
      BY <1>1
    <2> QED
      BY <2>1, <1>1, SubSeqProperties, k + 1 \in Int, Len(q) \in Int
  <1>3. ASSUME NEW k \in 1 .. Len(q), ch \in Whole(q, k)
        PROVE  ch.rest \in Seq(S) /\ ch.req.type \in ReadAs(q[1].type)
    <2>1. PICK r \in Seen(q[1], k > 1, HasComma(q, 2, k)) :
             ch = [req |-> r, rest |-> SubSeq(q, k + 1, Len(q))]
      BY <1>3 DEF Whole
    <2>2. q[1] \in ClientRequests /\ k \in Nat \ {0}
      BY <1>1
    <2> QED
      BY <1>2, <2>1, <2>2, SeenKeeps
  <1>4. ASSUME NEW k \in 1 .. Len(q) - 1, NEW f \in {NoOp, Empty}, ch \in Cut(q, k, f)
        PROVE  ch.rest \in Seq(S) /\ ch.req.type \in ReadAs(q[1].type)
    <2>1. PICK r \in Seen(q[1], TRUE, HasComma(q, 2, k))
                    \cup Seen(q[1], TRUE, HasComma(q, 2, k + 1)) :
             ch = [req |-> r, rest |-> <<f>> \o SubSeq(q, k + 2, Len(q))]
      BY <1>4 DEF Cut
    <2>2. q[1] \in ClientRequests
      BY <1>1
    <2>3. SubSeq(q, k + 2, Len(q)) \in Seq(S)
      BY <1>2, k + 1 \in Nat \ {0}, (k + 1) + 1 = k + 2
    <2>4. <<f>> \o SubSeq(q, k + 2, Len(q)) \in Seq(S)
      BY <2>3, <<f>> \in Seq(S), ConcatProperties
    <2> QED
      BY <2>1, <2>2, <2>4, SeenKeeps
  <1>5. \/ \E k \in 1 .. Len(q) : ch \in Whole(q, k)
        \/ \E k \in 1 .. Len(q) - 1, f \in {NoOp, Empty} : ch \in Cut(q, k, f)
    BY <1>1 DEF Chunks
  <1> QED
    BY <1>3, <1>4, <1>5

(* Where nothing else has arrived, or the network keeps requests apart, a   *)
(* read takes the first request as it was sent.                            *)
LEMMA ChunkApart ==
    ASSUME NEW q \in Seq(ClientRequests), NEW ch \in Chunks(q),
           ~Coalesce \/ Len(q) = 1
    PROVE  /\ q # <<>>
           /\ ch.req = q[1] /\ ch.req \in ClientRequests
           /\ ch.rest = Tail(q)
  <1>1. q # <<>> /\ Len(q) \in Nat /\ Len(q) >= 1
    BY ChunkType
  <1>2. ch \in Whole(q, 1)
    <2>1. PICK k \in {j \in 1 .. Len(q) : Coalesce \/ j = 1} :
             ch \in Whole(q, k) \cup IF Coalesce /\ k < Len(q)
                                     THEN Cut(q, k, NoOp) \cup Cut(q, k, Empty)
                                     ELSE {}
      BY DEF Chunks
    <2>2. k = 1 /\ ~(Coalesce /\ k < Len(q))
      <3>1. CASE ~Coalesce
        BY <2>1, <3>1
      <3>2. CASE Len(q) = 1
        BY <1>1, <2>1, <3>2
      <3> QED
        BY <3>1, <3>2
    <2> QED
      BY <2>1, <2>2
  <1>3. ch = [req |-> q[1], rest |-> SubSeq(q, 2, Len(q))]
    BY <1>2 DEF Whole, Seen
  <1>4. Tail(q) = SubSeq(q, 2, Len(q))
    BY <1>1, TailIsSubSeq
  <1>5. q[1] \in ClientRequests
    BY <1>1
  <1> QED
    BY <1>1, <1>3, <1>4, <1>5

-----------------------------------------------------------------------------
(***************************************************************************)
(* What a handler writes.                                                  *)
(***************************************************************************)

(* Appending adds lengths, whatever the sequences are of. *)
LEMMA LenOfConcat ==
    ASSUME NEW S, NEW T, NEW q \in Seq(S), NEW r \in Seq(T)
    PROVE  Len(q \o r) = Len(q) + Len(r)
  <1> DEFINE all == S \cup T
  <1>1. q \in Seq(all) /\ r \in Seq(all)
    <2>1. Len(q) \in Nat /\ Len(r) \in Nat
      OBVIOUS
    <2>2. q \in [1 .. Len(q) -> all] /\ r \in [1 .. Len(r) -> all]
      OBVIOUS
    <2> HIDE DEF all
    <2> QED
      BY <2>1, <2>2, SeqDef
  <1> HIDE DEF all
  <1> QED
    BY <1>1, ConcatProperties

(* Post adds to a connection as many messages as it was given for it, each  *)
(* of them that message or, past SendBuf, junk, and none when the far end   *)
(* is gone.                                                                *)
LEMMA PostWrites ==
    ASSUME NEW S, NEW w, NEW d \in Conns,
           TypeOK, w[d] \in Seq(S), Post(w),
           Len(toClient'[d]) > SendBuf => Junk \in S
    PROVE  \E new \in Seq(S) :
              /\ toClient'[d] = toClient[d] \o new
              /\ Len(new) = IF peer[d] = "up" THEN Len(w[d]) ELSE 0
  <1>1. PICK bad \in SUBSET Late(w) :
           toClient' = [c \in Conns |->
                          IF peer[c] = "up"
                          THEN toClient[c] \o Buffered(c, w[c], bad)
                          ELSE toClient[c]]
    BY DEF Post
  <1>2. CASE peer[d] = "up"
    <2> DEFINE new == Buffered(d, w[d], bad)
    <2>1. Len(w[d]) \in Nat /\ \A j \in 1 .. Len(w[d]) : w[d][j] \in S
      OBVIOUS
    <2>2. toClient'[d] = toClient[d] \o new
      BY <1>1, <1>2
    <2>3. ASSUME NEW i \in 1 .. Len(w[d]), <<d, i>> \in bad
          PROVE  Junk \in S
      <3>1. new \in [1 .. Len(w[d]) -> S \cup {Junk}]
        BY <2>1 DEF Buffered
      <3>2. new \in Seq(S \cup {Junk}) /\ Len(new) = Len(w[d])
        BY <2>1, <3>1, SeqDef
      <3> HIDE DEF new
      <3>3. toClient[d] \in Seq(Replies)
        BY DEF TypeOK
      <3>4. ASSUME NEW T, NEW r \in Seq(T)
            PROVE  Len(toClient[d] \o r) = Len(toClient[d]) + Len(r)
        BY <3>3, <3>4, LenOfConcat
      <3>5. Len(toClient[d] \o new) = Len(toClient[d]) + Len(new)
        BY <3>2, <3>4
      <3>6. Len(toClient[d]) + i > SendBuf
        <4>1. PICK e \in Conns :
                 <<d, i>> \in {e} \X {j \in DOMAIN w[e] : Len(toClient[e]) + j > SendBuf}
          BY <2>3 DEF Late
        <4>2. e = d
          BY <4>1
        <4> QED
          BY <4>1, <4>2
      <3>7. Len(toClient[d]) \in Nat
        BY <3>3
      <3>8. Len(toClient'[d]) > SendBuf
        <4>1. Len(toClient'[d]) = Len(toClient[d]) + Len(w[d])
          BY <2>2, <3>2, <3>5
        <4>2. i \in Nat /\ i <= Len(w[d]) /\ SendBuf \in Nat
          BY <2>1, <2>3, SendBufAssumption
        <4>3. ASSUME NEW x \in Nat, NEW y \in Nat, x + i > SendBuf, i <= y
              PROVE  x + y > SendBuf
          BY <4>2, <4>3
        <4>4. Len(w[d]) \in Nat
          BY <2>1
        <4>5. Len(toClient[d]) + Len(w[d]) > SendBuf
          BY <3>6, <3>7, <4>2, <4>3, <4>4
        <4> QED
          BY <4>1, <4>5
      <3> QED
        BY <3>8
    <2>4. new \in [1 .. Len(w[d]) -> S]
      BY <2>1, <2>3 DEF Buffered
    <2>5. new \in Seq(S) /\ Len(new) = Len(w[d])
      BY <2>1, <2>4, SeqDef
    <2> HIDE DEF new
    <2> QED
      BY <1>2, <2>2, <2>5
  <1>3. CASE peer[d] # "up"
    <2> DEFINE none == <<>>
    <2>1. toClient'[d] = toClient[d]
      BY <1>1, <1>3
    <2>2. toClient[d] = toClient[d] \o none
      BY ConcatEmptySeq DEF TypeOK
    <2>3. none \in Seq(S) /\ Len(none) = 0
      OBVIOUS
    <2> HIDE DEF none
    <2> QED
      BY <1>3, <2>1, <2>2, <2>3
  <1> QED
    BY <1>2, <1>3

Relayed == {"Invite", "Accept", "Reject", "Step"}

(* The messages a handler of request r of c may write to d: an answer to c  *)
(* itself, the list of players to one who has an entry, or what is relayed *)
(* to the player that r names; all may be overwritten before they are sent. *)
Letter(c, r, d, t, N) ==
    \/ /\ d = c
       /\ \/ r.type = "PlayerName" /\ t = "Ok" /\ N = {}
          \/ /\ r.type = "PlayerName" /\ clientMap[r.name] # NoConn
             /\ t = "OnError" /\ N = {}
          \/ /\ r.type \in Relayed
             /\ t \in {"InvitationRejected", "PlayerOfflined"} /\ N = {r.name}
    \/ /\ r.type = "PlayerName" /\ t = "PlayerList"
       /\ N = {n \in AllNames : clientMap'[n] # NoConn}
       /\ \E n \in AllNames : clientMap'[n] = d
    \/ /\ clientMap[r.name] = d
       /\ \/ r.type = "Invite" /\ t = "Invitation" /\ N = {playerName[c]}
          \/ /\ r.type \in {"Accept", "Reject"} /\ N = {playerName[c]}
             /\ t \in {"InvitationAccepted", "InvitationRejected"}
          \/ r.type = "Step" /\ t = "OnStep" /\ N = {r.name}

\* A letter that must wait for room may be junk by the time it is sent.  One
\* has text of its own after a ';' only if a name or a step had.
Letters(c, r, d) ==
    { m \in Replies :
        \/ m = Junk /\ Len(toClient'[d]) > SendBuf
        \/ \E N \in SUBSET AllNames :
              /\ Letter(c, r, d, m.type, N)
              /\ m.names = {Spoken(n) : n \in N}
              /\ m.tail => r.tail \/ N \cap GluedNames # {} }

Handles(c, ch) ==
    /\ Take(c, ch)
    /\ \/ Register(c, ch) \/ RefuseName(c, ch)
       \/ Invite(c, ch) \/ Answer(c, ch) \/ Step(c, ch)
       \/ CloseGame(c, ch) \/ CloseGameUnknown(c, ch)
       \/ Ignore(c, ch) \/ Malformed(c, ch)

(* What a letter is when it is not junk: its names are read up to their ';'. *)
LEMMA LetterKinds ==
    ASSUME NEW c, NEW r, NEW d, NEW m \in Letters(c, r, d), m # Junk
    PROVE  /\ m \in Replies
           /\ \E N \in SUBSET AllNames :
                /\ Letter(c, r, d, m.type, N)
                /\ m.names = {Spoken(n) : n \in N}
                /\ m.tail => r.tail \/ N \cap GluedNames # {}
  BY DEF Letters

(* Names without a ';' are read as they are written (Spoken). *)
LEMMA SpokenPlain ==
    ASSUME NEW N \in SUBSET AllNames, N \subseteq PlainNames
    PROVE  {Spoken(n) : n \in N} = N
  BY SpokenType

(* The fields of a reply built from names. *)
LEMMA ReplyFields ==
    ASSUME NEW t \in ReplyTypes, NEW N \in SUBSET AllNames
    PROVE  /\ Reply(t, N) \in Replies
           /\ Reply(t, N).type = t
           /\ Reply(t, N).names = {Spoken(n) : n \in N}
           /\ Reply(t, N).tail = (N \cap GluedNames # {})
  BY ReplyType DEF Reply

(* Every handler writes letters only. *)
LEMMA HandleWrites ==
    ASSUME TypeOK, NEW c \in Conns, NEW ch \in Chunks(toServer[c]),
           Handles(c, ch), NEW d \in Conns
    PROVE  \E new \in Seq(Letters(c, ch.req, d)) : toClient'[d] = toClient[d] \o new
  <1> DEFINE r == ch.req
             S == Letters(c, r, d)
  <1>1. r \in Requests /\ r.name \in AllNames /\ playerName[c] \in AllNames
    BY ChunkType DEF TypeOK, Requests
  <1>2. ASSUME NEW t \in ReplyTypes, NEW N \in SUBSET AllNames, Letter(c, r, d, t, N)
        PROVE  Reply(t, N) \in S
    <2> DEFINE m == Reply(t, N)
    <2>1. /\ m \in Replies /\ m.type = t /\ m.names = {Spoken(n) : n \in N}
          /\ m.tail = (N \cap GluedNames # {})
      BY ReplyFields
    <2> HIDE DEF m, r
    <2>2. m \in Letters(c, r, d)
      BY <1>2, <2>1 DEF Letters
    <2> QED
      BY <2>2 DEF m
  <1>3. r.type = "Step" /\ d = clientMap[r.name]
          => [Reply("OnStep", {r.name}) EXCEPT !.tail = @ \/ r.tail] \in S
    <2> DEFINE m == Reply("OnStep", {r.name})
               t == m.tail \/ r.tail
    <2>1. /\ m \in Replies /\ m.type = "OnStep"
          /\ m.names = {Spoken(n) : n \in {r.name}}
          /\ m.tail = ({r.name} \cap GluedNames # {})
      BY <1>1, ReplyFields, "OnStep" \in ReplyTypes DEF ReplyTypes
    <2>2. t \in BOOLEAN /\ (t => r.tail \/ {r.name} \cap GluedNames # {})
      BY <1>1, <2>1 DEF Requests
    <2> HIDE DEF m
    <2>3. m = [type |-> m.type, names |-> m.names, tail |-> m.tail]
      BY <2>1 DEF Replies
    <2>4. [m EXCEPT !.tail = @ \/ r.tail]
            = [type |-> m.type, names |-> m.names, tail |-> t]
      BY <2>3
    <2> HIDE DEF t
    <2>5. [m EXCEPT !.tail = @ \/ r.tail] \in Replies
      BY <2>1, <2>2, <2>4 DEF Replies
    <2>6. r.type = "Step" /\ d = clientMap[r.name]
            => Letter(c, r, d, "OnStep", {r.name})
      BY DEF Letter
    <2>7. {r.name} \in SUBSET AllNames
      BY <1>1
    <2> HIDE DEF r
    <2>8. r.type = "Step" /\ d = clientMap[r.name]
            => [m EXCEPT !.tail = @ \/ r.tail] \in Letters(c, r, d)
      BY <2>1, <2>2, <2>4, <2>5, <2>6, <2>7 DEF Letters
    <2> QED
      BY <2>8 DEF m
  <1>4. Len(toClient'[d]) > SendBuf => Junk \in S
    BY ReplyType, "Junk" \in ReplyTypes DEF Junk, ReplyTypes, Letters
  <1> SUFFICES \E new \in Seq(S) : toClient'[d] = toClient[d] \o new
    OBVIOUS
  <1> HIDE DEF S
  <1>5. CASE Register(c, ch)
    <2> DEFINE map  == [clientMap EXCEPT ![r.name] = c]
               all  == {n \in AllNames : map[n] # NoConn}
               list == PlayerListWrites(map)
               ok   == To(c, Reply("Ok", {}))
               w    == [e \in Conns |-> ok[e] \o list[e]]
    <2>1. r.type = "PlayerName" /\ clientMap' = map
      BY <1>5 DEF Register
    <2>2. ok[d] \in Seq(S)
      <3>1. d = c => Reply("Ok", {}) \in S
        BY <1>2, <2>1, "Ok" \in ReplyTypes DEF ReplyTypes, Letter
      <3> QED
        BY <3>1, <<>> \in Seq(S) DEF To
    <2>3. list[d] \in Seq(S)
      <3> DEFINE copies == Cardinality({n \in AllNames : map[n] = d})
      <3>1. IsFiniteSet({n \in AllNames : map[n] = d})
        BY FiniteNames, FS_Subset, {n \in AllNames : map[n] = d} \subseteq AllNames
      <3>2. copies \in Nat /\ (copies # 0 => \E n \in AllNames : map[n] = d)
        BY <3>1, FS_CardinalityType, FS_EmptySet
      <3>3. (\E n \in AllNames : map[n] = d) => Reply("PlayerList", all) \in S
        <4>1. all \in SUBSET AllNames
          OBVIOUS
        <4>2. all = {n \in AllNames : clientMap'[n] # NoConn}
          BY <2>1
        <4>3. (\E n \in AllNames : map[n] = d)
                => \E n \in AllNames : clientMap'[n] = d
          BY <2>1
        <4> HIDE DEF all, map
        <4> QED
          BY <1>2, <2>1, <4>1, <4>2, <4>3, "PlayerList" \in ReplyTypes
             DEF ReplyTypes, Letter
      <3>4. [i \in 1 .. copies |-> Reply("PlayerList", all)] \in Seq(S)
        <4> HIDE DEF copies
        <4>1. [i \in 1 .. copies |-> Reply("PlayerList", all)] \in [1 .. copies -> S]
          <5>1. CASE copies = 0
            BY <5>1
          <5>2. CASE copies # 0
            BY <3>2, <3>3, <5>2
          <5> QED
            BY <5>1, <5>2
        <4> QED
          BY <3>2, <4>1, SeqDef
      <3> QED
        BY <3>4, <<>> \in Seq(S) DEF PlayerListWrites
    <2>4. w[d] \in Seq(S)
      <3> HIDE DEF list, ok
      <3> QED
        BY <2>2, <2>3, ConcatProperties
    <2>5. Post(w)
      BY <1>5 DEF Register
    <2> QED
      BY <1>4, <2>4, <2>5, PostWrites
  <1>6. CASE RefuseName(c, ch)
    <2>1. d = c => Reply("OnError", {}) \in S
      BY <1>2, <1>6, "OnError" \in ReplyTypes DEF RefuseName, ReplyTypes, Letter
    <2>2. To(c, Reply("OnError", {}))[d] \in Seq(S)
      BY <2>1, <<>> \in Seq(S) DEF To
    <2> QED
      BY <1>4, <1>6, <2>2, PostWrites DEF RefuseName
  <1>7. ASSUME r.type \in Relayed, NEW t \in {"InvitationRejected", "PlayerOfflined"}
        PROVE  d = c => Reply(t, {r.name}) \in S
    BY <1>1, <1>2, <1>7, t \in ReplyTypes DEF ReplyTypes, Letter
  <1>8. ASSUME NEW m, NEW back, NEW n \in AllNames, Relay(c, n, m, back),
               d = clientMap[n] => m \in S, d = c => back \in S
        PROVE  \E new \in Seq(S) : toClient'[d] = toClient[d] \o new
    <2> DEFINE w == IF Online(n) THEN To(clientMap[n], m) ELSE To(c, back)
    <2>1. w[d] \in Seq(S)
      BY <1>8, <<>> \in Seq(S) DEF To
    <2>2. Post(w)
      BY <1>8 DEF Relay
    <2> QED
      BY <1>4, <2>1, <2>2, PostWrites
  <1>9. CASE Invite(c, ch)
    <2> DEFINE m    == Reply("Invitation", {playerName[c]})
               back == Reply("InvitationRejected", {r.name})
               n    == r.name
    <2>1. d = clientMap[n] => m \in S
      BY <1>1, <1>2, <1>9, "Invitation" \in ReplyTypes DEF Invite, ReplyTypes, Letter
    <2>2. d = c => back \in S
      BY <1>7, <1>9 DEF Invite, Relayed
    <2>3. n \in AllNames /\ Relay(c, n, m, back)
      BY <1>1, <1>9 DEF Invite
    <2> HIDE DEF n, m, back
    <2> QED
      BY <1>8, <2>1, <2>2, <2>3
  <1>10. CASE Answer(c, ch)
    <2> DEFINE t    == IF ch.req.type = "Accept" THEN "InvitationAccepted"
                                                 ELSE "InvitationRejected"
               m    == Reply(t, {playerName[c]})
               back == Reply("PlayerOfflined", {r.name})
               n    == r.name
    <2>1. d = clientMap[n] => m \in S
      BY <1>1, <1>2, <1>10, t \in ReplyTypes DEF Answer, ReplyTypes, Letter
    <2>2. d = c => back \in S
      BY <1>7, <1>10 DEF Answer, Relayed
    <2>3. n \in AllNames /\ Relay(c, n, m, back)
      BY <1>1, <1>10 DEF Answer
    <2> HIDE DEF n, m, back
    <2> QED
      BY <1>8, <2>1, <2>2, <2>3
  <1>11. CASE Step(c, ch)
    <2> DEFINE m    == [Reply("OnStep", {r.name}) EXCEPT !.tail = @ \/ r.tail]
               back == Reply("PlayerOfflined", {r.name})
               n    == r.name
    <2>1. r.type = "Step" /\ r.type \in Relayed
      BY <1>11 DEF Step, Relayed
    <2>2. d = clientMap[n] => m \in S
      BY <1>3, <2>1
    <2>3. d = c => back \in S
      BY <1>7, <2>1
    <2>4. n \in AllNames /\ Relay(c, n, m, back)
      BY <1>1, <1>11 DEF Step
    <2> HIDE DEF n, m, back
    <2> QED
      BY <1>8, <2>2, <2>3, <2>4
  <1>12. CASE UNCHANGED toClient
    <2> DEFINE none == <<>>
    <2>1. toClient'[d] = toClient[d] \o none /\ none \in Seq(S)
      BY <1>12, ConcatEmptySeq DEF TypeOK
    <2> HIDE DEF none
    <2> QED
      BY <2>1
  <1> QED
    BY <1>5, <1>6, <1>9, <1>10, <1>11, <1>12
       DEF Handles, CloseGame, CloseGameUnknown, Ignore, Malformed

-----------------------------------------------------------------------------
(***************************************************************************)
(* One name for each client.                                               *)
(*                                                                         *)
(* Until its name is read a client has sent nothing but that name and has  *)
(* been sent nothing but the greeting (Newcomer); afterwards it sends no   *)
(* other and m_clientMap has it under no other (Member).                   *)
(***************************************************************************)
Greetings == { m \in Replies : m.type \in {"Hi", "Junk"} /\ ~m.tail }

NotNames == { m \in ClientRequests : m.type # "PlayerName" }

Newcomer(c) ==
    /\ \A n \in AllNames : clientMap[n] # c
    /\ \A n \in Names : threads[c][n] = 0
    /\ task[c].do \in {"read", "name"}
    /\ toClient[c] \in Seq(Greetings)
    /\ toServer[c] \in {<<>>, <<Request("PlayerName", MyName[c])>>}
    /\ state[c] = "initial" \/ task[c].do = "name" => toServer[c] = <<>>
    /\ state[c] = "initial" => task[c].do # "name"

Member(c) ==
    /\ playerName[c] = MyName[c]
    /\ state[c] # "initial" /\ task[c].do # "name"
    /\ toServer[c] \in Seq(NotNames)
    /\ \A n \in AllNames : clientMap[n] = c => n = MyName[c]

Standing(c) == IF playerName[c] = NoName THEN Newcomer(c) ELSE Member(c)

\* An invitation names one of the clients.
Signed == { m \in Replies : m.type = "Invitation" => m.names \subseteq Names }

SysIInv ==
    /\ IInv
    /\ ClientTypeOK
    /\ \A c \in Conns : Standing(c)
    /\ \A c \in Conns : toClient[c] \in Seq(Signed)

(* The clients start with no name and nothing to read. *)
LEMMA SysInitIInv == SysInit => SysIInv
  <1> SUFFICES ASSUME SysInit PROVE SysIInv
    OBVIOUS
  <1>1. IInv
    BY InitIInv DEF SysInit
  <1>2. ClientTypeOK
    BY DEF SysInit, ClientTypeOK, Idle, PlainNames
  <1>3. \A c \in Conns : Standing(c)
    BY NoConnAssumption, <<>> \in Seq(Greetings)
       DEF SysInit, Init, Standing, Newcomer, Idle
  <1>4. \A c \in Conns : toClient[c] \in Seq(Signed)
    BY <<>> \in Seq(Signed) DEF SysInit, Init
  <1> QED
    BY <1>1, <1>2, <1>3, <1>4 DEF SysIInv

ClientStep(c) == Start(c) \/ Reading(c) \/ Inviting(c) \/ Kill(c)

(* What a step of a client's own does to its connection is what any client  *)
(* may do: it sends one request, takes one message, connects or leaves.    *)
LEMMA ClientStepIsNext ==
    ASSUME ClientTypeOK, NEW c \in Conns, ClientStep(c)
    PROVE  [Next]_vars
  <1>1. ASSUME NEW t \in {"PlayerName", "Invite", "Accept", "Step"},
               NEW n \in PlainNames, SendTo(c, t, n)
        PROVE  Next
    <2>1. Request(t, n) \in ClientRequests
      BY DEF Request, ClientRequests, RequestTypes, NamedTypes
    <2> QED
      BY <1>1, <2>1 DEF SendTo, Next, EnvNext
  <1>2. task[c].to \in PlainNames /\ MyName[c] \in PlainNames
        /\ \A n \in Names : n \in PlainNames
    BY MyNameAssumption DEF ClientTypeOK, PlainNames
  <1>3. CASE Inviting(c)
    BY <1>1, <1>2, <1>3 DEF Inviting, SendInvitation
  <1>4. CASE SendName(c) \/ SendAccept(c) \/ SendStep(c)
    BY <1>1, <1>2, <1>4 DEF SendName, SendAccept, SendStep
  <1>5. ASSUME NEW t, Gets(c, t)
        PROVE  Next
    BY <1>5 DEF Gets, Next, EnvNext
  <1>6. CASE OnHi(c) \/ OnOk(c) \/ OnPlayerList(c) \/ OnInvitation(c)
             \/ OnStep(c) \/ OnNotice(c)
    BY <1>5, <1>6 DEF OnHi, OnOk, OnPlayerList, OnInvitation, OnStep, OnNotice
  <1>7. CASE OnUnknown(c) \/ OnEmptyStray(c) \/ OnEmptyCut(c) \/ OnEof(c)
             \/ Kill(c) \/ Start(c)
    BY <1>7 DEF OnUnknown, OnEmptyStray, OnEmptyCut, OnEof, Kill, Start,
                Next, EnvNext
  <1> QED
    BY <1>3, <1>4, <1>6, <1>7 DEF ClientStep, Reading

(* Every step of the system while no client is astray is one of the server  *)
(* or of the far ends it is proved about.                                  *)
LEMMA TameStepIsNext ==
    ASSUME ClientTypeOK, [TameNext]_sysVars
    PROVE  [Next]_vars
  BY ClientStepIsNext DEF TameNext, ClientStep, Next, sysVars

(* So is every step of a client that is.                                   *)
LEMMA SysStepIsNext ==
    ASSUME ClientTypeOK, [SysNext]_sysVars
    PROVE  [Next]_vars
  <1>1. CASE [TameNext]_sysVars
    BY <1>1, TameStepIsNext
  <1>2. ASSUME NEW c \in Conns, GoAstray(c) \/ Wander(c)
        PROVE  Next
    <2>1. \/ ClientReceive(c) \/ Disconnect(c)
          \/ \E m \in Whims : ClientSend(c, m)
      BY <1>2 DEF GoAstray, Wander
    <2> QED
      BY <2>1, WhimsAssumption DEF Next, EnvNext
  <1> QED
    BY <1>1, <1>2 DEF SysNext

(* While no client is astray each of them does what a test client does.     *)
LEMMA SaneStep ==
    ASSUME ClientTypeOK, [SysNext]_sysVars, Sane'
    PROVE  Sane /\ [TameNext]_sysVars
  <1>1. astray \in [Conns -> BOOLEAN]
    BY DEF ClientTypeOK
  <1>2. ASSUME NEW c \in Conns, GoAstray(c) \/ Wander(c)
        PROVE  FALSE
    <2>1. CASE GoAstray(c)
      <3>1. astray' = [astray EXCEPT ![c] = TRUE]
        BY <2>1 DEF GoAstray
      <3>2. astray'[c] = TRUE
        BY <1>1, <3>1
      <3> QED
        BY <3>2 DEF Sane
    <2>2. CASE Wander(c)
      <3>1. astray[c] /\ astray' = astray
        BY <2>2 DEF Wander, clientVars
      <3> QED
        BY <3>1 DEF Sane
    <2> QED
      BY <1>2, <2>1, <2>2
  <1>3. [TameNext]_sysVars
    BY <1>2 DEF SysNext
  <1>4. UNCHANGED astray
    <2>1. ASSUME NEW c \in Conns, Inviting(c)
          PROVE  UNCHANGED astray
      BY <2>1 DEF Inviting, SendInvitation
    <2>2. ASSUME NEW c \in Conns, Reading(c)
          PROVE  UNCHANGED astray
      BY <2>2 DEF Reading, SendName, SendAccept, SendStep, OnHi, OnOk, OnPlayerList,
           OnInvitation, OnStep, OnNotice, Gets, OnUnknown, OnEmptyStray, OnEmptyCut,
           OnEof, clientVars
    <2>3. ASSUME NEW c \in Conns, Start(c) \/ Kill(c)
          PROVE  UNCHANGED astray
      BY <2>3 DEF Start, Kill, clientVars
    <2> QED
      BY <1>3, <2>1, <2>2, <2>3 DEF TameNext, clientVars, sysVars
  <1> QED
    BY <1>3, <1>4 DEF Sane

(* The first message waiting for a client is one of its kind, and so are    *)
(* those behind it.                                                        *)
LEMMA HeadTailIn ==
    ASSUME NEW S, NEW q \in Seq(S), q # <<>>
    PROVE  Head(q) = q[1] /\ Head(q) \in S /\ Tail(q) \in Seq(S)
  BY HeadTailProperties

(* The variables of the clients keep their types: in particular the name a  *)
(* client answers an invitation with is that of a player.                  *)
LEMMA ClientTypeStep ==
    ASSUME TypeOK, ClientTypeOK, [SysNext]_sysVars
    PROVE  ClientTypeOK'
  <1>1. ClientTypeOK /\ TypeOK
    OBVIOUS
  <1>2. CASE UNCHANGED clientVars
    BY <1>1, <1>2 DEF clientVars, ClientTypeOK
  <1>3. ASSUME NEW c \in Conns, Inviting(c)
        PROVE  ClientTypeOK'
    <2>1. PICK n \in Names : SendInvitation(c, n)
      BY <1>3 DEF Inviting
    <2>2. threads[c][n] - 1 \in Nat
      BY <1>1, <2>1 DEF SendInvitation, ClientTypeOK
    <2>3. threads' \in [Conns -> [Names -> Nat]]
      BY <1>1, <2>1, <2>2 DEF SendInvitation, ClientTypeOK
    <2> QED
      BY <1>1, <2>1, <2>3 DEF SendInvitation, ClientTypeOK, PlainNames
  <1>4. ASSUME NEW c \in Conns, SendName(c) \/ SendAccept(c) \/ SendStep(c)
        PROVE  ClientTypeOK'
    <2>1. CASE SendName(c)
      BY <1>1, <2>1 DEF SendName, ClientTypeOK, Idle, PlainNames
    <2>2. CASE SendAccept(c)
      BY <1>1, <2>2 DEF SendAccept, ClientTypeOK
    <2>3. CASE SendStep(c)
      BY <1>1, <2>3 DEF SendStep, ClientTypeOK, Idle, PlainNames
    <2> QED
      BY <1>4, <2>1, <2>2, <2>3
  <1>5. ASSUME NEW c \in Conns, NEW t, Gets(c, t)
        PROVE  /\ skew' \in [Conns -> {"none", "cut", "stray"}]
               /\ UNCHANGED <<aborted, astray>>
    BY <1>1, <1>5 DEF Gets, ClientTypeOK
  <1>6. ASSUME NEW c \in Conns, OnHi(c) \/ OnOk(c) \/ OnNotice(c)
        PROVE  ClientTypeOK'
    <2>1. /\ skew' \in [Conns -> {"none", "cut", "stray"}]
          /\ UNCHANGED <<aborted, astray>>
      BY <1>5, <1>6 DEF OnHi, OnOk, OnNotice
    <2>2. CASE OnHi(c)
      BY <1>1, <2>1, <2>2 DEF OnHi, ClientTypeOK
    <2>3. CASE OnOk(c)
      BY <1>1, <2>1, <2>3 DEF OnOk, ClientTypeOK
    <2>4. CASE OnNotice(c)
      BY <1>1, <2>1, <2>4 DEF OnNotice, ClientTypeOK
    <2> QED
      BY <1>6, <2>2, <2>3, <2>4
  <1>7. ASSUME NEW c \in Conns, OnPlayerList(c)
        PROVE  ClientTypeOK'
    <2>1. threads' \in [Conns -> [Names -> Nat]]
      BY <1>1, <1>7 DEF OnPlayerList, ClientTypeOK
    <2>2. /\ skew' \in [Conns -> {"none", "cut", "stray"}]
          /\ UNCHANGED <<aborted, astray>>
      BY <1>5, <1>7 DEF OnPlayerList
    <2> QED
      BY <1>1, <1>7, <2>1, <2>2 DEF OnPlayerList, ClientTypeOK
  <1>8. ASSUME NEW c \in Conns, OnInvitation(c)
        PROVE  ClientTypeOK'
    <2>1. toClient[c] \in Seq(Replies) /\ toClient[c] # <<>>
      BY <1>1, <1>8 DEF OnInvitation, Gets, TypeOK
    <2>2. Head(toClient[c]).names \subseteq PlainNames
      <3>1. Head(toClient[c]) \in Replies
        BY <2>1, HeadTailIn
      <3> QED
        BY <3>1 DEF Replies
    <2>3. PICK p \in PlainNames : task' = [task EXCEPT ![c] = [do |-> "accept", to |-> p]]
      BY <1>8, <2>2 DEF OnInvitation
    <2> QED
      BY <1>1, <1>5, <1>8, <2>3 DEF OnInvitation, ClientTypeOK
  <1>9. ASSUME NEW c \in Conns, OnStep(c)
        PROVE  ClientTypeOK'
    BY <1>1, <1>5, <1>9 DEF OnStep, ClientTypeOK
  <1>10. ASSUME NEW c \in Conns,
                OnUnknown(c) \/ OnEmptyStray(c) \/ OnEmptyCut(c) \/ OnEof(c)
         PROVE  ClientTypeOK'
    BY <1>1, <1>2, <1>10 DEF OnUnknown, OnEmptyStray, OnEmptyCut, OnEof, ClientTypeOK
  <1>11. ASSUME NEW c \in Conns, GoAstray(c)
         PROVE  ClientTypeOK'
    BY <1>1, <1>11 DEF GoAstray, ClientTypeOK
  <1> QED
    BY <1>2, <1>3, <1>4, <1>6, <1>7, <1>8, <1>9, <1>10, <1>11
       DEF SysNext, TameNext, Reading, Start, Kill, Wander, sysVars

(* The greeting is one, and so is what may be sent in place of any message. *)
LEMMA GreetingsGreet == Junk \in Greetings /\ Reply("Hi", {}) \in Greetings
  <1>1. ASSUME NEW t \in {"Junk", "Hi"}
        PROVE  Reply(t, {}) \in Greetings
    <2> DEFINE none == {}
    <2>1. t \in ReplyTypes /\ none \in SUBSET AllNames /\ none \cap GluedNames = {}
      BY DEF ReplyTypes
    <2> HIDE DEF none
    <2>2. /\ Reply(t, none) \in Replies /\ Reply(t, none).type = t
          /\ ~Reply(t, none).tail
      BY <2>1, ReplyFields
    <2> QED
      BY <2>2 DEF Greetings, none
  <1> QED
    BY <1>1 DEF Junk

(* What an accepted connection is sent first is the greeting, or junk. *)
LEMMA AcceptWrites ==
    ASSUME TypeOK, NEW c \in Conns, Accept(c), NEW d \in Conns
    PROVE  \E new \in Seq(Greetings) : toClient'[d] = toClient[d] \o new
  <1> DEFINE w == To(c, Reply("Hi", {}))
  <1>1. Post(w)
    BY DEF Accept
  <1>2. w[d] \in Seq(Greetings)
    BY GreetingsGreet, <<>> \in Seq(Greetings) DEF To
  <1> QED
    BY GreetingsGreet, <1>1, <1>2, PostWrites

(* The messages waiting for a client are added to by a handler or by the    *)
(* acceptor; anything else takes the first of them, or all, or none.       *)
LEMMA MailStep ==
    ASSUME TypeOK, [Next]_vars, NEW d \in Conns
    PROVE  \/ \E c \in Conns : Accept(c)
           \/ \E c \in Conns : \E ch \in Chunks(toServer[c]) :
                 Handles(c, ch) /\ reading[c]
           \/ toClient'[d] \in {toClient[d], <<>>}
           \/ toClient[d] # <<>> /\ toClient'[d] = Tail(toClient[d])
  <1>1. ASSUME NEW c \in Conns, Handle(c)
        PROVE  \E ch \in Chunks(toServer[c]) : Handles(c, ch) /\ reading[c]
    BY <1>1 DEF Handle, Handles
  <1>2. ASSUME NEW c \in Conns, ClientReceive(c)
        PROVE  \/ toClient'[d] = toClient[d]
               \/ toClient[d] # <<>> /\ toClient'[d] = Tail(toClient[d])
    BY <1>2 DEF ClientReceive, TypeOK
  <1>3. ASSUME NEW c \in Conns, Disconnect(c)
        PROVE  toClient'[d] \in {toClient[d], <<>>}
    BY <1>3 DEF Disconnect, TypeOK
  <1>4. ASSUME NEW c \in Conns, NEW m, ClientSend(c, m)
        PROVE  UNCHANGED toClient
    BY <1>4 DEF ClientSend
  <1>5. ASSUME NEW c \in Conns, ReadError(c) \/ SendsDone(c) \/ Connect(c)
        PROVE  UNCHANGED toClient
    BY <1>5 DEF ReadError, SendsDone, Connect
  <1>6. CASE AcceptError \/ UNCHANGED vars
    BY <1>6 DEF AcceptError, vars
  <1> QED
    BY <1>1, <1>2, <1>3, <1>4, <1>5, <1>6 DEF Next, ServerNext, EnvNext

(* Only a client that has a name makes the server act on anything but one. *)
LEMMA NewcomerRequest ==
    ASSUME TypeOK, NEW c \in Conns, NEW ch \in Chunks(toServer[c]), Newcomer(c)
    PROVE  /\ ch.req.type = "PlayerName" /\ ch.req.name = MyName[c]
           /\ ch.rest = <<>>
  <1>1. toServer[c] # <<>>
    BY ChunkType DEF TypeOK
  <1>2. toServer[c] = <<Request("PlayerName", MyName[c])>>
    BY <1>1 DEF Newcomer
  <1>3. Len(toServer[c]) = 1 /\ Tail(toServer[c]) = <<>>
        /\ toServer[c][1] = Request("PlayerName", MyName[c])
    BY <1>2
  <1>4. ch.req = toServer[c][1] /\ ch.rest = Tail(toServer[c])
    BY <1>3, ChunkApart DEF TypeOK
  <1> QED
    BY <1>3, <1>4 DEF Request

(* A client that has a name asks for no other.                             *)
LEMMA MemberRequest ==
    ASSUME TypeOK, NEW c \in Conns, NEW ch \in Chunks(toServer[c]), Member(c)
    PROVE  ch.req.type # "PlayerName" /\ ch.rest \in Seq(NotNames)
  <1>1. Empty \in NotNames /\ NoOp \in NotNames
    BY DEF Empty, NoOp, Request, NotNames, ClientRequests, RequestTypes, PlainNames
  <1>2. toServer[c] \in Seq(ClientRequests) /\ toServer[c] \in Seq(NotNames)
        /\ toServer[c] # <<>>
    BY ChunkType DEF TypeOK, Member
  <1>3. toServer[c][1].type # "PlayerName"
    BY <1>2 DEF NotNames
  <1>4. NotNames \in SUBSET ClientRequests
    BY DEF NotNames
  <1> QED
    BY <1>1, <1>2, <1>3, <1>4, ChunkKeeps DEF ReadAs

(* Every invitation a client reads comes from one of the clients, under its *)
(* own name.                                                               *)
LEMMA SignedStep ==
    ASSUME SysIInv, [TameNext]_sysVars, NEW d \in Conns
    PROVE  toClient'[d] \in Seq(Signed)
  <1>1. TypeOK /\ [Next]_vars /\ toClient[d] \in Seq(Signed)
    BY TameStepIsNext DEF SysIInv, IInv
  <1>2. ASSUME NEW c \in Conns, Accept(c)
        PROVE  toClient'[d] \in Seq(Signed)
    <2>1. PICK new \in Seq(Greetings) : toClient'[d] = toClient[d] \o new
      BY <1>1, <1>2, AcceptWrites
    <2>2. Greetings \subseteq Signed
      BY DEF Greetings, Signed
    <2>3. new \in Seq(Signed)
      BY <2>2
    <2> QED
      BY <1>1, <2>1, <2>3, ConcatProperties
  <1>3. ASSUME NEW c \in Conns, NEW ch \in Chunks(toServer[c]), Handles(c, ch)
        PROVE  toClient'[d] \in Seq(Signed)
    <2>1. PICK new \in Seq(Letters(c, ch.req, d)) : toClient'[d] = toClient[d] \o new
      BY <1>1, <1>3, HandleWrites
    <2>2. ch.req.type = "Invite" => playerName[c] \in Names
      <3>1. CASE playerName[c] = NoName
        BY <1>1, <3>1, NewcomerRequest DEF SysIInv, Standing
      <3>2. CASE playerName[c] # NoName
        BY <3>2, MyNameAssumption DEF SysIInv, Standing, Member
      <3> QED
        BY <3>1, <3>2
    <2>3. Letters(c, ch.req, d) \subseteq Signed
      <3>1. Junk \in Replies /\ Junk.type = "Junk"
        BY ReplyType, "Junk" \in ReplyTypes DEF Junk, Reply, ReplyTypes
      <3>2. ASSUME NEW m \in Letters(c, ch.req, d), m # Junk, m.type = "Invitation"
            PROVE  m \in Replies /\ m.names \subseteq Names
        <4>1. PICK N \in SUBSET AllNames : /\ Letter(c, ch.req, d, m.type, N)
                                           /\ m.names = {Spoken(n) : n \in N}
          BY <3>2, LetterKinds
        <4>2. N \subseteq Names
          BY <2>2, <3>2, <4>1 DEF Letter
        <4>3. m.names = N
          BY <4>1, <4>2, SpokenPlain DEF PlainNames
        <4> QED
          BY <3>2, <4>2, <4>3, LetterKinds
      <3>3. Letters(c, ch.req, d) \subseteq Replies
        BY <3>1 DEF Letters
      <3> QED
        BY <3>1, <3>2, <3>3 DEF Signed
    <2>4. new \in Seq(Signed)
      BY <2>3
    <2> QED
      BY <1>1, <2>1, <2>4, ConcatProperties
  <1>4. CASE toClient'[d] \in {toClient[d], <<>>}
    BY <1>1, <1>4, <<>> \in Seq(Signed)
  <1>5. CASE toClient[d] # <<>> /\ toClient'[d] = Tail(toClient[d])
    BY <1>1, <1>5, HeadTailIn
  <1> QED
    BY <1>1, <1>2, <1>3, <1>4, <1>5, MailStep

(* What the server does leaves every client a newcomer or a member, and     *)
(* makes a member of one only by reading its name.                         *)
LEMMA ServerKeepsStanding ==
    ASSUME SysIInv, ServerNext, UNCHANGED clientVars, NEW d \in Conns
    PROVE  Standing(d)'
  <1>1. /\ TypeOK /\ Standing(d) /\ toClient[d] \in Seq(Replies)
        /\ MyName[d] \in Names /\ MyName[d] # NoName
    BY MyNameAssumption, NoNameAssumption DEF SysIInv, IInv, TypeOK
  <1>2. UNCHANGED <<state, threads, task>>
    BY DEF clientVars
  <1>3. CASE UNCHANGED <<playerName, clientMap, toServer, toClient>>
    BY <1>1, <1>2, <1>3 DEF Standing, Newcomer, Member
  <1>4. ASSUME NEW c \in Conns, Accept(c)
        PROVE  Standing(d)'
    <2>1. PICK new \in Seq(Greetings) : toClient'[d] = toClient[d] \o new
      BY <1>1, <1>4, AcceptWrites
    <2>2. toClient[d] \in Seq(Greetings) => toClient'[d] \in Seq(Greetings)
      BY <2>1, ConcatProperties
    <2> QED
      BY <1>1, <1>2, <1>4, <2>2 DEF Accept, Standing, Newcomer, Member
  <1>5. ASSUME NEW c \in Conns, ReadError(c)
        PROVE  Standing(d)'
    <2>1. \A n \in AllNames : clientMap'[n] = d => clientMap[n] = d
      BY <1>1, <1>5, NoConnAssumption DEF ReadError, TypeOK
    <2> QED
      BY <1>1, <1>2, <1>5, <2>1 DEF ReadError, Standing, Newcomer, Member
  <1>6. ASSUME NEW c \in Conns, NEW ch \in Chunks(toServer[c]), Handles(c, ch)
        PROVE  Standing(d)'
    <2>1. toServer' = [toServer EXCEPT ![c] = ch.rest]
      BY <1>6 DEF Handles, Take
    <2>2. ch.req.name \in AllNames
      BY <1>1, ChunkType DEF TypeOK, Requests
    <2>3. CASE ch.req.type # "PlayerName"
      <3>1. UNCHANGED <<playerName, clientMap>>
        BY <1>6, <2>3 DEF Handles, Register, RefuseName, Invite, Answer, Step,
                          Relay, CloseGame, CloseGameUnknown, Ignore, Malformed
      <3>2. CASE playerName[d] # NoName
        <4>1. toServer'[d] \in Seq(NotNames)
          BY <1>1, <2>1, <3>2, MemberRequest DEF Standing, Member, TypeOK
        <4> QED
          BY <1>1, <1>2, <3>1, <3>2, <4>1 DEF Standing, Member
      <3>3. CASE playerName[d] = NoName
        <4>1. d # c
          BY <1>1, <2>3, <3>3, NewcomerRequest DEF Standing
        <4>2. PICK new \in Seq(Letters(c, ch.req, d)) : toClient'[d] = toClient[d] \o new
          BY <1>1, <1>6, HandleWrites
        <4>3. Letters(c, ch.req, d) \subseteq Greetings
          <5>1. \A n \in AllNames : clientMap[n] # d
            BY <1>1, <3>3 DEF Standing, Newcomer
          <5>2. SUFFICES ASSUME NEW m \in Letters(c, ch.req, d), m # Junk
                       PROVE  FALSE
            BY GreetingsGreet
          <5>3. PICK N : Letter(c, ch.req, d, m.type, N)
            BY <5>2, LetterKinds
          <5> QED
            BY <2>2, <2>3, <4>1, <5>1, <5>3 DEF Letter
        <4>4. new \in Seq(Greetings)
          BY <4>3
        <4>5. toClient'[d] \in Seq(Greetings) /\ toServer'[d] = toServer[d]
          BY <1>1, <2>1, <3>3, <4>1, <4>2, <4>4, ConcatProperties
             DEF Standing, Newcomer, TypeOK
        <4> QED
          BY <1>1, <1>2, <3>1, <3>3, <4>5 DEF Standing, Newcomer
      <3> QED
        BY <3>2, <3>3
    <2>4. CASE ch.req.type = "PlayerName"
      <3>1. playerName[c] = NoName /\ Newcomer(c)
        BY <1>1, <2>4, MemberRequest DEF SysIInv, Standing
      <3>2. ch.req.name = MyName[c] /\ ch.rest = <<>> /\ toServer[c] # <<>>
        BY <1>1, <3>1, NewcomerRequest, ChunkType DEF TypeOK
      <3>3. /\ playerName' = [playerName EXCEPT ![c] = MyName[c]]
            /\ clientMap' \in {clientMap, [clientMap EXCEPT ![MyName[c]] = c]}
        BY <1>6, <2>4, <3>2 DEF Handles, Register, RefuseName, Invite, Answer,
                    Step, CloseGame, CloseGameUnknown, Ignore, Malformed
      <3>4. CASE d = c
        <4>1. playerName'[c] = MyName[c] /\ toServer'[c] = <<>>
          BY <1>1, <2>1, <3>2, <3>3 DEF TypeOK
        <4>2. \A n \in AllNames : clientMap'[n] = c => n = MyName[c]
          BY <1>1, <3>1, <3>3 DEF Newcomer, TypeOK
        <4>3. state'[c] # "initial" /\ task'[c].do # "name"
          BY <1>2, <3>1, <3>2 DEF Newcomer
        <4> QED
          BY <1>1, <3>4, <4>1, <4>2, <4>3, <<>> \in Seq(NotNames) DEF Standing, Member
      <3>5. CASE d # c
        <4>1. /\ playerName'[d] = playerName[d] /\ toServer'[d] = toServer[d]
              /\ \A n \in AllNames : clientMap'[n] = d => clientMap[n] = d
          BY <1>1, <2>1, <3>3, <3>5 DEF TypeOK
        <4>2. CASE playerName[d] # NoName
          BY <1>1, <1>2, <4>1, <4>2 DEF Standing, Member
        <4>3. CASE playerName[d] = NoName
          <5>1. PICK new \in Seq(Letters(c, ch.req, d)) : toClient'[d] = toClient[d] \o new
            BY <1>1, <1>6, HandleWrites
          <5>2. Letters(c, ch.req, d) \subseteq Greetings
            <6>1. \A n \in AllNames : clientMap[n] # d /\ clientMap'[n] # d
              BY <1>1, <4>1, <4>3 DEF Standing, Newcomer
            <6>2. SUFFICES ASSUME NEW m \in Letters(c, ch.req, d), m # Junk
                         PROVE  FALSE
              BY GreetingsGreet
            <6>3. PICK N : Letter(c, ch.req, d, m.type, N)
              BY <6>2, LetterKinds
            <6> QED
              BY <2>2, <3>5, <6>1, <6>3 DEF Letter
          <5>3. new \in Seq(Greetings)
            BY <5>2
          <5>4. toClient'[d] \in Seq(Greetings)
            BY <1>1, <4>3, <5>1, <5>3, ConcatProperties DEF Standing, Newcomer
          <5> QED
            BY <1>1, <1>2, <4>1, <4>3, <5>4 DEF Standing, Newcomer
        <4> QED
          BY <4>2, <4>3
      <3> QED
        BY <3>4, <3>5
    <2> QED
      BY <2>3, <2>4
  <1> QED
    BY <1>3, <1>4, <1>5, <1>6
       DEF ServerNext, AcceptError, SendsDone, sessionVars, Handle, Handles

(* What is left of at most one request, however much of it is lost. *)
LEMMA SubSeqOfShort ==
    ASSUME NEW x, NEW q \in {<<>>, <<x>>}, NEW k \in 0 .. Len(q)
    PROVE  SubSeq(q, 1, k) \in {<<>>, q}
  <1>1. <<>> \in Seq({x}) /\ <<x>> \in Seq({x}) /\ Len(<<>>) = 0 /\ Len(<<x>>) = 1
    OBVIOUS
  <1>2. q \in Seq({x}) /\ k \in Int /\ (k = 0 \/ k = Len(q))
    <2>1. CASE q = <<>>
      BY <1>1, <2>1
    <2>2. CASE q = <<x>>
      BY <1>1, <2>2
    <2> QED
      BY <2>1, <2>2
  <1>3. CASE k = 0
    BY <1>2, <1>3, SubSeqEmpty
  <1>4. CASE k = Len(q)
    BY <1>2, <1>4, SubSeqFull
  <1> QED
    BY <1>2, <1>3, <1>4

(* A client step touches nobody but the client. *)
LEMMA ClientStepFrame ==
    ASSUME SysIInv, NEW c \in Conns, ClientStep(c)
    PROVE  /\ UNCHANGED <<playerName, clientMap, reading, accepted>>
           /\ \A d \in Conns \ {c} :
                 /\ state'[d] = state[d] /\ partner'[d] = partner[d]
                 /\ threads'[d] = threads[d] /\ task'[d] = task[d]
                 /\ skew'[d] = skew[d] /\ peer'[d] = peer[d]
                 /\ toServer'[d] = toServer[d] /\ toClient'[d] = toClient[d]
  <1>1. TypeOK /\ ClientTypeOK
    BY DEF SysIInv, IInv
  <1>2. ASSUME NEW m, ClientSend(c, m)
        PROVE  /\ UNCHANGED <<playerName, clientMap, reading, accepted, peer, toClient>>
               /\ \A d \in Conns \ {c} : toServer'[d] = toServer[d]
    BY <1>1, <1>2 DEF ClientSend, serverVars, sessionVars, TypeOK
  <1>3. ASSUME ClientReceive(c)
        PROVE  /\ UNCHANGED <<playerName, clientMap, reading, accepted, peer, toServer>>
               /\ \A d \in Conns \ {c} : toClient'[d] = toClient[d]
    BY <1>1, <1>3 DEF ClientReceive, serverVars, sessionVars, TypeOK
  <1>4. ASSUME Disconnect(c) \/ Connect(c)
        PROVE  /\ UNCHANGED <<playerName, clientMap, reading, accepted>>
               /\ \A d \in Conns \ {c} : /\ toClient'[d] = toClient[d]
                                         /\ toServer'[d] = toServer[d]
                                         /\ peer'[d] = peer[d]
    BY <1>1, <1>4 DEF Disconnect, Connect, serverVars, sessionVars, TypeOK
  <1>5. CASE Inviting(c) \/ SendName(c) \/ SendAccept(c) \/ SendStep(c)
    BY <1>1, <1>2, <1>5 DEF Inviting, SendInvitation, SendName, SendAccept,
                            SendStep, SendTo, ClientTypeOK
  <1>6. ASSUME NEW t, Gets(c, t)
        PROVE  ClientReceive(c) /\ \A d \in Conns \ {c} : skew'[d] = skew[d]
    BY <1>1, <1>6 DEF Gets, ClientTypeOK
  <1>7. CASE OnHi(c) \/ OnOk(c)
    BY <1>1, <1>3, <1>6, <1>7 DEF OnHi, OnOk, ClientTypeOK
  <1>8. CASE OnPlayerList(c) \/ OnInvitation(c)
    BY <1>1, <1>3, <1>6, <1>8 DEF OnPlayerList, OnInvitation, ClientTypeOK
  <1>9. CASE OnStep(c) \/ OnNotice(c)
    BY <1>1, <1>3, <1>6, <1>9 DEF OnStep, OnNotice, ClientTypeOK
  <1>10. CASE OnUnknown(c) \/ OnEof(c) \/ Kill(c) \/ Start(c)
    BY <1>4, <1>10 DEF OnUnknown, OnEof, Kill, Start, clientVars
  <1>11. CASE OnEmptyStray(c)
    BY <1>1, <1>11 DEF OnEmptyStray, ClientTypeOK, vars
  <1>12. CASE OnEmptyCut(c)
    BY <1>1, <1>3, <1>12 DEF OnEmptyCut, ClientTypeOK
  <1> QED
    BY <1>5, <1>7, <1>8, <1>9, <1>10, <1>11, <1>12 DEF ClientStep, Reading

(* A client that is a newcomer sends its name and nothing else; one that is *)
(* a member sends anything else.                                           *)
LEMMA ClientKeepsStanding ==
    ASSUME SysIInv, NEW c \in Conns, ClientStep(c), NEW d \in Conns
    PROVE  Standing(d)'
  <1>1. /\ TypeOK /\ ClientTypeOK /\ Standing(d) /\ Standing(c)
        /\ MyName[c] \in Names /\ MyName[c] # NoName
    BY MyNameAssumption, NoNameAssumption DEF SysIInv, IInv
  <1>2. UNCHANGED <<playerName, clientMap>>
    BY ClientStepFrame
  <1>3. CASE d # c
    BY <1>1, <1>2, <1>3, ClientStepFrame DEF Standing, Newcomer, Member
  <1>4. ASSUME d = c, NEW t \in {"Invite", "Accept", "Step"}, NEW n \in PlainNames,
               SendTo(c, t, n), playerName[c] # NoName,
               state'[c] = state[c], task'[c].do # "name"
        PROVE  Standing(d)'
    <2>1. Request(t, n) \in NotNames
      BY DEF Request, NotNames, ClientRequests, RequestTypes, NamedTypes
    <2>2. toServer'[c] = Append(toServer[c], Request(t, n))
      BY <1>1, <1>4 DEF SendTo, ClientSend, TypeOK
    <2>3. toServer'[c] \in Seq(NotNames)
      BY <1>1, <1>4, <2>1, <2>2, AppendProperties DEF Standing, Member
    <2> QED
      BY <1>1, <1>2, <1>4, <2>3 DEF Standing, Member
  <1>5. CASE d = c /\ Inviting(c)
    <2>1. PICK n \in Names : SendInvitation(c, n)
      BY <1>5 DEF Inviting
    <2>2. playerName[c] # NoName
      BY <1>1, <2>1 DEF SendInvitation, Standing, Newcomer, ClientTypeOK
    <2> QED
      BY <1>1, <1>4, <1>5, <2>1, <2>2 DEF SendInvitation, Standing, Member, PlainNames
  <1>6. CASE d = c /\ (SendAccept(c) \/ SendStep(c))
    <2>1. playerName[c] # NoName
      BY <1>1, <1>6 DEF SendAccept, SendStep, Standing, Newcomer
    <2>2. task[c].to \in PlainNames /\ task'[c].do # "name" /\ state'[c] = state[c]
      BY <1>1, <1>6 DEF SendAccept, SendStep, ClientTypeOK, Idle
    <2> QED
      BY <1>4, <1>6, <2>1, <2>2 DEF SendAccept, SendStep
  <1>7. CASE d = c /\ SendName(c)
    <2>1. playerName[c] = NoName /\ toServer[c] = <<>> /\ state[c] # "initial"
      BY <1>1, <1>7 DEF SendName, Standing, Newcomer, Member
    <2>2. toServer'[c] = Append(toServer[c], Request("PlayerName", MyName[c]))
          /\ toClient'[c] = toClient[c]
      BY <1>1, <1>7 DEF SendName, SendTo, ClientSend, TypeOK
    <2>3. toServer'[c] = <<Request("PlayerName", MyName[c])>>
      BY <2>1, <2>2
    <2>4. task'[c] = Idle /\ state'[c] = state[c] /\ threads'[c] = threads[c]
      BY <1>1, <1>7 DEF SendName, ClientTypeOK
    <2> QED
      BY <1>1, <1>2, <1>7, <2>1, <2>2, <2>3, <2>4 DEF Standing, Newcomer, Idle
  <1>8. ASSUME NEW t, Gets(c, t)
        PROVE  /\ toServer'[c] = toServer[c] /\ task[c] = Idle
               /\ toClient[c] \in Seq(Greetings) => toClient'[c] \in Seq(Greetings)
               /\ playerName[c] = NoName => t \in {"Hi", "Junk"}
    <2>1. /\ toClient[c] # <<>> /\ Head(toClient[c]).type = t
          /\ toServer'[c] = toServer[c] /\ task[c] = Idle
          /\ toClient'[c] = Tail(toClient[c])
      BY <1>1, <1>8 DEF Gets, Listens, ClientReceive, TypeOK
    <2>2. toClient[c] \in Seq(Greetings)
            => Head(toClient[c]) \in Greetings /\ Tail(toClient[c]) \in Seq(Greetings)
      BY <2>1, HeadTailIn
    <2> QED
      BY <1>1, <2>1, <2>2 DEF Standing, Newcomer, Greetings
  <1>9. CASE d = c /\ OnHi(c)
    <2>1. /\ toServer'[c] = toServer[c] /\ task[c] = Idle
          /\ toClient[c] \in Seq(Greetings) => toClient'[c] \in Seq(Greetings)
      BY <1>8, <1>9 DEF OnHi
    <2>2. /\ state[c] = "initial" /\ state'[c] = "handshaking"
          /\ task'[c].do = "name" /\ threads'[c] = threads[c]
      BY <1>1, <1>9 DEF OnHi, ClientTypeOK
    <2> QED
      BY <1>1, <1>2, <1>9, <2>1, <2>2 DEF Standing, Newcomer, Member
  <1>10. CASE d = c /\ (\/ OnOk(c) \/ OnPlayerList(c) \/ OnInvitation(c)
                        \/ OnStep(c) \/ OnNotice(c))
    <2>1. playerName[c] # NoName /\ toServer'[c] = toServer[c] /\ task[c] = Idle
      BY <1>8, <1>10 DEF OnOk, OnPlayerList, OnInvitation, OnStep, OnNotice
    <2>2. state'[c] \in {state[c], "registered"} /\ task'[c].do # "name"
      <3>1. CASE OnOk(c) \/ OnPlayerList(c) \/ OnNotice(c)
        BY <1>1, <2>1, <3>1 DEF OnOk, OnPlayerList, OnNotice, ClientTypeOK, Idle
      <3>2. CASE OnInvitation(c)
        <4>1. PICK p : task' = [task EXCEPT ![c] = [do |-> "accept", to |-> p]]
          BY <3>2 DEF OnInvitation
        <4> QED
          BY <1>1, <3>2, <4>1 DEF OnInvitation, ClientTypeOK
      <3>3. CASE OnStep(c)
        BY <1>1, <3>3 DEF OnStep, ClientTypeOK
      <3> QED
        BY <1>10, <3>1, <3>2, <3>3
    <2> QED
      BY <1>1, <1>2, <1>10, <2>1, <2>2 DEF Standing, Member
  <1>11. CASE d = c /\ (OnUnknown(c) \/ OnEof(c) \/ Kill(c))
    <2>1. Disconnect(c) /\ UNCHANGED <<state, threads, task>>
      BY <1>11 DEF OnUnknown, OnEof, Kill, clientVars
    <2>2. PICK k \in 0 .. Len(toServer[c]) :
             toServer' = [toServer EXCEPT ![c] = SubSeq(@, 1, k)]
      BY <2>1 DEF Disconnect
    <2>3. toServer'[c] = SubSeq(toServer[c], 1, k) /\ toClient'[c] = <<>>
      BY <1>1, <2>1, <2>2 DEF Disconnect, TypeOK
    <2>4. ASSUME NEW q \in Seq(ClientRequests), NEW S, q \in Seq(S), k \in 0 .. Len(q)
          PROVE  SubSeq(q, 1, k) \in Seq(S)
      <3>1. k \in Int /\ \A i \in 1 .. k : q[i] \in S
        BY <2>4
      <3> QED
        BY <3>1, SubSeqProperties
    <2>5. CASE playerName[c] # NoName
      <3>1. toServer'[c] \in Seq(NotNames)
        BY <1>1, <2>3, <2>4, <2>5 DEF Standing, Member, TypeOK
      <3> QED
        BY <1>1, <1>2, <1>11, <2>1, <2>5, <3>1 DEF Standing, Member
    <2>6. CASE playerName[c] = NoName
      <3>1. toServer'[c] \in {<<>>, toServer[c]}
        BY <1>1, <2>3, <2>6, SubSeqOfShort DEF Standing, Newcomer
      <3> QED
        BY <1>1, <1>2, <1>11, <2>1, <2>3, <2>6, <3>1, <<>> \in Seq(Greetings)
           DEF Standing, Newcomer
    <2> QED
      BY <2>5, <2>6
  <1>12. CASE d = c /\ (Start(c) \/ OnEmptyStray(c))
    <2>1. UNCHANGED <<state, threads, task, toServer, toClient>>
      BY <1>12 DEF Start, Connect, OnEmptyStray, clientVars, vars
    <2> QED
      BY <1>1, <1>2, <1>12, <2>1 DEF Standing, Newcomer, Member
  <1>13. CASE d = c /\ OnEmptyCut(c)
    <2>1. /\ UNCHANGED <<state, threads, task, toServer>>
          /\ toClient[c] # <<>> /\ toClient'[c] = Tail(toClient[c])
      BY <1>1, <1>13 DEF OnEmptyCut, ClientReceive, TypeOK
    <2>2. toClient[c] \in Seq(Greetings) => toClient'[c] \in Seq(Greetings)
      BY <2>1, HeadTailIn
    <2> QED
      BY <1>1, <1>2, <1>13, <2>1, <2>2 DEF Standing, Newcomer, Member
  <1> QED
    BY <1>3, <1>5, <1>6, <1>7, <1>9, <1>10, <1>11, <1>12, <1>13
       DEF ClientStep, Reading

(* Every step of the system keeps the inductive invariant while no client   *)
(* is astray.                                                              *)
LEMMA SysNextIInv ==
    ASSUME SysIInv, [TameNext]_sysVars
    PROVE  SysIInv'
  <1>1. IInv'
    BY TameStepIsNext, NextIInv DEF SysIInv
  <1>2. ClientTypeOK'
    <2>1. TypeOK /\ ClientTypeOK /\ [SysNext]_sysVars
      BY DEF SysIInv, IInv, SysNext
    <2> QED
      BY <2>1, ClientTypeStep
  <1>3. \A d \in Conns : toClient'[d] \in Seq(Signed)
    BY SignedStep
  <1>4. ASSUME NEW d \in Conns
        PROVE  Standing(d)'
    <2>1. CASE ServerNext /\ UNCHANGED clientVars
      BY <2>1, ServerKeepsStanding
    <2>2. CASE \E c \in Conns : ClientStep(c)
      BY <2>2, ClientKeepsStanding
    <2>3. CASE UNCHANGED sysVars
      <3>1. Standing(d)
        BY DEF SysIInv
      <3> QED
        BY <2>3, <3>1 DEF sysVars, vars, clientVars, Standing, Newcomer, Member
    <2> QED
      BY <2>1, <2>2, <2>3 DEF TameNext, ClientStep
  <1> QED
    BY <1>1, <1>2, <1>3, <1>4 DEF SysIInv

(* The types hold in every reachable state, and the inductive invariant as  *)
(* long as no client is astray.                                            *)
LEMMA SysInductive == SysSpec => [](IInv /\ ClientTypeOK /\ (Sane => SysIInv))
  <1> DEFINE Inv == IInv /\ ClientTypeOK /\ (Sane => SysIInv)
  <1>1. SysInit => Inv
    BY SysInitIInv DEF SysIInv
  <1>2. ASSUME Inv, [SysNext]_sysVars
        PROVE  Inv'
    <2>1. IInv'
      BY <1>2, SysStepIsNext, NextIInv
    <2>2. ClientTypeOK'
      BY <1>2, ClientTypeStep DEF IInv
    <2>3. ASSUME Sane'
          PROVE  SysIInv'
      BY <1>2, <2>3, SaneStep, SysNextIInv
    <2> QED
      BY <2>1, <2>2, <2>3
  <1> QED
    BY <1>1, <1>2, PTL DEF SysSpec

(* Test clients ask of the server, on any network, nothing a client may not *)
(* ask: every step of theirs is a step of the far ends of EasyServer, even  *)
(* when they have read what nobody wrote.                                  *)
THEOREM OpenServerRefined == SysSpec => OpenServer
  <1>1. SysInit => Init
    BY DEF SysInit
  <1>2. ASSUME ClientTypeOK, [SysNext]_sysVars
        PROVE  [Next]_vars
    BY <1>2, SysStepIsNext
  <1> QED
    BY <1>1, <1>2, SysInductive, PTL DEF SysSpec, OpenServer

(* The same with the server's fairness: all that is proved of the server    *)
(* among arbitrary clients holds of it among its test clients.             *)
THEOREM SystemImplementsServer == SysSpec => Spec
  <1>1. SysSpec => Init /\ [][Next]_vars
    BY OpenServerRefined DEF OpenServer
  <1>2. SysSpec => Fairness
    BY PTL DEF SysSpec, SysFairness
  <1> QED
    BY <1>1, <1>2 DEF Spec

(* The variables of the clients keep their types, whatever the splitting of *)
(* the stream and the junk in it make them read (onMessageReceived).       *)
THEOREM ClientTypeCorrect == SysSpec => []ClientTypeOK
  BY SysInductive, PTL

-----------------------------------------------------------------------------
(***************************************************************************)
(* A network that keeps messages apart.                                    *)
(*                                                                         *)
(* Where every read takes one request (~Coalesce), as on a connection used *)
(* slowly enough, nothing a test client sends is malformed, so a session   *)
(* that has a name reads until its connection ends (ApartInv).             *)
(***************************************************************************)
TestTypes == {"PlayerName", "Invite", "Accept", "Step"}

TestRequests == { m \in ClientRequests : m.type \in TestTypes }

Untailed == { m \in Replies : ~m.tail }

Unstale == \A n \in AllNames : clientMap[n] # NoConn => reading[clientMap[n]]

ApartInv ==
    /\ Unstale
    /\ \A c \in Conns : /\ toServer[c] \in Seq(TestRequests)
                        /\ toClient[c] \in Seq(Untailed)
                        /\ skew[c] = "none"

(* What a step does to the requests waiting for a session: it takes some of *)
(* them, adds one, or loses the last ones.                                 *)
LEMMA RequestStep ==
    ASSUME SysIInv, [TameNext]_sysVars, NEW d \in Conns
    PROVE  \/ toServer'[d] = toServer[d]
           \/ \E ch \in Chunks(toServer[d]) : toServer'[d] = ch.rest
           \/ \E t \in TestTypes, n \in PlainNames :
                 toServer'[d] = Append(toServer[d], Request(t, n))
           \/ \E k \in 0 .. Len(toServer[d]) : toServer'[d] = SubSeq(toServer[d], 1, k)
  <1>1. TypeOK /\ ClientTypeOK
    BY DEF SysIInv, IInv
  <1>2. CASE UNCHANGED toServer
    BY <1>2
  <1>3. ASSUME NEW c \in Conns, Handle(c)
        PROVE  \/ toServer'[d] = toServer[d]
               \/ \E ch \in Chunks(toServer[d]) : toServer'[d] = ch.rest
    BY <1>1, <1>3 DEF Handle, Take, TypeOK
  <1>4. ASSUME NEW c \in Conns, NEW t \in TestTypes, NEW n \in PlainNames,
               SendTo(c, t, n)
        PROVE  \/ toServer'[d] = toServer[d]
               \/ toServer'[d] = Append(toServer[d], Request(t, n))
    BY <1>1, <1>4 DEF SendTo, ClientSend, TypeOK
  <1>5. ASSUME NEW c \in Conns, Disconnect(c)
        PROVE  \/ toServer'[d] = toServer[d]
               \/ \E k \in 0 .. Len(toServer[d]) :
                     toServer'[d] = SubSeq(toServer[d], 1, k)
    <2>1. PICK k \in 0 .. Len(toServer[c]) :
             toServer' = [toServer EXCEPT ![c] = SubSeq(@, 1, k)]
      BY <1>5 DEF Disconnect
    <2> QED
      BY <1>1, <2>1 DEF TypeOK
  <1>6. ASSUME NEW c \in Conns, Reading(c) \/ Inviting(c)
        PROVE  \/ \E t \in TestTypes, n \in PlainNames : SendTo(c, t, n)
               \/ Disconnect(c) \/ UNCHANGED toServer
    <2>1. task[c].to \in PlainNames /\ MyName[c] \in PlainNames
          /\ \A n \in Names : n \in PlainNames
      BY <1>1, MyNameAssumption DEF ClientTypeOK, PlainNames
    <2>2. CASE Inviting(c) \/ SendName(c) \/ SendAccept(c) \/ SendStep(c)
      BY <2>1, <2>2 DEF Inviting, SendInvitation, SendName, SendAccept, SendStep,
                        TestTypes
    <2>3. ASSUME NEW t, Gets(c, t)
          PROVE  UNCHANGED toServer
      BY <2>3 DEF Gets, ClientReceive
    <2>4. CASE OnHi(c) \/ OnOk(c) \/ OnPlayerList(c) \/ OnInvitation(c)
               \/ OnStep(c) \/ OnNotice(c)
      BY <2>3, <2>4 DEF OnHi, OnOk, OnPlayerList, OnInvitation, OnStep, OnNotice
    <2>5. CASE OnUnknown(c) \/ OnEmptyStray(c) \/ OnEmptyCut(c) \/ OnEof(c)
      BY <2>5 DEF OnUnknown, OnEmptyStray, OnEmptyCut, OnEof, ClientReceive, vars
    <2> QED
      BY <1>6, <2>2, <2>4, <2>5 DEF Reading
  <1>7. CASE ServerNext
    BY <1>2, <1>3, <1>7 DEF ServerNext, AcceptError, Accept, ReadError, SendsDone
  <1>8. ASSUME NEW c \in Conns, Start(c) \/ Kill(c)
        PROVE  Disconnect(c) \/ UNCHANGED toServer
    BY <1>8 DEF Start, Kill, Connect
  <1> QED
    BY <1>2, <1>4, <1>5, <1>6, <1>7, <1>8 DEF TameNext, sysVars, vars

(* The beginning of a sequence has its elements. *)
LEMMA PrefixIn ==
    ASSUME NEW S, NEW q \in Seq(S), NEW k \in 0 .. Len(q)
    PROVE  SubSeq(q, 1, k) \in Seq(S)
  <1>1. k \in Int /\ \A i \in 1 .. k : q[i] \in S
    OBVIOUS
  <1> QED
    BY <1>1, SubSeqProperties

(* No request is malformed. *)
LEMMA TestRequestsStep ==
    ASSUME ~Coalesce, SysIInv, ApartInv, [TameNext]_sysVars, NEW d \in Conns
    PROVE  toServer'[d] \in Seq(TestRequests)
  <1>1. /\ toServer[d] \in Seq(TestRequests)
        /\ toServer[d] \in Seq(ClientRequests)
    BY DEF SysIInv, IInv, TypeOK, ApartInv
  <1>2. ASSUME NEW ch \in Chunks(toServer[d]), toServer'[d] = ch.rest
        PROVE  toServer'[d] \in Seq(TestRequests)
    BY <1>1, <1>2, ChunkApart, HeadTailIn
  <1>3. ASSUME NEW t \in TestTypes, NEW n \in PlainNames
        PROVE  Append(toServer[d], Request(t, n)) \in Seq(TestRequests)
    <2>1. Request(t, n) \in TestRequests
      BY DEF Request, TestRequests, ClientRequests, RequestTypes, NamedTypes, TestTypes
    <2> QED
      BY <1>1, <2>1, AppendProperties
  <1> QED
    BY <1>1, <1>2, <1>3, RequestStep, PrefixIn

(* Names are whole, so no message a client reads holds a ';' of its own.    *)
LEMMA UntailedStep ==
    ASSUME ~Coalesce, SysIInv, SysIInv', ApartInv, [TameNext]_sysVars, NEW d \in Conns
    PROVE  toClient'[d] \in Seq(Untailed)
  <1>1. TypeOK /\ TypeOK' /\ [Next]_vars /\ toClient[d] \in Seq(Untailed)
    BY TameStepIsNext DEF SysIInv, IInv, ApartInv
  <1>2. ASSUME NEW c \in Conns, Accept(c)
        PROVE  toClient'[d] \in Seq(Untailed)
    <2>1. PICK new \in Seq(Greetings) : toClient'[d] = toClient[d] \o new
      BY <1>1, <1>2, AcceptWrites
    <2>2. new \in Seq(Untailed)
      BY <2>1 DEF Greetings, Untailed
    <2> QED
      BY <1>1, <2>1, <2>2, ConcatProperties
  <1>3. ASSUME NEW c \in Conns, NEW ch \in Chunks(toServer[c]), Handles(c, ch)
        PROVE  toClient'[d] \in Seq(Untailed)
    <2>1. PICK new \in Seq(Letters(c, ch.req, d)) : toClient'[d] = toClient[d] \o new
      BY <1>1, <1>3, HandleWrites
    <2>2. ch.req \in ClientRequests
      BY <1>1, ChunkApart DEF TypeOK
    <2>3. ch.req.name \in PlainNames /\ ~ch.req.tail
      BY <2>2 DEF ClientRequests
    <2>4. playerName[c] \in PlainNames
      BY MyNameAssumption DEF SysIInv, Standing, Member, PlainNames
    <2>5. ASSUME NEW n \in AllNames, clientMap'[n] # NoConn
          PROVE  n \in PlainNames
      <3>1. PICK e \in Conns : clientMap'[n] = e
        BY <1>1, <2>5 DEF TypeOK
      <3>2. n = MyName[e]
        BY <3>1 DEF SysIInv, Standing, Newcomer, Member
      <3> QED
        BY <3>2, MyNameAssumption DEF PlainNames
    <2>6. ASSUME NEW m \in Letters(c, ch.req, d), m # Junk
          PROVE  m \in Untailed
      <3>1. PICK N \in SUBSET AllNames :
               /\ Letter(c, ch.req, d, m.type, N)
               /\ m.tail => ch.req.tail \/ N \cap GluedNames # {}
        BY <2>6, LetterKinds
      <3>2. N \subseteq PlainNames
        BY <2>3, <2>4, <2>5, <3>1 DEF Letter
      <3> QED
        BY <2>3, <2>6, <3>1, <3>2, LetterKinds, UngluedAssumption DEF Untailed
    <2>7. new \in Seq(Untailed)
      BY <2>6, GreetingsGreet DEF Greetings, Untailed
    <2> QED
      BY <1>1, <2>1, <2>7, ConcatProperties
  <1>4. CASE toClient'[d] \in {toClient[d], <<>>}
    BY <1>1, <1>4, <<>> \in Seq(Untailed)
  <1>5. CASE toClient[d] # <<>> /\ toClient'[d] = Tail(toClient[d])
    BY <1>1, <1>5, HeadTailIn
  <1> QED
    BY <1>1, <1>2, <1>3, <1>4, <1>5, MailStep

(* The next message a client reads starts where a message starts. *)
LEMMA SkewStep ==
    ASSUME ~Coalesce, SysIInv, ApartInv, [TameNext]_sysVars, NEW d \in Conns
    PROVE  skew'[d] = "none"
  <1>1. /\ ClientTypeOK /\ skew[d] = "none"
        /\ \A c \in Conns : toClient[c] \in Seq(Untailed)
    BY DEF SysIInv, ApartInv
  <1>2. CASE UNCHANGED skew
    BY <1>1, <1>2
  <1>3. ASSUME NEW c \in Conns, NEW t, Gets(c, t)
        PROVE  skew'[d] = "none"
    <2>1. PICK s \in {"none", "cut", "stray"} :
             /\ s = "stray" <=> Head(toClient[c]).tail
             /\ s = "cut" => Coalesce /\ Len(toClient[c]) > 1
             /\ skew' = [skew EXCEPT ![c] = s]
      BY <1>3 DEF Gets
    <2>2. ~Head(toClient[c]).tail
      <3>1. Head(toClient[c]) \in Untailed
        BY <1>1, <1>3, HeadTailIn DEF Gets
      <3> QED
        BY <3>1 DEF Untailed
    <2> QED
      BY <1>1, <2>1, <2>2 DEF ClientTypeOK
  <1>4. ASSUME NEW c \in Conns, OnEmptyStray(c) \/ OnEmptyCut(c)
        PROVE  skew'[d] = "none"
    BY <1>1, <1>4 DEF OnEmptyStray, OnEmptyCut, ClientTypeOK
  <1>5. ASSUME NEW c \in Conns, Inviting(c) \/ SendName(c) \/ SendAccept(c)
                                \/ SendStep(c) \/ OnUnknown(c) \/ OnEof(c)
                                \/ Start(c) \/ Kill(c)
        PROVE  UNCHANGED skew
    BY <1>5 DEF Inviting, SendInvitation, SendName, SendAccept, SendStep,
                OnUnknown, OnEof, Start, Kill, clientVars
  <1>6. ASSUME NEW c \in Conns, \/ OnHi(c) \/ OnOk(c) \/ OnPlayerList(c)
                                \/ OnInvitation(c) \/ OnStep(c) \/ OnNotice(c)
        PROVE  \E t : Gets(c, t)
    BY <1>6 DEF OnHi, OnOk, OnPlayerList, OnInvitation, OnStep, OnNotice
  <1> QED
    BY <1>2, <1>3, <1>4, <1>5, <1>6 DEF TameNext, Reading, sysVars, clientVars

(* The session of an entry goes on reading: a name given is never refused,  *)
(* no request is malformed, and the end of the connection frees the name.  *)
LEMMA StaleStep ==
    ASSUME ~Coalesce, SysIInv, ApartInv, [TameNext]_sysVars
    PROVE  Unstale'
  <1>1. TypeOK /\ Unstale /\ [Next]_vars
    BY TameStepIsNext DEF SysIInv, IInv, ApartInv
  <1>2. CASE UNCHANGED <<clientMap, reading>>
    BY <1>1, <1>2 DEF Unstale
  <1>3. ASSUME NEW c \in Conns, Accept(c)
        PROVE  Unstale'
    BY <1>1, <1>3 DEF Accept, Unstale, TypeOK
  <1>4. ASSUME NEW c \in Conns, ReadError(c)
        PROVE  Unstale'
    <2>1. /\ clientMap' = [clientMap EXCEPT ![playerName[c]] = NoConn]
          /\ reading' = [reading EXCEPT ![c] = FALSE]
      BY <1>4 DEF ReadError, StopReading
    <2>2. \A n \in AllNames : clientMap[n] = c => n = playerName[c]
      BY DEF SysIInv, Standing, Newcomer, Member
    <2> QED
      BY <1>1, <2>1, <2>2, NoConnAssumption DEF Unstale, TypeOK
  <1>5. ASSUME NEW c \in Conns, NEW ch \in Chunks(toServer[c]), Handles(c, ch),
               reading[c]
        PROVE  Unstale'
    <2>1. ch.req \in TestRequests /\ ch.req.name \in AllNames
      <3>1. ch.req = toServer[c][1] /\ toServer[c] # <<>>
        BY <1>1, ChunkApart DEF TypeOK
      <3>2. ch.req \in TestRequests
        BY <3>1 DEF ApartInv
      <3> QED
        BY <3>2 DEF TestRequests, ClientRequests, AllNames
    <2>2. CASE ch.req.type # "PlayerName"
      <3>1. ch.req.type \notin {"Bad", "Empty"}
        BY <2>1 DEF TestRequests, TestTypes
      <3>2. UNCHANGED <<clientMap, reading>>
        BY <1>5, <2>2, <3>1 DEF Handles, Register, RefuseName, Invite, Answer, Step,
             Relay, CloseGame, CloseGameUnknown, Ignore, Malformed, ReadAgain
      <3> QED
        BY <1>2, <3>2
    <2>3. CASE ch.req.type = "PlayerName"
      <3>1. \A n \in AllNames : clientMap[n] # c
        BY <1>1, <2>3, MemberRequest DEF SysIInv, Standing, Newcomer
      <3>2. \/ /\ clientMap' = [clientMap EXCEPT ![ch.req.name] = c]
               /\ UNCHANGED reading
            \/ /\ reading' = [reading EXCEPT ![c] = FALSE]
               /\ UNCHANGED clientMap
        BY <1>5, <2>3 DEF Handles, Register, RefuseName, Invite, Answer, Step,
             CloseGame, CloseGameUnknown, Ignore, Malformed, ReadAgain, StopReading
      <3> QED
        BY <1>1, <1>5, <2>1, <3>1, <3>2 DEF Unstale, TypeOK
    <2> QED
      BY <2>2, <2>3
  <1>6. ASSUME NEW c \in Conns, SendsDone(c)
        PROVE  UNCHANGED <<clientMap, reading>>
    BY <1>6 DEF SendsDone, sessionVars
  <1>7. CASE AcceptError \/ UNCHANGED vars
    BY <1>2, <1>7 DEF AcceptError, sessionVars, vars
  <1>8. CASE EnvNext
    BY <1>2, <1>8 DEF EnvNext, Connect, ClientSend, ClientReceive, Disconnect,
                      serverVars, sessionVars
  <1> QED
    BY <1>1, <1>2, <1>3, <1>4, <1>5, <1>6, <1>7, <1>8
       DEF Next, ServerNext, Handle, Handles

(* On a network that keeps messages apart nothing is malformed or skewed.  *)
LEMMA ApartInductive ==
    ASSUME ~Coalesce
    PROVE  SysSpec => [](Sane => ApartInv)
  <1>1. SysInit => ApartInv
    <2> SUFFICES ASSUME SysInit PROVE ApartInv
      OBVIOUS
    <2>1. Unstale
      BY DEF SysInit, Init, Unstale
    <2> QED
      BY <2>1, <<>> \in Seq(TestRequests), <<>> \in Seq(Untailed)
         DEF SysInit, Init, ApartInv
  <1>2. ASSUME SysIInv, SysIInv', ApartInv, [TameNext]_sysVars
        PROVE  ApartInv'
    <2>1. Unstale'
      BY <1>2, StaleStep
    <2>2. \A d \in Conns : /\ toServer'[d] \in Seq(TestRequests)
                           /\ toClient'[d] \in Seq(Untailed)
                           /\ skew'[d] = "none"
      BY <1>2, TestRequestsStep, UntailedStep, SkewStep
    <2> QED
      BY <2>1, <2>2 DEF ApartInv
  <1>3. ASSUME ClientTypeOK, [SysNext]_sysVars, Sane'
        PROVE  Sane /\ [TameNext]_sysVars
    BY <1>3, SaneStep
  <1> QED
    BY <1>1, <1>2, <1>3, SysInductive, PTL DEF SysSpec

(* As long as none has read what nobody wrote, test clients leave no name   *)
(* behind, however many of them are killed: the session of an entry of      *)
(* m_clientMap reads, and frees the name when its connection ends           *)
(* (removeClient).                                                         *)
THEOREM NoStaleEntryHolds ==
    ASSUME ~Coalesce
    PROVE  SysSpec => []NoStaleEntry
  <1>1. (Sane => ApartInv) => NoStaleEntry
    BY DEF ApartInv, Unstale, NoStaleEntry
  <1> QED
    BY <1>1, ApartInductive, PTL

-----------------------------------------------------------------------------
(***************************************************************************)
(* The order of messages on a connection.                                  *)
(***************************************************************************)
Has(q, A) == \E j \in 1 .. Len(q) : q[j] \in A

\* Every element of B in q comes after one of A.
Precedes(q, A, B) ==
    \A i \in 1 .. Len(q) : q[i] \in B => \E j \in 1 .. i - 1 : q[j] \in A

(* Adding to the end of a queue keeps what it has in the order it had, and  *)
(* an element of B may follow as soon as there is one of A.                *)
LEMMA OrderConcat ==
    ASSUME NEW S, NEW q \in Seq(S), NEW new \in Seq(S), NEW A, NEW B
    PROVE  /\ Has(q, A) \/ Has(new, A) => Has(q \o new, A)
           /\ Precedes(q, A, B) /\ (Has(q, A) \/ ~Has(new, B))
                 => Precedes(q \o new, A, B)
  <1> DEFINE r == q \o new
  <1>1. /\ Len(r) = Len(q) + Len(new) /\ Len(q) \in Nat /\ Len(new) \in Nat
        /\ \A i \in 1 .. Len(q) : r[i] = q[i]
        /\ \A i \in 1 .. Len(new) : r[Len(q) + i] = new[i]
    BY ConcatProperties
  <1> HIDE DEF r
  <1>2. Has(q, A) => Has(r, A)
    BY <1>1 DEF Has
  <1>3. ASSUME Has(new, A)
        PROVE  Has(r, A)
    <2>1. PICK j \in 1 .. Len(new) : new[j] \in A
      BY <1>3 DEF Has
    <2>2. Len(q) + j \in 1 .. Len(r) /\ r[Len(q) + j] \in A
      BY <1>1, <2>1
    <2> QED
      BY <2>2 DEF Has
  <1>4. ASSUME Precedes(q, A, B), Has(q, A) \/ ~Has(new, B),
               NEW i \in 1 .. Len(r), r[i] \in B
        PROVE  \E j \in 1 .. i - 1 : r[j] \in A
    <2>1. CASE i \in 1 .. Len(q)
      <3>1. PICK j \in 1 .. i - 1 : q[j] \in A
        BY <1>1, <1>4, <2>1 DEF Precedes
      <3>2. r[j] \in A
        BY <1>1, <2>1, <3>1
      <3> QED
        BY <3>2
    <2>2. CASE i \notin 1 .. Len(q)
      <3>1. i - Len(q) \in 1 .. Len(new) /\ r[i] = new[i - Len(q)]
        BY <1>1, <2>2
      <3>2. Has(new, B)
        BY <1>4, <3>1 DEF Has
      <3>3. PICK j \in 1 .. Len(q) : q[j] \in A
        BY <1>4, <3>2 DEF Has
      <3>4. j \in 1 .. i - 1 /\ r[j] \in A
        BY <1>1, <2>2, <3>3
      <3> QED
        BY <3>4
    <2> QED
      BY <2>1, <2>2
  <1> QED
    BY <1>2, <1>3, <1>4 DEF Precedes, r

(* Taking the first message away keeps the order of the others, unless it   *)
(* is the one that had to come first.                                      *)
LEMMA OrderTail ==
    ASSUME NEW S, NEW q \in Seq(S), q # <<>>, NEW A, NEW B
    PROVE  /\ Precedes(q, A, B) => q[1] \notin B
           /\ q[1] \notin A /\ Has(q, A) => Has(Tail(q), A)
           /\ q[1] \notin A /\ Precedes(q, A, B) => Precedes(Tail(q), A, B)
  <1> DEFINE r == Tail(q)
  <1>1. /\ Len(q) \in Nat /\ Len(q) >= 1 /\ Len(r) = Len(q) - 1
        /\ \A i \in 1 .. Len(r) : r[i] = q[i + 1]
    BY HeadTailProperties, EmptySeq
  <1> HIDE DEF r
  <1>2. Precedes(q, A, B) => q[1] \notin B
    BY <1>1 DEF Precedes
  <1>3. ASSUME q[1] \notin A, Has(q, A)
        PROVE  Has(r, A)
    <2>1. PICK j \in 1 .. Len(q) : q[j] \in A
      BY <1>3 DEF Has
    <2>2. j - 1 \in 1 .. Len(r) /\ r[j - 1] = q[j]
      BY <1>1, <1>3, <2>1
    <2> QED
      BY <2>1, <2>2 DEF Has
  <1>4. ASSUME q[1] \notin A, Precedes(q, A, B), NEW i \in 1 .. Len(r), r[i] \in B
        PROVE  \E j \in 1 .. i - 1 : r[j] \in A
    <2>1. i + 1 \in 1 .. Len(q) /\ q[i + 1] \in B /\ (i + 1) - 1 = i
      BY <1>1, <1>4
    <2>2. PICK j \in 1 .. i : q[j] \in A
      BY <1>4, <2>1 DEF Precedes
    <2>3. j - 1 \in 1 .. i - 1 /\ r[j - 1] = q[j]
      BY <1>1, <1>4, <2>2
    <2> QED
      BY <2>2, <2>3
  <1> QED
    BY <1>2, <1>3, <1>4 DEF Precedes, r

(* Losing the last messages keeps the order of the others. *)
LEMMA OrderPrefix ==
    ASSUME NEW S, NEW q \in Seq(S), NEW k \in 0 .. Len(q), NEW A, NEW B,
           Precedes(q, A, B)
    PROVE  Precedes(SubSeq(q, 1, k), A, B)
  <1> DEFINE r == SubSeq(q, 1, k)
  <1>1. Len(r) = k /\ \A i \in 1 .. k : r[i] = q[i]
    <2>1. k \in Int /\ \A i \in 1 .. k : q[i] \in S
      OBVIOUS
    <2> QED
      BY <2>1, SubSeqProperties
  <1> HIDE DEF r
  <1>2. ASSUME NEW i \in 1 .. Len(r), r[i] \in B
        PROVE  \E j \in 1 .. i - 1 : r[j] \in A
    <2>1. PICK j \in 1 .. i - 1 : q[j] \in A
      BY <1>1, <1>2 DEF Precedes
    <2> QED
      BY <1>1, <2>1
  <1> QED
    BY <1>2 DEF Precedes, r

-----------------------------------------------------------------------------
(***************************************************************************)
(* Who knows of whom, and what a player is told first.                     *)
(*                                                                         *)
(* When the clients have names of their own, none is refused, so a client  *)
(* with a name can be found until its connection ends (Stays).  Nobody has *)
(* heard a name before it is given (Unheard), and nobody is invited by a   *)
(* client that has invited nobody (Uninvited).  Then every step on its way *)
(* to a client without a partner is behind an invitation, or behind what   *)
(* was sent in place of one (Warned).                                      *)
(***************************************************************************)
Distinct == \A c, d \in Conns : MyName[c] = MyName[d] => c = d

Stays(c) ==
    /\ peer[c] = "idle" => ~accepted[c]
    /\ peer[c] # "up" => toClient[c] = <<>>
    /\ playerName[c] # NoName /\ peer[c] # "down" => reading[c]

Unlisting(n)  == { m \in Replies : m.type = "PlayerList" => n \notin m.names }
Unsigned(n)   == { m \in Replies : m.type = "Invitation" => n \notin m.names }
Uninviting(n) == { m \in ClientRequests : m.type = "Invite" => m.name # n }
NoInvites     == { m \in ClientRequests : m.type # "Invite" }

Unheard(d, n) ==
    /\ threads[d][n] = 0
    /\ toClient[d] \in Seq(Unlisting(n))
    /\ toServer[d] \in Seq(Uninviting(n))

Uninvited(d, c) ==
    /\ toServer[c] \in Seq(NoInvites)
    /\ toClient[d] \in Seq(Unsigned(MyName[c]))
    /\ ~(task[d].do = "accept" /\ task[d].to = MyName[c])

Introduced(c, d) ==
    /\ playerName[c] = NoName => Unheard(d, MyName[c])
    /\ partner[c] = NoName => Uninvited(d, c)

Tells       == { m \in Replies : m.type \in {"Invitation", "Junk"} }
OnSteps     == { m \in Replies : m.type = "OnStep" }
InvitesTo(n) == { m \in ClientRequests : m.type = "Invite" /\ m.name = n }
StepsTo(n)   == { m \in ClientRequests : m.type = "Step" /\ m.name = n }

\* d takes the player called n for its partner.
Plays(d, n) == partner[d] = n \/ (task[d].do = "step" /\ task[d].to = n)

WarnedOf(c, d) ==
    /\ \/ Has(toClient[c], Tells)
       \/ Precedes(toServer[d], InvitesTo(MyName[c]), StepsTo(MyName[c]))
    /\ peer[d] # "down" /\ Plays(d, MyName[c])
         => Has(toClient[c], Tells) \/ Has(toServer[d], InvitesTo(MyName[c]))

Warned(c) ==
    /\ Precedes(toClient[c], Tells, OnSteps)
    /\ \A d \in Conns : WarnedOf(c, d)

\* A client that has neither invited anybody nor read an invitation.
Waits(c) == peer[c] # "down" /\ partner[c] = NoName /\ task[c].do # "accept"

\* What a client accepts, or plays with, is a player.
Addressed(c) == task[c].do \in {"accept", "step"} => task[c].to # NoName

GameInv ==
    \A c \in Conns :
        /\ Stays(c) /\ Addressed(c)
        /\ \A d \in Conns : Introduced(c, d)
        /\ Waits(c) => Warned(c)

SafeInv == SysIInv /\ ApartInv /\ GameInv

(* Nothing is on its way to a far end that is not there. *)
LEMMA NothingToGone ==
    ASSUME SysIInv, [Next]_vars, NEW d \in Conns, peer[d] # "up" => toClient[d] = <<>>
    PROVE  peer'[d] # "up" => toClient'[d] = <<>>
  <1>1. TypeOK
    BY DEF SysIInv, IInv
  <1>2. ASSUME NEW w, Post(w), UNCHANGED peer
        PROVE  peer'[d] # "up" => toClient'[d] = <<>>
    BY <1>2 DEF Post
  <1>3. ASSUME NEW c \in Conns, NEW ch \in Chunks(toServer[c]), Handles(c, ch)
        PROVE  peer'[d] # "up" => toClient'[d] = <<>>
    BY <1>2, <1>3 DEF Handles, Take, Register, RefuseName, Invite, Answer, Step,
                      Relay, CloseGame, CloseGameUnknown, Ignore, Malformed
  <1>4. ASSUME NEW c \in Conns, Accept(c)
        PROVE  peer'[d] # "up" => toClient'[d] = <<>>
    BY <1>2, <1>4 DEF Accept
  <1>5. ASSUME NEW c \in Conns, ReadError(c) \/ SendsDone(c)
                                \/ \E m \in ClientRequests : ClientSend(c, m)
        PROVE  UNCHANGED <<peer, toClient>>
    BY <1>5 DEF ReadError, SendsDone, ClientSend
  <1>6. CASE AcceptError \/ UNCHANGED vars
    BY <1>6 DEF AcceptError, vars
  <1>7. ASSUME NEW c \in Conns, Connect(c) \/ ClientReceive(c) \/ Disconnect(c)
        PROVE  peer'[d] # "up" => toClient'[d] = <<>>
    BY <1>1, <1>7 DEF Connect, ClientReceive, Disconnect, TypeOK
  <1> QED
    BY <1>3, <1>4, <1>5, <1>6, <1>7 DEF Next, ServerNext, EnvNext, Handle, Handles

(* A reading session with a name is in m_clientMap, whatever was refused to *)
(* others; with names of their own the clients are refused none.           *)
LEMMA StaysStep ==
    ASSUME ~Coalesce, Distinct, SafeInv, [TameNext]_sysVars, NEW d \in Conns
    PROVE  Stays(d)'
  <1>1. /\ TypeOK /\ [Next]_vars /\ Stays(d) /\ MyName[d] # NoName
        /\ NewSession /\ Standing(d)
    BY TameStepIsNext, MyNameAssumption, NoNameAssumption
       DEF SafeInv, SysIInv, IInv, GameInv
  <1>2. peer'[d] # "up" => toClient'[d] = <<>>
    BY <1>1, NothingToGone DEF SafeInv, Stays
  <1>3. CASE UNCHANGED <<playerName, reading, peer, accepted>>
    BY <1>2, <1>1, <1>3 DEF Stays
  <1>4. ASSUME NEW c \in Conns, Accept(c)
        PROVE  Stays(d)'
    BY <1>2, <1>1, <1>4 DEF Accept, Stays, TypeOK
  <1>5. ASSUME NEW c \in Conns, ReadError(c)
        PROVE  Stays(d)'
    BY <1>2, <1>1, <1>5 DEF ReadError, StopReading, Stays, TypeOK
  <1>6. ASSUME NEW c \in Conns, NEW ch \in Chunks(toServer[c]), Handles(c, ch),
               reading[c]
        PROVE  Stays(d)'
    <2>1. UNCHANGED <<peer, accepted>>
      BY <1>6 DEF Handles, Take
    <2>2. ch.req \in TestRequests
      <3>1. ch.req = toServer[c][1] /\ toServer[c] # <<>>
        BY <1>1, ChunkApart DEF TypeOK
      <3> QED
        BY <3>1 DEF SafeInv, ApartInv
    <2>3. CASE ch.req.type # "PlayerName"
      <3>1. ch.req.type \notin {"Bad", "Empty"}
        BY <2>2 DEF TestRequests, TestTypes
      <3>2. UNCHANGED <<playerName, reading>>
        BY <1>6, <2>3, <3>1 DEF Handles, Register, RefuseName, Invite, Answer, Step,
             Relay, CloseGame, CloseGameUnknown, Ignore, Malformed, ReadAgain
      <3> QED
        BY <1>3, <2>1, <3>2
    <2>4. CASE ch.req.type = "PlayerName"
      <3>1. Newcomer(c)
        BY <1>1, <2>4, MemberRequest DEF SafeInv, SysIInv, Standing
      <3>2. ch.req.name = MyName[c]
        BY <1>1, <3>1, NewcomerRequest
      <3>3. MyName[c] \in AllNames
        BY MyNameAssumption DEF AllNames, PlainNames
      <3>4. clientMap[MyName[c]] = NoConn
        <4>1. SUFFICES ASSUME NEW e \in Conns, clientMap[MyName[c]] = e
                       PROVE  FALSE
          BY <1>1, <3>3 DEF TypeOK
        <4>2. MyName[c] = MyName[e]
          BY <3>3, <4>1 DEF SafeInv, SysIInv, Standing, Newcomer, Member
        <4>3. e = c
          BY <4>2 DEF Distinct
        <4> QED
          BY <3>1, <3>3, <4>1, <4>3 DEF Newcomer
      <3>5. /\ playerName' = [playerName EXCEPT ![c] = MyName[c]]
            /\ UNCHANGED reading
        BY <1>6, <2>4, <3>2, <3>4 DEF Handles, Register, RefuseName, Invite, Answer,
             Step, CloseGame, CloseGameUnknown, Ignore, Malformed, ReadAgain
      <3> QED
        BY <1>2, <1>1, <1>6, <2>1, <3>5 DEF Stays, TypeOK
    <2> QED
      BY <2>3, <2>4
  <1>7. ASSUME NEW c \in Conns, Connect(c)
        PROVE  Stays(d)'
    BY <1>2, <1>1, <1>7 DEF Connect, serverVars, sessionVars, Stays, TypeOK
  <1>8. ASSUME NEW c \in Conns, Disconnect(c)
        PROVE  Stays(d)'
    BY <1>2, <1>1, <1>8 DEF Disconnect, serverVars, sessionVars, Stays, TypeOK
  <1>9. ASSUME NEW c \in Conns, ClientReceive(c) \/ SendsDone(c)
                                \/ \E m \in ClientRequests : ClientSend(c, m)
        PROVE  UNCHANGED <<playerName, reading, peer, accepted>>
    BY <1>9 DEF ClientSend, ClientReceive, SendsDone, serverVars, sessionVars
  <1>10. CASE AcceptError \/ UNCHANGED vars
    BY <1>3, <1>10 DEF AcceptError, sessionVars, vars
  <1> QED
    BY <1>1, <1>3, <1>4, <1>5, <1>6, <1>7, <1>8, <1>9, <1>10
       DEF Next, ServerNext, EnvNext, Handle, Handles

(***************************************************************************)
(* What a client does with its own connection and its own record.          *)
(***************************************************************************)
Sends(c, t, n) ==
    /\ peer[c] = "up" /\ peer'[c] = "up"
    /\ toServer'[c] = Append(toServer[c], Request(t, n))
    /\ toClient'[c] = toClient[c]

Reads(c, t) ==
    /\ task[c] = Idle /\ toClient[c] # <<>> /\ toClient[c][1].type = t
    /\ peer[c] = "up" /\ peer'[c] = "up"
    /\ toServer'[c] = toServer[c]
    /\ toClient'[c] = Tail(toClient[c])
    /\ partner'[c] = partner[c]

Departs(c) ==
    /\ peer'[c] = "down" /\ toClient'[c] = <<>>
    /\ \E k \in 0 .. Len(toServer[c]) : toServer'[c] = SubSeq(toServer[c], 1, k)
    /\ UNCHANGED <<partner[c], task[c], threads[c]>>

Plain == {"Hi", "Ok", "PlayerOfflined", "InvitationRejected", "InvitationAccepted"}

Invites(c) ==
    \E n \in Names : /\ Sends(c, "Invite", n)
                     /\ threads[c][n] # 0
                     /\ \A k \in Names : threads[c][k] = 0 => threads'[c][k] = 0
                     /\ partner'[c] = n /\ task'[c] = task[c]

GivesName(c) ==
    /\ Sends(c, "PlayerName", MyName[c]) /\ task[c].do = "name"
    /\ task'[c] = Idle /\ UNCHANGED <<partner[c], threads[c]>>

Accepts(c) ==
    /\ Sends(c, "Accept", task[c].to) /\ task[c].do = "accept"
    /\ task'[c] = [do |-> "step", to |-> task[c].to]
    /\ partner'[c] = task[c].to /\ UNCHANGED threads[c]

Moves(c) ==
    /\ Sends(c, "Step", task[c].to) /\ task[c].do = "step"
    /\ task'[c] = Idle
    /\ partner'[c] = task[c].to /\ UNCHANGED threads[c]

HearsList(c) ==
    /\ Reads(c, "PlayerList") /\ task'[c] = Idle
    /\ \A k \in Names : threads[c][k] = 0 /\ k \notin toClient[c][1].names
                            => threads'[c][k] = 0

HearsInvitation(c) ==
    /\ Reads(c, "Invitation") /\ UNCHANGED threads[c]
    /\ \E p \in toClient[c][1].names : task'[c] = [do |-> "accept", to |-> p]

HearsStep(c) ==
    /\ Reads(c, "OnStep") /\ UNCHANGED threads[c]
    /\ task'[c] = [do |-> "step", to |-> partner[c]]

HearsPlain(c) ==
    /\ \E t \in Plain : Reads(c, t)
    /\ UNCHANGED threads[c] /\ task'[c].do \in {"read", "name"}

Rests(c) ==
    /\ UNCHANGED <<toServer[c], toClient[c], partner[c], task[c], threads[c]>>
    /\ peer'[c] = "down" <=> peer[c] = "down"

(* What a client does next when it has read an invitation. *)
LEMMA Answers ==
    ASSUME NEW c \in Conns, HearsInvitation(c)
    PROVE  task'[c].do = "accept" /\ task'[c].to \in toClient[c][1].names
  <1>1. PICK p \in toClient[c][1].names : task'[c] = [do |-> "accept", to |-> p]
    BY DEF HearsInvitation
  <1> QED
    BY <1>1

(* With no message skewed, a client step is one of these. *)
LEMMA OwnStep ==
    ASSUME SysIInv, ApartInv, NEW c \in Conns, ClientStep(c)
    PROVE  \/ Invites(c) \/ GivesName(c) \/ Accepts(c) \/ Moves(c)
           \/ HearsList(c) \/ HearsInvitation(c) \/ HearsStep(c) \/ HearsPlain(c)
           \/ Departs(c) \/ Rests(c)
  <1>1. TypeOK /\ ClientTypeOK /\ skew[c] = "none"
    BY DEF SysIInv, IInv, ApartInv
  <1>2. ASSUME NEW t, NEW n, SendTo(c, t, n)
        PROVE  Sends(c, t, n)
    BY <1>1, <1>2 DEF SendTo, ClientSend, Sends, TypeOK
  <1>3. ASSUME NEW t, Gets(c, t), partner'[c] = partner[c]
        PROVE  Reads(c, t)
    BY <1>1, <1>3 DEF Gets, Listens, ClientReceive, Reads, TypeOK
  <1>4. ASSUME Disconnect(c), UNCHANGED <<partner, task, threads>>
        PROVE  Departs(c)
    <2>1. PICK k \in 0 .. Len(toServer[c]) :
             toServer' = [toServer EXCEPT ![c] = SubSeq(@, 1, k)]
      BY <1>4 DEF Disconnect
    <2>2. toServer'[c] = SubSeq(toServer[c], 1, k)
      BY <1>1, <2>1 DEF TypeOK
    <2> QED
      BY <1>1, <1>4, <2>2 DEF Disconnect, Departs, TypeOK
  <1>5. CASE Inviting(c)
    <2>1. PICK n \in Names : SendInvitation(c, n)
      BY <1>5 DEF Inviting
    <2>2. threads[c][n] # 0 /\ \A k \in Names : threads[c][k] = 0 => threads'[c][k] = 0
      BY <1>1, <2>1 DEF SendInvitation, ClientTypeOK
    <2> QED
      BY <1>1, <1>2, <2>1, <2>2 DEF SendInvitation, Invites, ClientTypeOK
  <1>6. CASE SendName(c)
    BY <1>1, <1>2, <1>6 DEF SendName, GivesName, ClientTypeOK
  <1>7. CASE SendAccept(c)
    <2>1. task[c] = [do |-> task[c].do, to |-> task[c].to]
      BY <1>1 DEF ClientTypeOK
    <2>2. task'[c] = [do |-> "step", to |-> task[c].to]
      BY <1>1, <1>7, <2>1 DEF SendAccept, ClientTypeOK
    <2> QED
      BY <1>1, <1>2, <1>7, <2>2 DEF SendAccept, Accepts, ClientTypeOK
  <1>8. CASE SendStep(c)
    BY <1>1, <1>2, <1>8 DEF SendStep, Moves, ClientTypeOK
  <1>9. CASE OnHi(c)
    BY <1>1, <1>3, <1>9 DEF OnHi, HearsPlain, Plain, ClientTypeOK
  <1>10. CASE OnOk(c) \/ OnNotice(c)
    <2>1. \E t \in Plain : Gets(c, t)
      BY <1>10 DEF OnOk, OnNotice, Plain
    <2>2. UNCHANGED <<partner, threads, task>>
      BY <1>10 DEF OnOk, OnNotice
    <2> QED
      BY <1>3, <2>1, <2>2 DEF HearsPlain, Reads, Idle
  <1>11. CASE OnPlayerList(c)
    <2>1. Reads(c, "PlayerList") /\ task'[c] = task[c]
      BY <1>3, <1>11 DEF OnPlayerList
    <2>2. Head(toClient[c]) = toClient[c][1]
      OBVIOUS
    <2>3. ASSUME NEW k \in Names, threads[c][k] = 0, k \notin toClient[c][1].names
          PROVE  threads'[c][k] = 0
      <3>1. k \notin FirstOther(c, Head(toClient[c]).names)
        BY <2>2, <2>3 DEF FirstOther
      <3> QED
        BY <1>1, <1>11, <2>3, <3>1 DEF OnPlayerList, ClientTypeOK
    <2> QED
      BY <2>1, <2>3 DEF HearsList, Reads
  <1>12. CASE OnInvitation(c)
    <2>1. Reads(c, "Invitation")
      BY <1>3, <1>12 DEF OnInvitation
    <2>2. PICK p \in toClient[c][1].names :
             task' = [task EXCEPT ![c] = [do |-> "accept", to |-> p]]
      BY <1>12, Head(toClient[c]) = toClient[c][1] DEF OnInvitation
    <2>3. task'[c] = [do |-> "accept", to |-> p]
      BY <1>1, <2>2 DEF ClientTypeOK
    <2> QED
      BY <1>12, <2>1, <2>3 DEF OnInvitation, HearsInvitation
  <1>13. CASE OnStep(c)
    BY <1>1, <1>3, <1>13 DEF OnStep, HearsStep, ClientTypeOK
  <1>14. CASE OnUnknown(c) \/ OnEof(c) \/ Kill(c)
    BY <1>4, <1>14 DEF OnUnknown, OnEof, Kill, clientVars
  <1>15. CASE Start(c)
    BY <1>1, <1>15 DEF Start, Connect, clientVars, Rests, TypeOK
  <1>16. CASE OnEmptyStray(c) \/ OnEmptyCut(c)
    BY <1>1, <1>16 DEF OnEmptyStray, OnEmptyCut
  <1> QED
    BY <1>5, <1>6, <1>7, <1>8, <1>9, <1>10, <1>11, <1>12, <1>13, <1>14, <1>15, <1>16
       DEF ClientStep, Reading

(* A step of the system is one of the server or one of a client. *)
LEMMA SysCases ==
    ASSUME [TameNext]_sysVars
    PROVE  \/ \E e \in Conns : ClientStep(e)
           \/ /\ UNCHANGED <<clientVars, peer>>
              /\ \/ UNCHANGED <<toServer, toClient>>
                 \/ UNCHANGED toServer /\ \E e \in Conns : Accept(e)
                 \/ \E e \in Conns : \E ch \in Chunks(toServer[e]) :
                       Handles(e, ch) /\ reading[e]
  <1>1. ASSUME NEW e \in Conns, Handle(e)
        PROVE  /\ UNCHANGED peer
               /\ \E ch \in Chunks(toServer[e]) : Handles(e, ch) /\ reading[e]
    BY <1>1 DEF Handle, Handles, Take
  <1>2. CASE ServerNext /\ UNCHANGED clientVars
    BY <1>1, <1>2 DEF ServerNext, AcceptError, Accept, ReadError, SendsDone
  <1> QED
    BY <1>2 DEF TameNext, ClientStep, sysVars, vars

(* What a client accepts or answers is addressed to a player: the client    *)
(* that reads a step has a partner, since none waits that was not warned.  *)
LEMMA AddressedStep ==
    ASSUME SafeInv, [TameNext]_sysVars, NEW c \in Conns
    PROVE  Addressed(c)' /\ (partner[c] # NoName => partner'[c] # NoName)
  <1>1. /\ SysIInv /\ ApartInv /\ TypeOK /\ Addressed(c)
        /\ toClient[c] \in Seq(Signed) /\ (Waits(c) => Warned(c))
        /\ \A n \in Names : n # NoName
    BY NoNameAssumption DEF SafeInv, SysIInv, IInv, GameInv
  <1>2. CASE UNCHANGED <<task[c], partner[c]>>
    BY <1>1, <1>2 DEF Addressed
  <1>3. CASE UNCHANGED clientVars
    BY <1>2, <1>3 DEF clientVars
  <1>4. ASSUME NEW e \in Conns, ClientStep(e), e # c
        PROVE  UNCHANGED <<task[c], partner[c]>>
    BY <1>1, <1>4, ClientStepFrame
  <1>5. CASE Invites(c)
    BY <1>1, <1>5 DEF Invites, Addressed
  <1>6. CASE GivesName(c)
    BY <1>1, <1>6 DEF GivesName, Addressed, Idle
  <1>7. CASE Accepts(c) \/ Moves(c)
    BY <1>1, <1>7 DEF Accepts, Moves, Addressed, Idle
  <1>8. CASE HearsList(c) \/ HearsPlain(c)
    BY <1>1, <1>8 DEF HearsList, HearsPlain, Reads, Addressed, Idle
  <1>9. CASE HearsInvitation(c)
    <2>1. toClient[c] # <<>> /\ toClient[c][1].type = "Invitation"
      BY <1>9 DEF HearsInvitation, Reads
    <2>2. toClient[c][1].names \subseteq Names
      BY <1>1, <2>1, HeadTailIn DEF Signed
    <2> QED
      BY <1>1, <1>9, <2>2 DEF HearsInvitation, Reads, Addressed
  <1>10. CASE HearsStep(c)
    <2>1. toClient[c] # <<>> /\ toClient[c][1] \in OnSteps
      BY <1>1, <1>10 DEF HearsStep, Reads, OnSteps, TypeOK
    <2>2. toClient[c] \in Seq(Replies)
      BY <1>1 DEF TypeOK
    <2>3. ~Precedes(toClient[c], Tells, OnSteps)
      BY <2>1, <2>2, OrderTail
    <2>4. ~Waits(c)
      <3>1. Warned(c) => Precedes(toClient[c], Tells, OnSteps)
        BY Zenon DEF Warned
      <3> QED
        BY <1>1, <2>3, <3>1
    <2>5. partner[c] # NoName
      BY <1>10, <2>4 DEF HearsStep, Reads, Waits, Idle
    <2> QED
      BY <1>10, <2>5 DEF HearsStep, Reads, Addressed
  <1>11. CASE Departs(c) \/ Rests(c)
    BY <1>2, <1>11 DEF Departs, Rests
  <1> QED
    BY <1>1, <1>2, <1>3, <1>4, <1>5, <1>6, <1>7, <1>8, <1>9, <1>10, <1>11,
       OwnStep, SysCases

(* A player's name stays; the entry of a name is that of its player. *)
LEMMA OfMember ==
    ASSUME SysIInv, NEW c \in Conns, NEW n \in AllNames, clientMap[n] = c
    PROVE  n = MyName[c] /\ playerName[c] = MyName[c]
  BY DEF SysIInv, Standing, Newcomer, Member

(* A client that has been given a name goes by one ever after.             *)
LEMMA NameKept ==
    ASSUME SysIInv, [TameNext]_sysVars, NEW c \in Conns, playerName[c] # NoName
    PROVE  playerName'[c] # NoName
  <1>1. TypeOK /\ MyName[c] # NoName /\ \A d \in Conns : MyName[d] # NoName
    BY MyNameAssumption, NoNameAssumption DEF SysIInv, IInv
  <1>2. CASE UNCHANGED playerName
    BY <1>2
  <1>3. ASSUME NEW e \in Conns, NEW ch \in Chunks(toServer[e]), Handles(e, ch)
        PROVE  playerName'[c] # NoName
    <2>1. CASE ch.req.type # "PlayerName"
      BY <1>2, <1>3, <2>1 DEF Handles, Register, RefuseName, Invite, Answer, Step,
           Relay, CloseGame, CloseGameUnknown, Ignore, Malformed
    <2>2. CASE ch.req.type = "PlayerName"
      <3>1. Newcomer(e)
        BY <1>1, <2>2, MemberRequest DEF SysIInv, Standing
      <3>2. ch.req.name = MyName[e]
        BY <1>1, <3>1, NewcomerRequest
      <3>3. playerName' = [playerName EXCEPT ![e] = MyName[e]]
        BY <1>3, <2>2, <3>2 DEF Handles, Register, RefuseName, Invite, Answer, Step,
             CloseGame, CloseGameUnknown, Ignore, Malformed
      <3> QED
        BY <1>1, <3>3 DEF TypeOK
    <2> QED
      BY <2>1, <2>2
  <1>4. ASSUME NEW e \in Conns, ClientStep(e)
        PROVE  UNCHANGED playerName
    BY <1>4, ClientStepFrame
  <1>5. ASSUME NEW e \in Conns, Accept(e) \/ ReadError(e) \/ SendsDone(e)
        PROVE  UNCHANGED playerName
    BY <1>5 DEF Accept, ReadError, SendsDone, sessionVars
  <1>6. CASE AcceptError \/ UNCHANGED vars
    BY <1>6 DEF AcceptError, sessionVars, vars
  <1> QED
    BY <1>2, <1>3, <1>4, <1>5, <1>6
       DEF TameNext, ServerNext, ClientStep, Handle, Handles, sysVars

(* With messages kept apart a handler takes the first request of its client. *)
LEMMA HandleTakes ==
    ASSUME ~Coalesce, TypeOK, NEW e \in Conns, NEW ch \in Chunks(toServer[e]),
           Handles(e, ch)
    PROVE  /\ toServer[e] # <<>>
           /\ ch.req = toServer[e][1] /\ ch.req \in ClientRequests
           /\ toServer'[e] = Tail(toServer[e])
           /\ \A d \in Conns \ {e} : toServer'[d] = toServer[d]
  <1>1. /\ toServer[e] # <<>>
        /\ ch.req = toServer[e][1] /\ ch.req \in ClientRequests
        /\ ch.rest = Tail(toServer[e])
    BY ChunkApart DEF TypeOK
  <1> QED
    BY <1>1 DEF Handles, Take, TypeOK

(* No list holds the name of a client before the client has given it. *)
LEMMA UnheardStep ==
    ASSUME ~Coalesce, Distinct, SafeInv, SysIInv', [TameNext]_sysVars,
           NEW c \in Conns, NEW d \in Conns, playerName'[c] = NoName
    PROVE  Unheard(d, MyName[c])'
  <1> DEFINE n == MyName[c]
  <1>1. /\ SysIInv /\ ApartInv /\ TypeOK /\ TypeOK' /\ n \in Names /\ n \in AllNames
        /\ playerName[c] = NoName
    BY NameKept, MyNameAssumption DEF SafeInv, SysIInv, IInv, AllNames, PlainNames
  <1>2. /\ threads[d][n] = 0
        /\ toClient[d] \in Seq(Unlisting(n))
        /\ toServer[d] \in Seq(Uninviting(n))
    BY <1>1 DEF SafeInv, GameInv, Introduced, Unheard
  <1>3. ASSUME threads'[d][n] = 0,
               toClient'[d] \in Seq(Unlisting(n)),
               toServer'[d] \in Seq(Uninviting(n))
        PROVE  Unheard(d, MyName[c])'
    BY <1>3 DEF Unheard, Unlisting, Uninviting
  <1>4. CASE UNCHANGED <<threads[d], toClient[d], toServer[d]>>
    BY <1>2, <1>3, <1>4
  <1>5. ASSUME NEW e \in Conns, ClientStep(e)
        PROVE  Unheard(d, MyName[c])'
    <2>1. CASE d # e
      BY <1>1, <1>4, <1>5, <2>1, ClientStepFrame
    <2>2. CASE d = e
      <3>1. ASSUME NEW t \in {"PlayerName", "Invite", "Accept", "Step"},
                   NEW k \in PlainNames, t # "Invite" \/ k # n
            PROVE  Append(toServer[d], Request(t, k)) \in Seq(Uninviting(n))
        <4>1. Request(t, k) \in Uninviting(n)
          BY <3>1 DEF Request, Uninviting, ClientRequests, RequestTypes, NamedTypes
        <4> QED
          BY <1>2, <4>1, AppendProperties
      <3>2. \A k \in Names : k \in PlainNames
        BY DEF PlainNames
      <3>3. CASE Invites(d)
        BY <1>1, <1>2, <1>3, <3>1, <3>2, <3>3 DEF Invites, Sends
      <3>4. CASE GivesName(d) \/ Accepts(d) \/ Moves(d)
        <4>1. task[d].to \in PlainNames /\ MyName[d] \in PlainNames
          BY <1>1, <3>2, MyNameAssumption DEF SysIInv, ClientTypeOK
        <4> QED
          BY <1>2, <1>3, <3>1, <3>4, <4>1 DEF GivesName, Accepts, Moves, Sends
      <3>5. CASE HearsList(d)
        <4>1. toClient[d] # <<>> /\ toClient[d][1].type = "PlayerList"
          BY <3>5 DEF HearsList, Reads
        <4>2. n \notin toClient[d][1].names /\ Tail(toClient[d]) \in Seq(Unlisting(n))
          BY <1>2, <4>1, HeadTailIn DEF Unlisting
        <4> QED
          BY <1>1, <1>2, <1>3, <3>5, <4>2 DEF HearsList, Reads
      <3>6. CASE HearsInvitation(d) \/ HearsStep(d) \/ HearsPlain(d)
        <4>1. /\ toClient[d] # <<>> /\ toClient'[d] = Tail(toClient[d])
              /\ UNCHANGED <<toServer[d], threads[d]>>
          BY <3>6 DEF HearsInvitation, HearsStep, HearsPlain, Reads
        <4> QED
          BY <1>2, <1>3, <4>1, HeadTailIn
      <3>7. CASE Departs(d)
        BY <1>2, <1>3, <3>7, PrefixIn, <<>> \in Seq(Unlisting(n)) DEF Departs
      <3>8. CASE Rests(d)
        BY <1>4, <3>8 DEF Rests
      <3> QED
        BY <1>1, <1>5, <2>2, <3>3, <3>4, <3>5, <3>6, <3>7, <3>8, OwnStep
    <2> QED
      BY <2>1, <2>2
  <1>6. ASSUME NEW e \in Conns, Accept(e), UNCHANGED clientVars, UNCHANGED toServer
        PROVE  Unheard(d, MyName[c])'
    <2>1. PICK new \in Seq(Greetings) : toClient'[d] = toClient[d] \o new
      BY <1>1, <1>6, AcceptWrites
    <2>2. new \in Seq(Unlisting(n))
      BY <2>1 DEF Greetings, Unlisting
    <2> QED
      BY <1>2, <1>3, <1>6, <2>1, <2>2, ConcatProperties DEF clientVars
  <1>7. ASSUME NEW e \in Conns, NEW ch \in Chunks(toServer[e]), Handles(e, ch),
               UNCHANGED clientVars
        PROVE  Unheard(d, MyName[c])'
    <2>1. PICK new \in Seq(Letters(e, ch.req, d)) : toClient'[d] = toClient[d] \o new
      BY <1>1, <1>7, HandleWrites
    <2>2. clientMap'[n] = NoConn
      <3>1. SUFFICES ASSUME NEW x \in Conns, clientMap'[n] = x
                     PROVE  FALSE
        BY <1>1 DEF TypeOK
      <3>2. Standing(x)' /\ Standing(c)'
        BY DEF SysIInv
      <3>3. n = MyName[x] /\ playerName'[x] = MyName[x]
        BY <1>1, <3>1, <3>2 DEF Standing, Newcomer, Member
      <3> QED
        BY <1>1, <3>3, MyNameAssumption, NoNameAssumption DEF Distinct
    <2>3. Letters(e, ch.req, d) \subseteq Unlisting(n)
      <3>1. Junk \in Unlisting(n)
        BY GreetingsGreet DEF Greetings, Unlisting
      <3>2. SUFFICES ASSUME NEW m \in Letters(e, ch.req, d), m # Junk,
                            m.type = "PlayerList"
                     PROVE  n \notin m.names
        BY <3>1, LetterKinds DEF Unlisting
      <3>3. PICK N \in SUBSET AllNames : /\ Letter(e, ch.req, d, m.type, N)
                                         /\ m.names = {Spoken(k) : k \in N}
        BY <3>2, LetterKinds
      <3>4. N = {k \in AllNames : clientMap'[k] # NoConn}
        BY <3>2, <3>3 DEF Letter
      <3>5. ASSUME NEW k \in AllNames, clientMap'[k] # NoConn
            PROVE  k \in PlainNames
        <4>1. PICK x \in Conns : clientMap'[k] = x
          BY <1>1, <3>5 DEF TypeOK
        <4>2. k = MyName[x]
          BY <4>1 DEF SysIInv, Standing, Newcomer, Member
        <4> QED
          BY <4>2, MyNameAssumption DEF PlainNames
      <3>6. m.names = N
        BY <3>3, <3>4, <3>5, SpokenPlain
      <3> QED
        BY <2>2, <3>4, <3>6
    <2>4. toClient'[d] \in Seq(Unlisting(n))
      <3>1. new \in Seq(Unlisting(n))
        BY <2>3
      <3> QED
        BY <1>2, <2>1, <3>1, ConcatProperties
    <2>5. toServer'[d] \in Seq(Uninviting(n))
      <3>1. CASE d = e
        <4>1. toServer[d] # <<>> /\ toServer'[d] = Tail(toServer[d])
          BY <1>1, <1>7, <3>1, HandleTakes
        <4> QED
          BY <1>2, <4>1, HeadTailIn
      <3>2. CASE d # e
        BY <1>1, <1>2, <1>7, <3>2, HandleTakes
      <3> QED
        BY <3>1, <3>2
    <2> QED
      BY <1>2, <1>3, <1>7, <2>4, <2>5 DEF clientVars
  <1> QED
    BY <1>4, <1>5, <1>6, <1>7, SysCases DEF clientVars

(* Nobody is invited by a client that has not set m_partnerName. *)
LEMMA UninvitedStep ==
    ASSUME ~Coalesce, Distinct, SafeInv, [TameNext]_sysVars,
           NEW c \in Conns, NEW d \in Conns, partner'[c] = NoName
    PROVE  Uninvited(d, c)'
  <1> DEFINE n == MyName[c]
  <1>1. /\ SysIInv /\ ApartInv /\ TypeOK /\ n \in Names
        /\ partner[c] = NoName /\ \A k \in Names : k # NoName
    BY AddressedStep, MyNameAssumption, NoNameAssumption DEF SafeInv, SysIInv, IInv
  <1>2. /\ toServer[c] \in Seq(NoInvites)
        /\ toClient[d] \in Seq(Unsigned(n))
        /\ ~(task[d].do = "accept" /\ task[d].to = n)
    BY <1>1 DEF SafeInv, GameInv, Introduced, Uninvited
  <1>3. ASSUME toServer'[c] \in Seq(NoInvites),
               toClient'[d] \in Seq(Unsigned(n)),
               ~(task'[d].do = "accept" /\ task'[d].to = n)
        PROVE  Uninvited(d, c)'
    BY <1>3 DEF Uninvited, Unsigned, NoInvites
  <1>4. ASSUME NEW e \in Conns, ClientStep(e)
        PROVE  Uninvited(d, c)'
    <2>1. toServer'[c] \in Seq(NoInvites)
      <3>1. CASE e # c
        BY <1>1, <1>2, <1>4, <3>1, ClientStepFrame
      <3>2. ASSUME NEW t \in {"PlayerName", "Accept", "Step"}, NEW k \in PlainNames
            PROVE  Append(toServer[c], Request(t, k)) \in Seq(NoInvites)
        <4>1. Request(t, k) \in NoInvites
          BY <3>2 DEF Request, NoInvites, ClientRequests, RequestTypes, NamedTypes
        <4> QED
          BY <1>2, <4>1, AppendProperties
      <3>3. task[c].to \in PlainNames /\ n \in PlainNames
        BY <1>1 DEF SysIInv, ClientTypeOK, PlainNames
      <3>4. ~Invites(c)
        BY <1>1 DEF Invites
      <3>5. CASE GivesName(c) \/ Accepts(c) \/ Moves(c)
        BY <3>2, <3>3, <3>5 DEF GivesName, Accepts, Moves, Sends
      <3>6. CASE Departs(c)
        BY <1>2, <3>6, PrefixIn DEF Departs
      <3>7. CASE HearsList(c) \/ HearsInvitation(c) \/ HearsStep(c) \/ HearsPlain(c)
                 \/ Rests(c)
        BY <1>2, <3>7 DEF HearsList, HearsInvitation, HearsStep, HearsPlain, Reads, Rests
      <3> QED
        BY <1>1, <1>4, <3>1, <3>4, <3>5, <3>6, <3>7, OwnStep
    <2>2. /\ toClient'[d] \in Seq(Unsigned(n))
          /\ ~(task'[d].do = "accept" /\ task'[d].to = n)
      <3>1. CASE e # d
        BY <1>1, <1>2, <1>4, <3>1, ClientStepFrame
      <3>2. CASE Invites(d) \/ GivesName(d) \/ Accepts(d) \/ Moves(d) \/ Rests(d)
        BY <1>2, <3>2 DEF Invites, GivesName, Accepts, Moves, Rests, Sends, Idle
      <3>3. CASE Departs(d)
        BY <1>2, <3>3, <<>> \in Seq(Unsigned(n)) DEF Departs
      <3>4. ASSUME NEW t, Reads(d, t)
            PROVE  /\ toClient'[d] \in Seq(Unsigned(n))
                   /\ toClient[d][1] \in Unsigned(n)
        BY <1>2, <3>4, HeadTailIn DEF Reads
      <3>5. CASE HearsList(d) \/ HearsStep(d) \/ HearsPlain(d)
        BY <3>4, <3>5 DEF HearsList, HearsStep, HearsPlain, Idle
      <3>6. CASE HearsInvitation(d)
        <4>1. Reads(d, "Invitation") /\ toClient[d][1].type = "Invitation"
          BY <3>6 DEF HearsInvitation, Reads
        <4>2. n \notin toClient[d][1].names
          BY <3>4, <4>1 DEF Unsigned
        <4> QED
          BY <3>4, <3>6, <4>1, <4>2 DEF HearsInvitation
      <3> QED
        BY <1>1, <1>4, <3>1, <3>2, <3>3, <3>5, <3>6, OwnStep
    <2> QED
      BY <1>3, <2>1, <2>2
  <1>5. CASE UNCHANGED <<clientVars, toServer, toClient>>
    BY <1>2, <1>3, <1>5 DEF clientVars
  <1>6. ASSUME NEW e \in Conns, Accept(e), UNCHANGED <<clientVars, toServer>>
        PROVE  Uninvited(d, c)'
    <2>1. PICK new \in Seq(Greetings) : toClient'[d] = toClient[d] \o new
      BY <1>1, <1>6, AcceptWrites
    <2>2. new \in Seq(Unsigned(n))
      BY <2>1 DEF Greetings, Unsigned
    <2>3. toClient'[d] \in Seq(Unsigned(n))
      BY <1>2, <2>1, <2>2, ConcatProperties
    <2> QED
      BY <1>2, <1>3, <1>6, <2>3 DEF clientVars
  <1>7. ASSUME NEW e \in Conns, NEW ch \in Chunks(toServer[e]), Handles(e, ch),
               UNCHANGED clientVars
        PROVE  Uninvited(d, c)'
    <2>1. PICK new \in Seq(Letters(e, ch.req, d)) : toClient'[d] = toClient[d] \o new
      BY <1>1, <1>7, HandleWrites
    <2>2. /\ toServer[e] # <<>> /\ ch.req = toServer[e][1]
          /\ toServer'[e] = Tail(toServer[e])
          /\ \A x \in Conns \ {e} : toServer'[x] = toServer[x]
      BY <1>1, <1>7, HandleTakes
    <2>3. toServer'[c] \in Seq(NoInvites)
      <3>1. CASE c = e
        <4>1. toServer[c] # <<>> /\ toServer'[c] = Tail(toServer[c])
          BY <2>2, <3>1
        <4> QED
          BY <1>2, <4>1, HeadTailIn
      <3>2. CASE c # e
        BY <1>2, <2>2, <3>2
      <3> QED
        BY <3>1, <3>2
    <2>4. Letters(e, ch.req, d) \subseteq Unsigned(n)
      <3>1. Junk \in Unsigned(n)
        BY GreetingsGreet DEF Greetings, Unsigned
      <3>2. SUFFICES ASSUME NEW m \in Letters(e, ch.req, d), m # Junk,
                            m.type = "Invitation", n \in m.names
                     PROVE  FALSE
        BY <3>1, LetterKinds DEF Unsigned
      <3>3. ch.req.type = "Invite" /\ m.names = {playerName[e]}
        <4>1. PICK N \in SUBSET AllNames : /\ Letter(e, ch.req, d, m.type, N)
                                           /\ m.names = {Spoken(k) : k \in N}
          BY <3>2, LetterKinds
        <4>2. ch.req.type = "Invite" /\ N = {playerName[e]}
          BY <3>2, <4>1 DEF Letter
        <4>3. playerName[e] \in PlainNames
          BY <1>1, MyNameAssumption DEF SysIInv, Standing, Member, PlainNames
        <4> QED
          BY <4>1, <4>2, <4>3, SpokenPlain
      <3>4. playerName[e] = n /\ n # NoName
        BY <1>1, <3>2, <3>3
      <3>5. MyName[e] = MyName[c]
        BY <1>1, <3>4 DEF SysIInv, Standing, Member
      <3>6. toServer[c] # <<>> /\ toServer[c][1].type = "Invite"
        BY <2>2, <3>3, <3>5 DEF Distinct
      <3>7. toServer[c][1] \in NoInvites
        BY <1>2, <3>6, HeadTailIn
      <3> QED
        BY <3>6, <3>7 DEF NoInvites
    <2>5. toClient'[d] \in Seq(Unsigned(n))
      <3>1. new \in Seq(Unsigned(n))
        BY <2>4
      <3> QED
        BY <1>2, <2>1, <3>1, ConcatProperties
    <2> QED
      BY <1>2, <1>3, <1>7, <2>3, <2>5 DEF clientVars
  <1> QED
    BY <1>4, <1>5, <1>6, <1>7, SysCases

(* An invitation to a player that is still there reaches it, or is replaced *)
(* by junk: its sender learned the name when the player had given it, and a *)
(* session with a name is found (sendInvite).                              *)
LEMMA InviteReaches ==
    ASSUME ~Coalesce, SafeInv, NEW c \in Conns, NEW d \in Conns, peer[c] # "down",
           NEW ch \in Chunks(toServer[d]), Handles(d, ch),
           ch.req \in InvitesTo(MyName[c])
    PROVE  Has(toClient'[c], Tells)
  <1> DEFINE n == MyName[c]
  <1>1. /\ SysIInv /\ TypeOK /\ NewSession /\ OwnEntry /\ n \in AllNames /\ n # NoName
        /\ Stays(c) /\ Introduced(c, d)
    BY MyNameAssumption, NoNameAssumption
       DEF SafeInv, SysIInv, IInv, GameInv, AllNames, PlainNames
  <1>2. ch.req.type = "Invite" /\ ch.req.name = n
    BY DEF InvitesTo
  <1>3. playerName[c] # NoName
    <2>1. toServer[d] # <<>> /\ toServer[d][1] = ch.req
      BY <1>1, HandleTakes
    <2>2. toServer[d] \in Seq(Uninviting(n)) => toServer[d][1] \in Uninviting(n)
      BY <2>1, HeadTailIn
    <2> QED
      BY <1>1, <1>2, <2>1, <2>2 DEF Introduced, Unheard, Uninviting
  <1>4. reading[c] /\ playerName[c] = n /\ clientMap[n] = c /\ peer[c] = "up"
    <2>1. reading[c] /\ playerName[c] = n
      BY <1>1, <1>3 DEF Stays, SysIInv, Standing, Member
    <2>2. accepted[c] /\ clientMap[n] = c
      BY <1>1, <2>1 DEF NewSession, OwnEntry
    <2> QED
      BY <1>1, <2>1, <2>2 DEF Stays, TypeOK
  <1>5. Online(n)
    BY <1>4, NoConnAssumption DEF Online, Alive
  <1> DEFINE m == Reply("Invitation", {playerName[d]})
             w == To(c, m)
  <1>6. Post(w)
    <2>1. Invite(d, ch)
      BY <1>2 DEF Handles, Register, RefuseName, Answer, Step, CloseGame,
                  CloseGameUnknown, Ignore, Malformed
    <2> QED
      BY <1>2, <1>4, <1>5, <2>1 DEF Invite, Relay
  <1>7. m \in Tells /\ Junk \in Tells
    <2>1. {playerName[d]} \in SUBSET AllNames
      BY <1>1 DEF TypeOK
    <2>2. m \in Replies /\ m.type = "Invitation"
      BY <2>1, ReplyFields, "Invitation" \in ReplyTypes DEF ReplyTypes
    <2>3. Junk \in Replies /\ Junk.type = "Junk"
      BY ReplyType, "Junk" \in ReplyTypes DEF Junk, Reply, ReplyTypes
    <2> QED
      BY <2>2, <2>3 DEF Tells
  <1>8. w[c] \in Seq(Tells) /\ Len(w[c]) = 1
    <2> HIDE DEF m
    <2>1. To(c, m)[c] = <<m>>
      BY DEF To
    <2>2. <<m>> \in Seq(Tells) /\ Len(<<m>>) = 1
      BY <1>7
    <2> QED
      BY <2>1, <2>2
  <1>9. PICK new \in Seq(Tells) :
           /\ toClient'[c] = toClient[c] \o new
           /\ Len(new) = IF peer[c] = "up" THEN Len(w[c]) ELSE 0
    BY <1>1, <1>6, <1>7, <1>8, PostWrites
  <1> HIDE DEF w, m
  <1>10. Has(new, Tells)
    <2>1. Len(new) = 1
      BY <1>4, <1>8, <1>9
    <2>2. 1 \in 1 .. Len(new) /\ new[1] \in Tells
      BY <2>1
    <2> QED
      BY <2>2 DEF Has
  <1>11. toClient[c] \in Seq(Replies) /\ new \in Seq(Replies)
    <2>1. Tells \subseteq Replies
      BY DEF Tells
    <2> QED
      BY <1>1, <2>1 DEF TypeOK
  <1>12. Has(toClient[c] \o new, Tells)
    BY <1>10, <1>11, OrderConcat
  <1> QED
    BY <1>9, <1>12

(* A client that waits after a step has waited before it. *)
LEMMA WaitsBefore ==
    ASSUME SafeInv, [TameNext]_sysVars, NEW c \in Conns, Waits(c)'
    PROVE  Waits(c) /\ Warned(c)
  <1>1. SysIInv /\ ApartInv /\ TypeOK /\ Addressed(c) /\ (Waits(c) => Warned(c))
    BY DEF SafeInv, SysIInv, IInv, GameInv
  <1>2. partner[c] = NoName
    BY AddressedStep DEF Waits
  <1>3. peer[c] # "down"
    <2>1. SUFFICES ASSUME peer[c] = "down"
                   PROVE  peer'[c] = "down"
      BY DEF Waits
    <2>2. [Next]_vars
      BY <1>1, TameStepIsNext DEF SysIInv
    <2> QED
      BY <1>1, <2>1, <2>2 DEF Next, ServerNext, AcceptError, Accept, Handle, Take,
           ReadError, SendsDone, EnvNext, Connect, ClientSend, ClientReceive,
           Disconnect, TypeOK, vars
  <1>4. task[c].do # "accept"
    <2>1. SUFFICES ASSUME task[c].do = "accept"
                   PROVE  task'[c] = task[c] \/ partner'[c] # NoName
      BY DEF Waits
    <2>2. ASSUME NEW e \in Conns, ClientStep(e), e # c
          PROVE  task'[c] = task[c]
      BY <1>1, <2>2, ClientStepFrame
    <2>3. CASE Accepts(c)
      BY <1>1, <2>1, <2>3 DEF Accepts, Addressed
    <2>4. CASE Invites(c) \/ Departs(c) \/ Rests(c)
      BY <2>4 DEF Invites, Departs, Rests
    <2>5. ~GivesName(c) /\ ~Moves(c)
      BY <2>1 DEF GivesName, Moves
    <2>6. ~HearsList(c) /\ ~HearsInvitation(c) /\ ~HearsStep(c) /\ ~HearsPlain(c)
      BY <2>1 DEF HearsList, HearsInvitation, HearsStep, HearsPlain, Reads, Idle
    <2>7. CASE UNCHANGED clientVars
      BY <2>7 DEF clientVars
    <2> QED
      BY <1>1, <2>2, <2>3, <2>4, <2>5, <2>6, <2>7, OwnStep, SysCases
  <1> QED
    BY <1>1, <1>2, <1>3, <1>4 DEF Waits

(* What a step does to the messages of a client that still waits: the one   *)
(* it takes away, if any, tells it of no partner, and steps are added only  *)
(* when such a message is there.                                           *)
LEMMA OrderStep ==
    ASSUME ~Coalesce, Distinct, SafeInv, [TameNext]_sysVars, NEW c \in Conns, Waits(c)'
    PROVE  /\ Precedes(toClient'[c], Tells, OnSteps)
           /\ Has(toClient[c], Tells) => Has(toClient'[c], Tells)
  <1>1. /\ SysIInv /\ ApartInv /\ TypeOK
        /\ toClient[c] \in Seq(Replies)
        /\ \A e \in Conns : toServer[e] \in Seq(ClientRequests)
    BY DEF SafeInv, SysIInv, IInv, TypeOK
  <1>2. /\ Precedes(toClient[c], Tells, OnSteps)
        /\ \A e \in Conns : \/ Has(toClient[c], Tells)
                            \/ Precedes(toServer[e], InvitesTo(MyName[c]),
                                                     StepsTo(MyName[c]))
    BY WaitsBefore, Zenon DEF Warned, WarnedOf
  <1>3. CASE toClient'[c] = toClient[c]
    BY <1>2, <1>3
  <1>4. ASSUME NEW e \in Conns, Accept(e)
        PROVE  /\ Precedes(toClient'[c], Tells, OnSteps)
               /\ Has(toClient[c], Tells) => Has(toClient'[c], Tells)
    <2>1. PICK new \in Seq(Greetings) : toClient'[c] = toClient[c] \o new
      BY <1>1, <1>4, AcceptWrites
    <2>2. Greetings \subseteq Replies /\ \A m \in Greetings : m \notin OnSteps
      BY DEF Greetings, OnSteps
    <2>3. new \in Seq(Replies) /\ ~Has(new, OnSteps)
      BY <2>1, <2>2 DEF Has
    <2> QED
      BY <1>1, <1>2, <2>1, <2>3, OrderConcat
  <1>5. ASSUME NEW e \in Conns, NEW ch \in Chunks(toServer[e]), Handles(e, ch)
        PROVE  /\ Precedes(toClient'[c], Tells, OnSteps)
               /\ Has(toClient[c], Tells) => Has(toClient'[c], Tells)
    <2>1. PICK new \in Seq(Letters(e, ch.req, c)) : toClient'[c] = toClient[c] \o new
      BY <1>1, <1>5, HandleWrites
    <2>2. Letters(e, ch.req, c) \subseteq Replies
      BY GreetingsGreet DEF Letters
    <2>3. new \in Seq(Replies)
      BY <2>2
    <2>4. ASSUME Has(new, OnSteps)
          PROVE  Has(toClient[c], Tells)
      <3>1. PICK i \in 1 .. Len(new) : new[i] \in OnSteps
        BY <2>4 DEF Has
      <3>2. new[i] \in Letters(e, ch.req, c) /\ new[i].type = "OnStep"
        BY <3>1 DEF OnSteps
      <3>3. new[i] # Junk
        BY <3>2, ReplyType, "Junk" \in ReplyTypes DEF Junk, Reply, ReplyTypes
      <3>4. ch.req.type = "Step" /\ clientMap[ch.req.name] = c
        BY <3>2, <3>3, LetterKinds DEF Letter
      <3>5. toServer[e] # <<>> /\ ch.req = toServer[e][1] /\ ch.req \in ClientRequests
        BY <1>1, <1>5, HandleTakes
      <3>6. ch.req.name = MyName[c]
        BY <1>1, <3>4, <3>5, OfMember DEF ClientRequests, AllNames
      <3>7. toServer[e][1] \in StepsTo(MyName[c])
        BY <3>4, <3>5, <3>6 DEF StepsTo
      <3>8. ~Precedes(toServer[e], InvitesTo(MyName[c]), StepsTo(MyName[c]))
        BY <1>1, <3>5, <3>7, OrderTail
      <3> QED
        BY <1>2, <3>8
    <2> QED
      BY <1>1, <1>2, <2>1, <2>3, <2>4, OrderConcat
  <1>6. ASSUME NEW e \in Conns, ClientStep(e)
        PROVE  /\ Precedes(toClient'[c], Tells, OnSteps)
               /\ Has(toClient[c], Tells) => Has(toClient'[c], Tells)
    <2>1. CASE e # c
      BY <1>1, <1>3, <1>6, <2>1, ClientStepFrame
    <2>2. ASSUME NEW t, Reads(c, t), t \notin {"Invitation", "Junk"}
          PROVE  /\ Precedes(toClient'[c], Tells, OnSteps)
                 /\ Has(toClient[c], Tells) => Has(toClient'[c], Tells)
      <3>1. /\ toClient[c] # <<>> /\ toClient'[c] = Tail(toClient[c])
            /\ toClient[c][1] \notin Tells
        BY <2>2 DEF Reads, Tells
      <3> QED
        BY <1>1, <1>2, <3>1, OrderTail
    <2>3. CASE Invites(c) \/ GivesName(c) \/ Accepts(c) \/ Moves(c) \/ Rests(c)
      BY <1>3, <2>3 DEF Invites, GivesName, Accepts, Moves, Sends, Rests
    <2>4. CASE HearsList(c) \/ HearsStep(c) \/ HearsPlain(c)
      BY <2>2, <2>4 DEF HearsList, HearsStep, HearsPlain, Plain
    <2>5. ~Departs(c) /\ ~HearsInvitation(c)
      <3>1. peer'[c] # "down" /\ task'[c].do # "accept"
        BY DEF Waits
      <3> QED
        BY <3>1, Answers DEF Departs
    <2> QED
      BY <1>1, <1>6, <2>1, <2>3, <2>4, <2>5, OwnStep
  <1> QED
    BY <1>3, <1>4, <1>5, <1>6, SysCases

(* What a step does to the requests of one client to another that waits. *)
LEMMA WarnedOfStep ==
    ASSUME ~Coalesce, Distinct, SafeInv, [TameNext]_sysVars,
           NEW c \in Conns, NEW d \in Conns, Waits(c)'
    PROVE  WarnedOf(c, d)'
  <1> DEFINE n    == MyName[c]
             told == Has(toClient[c], Tells)
  <1>1. /\ SysIInv /\ ApartInv /\ TypeOK
        /\ n \in Names /\ n # NoName
        /\ toServer[d] \in Seq(ClientRequests)
    BY MyNameAssumption, NoNameAssumption DEF SafeInv, SysIInv, IInv, TypeOK
  <1>2. /\ told => Has(toClient'[c], Tells)
        /\ told \/ Precedes(toServer[d], InvitesTo(n), StepsTo(n))
        /\ peer[d] # "down" /\ Plays(d, n) => told \/ Has(toServer[d], InvitesTo(n))
    BY OrderStep, WaitsBefore, Zenon DEF Warned, WarnedOf
  <1>3. ASSUME told \/ Precedes(toServer'[d], InvitesTo(n), StepsTo(n)),
               peer'[d] # "down" /\ Plays(d, n)'
                  => told \/ Has(toServer'[d], InvitesTo(n))
        PROVE  WarnedOf(c, d)'
    BY <1>2, <1>3 DEF WarnedOf, InvitesTo, StepsTo
  <1>4. CASE Has(toClient'[c], Tells)
    BY <1>4 DEF WarnedOf
  <1>5. CASE UNCHANGED <<peer, partner, task, toServer>>
    BY <1>2, <1>3, <1>5 DEF Plays
  <1>6. ASSUME NEW e \in Conns, NEW ch \in Chunks(toServer[e]), Handles(e, ch),
               UNCHANGED <<clientVars, peer>>, ~Has(toClient'[c], Tells)
        PROVE  WarnedOf(c, d)'
    <2>1. /\ toServer[e] # <<>> /\ ch.req = toServer[e][1]
          /\ toServer'[e] = Tail(toServer[e])
          /\ \A x \in Conns \ {e} : toServer'[x] = toServer[x]
      BY <1>1, <1>6, HandleTakes
    <2>2. peer[c] # "down"
      BY WaitsBefore DEF Waits
    <2>3. ch.req \notin InvitesTo(n)
      BY <1>6, <2>2, InviteReaches
    <2>4. CASE d = e
      <3>1. /\ toServer[d] # <<>> /\ toServer'[d] = Tail(toServer[d])
            /\ toServer[d][1] \notin InvitesTo(n)
        BY <2>1, <2>3, <2>4
      <3>2. /\ Has(toServer[d], InvitesTo(n)) => Has(toServer'[d], InvitesTo(n))
            /\ Precedes(toServer[d], InvitesTo(n), StepsTo(n))
                  => Precedes(toServer'[d], InvitesTo(n), StepsTo(n))
        BY <1>1, <3>1, OrderTail
      <3>3. Plays(d, n)' => Plays(d, n)
        BY <1>6 DEF Plays, clientVars
      <3> QED
        BY <1>2, <1>3, <1>6, <3>2, <3>3
    <2>5. CASE d # e
      BY <1>2, <1>3, <1>6, <2>1, <2>5 DEF Plays, clientVars
    <2> QED
      BY <2>4, <2>5
  <1>7. ASSUME NEW e \in Conns, ClientStep(e)
        PROVE  WarnedOf(c, d)'
    <2>1. CASE e # d
      <3>1. /\ toServer'[d] = toServer[d] /\ peer'[d] = peer[d]
            /\ partner'[d] = partner[d] /\ task'[d] = task[d]
        BY <1>1, <1>7, <2>1, ClientStepFrame
      <3> QED
        BY <1>2, <1>3, <3>1 DEF Plays
    <2>2. ASSUME toServer'[d] = toServer[d], Plays(d, n)' => Plays(d, n),
                 peer'[d] = "down" \/ peer[d] # "down"
          PROVE  WarnedOf(c, d)'
      BY <1>2, <1>3, <2>2
    <2>3. ASSUME NEW t \in {"PlayerName", "Invite", "Accept", "Step"},
                 NEW k \in PlainNames, Sends(d, t, k)
          PROVE  /\ Has(toServer[d], InvitesTo(n)) => Has(toServer'[d], InvitesTo(n))
                 /\ t = "Invite" /\ k = n => Has(toServer'[d], InvitesTo(n))
                 /\ /\ Precedes(toServer[d], InvitesTo(n), StepsTo(n))
                    /\ t = "Step" /\ k = n => Has(toServer[d], InvitesTo(n))
                    => Precedes(toServer'[d], InvitesTo(n), StepsTo(n))
      <3> DEFINE r   == Request(t, k)
                 new == <<r>>
      <3>1. r \in ClientRequests /\ r.type = t /\ r.name = k
        BY DEF Request, ClientRequests, RequestTypes, NamedTypes
      <3> HIDE DEF r
      <3>2. new \in Seq(ClientRequests) /\ Len(new) = 1 /\ new[1] = r
        BY <3>1
      <3>3. toServer'[d] = toServer[d] \o new
        BY <1>1, <2>3, <3>1 DEF Sends, r
      <3> HIDE DEF new
      <3>4. t = "Invite" /\ k = n => Has(new, InvitesTo(n))
        <4>1. t = "Invite" /\ k = n => new[1] \in InvitesTo(n)
          BY <3>1, <3>2 DEF InvitesTo
        <4> QED
          BY <3>2, <4>1, 1 \in 1 .. 1 DEF Has
      <3>5. Has(new, StepsTo(n)) => t = "Step" /\ k = n
        BY <3>1, <3>2 DEF Has, StepsTo
      <3>6. Has(toServer[d], InvitesTo(n)) \/ Has(new, InvitesTo(n))
              => Has(toServer'[d], InvitesTo(n))
        BY <1>1, <3>2, <3>3, OrderConcat
      <3>7. /\ Precedes(toServer[d], InvitesTo(n), StepsTo(n))
            /\ Has(toServer[d], InvitesTo(n)) \/ ~Has(new, StepsTo(n))
            => Precedes(toServer'[d], InvitesTo(n), StepsTo(n))
        BY <1>1, <3>2, <3>3, OrderConcat
      <3> QED
        BY <3>4, <3>5, <3>6, <3>7
    <2>4. \A k \in Names : k \in PlainNames
      BY DEF PlainNames
    <2>5. task[d].to \in PlainNames /\ MyName[d] \in PlainNames
      BY <1>1, <2>4, MyNameAssumption DEF SysIInv, ClientTypeOK
    <2>6. CASE Invites(d)
      <3>1. PICK k \in Names : /\ Sends(d, "Invite", k)
                               /\ partner'[d] = k /\ task'[d] = task[d]
        BY <2>6 DEF Invites
      <3>2. Plays(d, n)' => k = n \/ Plays(d, n)
        BY <3>1 DEF Plays
      <3>3. peer[d] # "down"
        BY <3>1 DEF Sends
      <3> QED
        BY <1>2, <1>3, <2>3, <2>4, <3>1, <3>2, <3>3
    <2>7. CASE GivesName(d)
      <3>1. (Plays(d, n)' => Plays(d, n)) /\ peer[d] # "down"
        BY <2>7 DEF GivesName, Plays, Sends, Idle
      <3> QED
        BY <1>2, <1>3, <2>3, <2>5, <2>7, <3>1 DEF GivesName
    <2>8. CASE Accepts(d)
      <3>1. task[d].to # n
        <4>1. partner[c] = NoName
          BY WaitsBefore DEF Waits
        <4>2. Uninvited(d, c)
          BY <4>1 DEF SafeInv, GameInv, Introduced
        <4> QED
          BY <2>8, <4>2 DEF Accepts, Uninvited
      <3>2. ~Plays(d, n)'
        BY <2>8, <3>1 DEF Accepts, Plays
      <3> QED
        BY <1>2, <1>3, <2>3, <2>5, <2>8, <3>2 DEF Accepts
    <2>9. CASE Moves(d)
      <3>1. (Plays(d, n)' => Plays(d, n)) /\ peer[d] # "down"
            /\ (task[d].to = n => Plays(d, n))
        BY <2>9 DEF Moves, Plays, Sends, Idle
      <3> QED
        BY <1>2, <1>3, <2>3, <2>5, <2>9, <3>1 DEF Moves
    <2>10. CASE HearsList(d) \/ HearsPlain(d)
      <3>1. \E t : Reads(d, t)
        BY <2>10 DEF HearsList, HearsPlain
      <3>2. task'[d].do # "step"
        BY <2>10 DEF HearsList, HearsPlain, Idle
      <3> QED
        BY <2>2, <3>1, <3>2 DEF Reads, Plays
    <2>11. CASE HearsInvitation(d) \/ HearsStep(d)
      <3>1. \E t : Reads(d, t)
        BY <2>11 DEF HearsInvitation, HearsStep
      <3>2. task'[d].do = "step" => task'[d].to = partner[d]
        BY <2>11, Answers DEF HearsStep
      <3> QED
        BY <2>2, <3>1, <3>2 DEF Reads, Plays
    <2>12. CASE Departs(d)
      <3>1. PICK k \in 0 .. Len(toServer[d]) : toServer'[d] = SubSeq(toServer[d], 1, k)
        BY <2>12 DEF Departs
      <3>2. Precedes(toServer[d], InvitesTo(n), StepsTo(n))
              => Precedes(toServer'[d], InvitesTo(n), StepsTo(n))
        BY <1>1, <3>1, OrderPrefix
      <3> QED
        BY <1>2, <1>3, <2>12, <3>2 DEF Departs
    <2>13. CASE Rests(d)
      BY <2>2, <2>13 DEF Rests, Plays
    <2> QED
      BY <1>1, <1>7, <2>1, <2>6, <2>7, <2>8, <2>9, <2>10, <2>11, <2>12, <2>13, OwnStep
  <1> QED
    BY <1>4, <1>5, <1>6, <1>7, SysCases DEF clientVars

(* Nobody has a partner, knows a name or has sent a step when all start. *)
LEMMA GameInit == SysInit => GameInv
  <1> SUFFICES ASSUME SysInit, NEW c \in Conns, NEW d \in Conns
               PROVE  /\ Stays(c) /\ Addressed(c) /\ Introduced(c, d)
                      /\ Precedes(toClient[c], Tells, OnSteps) /\ WarnedOf(c, d)
    BY Zenon DEF GameInv, Warned
  <1> DEFINE n    == MyName[c]
             none == <<>>
  <1>1. /\ toClient[c] = none /\ toClient[d] = none /\ toServer[c] = none
        /\ toServer[d] = none /\ peer[c] = "idle" /\ ~accepted[c]
        /\ playerName[c] = NoName /\ partner[d] = NoName
        /\ task[c] = Idle /\ task[d] = Idle /\ threads[d][n] = 0
    BY MyNameAssumption DEF SysInit, Init
  <1>2. n # NoName
    BY MyNameAssumption, NoNameAssumption
  <1>3. /\ none \in Seq(Unlisting(n)) /\ none \in Seq(Uninviting(n))
        /\ none \in Seq(Unsigned(n)) /\ none \in Seq(NoInvites)
        /\ Len(none) = 0
    OBVIOUS
  <1> HIDE DEF none
  <1>4. Precedes(none, Tells, OnSteps) /\ Precedes(none, InvitesTo(n), StepsTo(n))
    BY <1>3 DEF Precedes
  <1>5. Stays(c) /\ Addressed(c)
    BY <1>1 DEF Stays, Addressed, Idle, none
  <1>6. Introduced(c, d)
    BY <1>1, <1>3 DEF Introduced, Unheard, Uninvited, Idle
  <1>7. WarnedOf(c, d)
    BY <1>1, <1>2, <1>4 DEF WarnedOf, Plays, Idle
  <1> QED
    BY <1>1, <1>4, <1>5, <1>6, <1>7

(* Every step keeps the order that invitations and steps come in.          *)
LEMMA GameStep ==
    ASSUME ~Coalesce, Distinct, SafeInv, SysIInv', [TameNext]_sysVars
    PROVE  GameInv'
  <1> SUFFICES ASSUME NEW c \in Conns, NEW d \in Conns
               PROVE  /\ Stays(c)' /\ Addressed(c)' /\ Introduced(c, d)'
                      /\ Waits(c)' => Precedes(toClient'[c], Tells, OnSteps)
                                      /\ WarnedOf(c, d)'
    BY Zenon DEF GameInv, Warned
  <1>1. Stays(c)' /\ Addressed(c)'
    BY StaysStep, AddressedStep
  <1>2. Introduced(c, d)'
    BY UnheardStep, UninvitedStep DEF Introduced
  <1>3. Waits(c)' => Precedes(toClient'[c], Tells, OnSteps) /\ WarnedOf(c, d)'
    BY OrderStep, WarnedOfStep
  <1> QED
    BY <1>1, <1>2, <1>3

(* A test client that reads a step has a partner: the invitation that set   *)
(* m_partnerName, its own or one it read, is never overtaken by the game it *)
(* starts (onInvitation, onStep).  For any number of clients with names of  *)
(* their own, whichever of them are killed, and however little the kernel   *)
(* buffers, as long as none has read what nobody wrote.                    *)
THEOREM StepHasPartnerHolds ==
    ASSUME ~Coalesce, Distinct
    PROVE  SysSpec => []StepHasPartner
  <1>1. SysInit => GameInv
    BY GameInit
  <1>2. ASSUME SysIInv, SysIInv', ApartInv, GameInv, [TameNext]_sysVars
        PROVE  GameInv'
    BY <1>2, GameStep DEF SafeInv
  <1>3. ASSUME ClientTypeOK, [SysNext]_sysVars, Sane'
        PROVE  Sane /\ [TameNext]_sysVars
    BY <1>3, SaneStep
  <1>4. ASSUME Sane => SysIInv, Sane => GameInv
        PROVE  StepHasPartner
    <2> SUFFICES ASSUME Sane, NEW c \in Conns, Listens(c), toClient[c] # <<>>,
                        Head(toClient[c]).type = "OnStep", partner[c] = NoName
                 PROVE  FALSE
      BY DEF StepHasPartner
    <2>1. toClient[c] \in Seq(Replies) /\ Stays(c) /\ (Waits(c) => Warned(c))
      BY <1>4 DEF SysIInv, IInv, TypeOK, GameInv
    <2>2. Waits(c)
      BY <2>1 DEF Stays, Waits, Listens, Idle
    <2>3. Precedes(toClient[c], Tells, OnSteps)
      BY <2>1, <2>2, Zenon DEF Warned
    <2>4. toClient[c][1] \in OnSteps
      BY <2>1, HeadTailIn DEF OnSteps
    <2> QED
      BY <2>1, <2>3, <2>4, OrderTail
  <1> QED
    BY <1>1, <1>2, <1>3, <1>4, SysInductive, ApartInductive, PTL DEF SysSpec
=============================================================================
