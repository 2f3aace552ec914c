--------------------------- MODULE PktSystemProofs ---------------------------
(***************************************************************************)
(* Proofs about PktServer among any far ends, and about PktSystem, the      *)
(* server among its test clients and any others: for any connections, names *)
(* and buffer sizes.                                                       *)
(***************************************************************************)
EXTENDS PktSystem, SequenceTheorems, TLAPS

(***************************************************************************)
(* The server.                                                             *)
(***************************************************************************)

(* Writing adds one whole or torn packet to one connection, or nothing.    *)
LEMMA WriteType ==
    ASSUME TypeOK, NEW c \in Conns, NEW m \in Envelopes, Write(c, m)
    PROVE  /\ sending' \in [Conns -> BOOLEAN]
           /\ toClient' \in [Conns -> Seq(Envelopes)]
  <1>1. Torn \in Envelopes
    BY DEF Torn, Envelope, Envelopes, PlainNames
  <1>2. PICK sent \in Envelopes :
           toClient' = IF peer[c] = "up"
                       THEN [toClient EXCEPT ![c] = Append(@, sent)]
                       ELSE toClient
    BY <1>1 DEF Write
  <1>3. Append(toClient[c], sent) \in Seq(Envelopes)
    BY AppendProperties DEF TypeOK
  <1>4. toClient' \in [Conns -> Seq(Envelopes)]
    BY <1>2, <1>3 DEF TypeOK
  <1> QED
    BY <1>4 DEF Write, TypeOK

(* Every packet the server composes is one a client may be sent.           *)
LEMMA EnvelopeType ==
    ASSUME NEW n \in PlainNames, NEW b \in Bodies \cup {"torn"}
    PROVE  /\ Envelope(n, b) \in Envelopes
           /\ \A S \in SUBSET Names : [Envelope(n, b) EXCEPT !.names = S] \in Envelopes
           /\ [Envelope(n, b) EXCEPT !.names = Players] \in Envelopes
  BY DEF Envelope, Envelopes, Players

(* So is every packet it relays, which bears its sender's name if it is     *)
(* whole.                                                                  *)
LEMMA ReaddressedType ==
    ASSUME NEW n \in PlainNames, NEW p \in Packets
    PROVE  /\ Readdressed(n, p) \in Envelopes
           /\ Readdressed(n, p) = Torn \/ Readdressed(n, p).from = n
  <1>1. p.body \in Bodies /\ p.names \in SUBSET Names
    BY DEF Packets
  <1>2. Torn \in Envelopes
    BY DEF Torn, Envelope, Envelopes, PlainNames
  <1>3. [Envelope(n, p.body) EXCEPT !.names = p.names] \in Envelopes
    BY <1>1, EnvelopeType
  <1>4. [Envelope(n, p.body) EXCEPT !.names = p.names].from = n
    BY DEF Envelope
  <1> QED
    BY <1>2, <1>3, <1>4 DEF Readdressed

(* Every handler of a packet keeps the types. *)
LEMMA HandleType ==
    ASSUME TypeOK, NEW c \in Conns, Handle(c)
    PROVE  TypeOK'
  <1> DEFINE p == Head(toServer[c])
  <1>1. /\ p \in Packets
        /\ toServer' \in [Conns -> Seq(Packets)]
    <2>1. Head(toServer[c]) \in Packets /\ Tail(toServer[c]) \in Seq(Packets)
      BY HeadTailProperties DEF Handle, TypeOK
    <2> QED
      BY <2>1 DEF Handle, TypeOK
  <1>2. /\ Register(c, p) \/ RefuseName(c, p) \/ Relay(c, p)
           \/ Ignore(c, p) \/ Throw(p)
        /\ UNCHANGED <<accepting, peer, accepted, reading>>
    BY DEF Handle
  <1>3. p.name \in PlainNames /\ p.body \in Bodies
    BY <1>1 DEF Packets
  <1>4. CASE Register(c, p)
    <2>1. [Envelope(NoName, "list") EXCEPT !.names = Players] \in Envelopes
      BY EnvelopeType DEF PlainNames, Bodies
    <2>2. /\ sending' \in [Conns -> BOOLEAN]
          /\ toClient' \in [Conns -> Seq(Envelopes)]
      BY <1>4, <2>1, WriteType DEF Register
    <2> QED
      BY <1>1, <1>2, <1>3, <1>4, <2>2 DEF Register, PlainNames, TypeOK
  <1>5. CASE RefuseName(c, p)
    <2>1. Envelope(NoName, "exists") \in Envelopes
      BY EnvelopeType DEF PlainNames, Bodies
    <2>2. /\ sending' \in [Conns -> BOOLEAN]
          /\ toClient' \in [Conns -> Seq(Envelopes)]
      BY <1>5, <2>1, WriteType DEF RefuseName
    <2> QED
      BY <1>1, <1>2, <1>3, <1>5, <2>2 DEF RefuseName, TypeOK
  <1>6. CASE Relay(c, p)
    <2>1. Readdressed(playerName[c], p) \in Envelopes
      BY <1>1, ReaddressedType DEF TypeOK
    <2>2. statusMap[p.name] \in Conns
      BY <1>3, <1>6 DEF Relay, Exists, PlainNames, TypeOK
    <2>3. /\ sending' \in [Conns -> BOOLEAN]
          /\ toClient' \in [Conns -> Seq(Envelopes)]
      BY <1>6, <2>1, <2>2, WriteType DEF Relay
    <2> QED
      BY <1>1, <1>2, <1>6, <2>3 DEF Relay, TypeOK
  <1>7. CASE Ignore(c, p) \/ Throw(p)
    BY <1>1, <1>2, <1>7 DEF Ignore, Throw, Silent, TypeOK
  <1> QED
    BY <1>2, <1>4, <1>5, <1>6, <1>7

(* The server starts well typed. *)
LEMMA InitType == Init => TypeOK
  BY <<>> \in Seq(Envelopes), <<>> \in Seq(Packets)
     DEF Init, TypeOK, PlainNames

(* Every step of the server or of a far end keeps the types. *)
LEMMA TypePreserved ==
    ASSUME TypeOK, [Next]_vars
    PROVE  TypeOK'
  <1>1. CASE AcceptError
    BY <1>1 DEF AcceptError, Silent, TypeOK
  <1>2. ASSUME NEW c \in Conns, Accept(c)
        PROVE  TypeOK'
    BY <1>2 DEF Accept, Silent, TypeOK
  <1>3. ASSUME NEW c \in Conns, Handle(c)
        PROVE  TypeOK'
    BY <1>3, HandleType
  <1>4. ASSUME NEW c \in Conns, ReadError(c)
        PROVE  TypeOK'
    BY <1>4 DEF ReadError, Silent, TypeOK
  <1>5. ASSUME NEW c \in Conns, SendsDone(c)
        PROVE  TypeOK'
    BY <1>5 DEF SendsDone, TypeOK
  <1>6. ASSUME NEW c \in Conns, Connect(c)
        PROVE  TypeOK'
    BY <1>6 DEF Connect, serverVars, TypeOK
  <1>7. ASSUME NEW c \in Conns, NEW p \in Packets, ClientSend(c, p)
        PROVE  TypeOK'
    <2>1. Append(toServer[c], p) \in Seq(Packets)
      BY AppendProperties DEF TypeOK
    <2> QED
      BY <1>7, <2>1 DEF ClientSend, serverVars, TypeOK
  <1>8. ASSUME NEW c \in Conns, ClientReceive(c)
        PROVE  TypeOK'
    <2>1. Tail(toClient[c]) \in Seq(Envelopes)
      BY <1>8, HeadTailProperties DEF ClientReceive, TypeOK
    <2> QED
      BY <1>8, <2>1 DEF ClientReceive, serverVars, TypeOK
  <1>9. ASSUME NEW c \in Conns, Disconnect(c)
        PROVE  TypeOK'
    <2>1. PICK k \in 0 .. Len(toServer[c]) :
             toServer' = [toServer EXCEPT ![c] = SubSeq(@, 1, k)]
      BY <1>9 DEF Disconnect
    <2>2. SubSeq(toServer[c], 1, k) \in Seq(Packets)
      <3>1. toServer[c] \in Seq(Packets)
        BY DEF TypeOK
      <3>2. k \in Int /\ \A i \in 1 .. k : toServer[c][i] \in Packets
        BY <3>1
      <3> QED
        BY <3>2, SubSeqProperties
    <2>3. toServer' \in [Conns -> Seq(Packets)]
      BY <2>1, <2>2 DEF TypeOK
    <2>4. toClient' \in [Conns -> Seq(Envelopes)]
      BY <1>9, <<>> \in Seq(Envelopes) DEF Disconnect, TypeOK
    <2> QED
      BY <1>9, <2>3, <2>4 DEF Disconnect, serverVars, TypeOK
  <1>10. CASE UNCHANGED vars
    BY <1>10 DEF vars, TypeOK
  <1> QED
    BY <1>1, <1>2, <1>3, <1>4, <1>5, <1>6, <1>7, <1>8, <1>9, <1>10
       DEF Next, ServerNext, EnvNext

(* The state variables keep their types, whatever clients send and however *)
(* their connections end.                                                  *)
THEOREM TypeCorrect == Spec => []TypeOK
  BY InitType, TypePreserved, PTL DEF Spec

-----------------------------------------------------------------------------
(***************************************************************************)
(* Names.  Of all that a step does, only four effects matter to them.      *)
(***************************************************************************)
Arrives(c) ==
    /\ ~accepted[c]
    /\ accepted' = [accepted EXCEPT ![c] = TRUE]
    /\ reading' = [reading EXCEPT ![c] = TRUE]
    /\ UNCHANGED <<playerName, statusMap>>

IsGiven(c, n) ==
    /\ reading[c] /\ playerName[c] = NoName /\ statusMap[n] = NoConn
    /\ playerName' = [playerName EXCEPT ![c] = n]
    /\ statusMap' = [statusMap EXCEPT ![n] = c]
    /\ UNCHANGED <<accepted, reading>>

IsRefused(c, n) ==
    /\ reading[c] /\ playerName[c] = NoName /\ statusMap[n] # NoConn
    /\ playerName' = [playerName EXCEPT ![c] = n]
    /\ UNCHANGED <<accepted, reading, statusMap>>

Stops(c) ==
    /\ reading[c]
    /\ reading' = [reading EXCEPT ![c] = FALSE]
    /\ UNCHANGED <<accepted, playerName, statusMap>>

NameStep ==
    \/ \E c \in Conns : \/ Arrives(c) \/ Stops(c)
                        \/ \E n \in Names : IsGiven(c, n) \/ IsRefused(c, n)
    \/ UNCHANGED <<accepted, reading, playerName, statusMap>>

(* What any handler does to sessions and names is one of the few things    *)
(* NameStep lists, or nothing.                                             *)
LEMMA StepEffect ==
    ASSUME TypeOK, [Next]_vars
    PROVE  NameStep
  <1>1. CASE AcceptError
    BY <1>1 DEF AcceptError, NameStep
  <1>2. ASSUME NEW c \in Conns, Accept(c)
        PROVE  NameStep
    BY <1>2 DEF Accept, Arrives, NameStep
  <1>3. ASSUME NEW c \in Conns, Handle(c)
        PROVE  NameStep
    <2> DEFINE p == Head(toServer[c])
    <2>1. /\ Register(c, p) \/ RefuseName(c, p) \/ Relay(c, p)
             \/ Ignore(c, p) \/ Throw(p)
          /\ reading[c]
          /\ UNCHANGED <<accepted, reading>>
      BY <1>3 DEF Handle
    <2>2. p.name \in PlainNames
      <3>1. p \in Packets
        BY <1>3, HeadTailProperties DEF Handle, TypeOK
      <3> QED
        BY <3>1 DEF Packets
    <2>3. CASE Register(c, p)
      BY <2>1, <2>2, <2>3 DEF Register, Exists, PlainNames, IsGiven, NameStep
    <2>4. CASE RefuseName(c, p)
      BY <2>1, <2>2, <2>4 DEF RefuseName, Exists, PlainNames, IsRefused, NameStep
    <2>5. CASE Relay(c, p) \/ Ignore(c, p) \/ Throw(p)
      BY <2>1, <2>5 DEF Relay, Ignore, Throw, NameStep
    <2> QED
      BY <2>1, <2>3, <2>4, <2>5
  <1>4. ASSUME NEW c \in Conns, ReadError(c)
        PROVE  NameStep
    BY <1>4 DEF ReadError, Stops, NameStep
  <1>5. ASSUME NEW c \in Conns, SendsDone(c)
        PROVE  NameStep
    BY <1>5 DEF SendsDone, NameStep
  <1>6. CASE EnvNext
    BY <1>6 DEF EnvNext, Connect, ClientSend, ClientReceive, Disconnect,
                serverVars, NameStep
  <1>7. CASE UNCHANGED vars
    BY <1>7 DEF vars, NameStep
  <1> QED
    BY <1>1, <1>2, <1>3, <1>4, <1>5, <1>6, <1>7 DEF Next, ServerNext

(* Only an accepted session reads.                                         *)
OnlyAcceptedRead == \A c \in Conns : reading[c] => accepted[c]

\* Each of the three parts but the last needs the one before it: a name that
\* is given is given to a session that has none, so no entry loses its name.
IInv == TypeOK /\ OnlyAcceptedRead /\ MapAgrees /\ CarriedNameExists

(* No session has a name and no name a session. *)
LEMMA InitIInv == Init => IInv
  BY InitType DEF Init, IInv, OnlyAcceptedRead, MapAgrees, CarriedNameExists, Exists

(* Map and sessions go on agreeing: a session is named once, with the      *)
(* entry of that name or by one that exists.                               *)
LEMMA NextIInv ==
    ASSUME IInv, [Next]_vars
    PROVE  IInv'
  <1> DEFINE Parts == OnlyAcceptedRead /\ MapAgrees /\ CarriedNameExists
  <1>1. TypeOK /\ TypeOK' /\ Parts /\ NameStep
    BY StepEffect, TypePreserved DEF IInv
  <1>2. ASSUME NEW c \in Conns, Arrives(c)
        PROVE  Parts'
    BY <1>1, <1>2
       DEF Arrives, OnlyAcceptedRead, MapAgrees, CarriedNameExists, Exists, TypeOK
  <1>3. ASSUME NEW c \in Conns, NEW n \in Names, IsGiven(c, n)
        PROVE  Parts'
    <2>1. OnlyAcceptedRead'
      BY <1>1, <1>3 DEF IsGiven, OnlyAcceptedRead
    <2>2. MapAgrees'
      BY <1>1, <1>3, NoNameAssumption DEF IsGiven, MapAgrees, Exists, TypeOK
    <2>3. CarriedNameExists'
      BY <1>1, <1>3, NoConnAssumption
         DEF IsGiven, CarriedNameExists, Exists, TypeOK, PlainNames
    <2> QED
      BY <2>1, <2>2, <2>3
  <1>4. ASSUME NEW c \in Conns, NEW n \in Names, IsRefused(c, n)
        PROVE  Parts'
    BY <1>1, <1>4, NoNameAssumption
       DEF IsRefused, OnlyAcceptedRead, MapAgrees, CarriedNameExists, Exists, TypeOK
  <1>5. ASSUME NEW c \in Conns, Stops(c)
        PROVE  Parts'
    BY <1>1, <1>5
       DEF Stops, OnlyAcceptedRead, MapAgrees, CarriedNameExists, Exists, TypeOK
  <1>6. ASSUME UNCHANGED <<accepted, reading, playerName, statusMap>>
        PROVE  Parts'
    BY <1>1, <1>6 DEF OnlyAcceptedRead, MapAgrees, CarriedNameExists, Exists
  <1> QED
    BY <1>1, <1>2, <1>3, <1>4, <1>5, <1>6 DEF NameStep, IInv

(* The inductive invariant holds in every reachable state. *)
LEMMA Inductive == Spec => []IInv
  BY InitIInv, NextIInv, PTL DEF Spec

(* The session of an entry of m_playerStatusMap goes by the entry's name.  *)
THEOREM MapAgreesInvariant == Spec => []MapAgrees
  BY Inductive, PTL DEF IInv

(* The name a session goes by, accepted or refused, is registered.         *)
THEOREM CarriedNameExistsInvariant == Spec => []CarriedNameExists
  BY Inductive, PTL DEF IInv

(* What matters to names leaves the entries that are there.                *)
LEMMA EntriesStay ==
    ASSUME TypeOK, NameStep
    PROVE  \A n \in Names : Exists(n) => statusMap'[n] = statusMap[n]
  BY DEF NameStep, Arrives, Stops, IsGiven, IsRefused, Exists, TypeOK

(* No step of the server changes an entry (registerPlayer, forgotPlayer).  *)
THEOREM NamesForeverHolds == Spec => NamesForever
  <1>1. ASSUME TypeOK, [Next]_vars
        PROVE  [\A n \in Names : Exists(n) => statusMap'[n] = statusMap[n]]_vars
    BY <1>1, StepEffect, EntriesStay
  <1> QED
    BY <1>1, TypeCorrect, PTL DEF Spec, NamesForever

(* Every effect on names is a step of the registry, or none.               *)
LEMMA RegistryStep ==
    ASSUME IInv, NameStep
    PROVE  [Registry!RNext]_(Registry!rvars)
  <1> DEFINE Phase == [c \in Conns |-> IF ~accepted[c] THEN "new"
                                      ELSE IF reading[c] THEN "live"
                                      ELSE "gone"]
  <1>1. NameStep /\ TypeOK /\ OnlyAcceptedRead
    BY DEF IInv
  <1>2. ASSUME NEW c \in Conns, Arrives(c)
        PROVE  Registry!Arrive(c)
    BY <1>1, <1>2 DEF Arrives, TypeOK, Registry!Arrive
  <1>3. ASSUME NEW c \in Conns, NEW n \in Names, IsGiven(c, n)
        PROVE  Registry!Give(c, n)
    BY <1>1, <1>3 DEF IsGiven, OnlyAcceptedRead, Registry!Give
  <1>4. ASSUME NEW c \in Conns, Stops(c)
        PROVE  Registry!Abandon(c)
    <2>1. /\ Phase[c] = "live"
          /\ Phase' = [Phase EXCEPT ![c] = "gone"]
      BY <1>1, <1>4 DEF Stops, OnlyAcceptedRead, TypeOK
    <2> QED
      BY <1>4, <2>1 DEF Stops, Registry!Abandon
  <1>5. CASE \E c \in Conns : Arrives(c) \/ Stops(c)
    BY <1>2, <1>4, <1>5 DEF Registry!RNext
  <1>6. CASE \E c \in Conns, n \in Names : IsGiven(c, n)
    BY <1>3, <1>6 DEF Registry!RNext
  <1>7. ASSUME UNCHANGED <<accepted, reading, statusMap>>
        PROVE  UNCHANGED Registry!rvars
    BY <1>7 DEF Registry!rvars
  <1>8. CASE \E c \in Conns, n \in Names : IsRefused(c, n)
    BY <1>7, <1>8 DEF IsRefused
  <1> QED
    BY <1>1, <1>5, <1>6, <1>7, <1>8 DEF NameStep

(* A server that never frees a name keeps the promise of NameRegistry too. *)
THEOREM RegistryRefined == Spec => RegistrySpec
  <1>1. Init => Registry!RInit
    BY DEF Init, Registry!RInit
  <1>2. ASSUME IInv, [Next]_vars
        PROVE  [Registry!RNext]_(Registry!rvars)
    BY <1>2, StepEffect, RegistryStep DEF IInv
  <1> QED
    BY <1>1, <1>2, Inductive, PTL DEF Spec, RegistrySpec, Registry!RSpec

-----------------------------------------------------------------------------
(* What the server writes to a connection is put after what is there, and  *)
(* whole unless it is torn.                                                *)
LEMMA WriteAppends ==
    ASSUME TypeOK, NEW c \in Conns, NEW m \in Envelopes, Write(c, m),
           NEW d \in Conns, NEW i \in Len(toClient[d]) + 1 .. Len(toClient'[d])
    PROVE  d = c /\ toClient'[d][i] \in {m, Torn}
  <1>1. PICK sent \in {m, Torn} :
           toClient' = IF peer[c] = "up"
                       THEN [toClient EXCEPT ![c] = Append(@, sent)]
                       ELSE toClient
    BY DEF Write
  <1>2. toClient \in [Conns -> Seq(Envelopes)] /\ Len(toClient[d]) \in Nat
    BY DEF TypeOK
  <1>3. toClient'[d] # toClient[d]
    BY <1>2
  <1>4. d = c /\ toClient'[d] = Append(toClient[d], sent)
    BY <1>1, <1>2, <1>3
  <1>5. sent \in Envelopes
    BY <1>1 DEF Torn, Envelope, Envelopes, PlainNames
  <1>6. /\ Len(toClient'[d]) = Len(toClient[d]) + 1
        /\ toClient'[d][Len(toClient[d]) + 1] = sent
    BY <1>2, <1>4, <1>5, AppendProperties
  <1>7. i = Len(toClient[d]) + 1
    BY <1>2, <1>6
  <1> QED
    BY <1>1, <1>4, <1>6, <1>7

\* The answers to Hi.
Answers == {"exists", "list"}

(* Only the handler of a first Hi writes an answer, and it names the       *)
(* session it answers; or one is relayed for a session without a name.     *)
LEMMA HandleAnswers ==
    ASSUME TypeOK, NEW c \in Conns, Handle(c),
           NEW d \in Conns, NEW i \in Len(toClient[d]) + 1 .. Len(toClient'[d]),
           toClient'[d][i].from = NoName, toClient'[d][i].body \in Answers
    PROVE  \/ playerName[d] = NoName /\ playerName'[d] # NoName
           \/ NamelessRelay
  <1> DEFINE p == Head(toServer[c])
  <1>1. Register(c, p) \/ RefuseName(c, p) \/ Relay(c, p)
            \/ Ignore(c, p) \/ Throw(p)
    BY DEF Handle
  <1>2. p \in Packets
    BY HeadTailProperties DEF Handle, TypeOK
  <1>3. p.name \in PlainNames /\ p.body \in Bodies
    BY <1>2 DEF Packets
  <1>4. Torn.body \notin Answers
    BY DEF Torn, Envelope, Answers
  <1>5. CASE Register(c, p) \/ RefuseName(c, p)
    <2>1. PICK m \in Envelopes : Write(c, m)
      <3>1. /\ Envelope(NoName, "exists") \in Envelopes
            /\ [Envelope(NoName, "list") EXCEPT !.names = Players] \in Envelopes
        BY EnvelopeType DEF PlainNames, Bodies
      <3> QED
        BY <1>5, <3>1 DEF Register, RefuseName
    <2>2. d = c
      BY <2>1, WriteAppends
    <2> QED
      BY <1>5, <2>2 DEF Register, RefuseName, TypeOK
  <1>6. CASE Relay(c, p)
    <2>1. /\ Readdressed(playerName[c], p) \in Envelopes
          /\ \/ Readdressed(playerName[c], p) = Torn
             \/ Readdressed(playerName[c], p).from = playerName[c]
      BY <1>2, ReaddressedType DEF TypeOK
    <2>2. statusMap[p.name] \in Conns
      BY <1>3, <1>6 DEF Relay, Exists, PlainNames, TypeOK
    <2>3. toClient'[d][i] \in {Readdressed(playerName[c], p), Torn}
      BY <1>6, <2>1, <2>2, WriteAppends DEF Relay
    <2>4. playerName[c] = NoName
      BY <1>4, <2>1, <2>3
    <2>5. toServer[c] # <<>> /\ toServer'[c] = Tail(toServer[c])
      BY DEF Handle, TypeOK
    <2> QED
      BY <1>6, <2>4, <2>5 DEF Relay, NamelessRelay
  <1>7. CASE Ignore(c, p) \/ Throw(p)
    <2>1. UNCHANGED toClient
      BY <1>7 DEF Ignore, Throw, Silent
    <2> QED
      BY <2>1 DEF TypeOK
  <1> QED
    BY <1>1, <1>5, <1>6, <1>7

\* The answer to Hi is written where a name is given, or refused, or forged.
Once ==
    \A c \in Conns : \A i \in Len(toClient[c]) + 1 .. Len(toClient'[c]) :
        toClient'[c][i].from = NoName /\ toClient'[c][i].body \in {"exists", "list"} =>
            \/ playerName[c] = NoName /\ playerName'[c] # NoName
            \/ NamelessRelay

(* What takes from the packets on their way is no answer,                  *)
LEMMA FewerPackets ==
    ASSUME TypeOK, \A d \in Conns : Len(toClient'[d]) <= Len(toClient[d]),
           \A d \in Conns : Len(toClient'[d]) \in Nat
    PROVE  Once
  <1>1. \A d \in Conns : Len(toClient[d]) \in Nat
    BY DEF TypeOK
  <1> QED
    BY <1>1 DEF Once

(* and of the server's steps only the first Hi is answered.                *)
LEMMA OnceStep ==
    ASSUME TypeOK, [Next]_vars
    PROVE  Once
  <1>1. ASSUME NEW c \in Conns, Handle(c)
        PROVE  Once
    BY <1>1, HandleAnswers DEF Once, Answers
  <1>2. ASSUME \A d \in Conns : Len(toClient'[d]) <= Len(toClient[d])
        PROVE  Once
    <2>1. \A d \in Conns : Len(toClient'[d]) \in Nat
      BY TypePreserved DEF TypeOK
    <2> QED
      BY <1>2, <2>1, FewerPackets
  <1>3. \A d \in Conns : Len(toClient[d]) \in Nat
    BY DEF TypeOK
  <1>4. CASE UNCHANGED toClient
    BY <1>2, <1>3, <1>4
  <1>5. ASSUME NEW c \in Conns, ClientReceive(c)
        PROVE  Once
    <2>1. Len(Tail(toClient[c])) = Len(toClient[c]) - 1
      BY <1>5, HeadTailProperties DEF ClientReceive, TypeOK
    <2>2. \A d \in Conns : Len(toClient'[d]) <= Len(toClient[d])
      BY <1>3, <1>5, <2>1 DEF ClientReceive, TypeOK
    <2> QED
      BY <1>2, <2>2
  <1>6. ASSUME NEW c \in Conns, Disconnect(c)
        PROVE  Once
    <2>1. Len(<<>>) = 0
      OBVIOUS
    <2>2. \A d \in Conns : Len(toClient'[d]) <= Len(toClient[d])
      BY <1>3, <1>6, <2>1 DEF Disconnect, TypeOK
    <2> QED
      BY <1>2, <2>2
  <1>7. ASSUME NEW c \in Conns, Accept(c) \/ ReadError(c) \/ SendsDone(c) \/ Connect(c)
        PROVE  Once
    BY <1>4, <1>7 DEF Accept, ReadError, SendsDone, Connect, Silent
  <1>8. ASSUME NEW c \in Conns, NEW p \in Packets, ClientSend(c, p)
        PROVE  Once
    BY <1>4, <1>8 DEF ClientSend
  <1>9. CASE AcceptError \/ UNCHANGED vars
    BY <1>4, <1>9 DEF AcceptError, Silent, vars
  <1> QED
    BY <1>1, <1>5, <1>6, <1>7, <1>8, <1>9 DEF Next, ServerNext, EnvNext

(* A session is sent what its client takes for a list or a refusal of the  *)
(* server's once, when it is named, or by somebody who is not.             *)
THEOREM AnsweredOnceHolds == Spec => AnsweredOnce
  <1>1. ASSUME TypeOK, [Next]_vars
        PROVE  [Once]_vars
    BY <1>1, OnceStep
  <1> QED
    BY <1>1, TypeCorrect, PTL DEF Spec, AnsweredOnce, Once

-----------------------------------------------------------------------------
(***************************************************************************)
(* The server among its test clients.                                      *)
(***************************************************************************)

(* A test client that reads a list sends its invitation in the same step,   *)
(* which no step of EnvNext does; every other step is one of PktServer.    *)
LEMMA StepKinds ==
    ASSUME [SysNext]_sysVars
    PROVE  \/ [Next]_vars
           \/ \E c \in Testers : OnList(c)
  <1>1. CASE ServerNext \/ UNCHANGED sysVars
    BY <1>1 DEF Next, sysVars
  <1>2. ASSUME NEW c \in Testers, \/ Start(c) \/ SayHi(c) \/ Reading(c) \/ Die(c)
                                  \/ Finds(c) \/ PassesOver(c)
        PROVE  [Next]_vars \/ OnList(c)
    <2>1. /\ c \in Conns /\ Packet("hi", MyName[c], "other") \in Packets
          /\ \A n \in Names : Packet("envelope", n, "invite") \in Packets
      BY TestersAssumption, MyNameAssumption
         DEF Packet, Packets, PlainNames, Bodies
    <2>2. CASE Start(c) \/ SayHi(c) \/ Die(c)
      BY <2>1, <2>2 DEF Start, SayHi, Die, Next, EnvNext
    <2>3. CASE Reading(c)
      BY <2>1, <2>3 DEF Reading, OnAnswer, OnInvite, OnOther, OnTorn, Next, EnvNext
    <2>4. CASE PassesOver(c)
      BY <2>1, <2>4 DEF PassesOver, Next, EnvNext
    <2>5. CASE Finds(c)
      <3>1. PICK n \in Names :
               UNCHANGED vars \/ ClientSend(c, Packet("envelope", n, "invite"))
        BY <2>5 DEF Finds
      <3> QED
        BY <2>1, <3>1 DEF Next, EnvNext
    <2> QED
      BY <1>2, <2>2, <2>3, <2>4, <2>5
  <1>3. ASSUME NEW c \in Conns, OpenClient(c)
        PROVE  Next
    BY <1>3 DEF OpenClient, Next, EnvNext
  <1> QED
    BY <1>1, <1>2, <1>3 DEF SysNext

(* The first packet waiting is one of its kind, and so are the others. *)
LEMMA FirstAndRest ==
    ASSUME NEW S, NEW q \in Seq(S), q # <<>>
    PROVE  Head(q) \in S /\ Tail(q) \in Seq(S)
  BY HeadTailProperties

(* What is written to a connection goes to the end of what it was sent.     *)
LEMMA WriteAdds ==
    ASSUME TypeOK, NEW c \in Conns, NEW m \in Envelopes, Write(c, m), NEW d \in Conns
    PROVE  \/ toClient'[d] = toClient[d]
           \/ d = c /\ \E sent \in {m, Torn} : toClient'[d] = Append(toClient[d], sent)
  <1>1. PICK sent \in {m, Torn} :
           toClient' = IF peer[c] = "up"
                       THEN [toClient EXCEPT ![c] = Append(@, sent)]
                       ELSE toClient
    BY DEF Write
  <1> QED
    BY <1>1 DEF TypeOK

(* What a client that reads a list does: it takes the list, and invites one *)
(* of the players on it.                                                   *)
LEMMA ListEffect ==
    ASSUME TypeOK, NEW c \in Testers, OnList(c)
    PROVE  /\ UNCHANGED <<serverVars, peer>>
           /\ toClient[c] # <<>> /\ Head(toClient[c]).body = "list"
           /\ toClient' = [toClient EXCEPT ![c] = Tail(@)]
           /\ phase' = [phase EXCEPT ![c] = IF @ = "waiting" THEN "answered" ELSE "misled"]
           /\ \E n \in Names :
                /\ n \in Head(toClient[c]).names
                /\ toInvite' = [toInvite EXCEPT ![c] = n]
                /\ toServer' = [toServer EXCEPT
                     ![c] = Append(@, Packet("envelope", n, "invite"))]
  <1>1. /\ UNCHANGED <<serverVars, peer>>
        /\ toClient[c] # <<>> /\ Head(toClient[c]).body = "list"
        /\ toClient' = [toClient EXCEPT ![c] = Tail(@)]
        /\ phase' = [phase EXCEPT ![c] = IF @ = "waiting" THEN "answered" ELSE "misled"]
    BY DEF OnList, Gets
  <1>2. PICK n \in LastOf(Head(toClient[c]).names) \cup Head(toClient[c]).names :
          /\ toInvite' = [toInvite EXCEPT ![c] = n]
          /\ toServer' = [toServer EXCEPT
               ![c] = Append(@, Packet("envelope", n, "invite"))]
    BY DEF OnList
  <1>3. n \in Head(toClient[c]).names
    BY <1>2 DEF LastOf
  <1>4. Head(toClient[c]) \in Envelopes
    BY <1>1, FirstAndRest, TestersAssumption DEF TypeOK
  <1>5. n \in Names
    BY <1>3, <1>4 DEF Envelopes
  <1> QED
    BY <1>1, <1>2, <1>3, <1>5

(* The server's own invariant survives the steps of the test clients too.   *)
LEMMA ServerKept ==
    ASSUME IInv, [SysNext]_sysVars
    PROVE  IInv'
  <1>1. CASE [Next]_vars
    BY <1>1, NextIInv
  <1>2. ASSUME NEW c \in Testers, OnList(c)
        PROVE  IInv'
    <2>1. /\ TypeOK /\ OnlyAcceptedRead /\ MapAgrees /\ CarriedNameExists
          /\ c \in Conns
      BY TestersAssumption DEF IInv
    <2>2. PICK n \in Names : toServer' = [toServer EXCEPT
               ![c] = Append(@, Packet("envelope", n, "invite"))]
      BY <1>2, <2>1, ListEffect
    <2>3. /\ UNCHANGED <<up, accepting, accepted, playerName, reading, sending,
                         statusMap, peer>>
          /\ toClient[c] # <<>>
          /\ toClient' = [toClient EXCEPT ![c] = Tail(@)]
      BY <1>2, <2>1, ListEffect DEF serverVars
    <2>4. Tail(toClient[c]) \in Seq(Envelopes)
      BY <2>1, <2>3, FirstAndRest DEF TypeOK
    <2>5. Append(toServer[c], Packet("envelope", n, "invite")) \in Seq(Packets)
      <3>1. Packet("envelope", n, "invite") \in Packets
        BY DEF Packet, Packets, PlainNames, Bodies
      <3> QED
        BY <2>1, <3>1, AppendProperties DEF TypeOK
    <2>6. TypeOK'
      BY <2>1, <2>2, <2>3, <2>4, <2>5 DEF TypeOK
    <2> QED
      BY <2>1, <2>3, <2>6
         DEF IInv, OnlyAcceptedRead, MapAgrees, CarriedNameExists, Exists
  <1> QED
    BY <1>1, <1>2, StepKinds

(* Reading a list has no effect on names, and answers nothing.             *)
LEMMA ListHarmless ==
    ASSUME TypeOK, NEW c \in Testers, OnList(c)
    PROVE  NameStep /\ Once
  <1>1. /\ UNCHANGED serverVars /\ toClient[c] # <<>> /\ c \in Conns
        /\ toClient' = [toClient EXCEPT ![c] = Tail(@)]
    BY ListEffect, TestersAssumption
  <1>2. NameStep
    BY <1>1 DEF serverVars, NameStep
  <1>3. \A d \in Conns : Len(toClient[d]) \in Nat
    BY DEF TypeOK
  <1>4. Len(Tail(toClient[c])) = Len(toClient[c]) - 1 /\ Len(Tail(toClient[c])) \in Nat
    BY <1>1, HeadTailProperties DEF TypeOK
  <1>5. \A d \in Conns : Len(toClient'[d]) <= Len(toClient[d]) /\ Len(toClient'[d]) \in Nat
    BY <1>1, <1>3, <1>4 DEF TypeOK
  <1> QED
    BY <1>2, <1>5, FewerPackets

(* What the server promises about names among arbitrary clients it keeps    *)
(* among the test clients, whose steps are not all steps of those.         *)
THEOREM ServerHoldsInSystem == SysSpec => [](TypeOK /\ MapAgrees /\ CarriedNameExists)
  <1>1. SysInit => IInv
    BY InitIInv DEF SysInit
  <1> QED
    BY <1>1, ServerKept, PTL DEF SysSpec, IInv

(* Among them it also keeps every name to its session for ever, writes one *)
(* answer to each session (what others relay as one beside it), and        *)
(* implements the registry: a client that reads and sends in one step       *)
(* makes no difference to the server.                                      *)
THEOREM PromisesHoldInSystem == SysSpec => NamesForever /\ AnsweredOnce /\ RegistrySpec
  <1> DEFINE Entries == \A n \in Names : Exists(n) => statusMap'[n] = statusMap[n]
  <1>1. SysInit => IInv
    BY InitIInv DEF SysInit
  <1>2. SysInit => Registry!RInit
    BY DEF SysInit, Init, Registry!RInit
  <1>3. ASSUME IInv, [SysNext]_sysVars
        PROVE  NameStep /\ Once
    BY <1>3, StepKinds, StepEffect, OnceStep, ListHarmless DEF IInv
  <1>4. ASSUME IInv, [SysNext]_sysVars
        PROVE  [Entries]_vars /\ [Once]_vars
    BY <1>3, <1>4, EntriesStay DEF IInv
  <1>5. ASSUME IInv, [SysNext]_sysVars
        PROVE  [Registry!RNext]_(Registry!rvars)
    BY <1>3, <1>5, RegistryStep
  <1> QED
    BY <1>1, <1>2, <1>4, <1>5, ServerKept, PTL
       DEF SysSpec, NamesForever, AnsweredOnce, Once, RegistrySpec, Registry!RSpec

-----------------------------------------------------------------------------
(***************************************************************************)
(* Who knows of whom.                                                      *)
(*                                                                         *)
(* A test client that waits for the answer to Hi is sent that answer before *)
(* anything that others send it, since nothing is relayed to a session that *)
(* is not registered.  From the answer it hears of the players that were    *)
(* registered before it: so of two clients that are not misled only the     *)
(* later one has heard of the other.                                       *)
(***************************************************************************)
Pending(c) == phase[c] \in {"start", "waiting"}

\* The answer comes first.
AnswerFirst(c) ==
    Pending(c) => /\ ~lost[c]
                  /\ IF toClient[c] = <<>>
                     THEN peer[c] = "down" \/ playerName[c] = NoName
                     ELSE /\ Head(toClient[c]).from = NoName
                          /\ Head(toClient[c]).body \in Answers

\* Unless it is misled, c has not heard of n, nor will it.
Ignorant(c, n) ==
    ~Misled(c) =>
        /\ toInvite[c] # n
        /\ Pending(c) /\ toClient[c] # <<>> /\ Head(toClient[c]).body = "list"
               => n \notin Head(toClient[c]).names

\* A test client gives no name but its own.
Honest(c) == { p \in Packets : p.kind = "hi" => p.name = MyName[c] }

Later(c, d) == Ignorant(c, MyName[d]) \/ Ignorant(d, MyName[c])

ClientTypeOK ==
    /\ toInvite \in [Testers -> PlainNames]
    /\ phase \in [Testers -> {"start", "waiting", "answered", "misled"}]
    /\ lost \in [Testers -> BOOLEAN]

\* What a session reads has been connected.
ReadersSeen == \A c \in Conns : reading[c] => peer[c] # "idle"

SysIInv ==
    /\ IInv /\ ClientTypeOK /\ ReadersSeen
    /\ \A c \in Testers : toServer[c] \in Seq(Honest(c)) /\ AnswerFirst(c)
    /\ \A c \in Testers, n \in Names :
          Ignorant(c, n) \/ (Exists(n) /\ statusMap[MyName[c]] = c)
    /\ \A c, d \in Testers : Later(c, d)

(* Nobody has heard of anybody. *)
LEMMA SysInitIInv == SysInit => SysIInv
  <1> SUFFICES ASSUME SysInit PROVE SysIInv
    OBVIOUS
  <1>1. IInv /\ ReadersSeen
    BY InitIInv DEF SysInit, Init, ReadersSeen
  <1>2. \A c \in Testers : toServer[c] \in Seq(Honest(c)) /\ AnswerFirst(c)
    BY TestersAssumption, \A c : <<>> \in Seq(Honest(c)) DEF SysInit, Init, AnswerFirst
  <1>3. ASSUME NEW c \in Testers, NEW n \in Names
        PROVE  Ignorant(c, n)
    BY NoNameAssumption, TestersAssumption DEF SysInit, Init, Ignorant
  <1>4. ClientTypeOK
    BY DEF SysInit, ClientTypeOK, PlainNames
  <1> QED
    BY <1>1, <1>2, <1>3, <1>4, MyNameAssumption DEF SysIInv, Later

(* A test client asks for no name but its own. *)
LEMMA HonestStep ==
    ASSUME SysIInv, [SysNext]_sysVars, NEW d \in Testers
    PROVE  toServer'[d] \in Seq(Honest(d))
  <1>1. /\ TypeOK /\ toServer[d] \in Seq(Honest(d)) /\ d \in Conns
        /\ toServer[d] \in Seq(Packets) /\ MyName[d] \in Names
    BY TestersAssumption, MyNameAssumption DEF SysIInv, IInv, TypeOK
  <1>2. CASE UNCHANGED toServer
    BY <1>1, <1>2
  <1>3. ASSUME NEW c \in Conns, Handle(c)
        PROVE  toServer'[d] \in Seq(Honest(d))
    <2>1. toServer' = [toServer EXCEPT ![c] = Tail(@)] /\ toServer[c] # <<>>
      BY <1>3 DEF Handle
    <2> QED
      BY <1>1, <2>1, FirstAndRest DEF TypeOK
  <1>4. ASSUME NEW c \in Conns, Disconnect(c)
        PROVE  toServer'[d] \in Seq(Honest(d))
    <2>1. PICK k \in 0 .. Len(toServer[c]) :
             toServer' = [toServer EXCEPT ![c] = SubSeq(@, 1, k)]
      BY <1>4 DEF Disconnect
    <2>2. ASSUME c = d
          PROVE  SubSeq(toServer[d], 1, k) \in Seq(Honest(d))
      <3>1. k \in Int /\ \A i \in 1 .. k : toServer[d][i] \in Honest(d)
        BY <1>1, <2>1, <2>2
      <3> QED
        BY <3>1, SubSeqProperties
    <2> QED
      BY <1>1, <2>1, <2>2 DEF TypeOK
  <1>5. ASSUME NEW c \in Conns, NEW p \in Packets, c = d => p \in Honest(d),
               toServer' = [toServer EXCEPT ![c] = Append(@, p)]
        PROVE  toServer'[d] \in Seq(Honest(d))
    <2>1. c = d => Append(toServer[d], p) \in Seq(Honest(d))
      BY <1>1, <1>5, AppendProperties
    <2> QED
      BY <1>1, <1>5, <2>1 DEF TypeOK
  <1>6. ASSUME NEW c \in Testers, SayHi(c) \/ OnList(c) \/ Finds(c)
        PROVE  toServer'[d] \in Seq(Honest(d))
    <2>1. c \in Conns /\ MyName[c] \in Names
      BY TestersAssumption, MyNameAssumption
    <2>2. CASE SayHi(c)
      <3> DEFINE p == Packet("hi", MyName[c], "other")
      <3>1. p \in Packets /\ (c = d => p \in Honest(d))
        BY <2>1 DEF Packet, Packets, PlainNames, Bodies, Honest
      <3>2. toServer' = [toServer EXCEPT ![c] = Append(@, p)]
        BY <2>2 DEF SayHi, ClientSend
      <3> QED
        BY <1>5, <2>1, <3>1, <3>2
    <2>3. CASE OnList(c)
      <3>1. PICK n \in Names : toServer' = [toServer EXCEPT
               ![c] = Append(@, Packet("envelope", n, "invite"))]
        BY <1>1, <2>3, ListEffect
      <3> DEFINE p == Packet("envelope", n, "invite")
      <3>2. p \in Packets /\ p \in Honest(d)
        BY DEF Packet, Packets, PlainNames, Bodies, Honest
      <3> QED
        BY <1>5, <2>1, <3>1, <3>2
    <2>4. CASE Finds(c)
      <3>1. PICK n \in Names : \/ UNCHANGED vars
                               \/ ClientSend(c, Packet("envelope", n, "invite"))
        BY <2>4 DEF Finds
      <3> DEFINE p == Packet("envelope", n, "invite")
      <3>2. p \in Packets /\ p \in Honest(d)
        BY DEF Packet, Packets, PlainNames, Bodies, Honest
      <3>3. CASE UNCHANGED vars
        BY <1>2, <3>3 DEF vars
      <3>4. CASE ClientSend(c, p)
        <4>1. toServer' = [toServer EXCEPT ![c] = Append(@, p)]
          BY <3>4 DEF ClientSend
        <4> HIDE DEF p
        <4> QED
          BY <1>5, <2>1, <3>2, <4>1
      <3> QED
        BY <3>1, <3>3, <3>4
    <2> QED
      BY <1>6, <2>2, <2>3, <2>4
  <1>7. ASSUME NEW c \in Conns, OpenClient(c)
        PROVE  toServer'[d] \in Seq(Honest(d))
    <2>1. c # d
      BY <1>7 DEF OpenClient
    <2> QED
      BY <1>2, <1>4, <1>5, <1>7, <2>1
         DEF OpenClient, ClientSend, Connect, ClientReceive
  <1>8. ASSUME NEW c \in Testers, Start(c) \/ Die(c) \/ OnAnswer(c) \/ OnInvite(c)
                                  \/ OnOther(c) \/ OnTorn(c) \/ PassesOver(c)
        PROVE  Disconnect(c) \/ UNCHANGED toServer
    BY <1>8 DEF Start, Die, OnAnswer, OnInvite, OnOther, OnTorn, PassesOver, Connect,
                ClientReceive
  <1>9. CASE ServerNext
    BY <1>2, <1>3, <1>9 DEF ServerNext, AcceptError, Accept, ReadError, SendsDone
  <1> QED
    BY <1>2, <1>4, <1>6, <1>7, <1>8, <1>9, TestersAssumption
       DEF SysNext, Reading, sysVars, vars

(* The variables of the test clients keep their types.                     *)
LEMMA ClientTypeStep ==
    ASSUME SysIInv, [SysNext]_sysVars
    PROVE  ClientTypeOK'
  <1>1. TypeOK /\ ClientTypeOK
    BY DEF SysIInv, IInv
  <1>2. ASSUME NEW c \in Testers, OnList(c)
        PROVE  ClientTypeOK'
    <2>1. UNCHANGED lost
      BY <1>2 DEF OnList
    <2> QED
      BY <1>1, <1>2, <2>1, ListEffect DEF ClientTypeOK, PlainNames
  <1>3. ASSUME NEW c \in Testers, Finds(c)
        PROVE  ClientTypeOK'
    BY <1>1, <1>3 DEF Finds, ClientTypeOK, PlainNames
  <1>4. ASSUME NEW c \in Testers, SayHi(c) \/ OnAnswer(c) \/ OnTorn(c)
        PROVE  ClientTypeOK'
    BY <1>1, <1>4 DEF SayHi, OnAnswer, OnTorn, ClientTypeOK
  <1>5. ASSUME UNCHANGED <<phase, toInvite, lost>>
        PROVE  ClientTypeOK'
    BY <1>1, <1>5 DEF ClientTypeOK
  <1>6. ASSUME NEW c \in Testers, \/ Start(c) \/ Die(c) \/ PassesOver(c)
                                  \/ OnInvite(c) \/ OnOther(c)
        PROVE  ClientTypeOK'
    BY <1>5, <1>6 DEF Start, Die, PassesOver, OnInvite, OnOther, clientVars
  <1>7. ASSUME NEW c \in Conns, OpenClient(c)
        PROVE  ClientTypeOK'
    BY <1>5, <1>7 DEF OpenClient, clientVars
  <1>8. CASE UNCHANGED clientVars
    BY <1>5, <1>8 DEF clientVars
  <1>9. CASE UNCHANGED sysVars
    BY <1>8, <1>9 DEF sysVars
  <1> QED
    BY <1>2, <1>3, <1>4, <1>6, <1>7, <1>8, <1>9 DEF SysNext, Reading

(* A session is made of a connection, and a connection does not become one *)
(* that was never opened.                                                  *)
LEMMA ReadersSeenStep ==
    ASSUME SysIInv, [SysNext]_sysVars
    PROVE  ReadersSeen'
  <1>1. TypeOK /\ ReadersSeen
    BY DEF SysIInv, IInv
  <1>2. CASE UNCHANGED <<reading, peer>>
    BY <1>1, <1>2 DEF ReadersSeen
  <1>3. ASSUME NEW c \in Conns, Accept(c)
        PROVE  ReadersSeen'
    BY <1>1, <1>3 DEF Accept, ReadersSeen, TypeOK
  <1>4. ASSUME NEW c \in Conns, ReadError(c)
        PROVE  ReadersSeen'
    BY <1>1, <1>4 DEF ReadError, ReadersSeen, TypeOK
  <1>5. ASSUME NEW c \in Conns, Connect(c) \/ Disconnect(c)
        PROVE  ReadersSeen'
    BY <1>1, <1>5 DEF Connect, Disconnect, serverVars, ReadersSeen, TypeOK
  <1>6. ASSUME NEW c \in Conns, NEW p \in Packets, ClientSend(c, p)
        PROVE  ReadersSeen'
    BY <1>2, <1>6 DEF ClientSend, serverVars
  <1>7. ASSUME NEW c \in Conns, ClientReceive(c)
        PROVE  ReadersSeen'
    BY <1>2, <1>7 DEF ClientReceive, serverVars
  <1>8. CASE EnvNext
    BY <1>5, <1>6, <1>7, <1>8 DEF EnvNext
  <1>9. CASE ServerNext
    <2>1. ASSUME NEW c \in Conns, Handle(c) \/ SendsDone(c)
          PROVE  ReadersSeen'
      BY <1>2, <2>1 DEF Handle, SendsDone
    <2> QED
      BY <1>2, <1>3, <1>4, <1>9, <2>1 DEF ServerNext, AcceptError
  <1>10. ASSUME NEW c \in Testers, OnList(c)
         PROVE  ReadersSeen'
    BY <1>1, <1>2, <1>10, ListEffect DEF serverVars
  <1>11. CASE UNCHANGED vars
    BY <1>2, <1>11 DEF vars
  <1> QED
    BY <1>8, <1>9, <1>10, <1>11, StepKinds DEF Next

\* The name of c is free before a step and its own after it.
Registered(c) == statusMap[MyName[c]] = NoConn /\ statusMap'[MyName[c]] = c

\* What d reads first is what it would have read before, or the answer its
\* session is given now, or its connection is gone.
SameFirst(d) ==
    \/ toClient[d] # <<>> /\ toClient'[d] # <<>> /\ Head(toClient'[d]) = Head(toClient[d])
    \/ toClient'[d] = <<>> /\ (peer'[d] = "down" \/ playerName'[d] = NoName)

AnsweredNow(d) ==
    /\ toClient'[d] # <<>>
    /\ Head(toClient'[d]).from = NoName
    /\ \/ Head(toClient'[d]).body = "exists"
       \/ /\ Head(toClient'[d]).body = "list" /\ Head(toClient'[d]).names = Players
          /\ Registered(d)

(* What is written goes behind what waits to be read, and is written whole *)
(* where nothing does.                                                     *)
LEMMA WriteBehind ==
    ASSUME TypeOK, NEW c \in Conns, NEW m \in Envelopes, Write(c, m)
    PROVE  \/ toClient' = toClient
           \/ /\ peer[c] = "up" /\ toClient[c] # <<>>
              /\ toClient'[c] # <<>> /\ Head(toClient'[c]) = Head(toClient[c])
              /\ \A d \in Conns \ {c} : toClient'[d] = toClient[d]
           \/ /\ peer[c] = "up" /\ toClient[c] = <<>>
              /\ toClient'[c] # <<>> /\ Head(toClient'[c]) = m
              /\ \A d \in Conns \ {c} : toClient'[d] = toClient[d]
  <1>1. toClient[c] \in Seq(Envelopes) /\ Torn \in Envelopes
    BY DEF TypeOK, Torn, Envelope, Envelopes, PlainNames
  <1>2. PICK sent \in {m} \cup IF Len(toClient[c]) >= SendBuf THEN {Torn} ELSE {} :
           toClient' = IF peer[c] = "up"
                       THEN [toClient EXCEPT ![c] = Append(@, sent)]
                       ELSE toClient
    BY DEF Write
  <1>3. sent \in Envelopes
    BY <1>1, <1>2
  <1>4. toClient[c] = <<>> => sent = m
    BY <1>1, <1>2, SendBufAssumption
  <1>5. ASSUME peer[c] = "up"
        PROVE  /\ toClient'[c] = Append(toClient[c], sent)
               /\ \A d \in Conns \ {c} : toClient'[d] = toClient[d]
    BY <1>2, <1>5 DEF TypeOK
  <1>6. Append(toClient[c], sent) # <<>>
    BY <1>1, <1>3
  <1>7. CASE toClient[c] = <<>>
    <2>1. Head(Append(toClient[c], sent)) = sent
      BY <1>1, <1>3, <1>7
    <2> QED
      BY <1>2, <1>4, <1>5, <1>6, <1>7, <2>1
  <1>8. CASE toClient[c] # <<>>
    <2>1. Head(Append(toClient[c], sent)) = Head(toClient[c])
      BY <1>1, <1>3, <1>8
    <2> QED
      BY <1>2, <1>5, <1>6, <1>8, <2>1
  <1> QED
    BY <1>7, <1>8

(* A handler of a packet puts nothing before the answer a client waits for. *)
LEMMA HandleFirst ==
    ASSUME SysIInv, NEW c \in Conns, Handle(c), UNCHANGED clientVars,
           NEW d \in Testers, Pending(d)
    PROVE  SameFirst(d) \/ AnsweredNow(d)
  <1> DEFINE p == Head(toServer[c])
  <1>1. /\ TypeOK /\ d \in Conns /\ AnswerFirst(d) /\ MapAgrees /\ ReadersSeen
        /\ MyName[d] \in Names
    BY TestersAssumption, MyNameAssumption DEF SysIInv, IInv
  <1>2. /\ Register(c, p) \/ RefuseName(c, p) \/ Relay(c, p)
             \/ Ignore(c, p) \/ Throw(p)
        /\ toServer[c] # <<>> /\ reading[c] /\ peer' = peer
    BY DEF Handle
  <1>3. p \in Packets /\ p.name \in PlainNames
    <2>1. p \in Packets
      BY <1>1, <1>2, FirstAndRest DEF TypeOK
    <2> QED
      BY <2>1 DEF Packets
  <1>4. c = d => p \in Honest(d)
    BY <1>2, FirstAndRest DEF SysIInv
  <1>5. toClient[d] = <<>> => peer[d] = "down" \/ playerName[d] = NoName
    BY <1>1 DEF AnswerFirst, Pending
  <1>6. ASSUME toClient'[d] = toClient[d], playerName'[d] = playerName[d]
        PROVE  SameFirst(d)
    BY <1>2, <1>5, <1>6 DEF SameFirst
  <1>7. ASSUME NEW m \in Envelopes, Register(c, p) \/ RefuseName(c, p), Write(c, m),
               m.from = NoName,
               \/ m.body = "exists"
               \/ m.body = "list" /\ m.names = Players /\ Register(c, p)
        PROVE  SameFirst(d) \/ AnsweredNow(d)
    <2>1. CASE c # d
      <3>1. toClient'[d] = toClient[d] /\ playerName'[d] = playerName[d]
        BY <1>1, <1>7, <2>1, WriteBehind DEF Register, RefuseName, TypeOK
      <3> QED
        BY <1>6, <3>1
    <2>2. CASE c = d /\ toClient' = toClient
      <3>1. peer[d] # "idle"
        BY <1>1, <1>2, <2>2 DEF ReadersSeen
      <3>2. peer[d] # "up"
        <4>1. SUFFICES ASSUME peer[d] = "up" PROVE FALSE
          OBVIOUS
        <4>2. \E sent \in Envelopes : toClient'[d] = Append(toClient[d], sent)
          BY <1>1, <1>7, <2>2, <4>1 DEF Write, TypeOK, Torn, Envelope, Envelopes, PlainNames
        <4>3. toClient[d] \in Seq(Envelopes)
          BY <1>1 DEF TypeOK
        <4> QED
          BY <2>2, <4>2, <4>3
      <3>3. peer'[d] = "down"
        BY <1>1, <1>2, <3>1, <3>2 DEF TypeOK
      <3> QED
        BY <2>2, <3>3 DEF SameFirst
    <2>3. CASE c = d /\ toClient[d] # <<>> /\ toClient' # toClient
      <3>1. toClient'[d] # <<>> /\ Head(toClient'[d]) = Head(toClient[d])
        BY <1>1, <1>7, <2>3, WriteBehind
      <3> QED
        BY <2>3, <3>1 DEF SameFirst
    <2>4. CASE c = d /\ toClient[d] = <<>> /\ toClient' # toClient
      <3>1. toClient'[d] # <<>> /\ Head(toClient'[d]) = m
        BY <1>1, <1>7, <2>4, WriteBehind
      <3>2. ASSUME Register(c, p)
            PROVE  Registered(d)
        <4>1. p.kind = "hi" /\ p.name # NoName
          BY <3>2 DEF Register
        <4>2. p.name = MyName[d]
          BY <1>4, <2>4, <4>1 DEF Honest
        <4> QED
          BY <1>1, <2>4, <3>2, <4>2 DEF Register, Exists, Registered, TypeOK
      <3> QED
        BY <1>7, <3>1, <3>2 DEF AnsweredNow
    <2> QED
      BY <2>1, <2>2, <2>3, <2>4
  <1>8. CASE Register(c, p)
    <2> DEFINE m == [Envelope(NoName, "list") EXCEPT !.names = Players]
    <2>1. /\ m \in Envelopes /\ m.names = Players /\ m.body = "list" /\ m.from = NoName
      BY EnvelopeType DEF PlainNames, Envelope, Bodies
    <2>2. Write(c, m)
      BY <1>8 DEF Register
    <2> HIDE DEF m
    <2> QED
      BY <1>7, <1>8, <2>1, <2>2
  <1>9. CASE RefuseName(c, p)
    <2> DEFINE m == Envelope(NoName, "exists")
    <2>1. m \in Envelopes /\ m.body = "exists" /\ m.from = NoName
      BY EnvelopeType DEF PlainNames, Envelope, Bodies
    <2>2. Write(c, m)
      BY <1>9 DEF RefuseName
    <2> HIDE DEF m
    <2> QED
      BY <1>7, <1>9, <2>1, <2>2
  <1>10. CASE Relay(c, p)
    <2> DEFINE m == Readdressed(playerName[c], p)
               r == statusMap[p.name]
    <2>1. m \in Envelopes
      BY <1>1, <1>3, ReaddressedType DEF TypeOK
    <2>2. p.name \in Names /\ r \in Conns /\ Write(r, m) /\ playerName' = playerName
      BY <1>1, <1>3, <1>10 DEF Relay, Exists, PlainNames, TypeOK
    <2>3. playerName[r] # NoName
      BY <1>1, <1>10, <2>2, NoNameAssumption DEF MapAgrees, Relay
    <2> HIDE DEF m, r
    <2>4. CASE toClient'[d] = toClient[d]
      BY <1>6, <2>2, <2>4
    <2>5. CASE toClient'[d] # toClient[d]
      <3>1. r = d /\ peer[d] = "up"
        BY <1>1, <2>1, <2>2, <2>5, WriteBehind
      <3>2. toClient[d] # <<>>
        BY <1>5, <2>3, <3>1
      <3> QED
        BY <1>1, <2>1, <2>2, <2>5, <3>1, <3>2, WriteBehind DEF SameFirst
    <2> QED
      BY <2>4, <2>5
  <1>11. CASE Ignore(c, p) \/ Throw(p)
    BY <1>6, <1>11 DEF Ignore, Throw, Silent
  <1> QED
    BY <1>2, <1>8, <1>9, <1>10, <1>11

(* Nothing comes before the answer a client waits for.                     *)
LEMMA FirstKept ==
    ASSUME SysIInv, [SysNext]_sysVars, NEW d \in Testers, Pending(d)'
    PROVE  /\ Pending(d) /\ ~lost'[d]
           /\ SameFirst(d) \/ AnsweredNow(d)
  <1> DEFINE First == SameFirst(d) \/ AnsweredNow(d)
  <1> HIDE DEF First
  <1>1. TypeOK /\ ClientTypeOK /\ d \in Conns /\ AnswerFirst(d)
    BY TestersAssumption DEF SysIInv, IInv
  <1>2. phase'[d] \in {"start", "waiting"}
    BY DEF Pending
  <1>3. ASSUME Pending(d), toClient'[d] = toClient[d], playerName'[d] = playerName[d],
               peer[d] = "down" => peer'[d] = "down"
        PROVE  First
    BY <1>1, <1>3 DEF AnswerFirst, First, SameFirst
  <1>4. ASSUME phase'[d] = phase[d]
        PROVE  Pending(d) /\ ~lost[d]
    BY <1>1, <1>2, <1>4 DEF Pending, AnswerFirst
  <1>5. ASSUME ServerNext, UNCHANGED clientVars
        PROVE  Pending(d) /\ ~lost'[d] /\ First
    <2>1. Pending(d) /\ ~lost'[d]
      BY <1>4, <1>5 DEF clientVars
    <2>2. ASSUME NEW c \in Conns, Handle(c)
          PROVE  First
      BY <1>5, <2>1, <2>2, HandleFirst DEF First
    <2>3. ASSUME NEW c \in Conns, Accept(c) \/ ReadError(c) \/ SendsDone(c)
          PROVE  First
      BY <1>3, <2>1, <2>3 DEF Accept, ReadError, SendsDone, Silent
    <2>4. ASSUME AcceptError
          PROVE  First
      BY <1>3, <2>1, <2>4 DEF AcceptError, Silent
    <2> QED
      BY <1>5, <2>1, <2>2, <2>3, <2>4 DEF ServerNext
  <1>6. ASSUME NEW c \in Conns, ClientReceive(c), c # d, phase'[d] = phase[d],
               lost'[d] = lost[d]
        PROVE  Pending(d) /\ ~lost'[d] /\ First
    BY <1>1, <1>3, <1>4, <1>6 DEF ClientReceive, serverVars, TypeOK
  <1>7. ASSUME NEW c \in Conns, Disconnect(c), UNCHANGED clientVars
        PROVE  Pending(d) /\ ~lost'[d] /\ First
    <2>1. Pending(d) /\ ~lost'[d]
      BY <1>4, <1>7 DEF clientVars
    <2>2. CASE c # d
      BY <1>1, <1>3, <1>7, <2>1, <2>2 DEF Disconnect, serverVars, TypeOK
    <2>3. CASE c = d
      <3>1. toClient'[d] = <<>> /\ peer'[d] = "down"
        BY <1>1, <1>7, <2>3 DEF Disconnect, TypeOK
      <3> QED
        BY <2>1, <3>1 DEF First, SameFirst
    <2> QED
      BY <2>1, <2>2, <2>3
  <1>8. ASSUME NEW c \in Conns, Connect(c), UNCHANGED clientVars
        PROVE  Pending(d) /\ ~lost'[d] /\ First
    <2>1. Pending(d) /\ ~lost'[d]
      BY <1>4, <1>8 DEF clientVars
    <2> QED
      BY <1>1, <1>3, <1>8, <2>1 DEF Connect, serverVars, TypeOK
  <1>9. ASSUME NEW c \in Conns, NEW p \in Packets, ClientSend(c, p),
               Pending(d), ~lost'[d]
        PROVE  Pending(d) /\ ~lost'[d] /\ First
    BY <1>3, <1>9 DEF ClientSend, serverVars
  <1>10. ASSUME NEW c \in Testers, SayHi(c)
         PROVE  Pending(d) /\ ~lost'[d] /\ First
    <2>1. c \in Conns /\ Packet("hi", MyName[c], "other") \in Packets
      BY TestersAssumption, MyNameAssumption DEF Packet, Packets, PlainNames, Bodies
    <2>2. Pending(d) /\ lost' = lost
      BY <1>1, <1>2, <1>10 DEF SayHi, Pending, ClientTypeOK
    <2>3. ~lost'[d]
      BY <1>1, <2>2 DEF AnswerFirst
    <2> QED
      BY <1>9, <1>10, <2>1, <2>2, <2>3 DEF SayHi
  <1>11. ASSUME NEW c \in Testers, Finds(c)
         PROVE  Pending(d) /\ ~lost'[d] /\ First
    <2>1. PICK n \in Names : \/ UNCHANGED vars
                             \/ ClientSend(c, Packet("envelope", n, "invite"))
      BY <1>11 DEF Finds
    <2>2. Pending(d) /\ ~lost'[d]
      BY <1>4, <1>11 DEF Finds
    <2>3. Packet("envelope", n, "invite") \in Packets /\ c \in Conns
      BY TestersAssumption DEF Packet, Packets, PlainNames, Bodies
    <2>4. CASE UNCHANGED vars
      BY <1>3, <2>2, <2>4 DEF vars
    <2> QED
      BY <1>9, <2>1, <2>2, <2>3, <2>4
  <1>12. ASSUME NEW c \in Testers, PassesOver(c)
         PROVE  Pending(d) /\ ~lost'[d] /\ First
    <2>1. Pending(d) /\ ~lost[d]
      BY <1>4, <1>12 DEF PassesOver, clientVars
    <2>2. c # d /\ c \in Conns
      BY <1>12, <2>1, TestersAssumption DEF PassesOver
    <2> QED
      BY <1>6, <1>12, <2>2 DEF PassesOver, clientVars
  <1>13. ASSUME NEW c \in Testers, OnAnswer(c) \/ OnInvite(c) \/ OnOther(c) \/ OnTorn(c)
         PROVE  Pending(d) /\ ~lost'[d] /\ First
    <2>1. c \in Conns /\ ClientReceive(c)
      BY <1>13, TestersAssumption DEF OnAnswer, OnInvite, OnOther, OnTorn
    <2>2. c # d
      <3>1. SUFFICES ASSUME c = d PROVE FALSE
        OBVIOUS
      <3>2. CASE OnAnswer(d)
        BY <1>1, <1>2, <3>2 DEF OnAnswer, Gets, ClientTypeOK
      <3>3. CASE OnInvite(d) \/ OnOther(d) \/ OnTorn(d)
        <4>1. Pending(d) /\ toClient[d] # <<>>
          BY <1>4, <3>3 DEF OnInvite, OnOther, OnTorn, Gets, clientVars
        <4>2. Head(toClient[d]).from = NoName /\ Head(toClient[d]).body \in Answers
          BY <1>1, <4>1 DEF AnswerFirst
        <4> QED
          BY <3>3, <4>2, NoNameAssumption DEF OnInvite, OnOther, OnTorn, Gets, Answers
      <3> QED
        BY <1>13, <3>1, <3>2, <3>3
    <2>3. phase'[d] = phase[d] /\ lost'[d] = lost[d]
      BY <1>1, <1>13, <2>2 DEF OnAnswer, OnInvite, OnOther, OnTorn, clientVars, ClientTypeOK
    <2> QED
      BY <1>6, <2>1, <2>2, <2>3
  <1>14. ASSUME NEW c \in Testers, OnList(c)
         PROVE  Pending(d) /\ ~lost'[d] /\ First
    <2>1. c \in Conns
      BY TestersAssumption
    <2>2. /\ toClient' = [toClient EXCEPT ![c] = Tail(@)]
          /\ phase' = [phase EXCEPT ![c] = IF @ = "waiting" THEN "answered" ELSE "misled"]
          /\ UNCHANGED <<lost, playerName, peer>>
      BY <1>1, <1>14, ListEffect DEF OnList, serverVars
    <2>3. c # d
      BY <1>1, <1>2, <2>2 DEF ClientTypeOK
    <2>4. phase'[d] = phase[d] /\ toClient'[d] = toClient[d]
      BY <1>1, <2>2, <2>3 DEF ClientTypeOK, TypeOK
    <2> QED
      BY <1>3, <1>4, <2>2, <2>4
  <1>15. ASSUME NEW c \in Conns, OpenClient(c)
         PROVE  Pending(d) /\ ~lost'[d] /\ First
    <2>1. c # d /\ UNCHANGED clientVars
      BY <1>15 DEF OpenClient
    <2>2. Pending(d) /\ ~lost'[d] /\ phase'[d] = phase[d] /\ lost'[d] = lost[d]
      BY <1>4, <2>1 DEF clientVars
    <2> QED
      BY <1>6, <1>7, <1>8, <1>9, <1>15, <2>1, <2>2 DEF OpenClient
  <1>16. ASSUME UNCHANGED sysVars
         PROVE  Pending(d) /\ ~lost'[d] /\ First
    BY <1>3, <1>4, <1>16 DEF sysVars, vars, clientVars
  <1>17. ASSUME NEW c \in Testers, Start(c) \/ Die(c)
         PROVE  Pending(d) /\ ~lost'[d] /\ First
    BY <1>7, <1>8, <1>17, TestersAssumption DEF Start, Die
  <1>18. First = (SameFirst(d) \/ AnsweredNow(d))
    BY DEF First
  <1>19. Pending(d) /\ ~lost'[d] /\ First
    <2>1. CASE \E c \in Testers : Reading(c)
      BY <1>13, <1>14, <2>1 DEF Reading
    <2> QED
      BY <1>5, <1>10, <1>11, <1>12, <1>15, <1>16, <1>17, <2>1 DEF SysNext
  <1> QED
    BY <1>18, <1>19

(* So the answer still comes first.                                        *)
LEMMA AnswerFirstStep ==
    ASSUME SysIInv, [SysNext]_sysVars, NEW d \in Testers
    PROVE  AnswerFirst(d)'
  <1>1. SUFFICES ASSUME Pending(d)'
                 PROVE  /\ ~lost'[d]
                        /\ IF toClient'[d] = <<>>
                           THEN peer'[d] = "down" \/ playerName'[d] = NoName
                           ELSE /\ Head(toClient'[d]).from = NoName
                                /\ Head(toClient'[d]).body \in Answers
    BY DEF AnswerFirst
  <1>2. Pending(d) /\ ~lost'[d] /\ (SameFirst(d) \/ AnsweredNow(d))
    BY <1>1, FirstKept
  <1>3. AnswerFirst(d)
    BY DEF SysIInv
  <1>4. CASE SameFirst(d)
    BY <1>2, <1>3, <1>4 DEF AnswerFirst, SameFirst
  <1>5. CASE AnsweredNow(d)
    BY <1>2, <1>5 DEF AnsweredNow, Answers
  <1> QED
    BY <1>2, <1>4, <1>5

(* A test client hears of a player only when it is registered itself, and   *)
(* then only of one that was registered before it.                         *)
LEMMA IgnorantStep ==
    ASSUME SysIInv, [SysNext]_sysVars, NEW d \in Testers, NEW n \in Names, Ignorant(d, n)
    PROVE  Ignorant(d, n)' \/ (Exists(n) /\ Registered(d))
  <1>1. TypeOK /\ ClientTypeOK /\ d \in Conns
    BY TestersAssumption DEF SysIInv, IInv
  <1>2. SUFFICES ASSUME ~Misled(d)'
                 PROVE  \/ /\ toInvite'[d] # n
                           /\ Pending(d)' /\ toClient'[d] # <<>>
                                 /\ Head(toClient'[d]).body = "list"
                              => n \notin Head(toClient'[d]).names
                        \/ Exists(n) /\ Registered(d)
    BY DEF Ignorant
  <1>3. phase'[d] # "misled" /\ ~lost'[d]
    BY <1>2 DEF Misled
  <1>4. ASSUME NEW c \in Testers, OnList(c)
        PROVE  ~Misled(d) /\ toInvite'[d] # n
    <2>1. PICK k \in Names : /\ k \in Head(toClient[c]).names
                             /\ toInvite' = [toInvite EXCEPT ![c] = k]
      BY <1>1, <1>4, ListEffect
    <2>2. /\ phase' = [phase EXCEPT ![c] = IF @ = "waiting" THEN "answered" ELSE "misled"]
          /\ UNCHANGED lost
          /\ toClient[c] # <<>> /\ Head(toClient[c]).body = "list"
      BY <1>1, <1>4, ListEffect DEF OnList
    <2>3. ~Misled(d) /\ (c = d => Pending(d))
      BY <1>1, <1>3, <2>2 DEF Misled, Pending, ClientTypeOK
    <2> QED
      BY <1>1, <2>1, <2>2, <2>3 DEF Ignorant, ClientTypeOK
  <1>5. ASSUME NEW c \in Testers, Finds(c)
        PROVE  ~Misled(d) /\ toInvite'[d] # n
    <2>1. UNCHANGED <<phase, lost>> /\ lost[c]
      BY <1>5 DEF Finds
    <2>2. c # d /\ ~Misled(d)
      BY <1>3, <2>1 DEF Misled
    <2>3. toInvite'[d] = toInvite[d]
      BY <1>1, <1>5, <2>2 DEF Finds, ClientTypeOK
    <2> QED
      BY <2>2, <2>3 DEF Ignorant
  <1>6. ASSUME NEW c \in Testers, SayHi(c) \/ OnAnswer(c) \/ OnTorn(c)
        PROVE  ~Misled(d) /\ toInvite'[d] # n
    <2>1. toInvite' = toInvite /\ ~Misled(d)
      BY <1>1, <1>3, <1>6 DEF SayHi, OnAnswer, OnTorn, Misled, ClientTypeOK
    <2> QED
      BY <2>1 DEF Ignorant
  <1>7. ASSUME UNCHANGED <<phase, toInvite, lost>>
        PROVE  ~Misled(d) /\ toInvite'[d] # n
    BY <1>3, <1>7 DEF Ignorant, Misled
  <1>8. ~Misled(d) /\ toInvite'[d] # n
    <2>1. ASSUME NEW c \in Testers, \/ Start(c) \/ Die(c) \/ PassesOver(c)
                                    \/ OnInvite(c) \/ OnOther(c)
          PROVE  ~Misled(d) /\ toInvite'[d] # n
      BY <1>7, <2>1 DEF Start, Die, PassesOver, OnInvite, OnOther, clientVars
    <2>2. ASSUME NEW c \in Conns, OpenClient(c)
          PROVE  ~Misled(d) /\ toInvite'[d] # n
      BY <1>7, <2>2 DEF OpenClient, clientVars
    <2>3. CASE UNCHANGED clientVars
      BY <1>7, <2>3 DEF clientVars
    <2>4. CASE UNCHANGED sysVars
      BY <2>3, <2>4 DEF sysVars
    <2> QED
      BY <1>4, <1>5, <1>6, <2>1, <2>2, <2>3, <2>4 DEF SysNext, Reading
  <1>9. ASSUME Pending(d)', toClient'[d] # <<>>, Head(toClient'[d]).body = "list",
               n \in Head(toClient'[d]).names
        PROVE  Exists(n) /\ Registered(d)
    <2>1. Pending(d) /\ (SameFirst(d) \/ AnsweredNow(d))
      BY <1>9, FirstKept
    <2>2. ~SameFirst(d)
      BY <1>8, <1>9, <2>1 DEF Ignorant, SameFirst
    <2> QED
      BY <1>9, <2>1, <2>2 DEF AnsweredNow, Players
  <1> QED
    BY <1>8, <1>9

(* All of it survives every step, of the server, a test client or another. *)
LEMMA SysNextIInv ==
    ASSUME SysIInv, [SysNext]_sysVars
    PROVE  SysIInv'
  <1>1. IInv /\ TypeOK /\ IInv'
    BY ServerKept DEF SysIInv, IInv
  <1>2. ClientTypeOK' /\ ReadersSeen'
    BY ClientTypeStep, ReadersSeenStep
  <1>3. ASSUME NEW n \in Names, Exists(n)
        PROVE  statusMap'[n] = statusMap[n]
    <2>1. NameStep
      BY <1>1, StepKinds, StepEffect, ListEffect DEF NameStep, serverVars
    <2> QED
      BY <1>1, <1>3, <2>1 DEF NameStep, Arrives, Stops, IsGiven, IsRefused, Exists, TypeOK
  <1>4. ASSUME NEW c \in Testers
        PROVE  MyName[c] \in Names /\ c # NoConn
    BY MyNameAssumption, TestersAssumption, NoConnAssumption
  <1>5. ASSUME NEW c \in Testers, NEW n \in Names
        PROVE  Ignorant(c, n)' \/ (Exists(n)' /\ statusMap'[MyName[c]] = c)
    <2>1. CASE Ignorant(c, n)
      BY <1>3, <2>1, IgnorantStep DEF Exists, Registered
    <2>2. CASE ~Ignorant(c, n)
      <3>1. Exists(n) /\ Exists(MyName[c]) /\ statusMap[MyName[c]] = c
        BY <1>4, <2>2 DEF SysIInv, Exists
      <3> QED
        BY <1>3, <1>4, <3>1 DEF Exists
    <2> QED
      BY <2>1, <2>2
  <1>6. ASSUME NEW c \in Testers, NEW d \in Testers, Ignorant(c, MyName[d])
        PROVE  Ignorant(c, MyName[d])' \/ Ignorant(d, MyName[c])'
    <2>1. SUFFICES ASSUME ~Ignorant(c, MyName[d])'
                   PROVE  Ignorant(d, MyName[c])'
      OBVIOUS
    <2>2. ~Exists(MyName[c])
      BY <1>4, <1>6, <2>1, IgnorantStep DEF Registered, Exists
    <2>3. Ignorant(d, MyName[c])
      BY <1>4, <2>2 DEF SysIInv
    <2> QED
      BY <1>4, <2>2, <2>3, IgnorantStep
  <1>7. \A c, d \in Testers : Later(c, d)'
    BY <1>6 DEF SysIInv, Later
  <1> QED
    BY <1>1, <1>2, <1>5, <1>7, HonestStep, AnswerFirstStep DEF SysIInv

(* No two test clients invite each other, and none invites itself: of two   *)
(* players only the one registered later was sent a list with the other on *)
(* it (registerPlayer, sendPlayerList).  Whatever open clients do beside,   *)
(* unless one of the two has read a list that one of them sent.            *)
THEOREM NoMutualInviteHolds == SysSpec => []NoMutualInvite
  <1>1. SysIInv => NoMutualInvite
    BY DEF SysIInv, Later, Ignorant, NoMutualInvite
  <1> QED
    BY <1>1, SysInitIInv, SysNextIInv, PTL DEF SysSpec
=============================================================================
