# Server-Lessons, verified

TLA+ models of the programs in this repository, the TLC runs that check them on
small instances, and TLAPS proofs of what holds for every instance.

The repository holds three programs. Two of them are game servers for tic-tac-toe
with a client each, written against boost::asio; they share a design but not a line
of code. The third is an interpreter.

| program | what it is | state of the models |
|---|---|---|
| `EasyTcpServerClient` | server and client that exchange `Type,name;` text | modelled, checked, proved |
| `PktTcpServerClient` | server and client that exchange packets with a length | modelled, checked, proved |
| `Interpreter` | lexer, expression and class parser, tree-walking runtime | modelled and checked; proved but for what expressions mean |

## 1. Inventory

### Easy: `src/EasyTcpServerClient`

* **Transport of the server** (`TcpServer.h`). An acceptor, and a session object per
  connection. A session reads with `async_read_until(';')`, and hands its whole
  buffer but the last byte to `onMessage`; it lives while a pending operation holds
  a `shared_ptr` to it. `write` is an `async_send` from a string that belongs to the
  caller. One thread runs the `io_context`.
* **Game server** (`TicTacTcpServer.h`). `m_playerName` per session; `m_clientMap`
  from names to `weak_ptr`s of sessions. Registers and refuses names, sends the list
  of players to all, relays invitations, answers, steps, and the closing of a game.
* **Transport of the client** (`TcpClient.h`). One thread that reads, with a new buffer
  for each read, and calls `onMessageReceived` for every complete message in it.
* **Game client and test driver** (`TicTacClient.h`, `DbgTicTacClient.h`, `main.cpp`).
  `m_currentState`, `m_partnerName`; detached threads that send one invitation each.

Hard here: sessions refused or malformed stop reading and are never told that their
connection ended; the map is keyed by name while sessions set their name before it is
accepted; a read returns more than one message or less, so a name may swallow a `;`; a
deferred send reads memory that is gone; invitations cross. Correct means: a name belongs
to one session, only who registered invites, a registered client cannot stop the server,
sessions are reclaimed, the clients never meet a message they do not know, and the game
goes on. Not all of it is true of the code: sections 3 and 5 say what is, and where.

### Pkt: `src/PktTcpServerClient`

* **Transport of the server** (`TcpServer.h`). Reads two bytes of length, then the
  rest; writes with `async_send` from the heap. A read error ends the session without
  a word to anyone.
* **Game server** (`TicTacServer.h`). `m_playerStatusMap` from names to sessions,
  `m_playerName` per session. A packet with a name is relayed under the sender's, which
  is empty, as the server's own is, when the sender has given none; Hi is answered with a
  list of players or a refusal.
* **Codec** (`TicTacPacketUtils.h`, `TicTacClientPackets.h`). `PacketWriter`,
  `PacketReader`, `PacketSize`, two ways to build an envelope.
* **Transport of the client** (`TcpClient.h`), **client and test driver**
  (`TicTacClient.h`, `DbgUiClient.h`, `main.cpp`). An `io_context` per client; says
  Hi, and invites the last player on the list it is sent.

Hard here: names outlive their connections; a refused session keeps the name and goes
on; one without a name relays what clients take for the server's; sizes are `uint16_t`
and are taken apart and put together in three places that must agree; buffers are reused;
a send may be partial; a reader that throws ends the server. Correct means: map and sessions agree about names, Hi is answered once, an
invitation arrives, and what is relayed is what was sent.

### Interpreter: `src/Interpreter`

* **Lexer** (`Lexer.h`). `run` reads the text once, one character or lexeme per
  iteration; `m_tokens` grows, and its last token decides what the next one is.
* **Parser** (`Parser.h`). `doParseExpr` and `constructExpr` are the two passes of a
  shunting yard, on `m_operationStack` and `m_output`; `parseStatement` and the
  functions it calls fill the tree of namespaces, with `m_namespaceStack`.
* **Namespaces and classes** (`ClassOrNamespace.h`). Variables, functions and nested
  spaces by name, and the look-up through a scope.
* **Runtime** (`Runtime`, `Expr`, `ObjectValue`, `ClassObject`). Global variables are
  initialised in the order of the maps, then `main` is called; nodes execute
  themselves. Values by name in each space and in `m_localVarStack`; objects are kept
  by `shared_ptr`s in values and in members of other objects.
* **Driver** (`main.cpp`): one after the other.

All of it is sequential. Hard here: positions that are off by one, tokens that depend on
the token before, long mixes of operators and calls on one stack, where a declaration
goes, a name that may be found in several places, the order of initialisation, and who
keeps an object. Correct means: every character counts, an expression is read as it was
written and none with a word missing is accepted, a declaration lands in its own
namespace or class, `main` starts with variables initialised from ones that had a value,
an argument is what the caller named, and an object lives exactly as long as something
shares it.

## 2. Modules

| module | models | extends |
|---|---|---|
| `NameRegistry` | what either server promises about names: an abstract specification | |
| `EasyServer` | the Easy server between connections whose far ends are arbitrary clients | |
| `EasySystem` | the Easy server with its own test clients | `EasyServer` |
| `EasySystemProofs` | theorems about `EasyServer` and `EasySystem` | `EasySystem` |
| `PktServer` | the Pkt server between arbitrary clients; a packet is a record | |
| `PktSystem` | the Pkt server with its own test clients, and open ones beside | `PktServer` |
| `PktSystemProofs` | theorems about `PktServer` and `PktSystem` | `PktSystem` |
| `PacketCodec` | the bytes of a packet, as pure functions | |
| `PacketCodecProofs` | theorems about `PacketCodec` | `PacketCodec` |
| `FifoChannel` | what the Pkt server promises about messages: an abstract specification | |
| `PacketStream` | packets byte by byte: a player, its session, another player | `PacketCodec` |
| `PacketStreamProofs` | theorems about `PacketStream` | `PacketStream`, `PacketCodecProofs` |
| `Lexer` | the lexer, on the characters of a text | |
| `ExprParser` | both passes over an expression | `Lexer` |
| `ExprValue` | the value of an expression of numbers | `ExprParser` |
| `Namespaces` | the tree of namespaces and classes, and the look-up in it | |
| `Parser` | statements and declarations | `ExprParser`, `Namespaces` |
| `Runtime` | initialisation, calls, variables and objects, for any tree and any bodies | `Namespaces` |
| `Interpreter` | lexer, parser and runtime one after the other | `Parser`, `Runtime` |
| `WrittenPrograms` | what the author of a program means: expressions and declarations, and the words that write them down | `Parser`, `ExprValue` |
| `LexerProofs` | theorems about `Lexer` | `Lexer` |
| `RuntimeProofs` | theorems about `Runtime` | `Runtime` |
| `InterpreterProofs` | theorems about the parser and the whole interpreter | `Interpreter`, `LexerProofs`, `RuntimeProofs` |
| `NumberInduction` | lemmas: induction over numbers as a set, and iteration | |
| `MC*` | instances for TLC | |

Both servers instantiate `NameRegistry` with a refinement mapping (`RegistrySpec`):
`owner` is `m_clientMap` or `m_playerStatusMap`, and a session is *new* until it is
accepted, *live* while it reads, and *gone* after. The registry lets a session free a
name when it goes; the Easy server does so by name, the Pkt server never does.
`EasySystem` in turn is shown to be an instance of the open `EasyServer`
(`OpenServer`), so what is proved of the server among arbitrary clients holds among
its own. `PktSystem` is not an instance of `PktServer!Spec` in this sense: its clients
read a list and answer it in one step; that the server's invariants and promises hold in
it are theorems of their own.

`PacketStream` instantiates `FifoChannel` (`ChannelSpec`): what is *entrusted* to the
channel is the list of players and what has been sent since, what is *received* is `got`
without the bytes behind the fields of a packet, and the channel *breaks*, and promises
nothing further, when a relayed packet outgrows its size field or the server sends one in
part. That may be the list itself, so a channel may be broken from the start. A read of
the server changes neither, so it is a stutter; a completed read of the receiver delivers
exactly the next message.

Whatever can be is written without RECURSIVE operators: loops of the code are recursive
functions or folds, and the only modules that recurse are `ExprValue` and
`WrittenPrograms`, which no theorem is about.

Operators with a comment "Faulty" stand before the one they vary. Nothing uses them:
each is the change of one definition that a property is there to catch, and
`PROJECT.json` says which.

### How state and actions correspond to the code

**One handler, one action.** Each server runs one `io_context` on one thread, so a
completion handler runs to its end before another starts. `Accept`, `Handle` (with one
disjunct per branch of `onMessage` or `onPacketReceived`), `ReadError` and `SendsDone`
are those handlers. Each includes what it calls: `Register` in `EasyServer` sets the
name, updates the map, answers Ok, sends the list to every session once per entry, and
reads again.

**Lifetime.** `reading` and `sending` say whether a pending read or write holds the
session; `Alive` is their disjunction, and `weak_ptr::lock()` succeeds exactly then.

**Kernel buffers.** `SendBuf` is how much a far end that does not read leaves room for.
In both servers `async_send` is done when it has sent anything at all, and nobody sends
the rest. In Easy a write beyond `SendBuf` may besides be deferred, and by the time it is
sent the caller's string is gone: `Post` writes either the message or `Junk`. Junk may read as
any message and run into the next one, so a client that reads it goes *astray*
(`GoAstray`): from then on `Wander` lets it send any request, drop what it is sent, or
end. In Pkt the bytes are on the heap: beyond `SendBuf` `Write` sends the packet or a
`Torn` one, and in `PacketStream`, where there is no `SendBuf`, any packet of the server
may be cut (`Written`), the first list included.

**The text stream (Easy).** With `Coalesce`, one read may return several requests and a
piece of one more. The name in the request then swallows a `;` and what follows it:
`GluedNames`. What stays is a fragment. The server keeps such a name whole, but a client
reads a message only up to its `;`, so in messages a name counts as what is read from it
(`Spoken`): somebody registered as "bob;x" beside "bob" is read as "bob". The client
starts each read with an empty buffer and so loses the beginning of a message cut in two
(`skew`).

**The byte stream (Pkt).** `PktServer` takes packets as records, whole or `Torn`;
`PacketStream` is why it may. There a byte has `Base` values, 256 in the code, so that TLC sees what happens
near the end of a size field; the proofs and the code do not depend on the number.
`async_read` waits for all it was asked for, so how TCP cuts the stream is of no
consequence and is not modelled.

**What players send one another (Pkt).** The server does not look into an envelope, so
`Bodies` has what it may hold beside an invitation: the server's own types, a list or a
refusal, which a session without a name relays under the empty name (`Relay`); what the
receiver's reader throws at (`broken`); and what outgrows its size field once it is
readdressed (`huge`, relayed as `Torn`). A test client that was already answered takes such
a list for the server's (`OnList`, phase `misled`) and invites anybody on it. One that lost its place in the
stream (`lost`) may find any list or invitation in the bytes it goes on reading (`Finds`),
or read past packets (`PassesOver`).

**Reading (Interpreter).** The text is a string, and an action of `Lexer` is one
iteration of `run`; a token keeps the places of its characters. `Parser` has an action
for each statement, and one for the beginning and the end of each block, since the
nested calls of `parseNamespace`, `parseClass` and `parseFuncDef` are a stack (`blocks`).
Expressions are read at once by `ParseExpr`. Quirks are kept: a character after a number
is stepped over, a member is always weak, `print` wants its `;` where its `)` is, a class
inside a class is dropped, a name that is looked up in the top namespace loses its scope.

**Executing (Interpreter).** `store` maps places to values: variables of a space,
local variables of a call by its depth, members of an object. A body is left open: its
next statement is any of `Statements`, so what is shown holds for every body made of
them; `EndCall` ends it. The operators of an initial value evaluate their operands, the
right one first, each a literal, a variable, or a member of an object (`Comes`, `Reads`,
`Follow`); each must be a number, and an operator that is not `+`, `-`, `*` or `/` runs
off the end of its function (`Expr.h:442`), which is undefined. A unary operator, a call
or a new object inside an operator ends the program in the model, though the code may go
on: what is shown of initialisation is shown up to there. Every step that changes values ends with `Settle`, which removes
the objects that nothing shares any more, as destructors do, with what only they shared.
Which address a new object gets makes no difference, and one is chosen. Operators,
literals and arithmetic are all one literal value; the exact values are those of
`ExprParser`'s `Evaluate`. A class's name as an operand makes a new object
(`Creations`, with those its members need); on the left of an assignment, where that
object is gone with the statement, the outcome is any that may be.

**Ends (Interpreter).** `stopped` is an exception or `exit`, `aborted` an assertion,
`freed` an assignment through a reference it has freed, `undefined` all other undefined
behaviour, of which the model says nothing further: a null pointer that is followed,
`m_op` of a unary operator that nothing has set, a class that contains itself. After any
of these the data is dropped. `StrayCopy` is the copy of an `ObjectValue` that looks at
its own `m_type` before it is set: it may do harm wherever a value is copied, so the
action may end the program at any step. As committed, `return;` in
`PrintFuncCall::execute` (`Expr.h:255`) does not compile; printing is not modelled.

**Undefined behaviour** is a choice. The dangling `end()` in `sendCloseGame` may bring
the server down or return false; a deferred send may send anything (`Junk`), and a list
that ends at the `;` of a name is read past its last token (`Garbled`): the client goes
astray on both; the race on `m_partnerName` gives the old or the new name; the Pkt
client's read past its buffer may end the client (`Die` in `PktSystem`, where only
`Leavers` may die).

**A lost connection** may lose any suffix of what was on its way to the server
(`Disconnect`), and a client that comes back does so on another connection.

## 3. Runs

TLC finishes each run within about three minutes. Deadlock is not checked: clients with a budget
stop, so do servers nobody talks to, and a program ends.

| run | instance | shows |
|---|---|---|
| `easy_relay` | 2 connections, 1 name, 4 requests among `PlayerName`, `Invite`, `Accept` and `CloseGame`, all naming that one, glued and cut, room for 3 messages, symmetric | `TypeOK`; `OwnEntry`: a reading session with a name is the one the map has under it; `DeadEntryStays`: the name of a session that stopped reading is never freed; `RegistrySpec`; `InviterRegistered`: an invitation or acceptance is read under the name of the registered session whose request is handled, as far as a `;` in it, or under none; `CrashNeedsUnnamed`: only a client without a name can bring the server down |
| `easy_loss` | 2 connections, 2 requests among `PlayerName`, `Invite`, `Reject`, `Step`, an unknown and a malformed one, room for 1 message | `SessionReclaimed`: lost connections' sessions end, and stay ended |
| `easy_game` | 2 test clients, messages kept apart | `NoUnknownMessage`, `StepHasPartner`, and `PlayGoesOn`: moves are made for ever |
| `easy_leave` | 2 test clients, one killed and back | `NoStaleEntry`: clients that behave leave no name behind |
| `easy_stream` | 2 test clients, one may be killed, glue and cuts, room for 2 messages and 2 requests, clients astray that send `Invite` or `PlayerName` when nothing is on its way | `OpenServer`: the test clients are clients `EasyServer` allows |
| `easy_unknown` | as `easy_game` with `Coalesce` | *violation*: the client's `assert(0)` for unknown messages is reached |
| `easy_step_name` | as `easy_game` | *violation*: `OnStep` carries the receiver's name, not the one `Protocol.drawio` says |
| `pkt_system` | 2 test clients, one may die; an open client with 1 packet, forged lists and refusals, broken and oversized ones included, or 1 find of a client that lost its place; room for 1 packet | all of `PktServer`'s properties and `NoMutualInvite`, `HelloAnswered`, `InviteArrives` |
| `packet_stream` | 3 packets, names of 1 and 2 bytes, lists of 0, 1, 2 players, 5 values per byte; any packet of the server cut behind 1 or 4 bytes | as long as none is: `RelayFaithful`, `NothingThrown`, `AllDelivered`; `ChannelSpec`: the bytes are a channel of messages |
| `packet_tail` | as `packet_stream` | *violation*: the client's buffer is two bytes shorter than what is read into it |
| `interp` | 4345 programs, 5 objects, 3 calls in progress | `NothingLost`, `ParsesAsWritten`, `OperandsKept`, `DeclaresAsWritten`, `TreeOK`, `RunTypeOK`, `SharedLives`, `FreedNeedsCycle`, `MainInOrder`, `KindsKept`, `ArgumentOfCaller` |
| `operand_order` | expressions of up to 3 of the numbers 1 to 3 with `+` and `-` | *violation*: the value is not that of the expression as `printExpr` writes it |

**Why the bounds are enough.** Every hazard about names needs two sessions and one name:
a holder and one that is refused, or was killed. Who holds a name is decided one request
at a time, so four requests let one client register, the other be refused or take the
name later, and either invite under it, send what is malformed once it is cut, or be
lost, in every order. Glue needs two requests in
flight, a cut a third. A single open packet is enough to take a test client's name,
relay a list or a refusal under none, or end the server; `SendBuf = 1` may make the
second packet a torn one. In `packet_stream` a packet cut behind 1 byte ends within its
size field, one cut behind 4 within what that announces. A
stale tail in the server's buffer shows with a long packet before a short one, and
wrapping with a packet whose relayed size is one past the limit: both are among the
three packets of `packet_stream`. Nothing bounds the proofs.

A full game between three test clients has too many states for TLC; `easy_leave` has
three clients on connections but only two names. In a game of three, moves may go to a
partner who is not the one that moved (`onPartnerStep` is given `m_partnerName`, which a
later invitation has changed); `PlayGoesOn` says only that play goes on.

The programs of `interp` are of six families. *expr*: all expressions of up to three
operands over the binary operators `*`, `-`, `<`, `&&`, the others `.`, `!`, `++`, and
calls, written with the parentheses they need; four operators have four different
precedences, and a third operand is what makes an order of two matter. *cut*: those of
two operands with one word left out. *items*: namespaces, classes, variables and
functions nested two deep, with two names, so that names collide and namespaces are
reopened. *odd*: texts at the edges of the lexer and the parser, which take the actions
the other families do not. *order*: three variables in two namespaces initialised from
one another in every way, or given a class's type; and three more from objects, their
members, and members of those, inside operators and out. *run*: one program with a class that
contains another, whose functions then execute any of 18 statements in any order; five
objects are two pairs and one more, which gives cycles, objects that die together and
pointers that have expired, and three calls are a caller, a function and one that is
called as its argument. `IntSize` is 16 where the code has 2^64.

`ParsesAsWritten` says that the tree parsed is the one that was written, `OperandsKept`
that an expression with a word missing is refused or reads every operand it has,
`DeclaresAsWritten` that the tree of namespaces is what the nested declarations mean,
and that a program with a duplicate is refused. `TreeOK` is what the runtime may rely
on: what the parser leaves is declared, and executes, in spaces of the tree.
`MainInOrder`: every variable that an initial value names, be it for a member of its
object, has been initialised before it. `FreedNeedsCycle`: an assignment frees what it assigns to only in a cycle of
members. `ArgumentOfCaller`: although arguments are looked up in the function called, a
caller's variable gives the caller's value, unless a parameter passed before has its
name.

**Fairness.** `io_context::run` calls every handler that is ready, so `Accept`,
`Handle`, `ReadError` and `SendsDone` are weakly fair per connection. The threads of a
test client are scheduled and its sleeps end, so its own actions are weakly fair. An
arbitrary client owes nothing. An accept error is never forced nor excluded:
`PlayGoesOn` assumes that both clients were let in, and `HelloAnswered` speaks of those
that were, since after an error `asyncAccept` is not called again.

**Conditions in properties.** What follows is exempted because the code allows it, and
without the exemption the property is false.

* `InviterRegistered` speaks of messages that are sent as they were written, so not of
  `Junk`, which may read as an invitation from anybody, and of the name as a client reads
  it. Whose name that is besides is not said: "bob;x" is read as "bob".
* `StepHasPartner` and `NoStaleEntry` speak of states in which no client has read what nobody
  wrote (`Sane`). In `easy_game` and `easy_leave` none does: never more than 4 messages wait for
  a client in `easy_game`, and `SendBuf` is 9. `NoUnknownMessage` is false on a network that glues
  (`easy_unknown`), and passes where each read takes one message.
* `PlayGoesOn` assumes that both clients were let in.
* `AnsweredOnce` exempts what a session without a name relays, `NoMutualInvite` a pair one of
  which read such a list, or lost its place (`Misled`).
* `InviteArrives` exempts clients that leave, receivers that were sent a packet that is not
  whole or that their reader throws at (`lost`), and inviters that are misled.
* `RelayFaithful`, `ChannelSpec` and `AllDelivered`, and `NothingThrown` of the receiver,
  hold as long as the stream is `Intact`: no packet was sent in part (`torn`), and no relayed
  one outgrew its size field (`oversized`), which the code asserts in DEBUG builds and wraps
  in others. `NothingThrown` of the server's session has no condition, as clients write
  whole packets (`async_write`).

## 4. Proofs

TLAPS checks these for all values of the constants that satisfy the named assumptions:
connections and names are arbitrary sets (those of Easy finite, as `m_clientMap` is),
`NoConn` and `NoName` are outside them, bounds are naturals. Two assumptions name what
the model's data stands for: no name contains a `;` (`UngluedAssumption`), and a
declaration is of one of two kinds of reference (`StatementsAssumption`).
`PlayersAssumption` says that a list of players fits its size field, which
`createEnvelope` asserts. TLC evaluates all of them.

### The Easy server: `EasySystemProofs`, first part

    IInv == TypeOK /\ NewSession /\ OwnEntry

`NewSession` says that a session not accepted does not read and has no name. `OwnEntry`
is not inductive alone: that a lost connection erases the right entry needs that any
other session with that name has stopped reading; and a session that arrives must not
bring a name with it, which is `NewSession`. From it: `TypeCorrect`,
`OwnEntryInvariant`, `DeadEntryStaysHolds`, `CrashNeedsUnnamedHolds`,
`InviterRegisteredHolds`, and `RegistryRefined` (every step of the server is a step of
`NameRegistry` or leaves its variables alone).

### The Easy server with its clients: `EasySystemProofs`, second part

Three invariants, one on top of the other, for any number of clients and any names.

    SysIInv  == IInv /\ ClientTypeOK /\ (\A c : Standing(c)) /\ (\A c : toClient[c] \in Seq(Signed))

`Standing` is the course of a client: until the server has read its name, there is
nothing on its way but that name and the greeting, and it has no thread that invites;
afterwards it sends no name again. That a client accepts only from somebody with a name
is why messages are `Signed`. All this holds as long as the clients are `Sane`; what one
that is astray does is a step `EasyServer` allows its far ends in any case, as every step
of a test client is, so `OpenServerRefined`, `SystemImplementsServer` and
`ClientTypeCorrect` have no such condition, and hold under any network.

    ApartInv == Unstale /\ every request well formed, every message whole

holds while clients are `Sane` and a read takes one request (`~Coalesce`); with glue a name can swallow what
follows it, and `NoStaleEntry` is false. (`Unstale` is `NoStaleEntry` without its condition.) A session that has a name and is sent only well
formed requests reads until it is told of the end of its connection, which erases its
entry. `NoStaleEntryHolds`.

    GameInv  == \A c : /\ Stays(c) /\ Addressed(c)
                       /\ (\A d : Introduced(c, d)) /\ (Waits(c) => Warned(c))

also needs that no two clients share a name (`Distinct`); else one that was killed may
come back and be sent a step of the game it left. `Introduced` says who can know of
whom: before a client has a name, no list, thread or request in flight names it, and
before it has a partner nobody has been invited or accepted by it. `Warned` is about
order: in a client's queue an invitation (or what is sent in its place, `Junk`, which
leads the client astray) stands before any step; if it is not there yet, it stands before any step in what the other has sent;
and whoever takes the client for its partner has such an invitation on its way. So the
invitation cannot be overtaken: `StepHasPartnerHolds`, however little the kernel buffers.

### The Pkt server, alone and with its clients: `PktSystemProofs`

    IInv == TypeOK /\ OnlyAcceptedRead /\ MapAgrees /\ CarriedNameExists

The argument is that the handler looks at a name only if its session has none, so
`m_playerName` is set at most once, and that entries are never erased: an entry and its
session can never come to disagree. `StepEffect` sums each step up as one of four things
done to names (`NameStep`: a session arrives, is given a name, is refused one, stops),
and the theorems follow from that alone: `TypeCorrect`, `MapAgreesInvariant`,
`CarriedNameExistsInvariant`, `NamesForeverHolds`, `RegistryRefined`. `AnsweredOnceHolds`
needs to know what is written, and `HandleAnswers` says it: a list or a refusal under the
empty name is the answer to the Hi that is handled, or relayed for a session that has no
name itself.

`ServerHoldsInSystem` carries the invariants over to `PktSystem`, and
`PromisesHoldInSystem` what no step may do (`NamesForever`, `AnsweredOnce`) and the
refinement of `NameRegistry`: a test client that reads a list and answers it in one step
takes a packet from the queue and adds one, which leaves the names alone. `NoMutualInviteHolds`
needs to know which list is the server's: nothing is relayed to a session that is not
registered, so the first packet a waiting client (`Pending`) is sent is the server's
answer (`AnswerFirst`), and any later list misleads it. And it needs to know who has heard
of whom: `Ignorant(c, n)` says that, unless `c` is misled, `n` is neither on the list that is
the answer to `c` nor the one `c` has invited. `NoMutualInvite` is not inductive, because
answers are still in flight when it is looked at; what is, is that of two clients one is
ignorant of the other (`Later`), since a client that has heard of anybody is registered,
and its list was made before that. Other clients may do what they like, use a test client's
name and send lists included.

### Packets: `PacketCodecProofs`, `PacketStreamProofs`

`PacketCodecProofs` is about pure functions, for every number of values of a byte above
one, and all byte sequences. `NumberRead` and `StringRead`: what has been written
anywhere in a buffer is what is read there, and as many bytes are passed as `PacketSize`
counts. `EnvelopeRead`: the size field is the size of the packet; the assumption that it
fits a `uint16_t` is the one `createEnvelope` asserts in DEBUG builds. `ContentRead`:
name, type and fields are found where they were put. `Readdressed`: a relayed packet is
the packet received under the name of its sender, with whatever the buffer held behind
it still behind it, which is why `RelayFaithful` compares what is read and not the
bytes. `PlayersRead`: a list of players is read as it was written, whatever its length.
The list is written and read by recursive functions; the induction is over the number of
players, on the set of numbers for which the statement holds.

`PacketStreamProofs` puts these together, for any names, fields, lists and number of
packets:

    IInv == /\ TypeOK
            /\ every packet on its way to the server is one that can be read
            /\ \E extra : Relays(Len(extra)) /\ (Intact => Understands(extra))

`extra` is the history that the state has lost: the stale bytes that the server put
behind each packet it relayed. With it, `Relays` says that the bytes on their way to the
server are, from where its session is in a packet, the packets sent that are not
relayed yet; `Understands` says the same of the receiver, and that what it has got is
what was sent, which ends with the first packet that is cut or too large. Neither `RelayFaithful` nor `NothingThrown` says anything about bytes
still in flight, so neither is inductive; both follow from `IInv`.

`ChannelRefined` shows that every step is one of `FifoChannel` or a stutter. Its heart is
that in every state of `IInv` what is received is the beginning of what was entrusted
(`ReceivedFirst`), as long as the stream is `Intact`. With this before and behind a step,
a longer `got` can only have grown by the next message, and the whole of the argument
about bytes is in `IInv`.

### The lexer: `LexerProofs`

`NothingLostHolds`, for any text that has a length. The invariant is that each character
passed is accounted for, by a token that is kept, a blank, or a comment, and that
tokens are of what has been passed; a token that is extended or merged must go on
accounting for what it did. Where a literal ends is a recursive function; that it has a
value in the text is by induction over its characters.

### The runtime: `RuntimeProofs`

These are about `RunSpec`, the runtime alone, with any statements, objects and bound on
calls; `InterpreterProofs` carries them over to the whole interpreter.

`ObjectsSharedLive` is `SharedLives`, from any tree of namespaces, by

    ObjectsInv == SharedLives /\ MembersLive

where `MembersLive` says that members are of living objects: an object that dies takes
its members with it, or a shared reference in one of them would go on keeping others. The
heart of it is that `Dying`, the least set of objects outside of which each is shared
from outside, is such a set itself (`LivingShared`, `DyingUnshared`): so `Settle`
establishes `ObjectsInv` from two weaker facts about the values before
(`Settling`), and each action has only to show that what it stores is `Sound`: values
that share living or new objects, and new objects at free addresses.
`ReferencesKeepTheirKind` is `KindsKept`: with the same invariant, a place that a new
value is put at is either new or, in an assignment, keeps its type; `FramesInv` (the
calls are a sequence) is needed at the end of a call, where the argument goes to the
frame below. `ArgumentsOfCallers` needs no more than that.

The other three ask something of the tree: `TreeOK`. It is what the parser leaves
(`InterpreterProofs`); a runtime cannot change it.

    TypeInv == TreeOK /\ ObjectsInv /\ FramesInv /\ NowOK

`NowOK` says that every place is of a declared variable, a call in progress or a living
object, and that the current namespace and those the calls return to are in the tree.
`RunTypeCorrect` follows, and `FreedOnlyInCycle`: when an assignment through a member
frees the object of that member, everything that shared it is among what died with it,
so the members that share it lead back to it. `InitialisedInOrder` adds `OrderInv`:
while variables are initialised, those done precede those pending in the order of the
maps, and each found what it read among those done before it. The property was first
written, and checked, without its condition `~Typed`; the proof did not go through, and
rightly so, since beside the type of a class an initial value is not looked at
(`Expr.cpp:11-37`). The program that shows it is now one of those of `interp`.

### The parser and the whole interpreter: `InterpreterProofs`

These are about `Interpreter!Spec`, for any set of texts. They have one hypothesis,
`TextsAreStrings`: the length of a text is a number, and a part of a text is a string.
It is true of every text, since a string of TLA+ is a sequence of characters, but the
provers do not know that of strings.

    ParseInv   == IsTree(spaces, varDecls, funcs) /\ at \in Nat \ {0} /\ BlocksOK(blocks, DOMAIN spaces)
    ProgramInv == lexer's invariants /\ ParseInv /\ (parsing # "done" => RunInit) /\ TypeInv /\ OrderInv

`IsTree` is `TreeOK` of any tree. It is not inductive without the stack of blocks: a
declaration goes to the innermost namespace that is open, and a body that ends goes to
the space in which the function began, so every open block must be of a space of the
tree (`BlocksOK`), and a block that is opened must have been declared first. The names
that become parts of paths are pieces of the text, which is `ReadInv` of the lexer: an
identifier's token lies within what has been read. There is a lemma for each kind of
statement and for each end of a block; the loop of `doParseExpr`, a recursive function,
needs that its place never comes before the first token (`IsLoop`, `PlaceKept`).

The three parts take turns, so a step of the parser has to leave a tree from which the
runtime, which has not begun, is in order (`RunBegins`); from then on every step is one
of `RunNext` under `TypeInv`. `TreeSound` is `TreeOK`, and with it what the section
before proves from that hypothesis holds without it: `ProgramTypesAndLives`,
`ProgramFreedInCycle`, `ProgramMainInOrder`, `ProgramKindsKept`, `ProgramArguments`, and
`ProgramLosesNothing` for the lexer.

### Only model-checked

* Liveness (`SessionReclaimed`, `PlayGoesOn`, `HelloAnswered`, `InviteArrives`,
  `AllDelivered`): out of the prover's reach.
* `NoUnknownMessage`: it holds in the instance of `easy_game`, because there reads take one message
  each, names differ and buffers are never full, none of which the code sees to.
* `ParsesAsWritten`, `OperandsKept`, `DeclaresAsWritten`: what was written is recursive
  data, and what is said of it is a RECURSIVE operator over it, so a proof would be an
  induction over data.
* What TLC refutes: the properties of the violation runs.

## 5. What the runs found

1. `easy_unknown`: `TcpClient::run` drops the beginning of a message that arrives with
   the end of another, and handles the rest as a message of a type that
   `TicTacClient.h` asserts away.
2. `easy_step_name`: a relayed step carries its receiver's name.
3. `packet_tail`: `onReadPacketHeader` subtracts the two bytes of the size twice, so the
   buffer is two bytes short of what is read into it.

4. `operand_order`: `BinaryOpExpression::execute` evaluates `m_expr`, the right operand,
   first and puts it on the left of the operator, so `1 -2` is 2 - 1.

Met while modelling, and kept in the models as they are: in Easy "bob;x" may be registered
and is read as "bob"; in Pkt whoever gives no name can send lists that clients take for the
server's; both servers may send a message in part; the character after a number is
lost (`f(1)` has no `)`), a comment at the end of a text runs beyond it, `return x;` does
not end a call, an object is created and destroyed for each use of a class's name, a
variable initialised from another variable or from a call is null, a log line needs a
global variable called `ptr`, and a prefix operator right behind another one is refused
(the words of `WrittenPrograms` have parentheses there).

## 6. Not modelled

Resolving, binding, keep-alive, `shutdown()`, the wording of logs. In Easy: the torn
value of a string that two threads use; a `DbgTicTacClient` destroyed before its thread
runs. In Pkt: `bool` fields, and `PacketStep` and `PacketInvitationResponce`, whose
`fields` take a const executor and cannot be instantiated; lengths below two, which no
writer writes; `onConnect`, `onDisconnect` and `forgotPlayer`, which are empty or have
no caller; that a packet relayed to nobody is leaked and `delete` is used for `new[]`.
`TicTacServerPackets.h` is commented out as a whole. In the interpreter: expressions
inside printed literals and printing itself; operators on strings and fractions (a
literal counts as a number); calls, new objects and unary operators inside operators, at which
the model ends the program; calls that are returned or assigned; a member of the temporary
object of a class's name is left as undefined; null statements, that nested definitions
leave in a body; `m_program`, the statements outside functions, which is parsed (and
modelled) but never executed; lines and positions of messages; `Executor.h`, which
nothing uses, and `shuntingYard.h`, a stand-alone sketch that nothing includes.

## 7. Plan

Done: (1) `NameRegistry`, `EasyServer`, `EasySystem`; (2) `PktServer`, `PktSystem`,
`PacketCodec`, `PacketStream`; (3) `Lexer`, `ExprParser`, `Parser` against what was
written; (4) `Runtime`, `Interpreter`; (5) proofs of every invariant that the runs check
but the three about what an expression or a declaration means; (6) `FifoChannel`, and
that the bytes implement it.

Left: a game of three test clients, which TLC cannot finish and whose moves may go to
the wrong partner; and calls inside operators, with the values of arguments.
