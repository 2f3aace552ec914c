---------------------------- MODULE MCPktSystem ----------------------------
(***************************************************************************)
(* Two test clients and one open client, which may take the name of either *)
(* first, sends at most Budget packets, and may come and go.               *)
(***************************************************************************)
EXTENDS PktSystem, TLC

CONSTANTS c1, c2, ann, bob, Budget

TwoNames == (c1 :> ann) @@ (c2 :> bob)

Order == <<ann, bob>>

VARIABLE sent   \* packets the open client has sent, and finds of a lost one

MCInit == SysInit /\ sent = 0

\* Packets that differ only in a field the server does not read are the same;
\* of a list with all names on it any one may be invited; and with a Budget of
\* 1 an open client has no name when it sends to a player, which ignores an
\* invitation of nobody's as it does "exists".
OpenPackets ==
    { p \in Packets : /\ IF p.kind = "envelope" THEN p.body \notin {"invite", "other"}
                         ELSE p.body = "other"
                      /\ p.kind \in {"other", "short"} => p.name = NoName
                      /\ p.names = IF p.body = "list" THEN Names ELSE {} }

OpenSend(c) ==
    /\ sent < Budget
    /\ sent' = sent + 1
    /\ \E p \in OpenPackets : ClientSend(c, p)
    /\ UNCHANGED clientVars

\* So is what a client finds that has lost its place: one more than Budget.
Strays(c) == sent <= Budget /\ sent' = sent + 1 /\ Finds(c)

Unbudgeted(A) == A /\ UNCHANGED sent

MCNext ==
    \/ Unbudgeted(ServerNext /\ UNCHANGED clientVars)
    \/ \E c \in Testers : \/ Unbudgeted(Start(c))
                          \/ Unbudgeted(SayHi(c))
                          \/ Unbudgeted(Reading(c))
                          \/ Unbudgeted(Die(c))
                          \/ Unbudgeted(PassesOver(c))
                          \/ Strays(c)
    \/ \E c \in Conns \ Testers :
          \/ OpenSend(c)
          \/ Unbudgeted(Connect(c) /\ UNCHANGED clientVars)
          \/ Unbudgeted(ClientReceive(c) /\ UNCHANGED clientVars)
          \/ Unbudgeted(Disconnect(c) /\ UNCHANGED clientVars)

MCSpec == MCInit /\ [][MCNext]_<<sysVars, sent>> /\ Fairness /\ ClientFairness
=============================================================================
