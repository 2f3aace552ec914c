---------------------------- MODULE NameRegistry ----------------------------
(***************************************************************************)
(* What the game server promises about player names, with no connections,  *)
(* messages or handlers in sight: a name belongs to at most one session,   *)
(* is given only while it is free, and stays with its session for as long  *)
(* as that session is live.  A session that goes frees at most one name;   *)
(* the others it was given stay with it for ever.  The empty name is the   *)
(* exception: any session that goes unnamed may free it.                   *)
(***************************************************************************)
CONSTANTS Conns, NoConn, AllNames, NoName

VARIABLES
    owner,  \* the session a name belongs to, or NoConn
    phase   \* of a session: "new", "live", "gone"

rvars == <<owner, phase>>

RInit ==
    /\ owner = [n \in AllNames |-> NoConn]
    /\ phase = [c \in Conns |-> "new"]

Arrive(c) ==
    /\ phase[c] = "new"
    /\ phase' = [phase EXCEPT ![c] = "live"]
    /\ UNCHANGED owner

Give(c, n) ==
    /\ phase[c] = "live"
    /\ owner[n] = NoConn
    /\ owner' = [owner EXCEPT ![n] = c]
    /\ UNCHANGED phase

\* The session goes and what it owns stays taken.
Abandon(c) ==
    /\ phase[c] = "live"
    /\ phase' = [phase EXCEPT ![c] = "gone"]
    /\ UNCHANGED owner

Leave(c, n) ==
    /\ phase[c] = "live"
    /\ n = NoName \/ owner[n] = c
    /\ phase' = [phase EXCEPT ![c] = "gone"]
    /\ owner' = [owner EXCEPT ![n] = NoConn]

RNext ==
    \E c \in Conns :
        \/ Arrive(c) \/ Abandon(c)
        \/ \E n \in AllNames : Give(c, n) \/ Leave(c, n)

RSpec == RInit /\ [][RNext]_rvars
=============================================================================
