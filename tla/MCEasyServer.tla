---------------------------- MODULE MCEasyServer ----------------------------
(***************************************************************************)
(* EasyServer on a few connections.  An open client can go on for ever, so *)
(* all of them together send Budget requests, of the types in Inputs with   *)
(* the names in Called.                                                    *)
(***************************************************************************)
EXTENDS EasyServer, TLC

CONSTANTS Budget, Inputs, Called

VARIABLE sent   \* requests sent so far

MCInit == Init /\ sent = 0

BudgetedSend(c) ==
    /\ sent < Budget
    /\ sent' = sent + 1
    /\ \E m \in ClientRequests :
         /\ m.type \in Inputs
         /\ IF m.type \in NamedTypes THEN m.name \in Called ELSE m.name = NoName
         /\ ClientSend(c, m)

Unbudgeted(A) == A /\ UNCHANGED sent

MCNext ==
    \/ Unbudgeted(ServerNext)
    \/ \E c \in Conns : \/ Unbudgeted(Connect(c))
                        \/ BudgetedSend(c)
                        \/ Unbudgeted(ClientReceive(c))
                        \/ Unbudgeted(Disconnect(c))

\* Connections are interchangeable; used by runs without liveness only.
ConnSymmetry == Permutations(Conns)

MCSpec == MCInit /\ [][MCNext]_<<vars, sent>> /\ Fairness
=============================================================================
