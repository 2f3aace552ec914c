---------------------------- MODULE FifoChannel -----------------------------
(***************************************************************************)
(* What the packet server promises about what players send one another,    *)
(* with no bytes, sizes, buffers or readers in sight: messages are         *)
(* delivered whole, one at a time and in the order they were sent, after   *)
(* the greeting that was there first.  The channel may break, or be broken *)
(* from the beginning: from then on nothing is promised.                   *)
(***************************************************************************)
EXTENDS Naturals, Sequences

CONSTANTS
    Messages,   \* what may be sent
    Greetings   \* what the channel may begin with

VARIABLES
    entrusted,  \* the greeting, and what has been sent since
    received,   \* what has been delivered of it
    broken

cvars == <<entrusted, received, broken>>

CInit ==
    /\ received = <<>>
    /\ \/ entrusted \in {<<g>> : g \in Greetings} /\ broken = FALSE
       \/ entrusted = <<>> /\ broken = TRUE

Send(m) ==
    /\ ~broken
    /\ entrusted' = Append(entrusted, m)
    /\ UNCHANGED <<received, broken>>

Deliver ==
    /\ ~broken /\ Len(received) < Len(entrusted)
    /\ received' = Append(received, entrusted[Len(received) + 1])
    /\ UNCHANGED <<entrusted, broken>>

Break ==
    /\ ~broken
    /\ broken' = TRUE /\ entrusted' = <<>> /\ received' = <<>>

CNext == (\E m \in Messages : Send(m)) \/ Deliver \/ Break

CSpec == CInit /\ [][CNext]_cvars
=============================================================================
