---------------------------- MODULE MCEasySystem ----------------------------
(* Test clients of two players; ann comes before bob in map order. *)
EXTENDS EasySystem, TLC

CONSTANTS c1, c2, c3, ann, bob

TwoNames == (c1 :> ann) @@ (c2 :> bob)

\* The third client is the first one again, on a new connection.
ThreeNames == TwoNames @@ (c3 :> ann)

Order == <<ann, bob>>

\* What a client that went astray may send: some of what it may do.
FewWhims == {Request("Invite", ann), Request("PlayerName", bob)}
NoWhims == {}
=============================================================================
