\* The room the client makes for the tail of a packet.
SPECIFICATION Spec
CONSTANTS
    Base = 5
    Sender <- MCSender
    Receivers <- MCReceivers
    Fields <- MCFields
    Players <- MCPlayers
    SptPlayerList = 7
    MaxSent = 3
    Cuts = {1, 4}
CHECK_DEADLOCK FALSE
INVARIANTS
    TailFits
