\* Packets relayed byte by byte, up to the largest a size field can name.
SPECIFICATION Spec
CONSTANTS
    Base = 5
    Sender <- MCSender
    Receivers <- MCReceivers
    Fields <- MCFields
    Players <- MCPlayers
    SptPlayerList = 7
    MaxSent = 3
    Cuts = {1, 4}
CHECK_DEADLOCK FALSE
INVARIANTS
    TypeOK
    RelayFaithful
    NothingThrown
PROPERTIES
    AllDelivered
    ChannelSpec
