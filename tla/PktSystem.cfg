\* Two test clients and an open one: names, lists, relays and losses.
SPECIFICATION MCSpec
CONSTANTS
    c1 = c1
    c2 = c2
    ann = ann
    bob = bob
    Conns = {c1, c2, c3}
    Testers = {c1, c2}
    NoConn = NoConn
    Names = {ann, bob}
    NoName = NoName
    MyName <- TwoNames
    NameOrder <- Order
    Leavers = {c1}
    SendBuf = 1
    QueueBound = 1
    Budget = 1
CHECK_DEADLOCK FALSE
INVARIANTS
    TypeOK
    MapAgrees
    CarriedNameExists
    NoMutualInvite
PROPERTIES
    NamesForever
    AnsweredOnce
    RegistrySpec
    HelloAnswered
    InviteArrives
