\* The assertion that no message is unknown, on a byte stream.
SPECIFICATION SysSpec
CONSTANTS
    c1 = c1
    c2 = c2
    c3 = c3
    ann = ann
    bob = bob
    NoConn = NoConn
    Names = {ann, bob}
    NoName = NoName
    Tails = {glue}
    NameOrder <- Order
    Whims <- NoWhims
    Pile = 0
    Conns = {c1, c2}
    MyName <- TwoNames
    Leavers = {}
    Coalesce = TRUE
    SendBuf = 9
    QueueBound = 9
CHECK_DEADLOCK FALSE
INVARIANTS
    NoUnknownMessage
