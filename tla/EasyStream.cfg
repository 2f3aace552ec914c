\* Two test clients on a byte stream that cuts and glues, with short buffers.
SPECIFICATION SysSpec
CONSTANTS
    c1 = c1
    c2 = c2
    c3 = c3
    ann = ann
    bob = bob
    NoConn = NoConn
    Names = {ann, bob}
    NoName = NoName
    Tails = {glue}
    NameOrder <- Order
    Whims <- FewWhims
    Pile = 0
    Conns = {c1, c2}
    MyName <- TwoNames
    Leavers = {c1}
    Coalesce = TRUE
    SendBuf = 2
    QueueBound = 2
CHECK_DEADLOCK FALSE
PROPERTIES
    OpenServer
