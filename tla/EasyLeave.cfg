\* One of two test clients is killed and comes back under the same name.
SPECIFICATION SysSpec
CONSTANTS
    c1 = c1
    c2 = c2
    c3 = c3
    ann = ann
    bob = bob
    NoConn = NoConn
    Names = {ann, bob}
    NoName = NoName
    Tails = {glue}
    NameOrder <- Order
    Whims <- NoWhims
    Pile = 0
    Conns = {c1, c2, c3}
    MyName <- ThreeNames
    Leavers = {c1}
    Coalesce = FALSE
    SendBuf = 9
    QueueBound = 9
CHECK_DEADLOCK FALSE
INVARIANTS
    NoStaleEntry
