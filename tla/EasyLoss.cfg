\* Lost connections: what becomes of their sessions.
SPECIFICATION MCSpec
CONSTANTS
    Conns = {c1, c2}
    NoConn = NoConn
    Names = {bob}
    NoName = NoName
    Tails = {glue}
    SendBuf = 1
    QueueBound = 1
    Coalesce = FALSE
    Budget = 2
    Inputs = {"PlayerName", "Invite", "Reject", "Step", "NoOp", "Bad"}
    Called = {bob, NoName}
CHECK_DEADLOCK FALSE
PROPERTIES
    SessionReclaimed
