\* Every kind of request, read glued to its successors and cut anywhere, of
\* clients that fight over a name.
SPECIFICATION MCSpec
CONSTANTS
    Conns = {c1, c2}
    NoConn = NoConn
    Names = {bob}
    NoName = NoName
    Tails = {glue}
    SendBuf = 3
    QueueBound = 2
    Coalesce = TRUE
    Budget = 4
    Inputs = {"PlayerName", "Invite", "Accept", "CloseGame"}
    Called = {bob}
SYMMETRY ConnSymmetry
CHECK_DEADLOCK FALSE
INVARIANTS
    TypeOK
    OwnEntry
PROPERTIES
    DeadEntryStays
    RegistrySpec
    InviterRegistered
    CrashNeedsUnnamed
