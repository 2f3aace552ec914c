SPECIFICATION MCSpec
CONSTANTS
    Texts <- AnyText
    IntSize = 16
    Objects = {o1, o2, o3, o4, o5}
    NoObject = NoObject
    NameOrder <- NamesInOrder
    Statements <- MCStatements
    MaxCalls = 3
    Kinds = {"expr", "cut", "items", "odd", "order", "run"}
    LeafWords = {"a", "2", "N::v"}
    BinaryOps = {"*", "-", "<", "&&"}
    OtherOps = {".", "!", "++", "f"}
CHECK_DEADLOCK FALSE
INVARIANTS
    NothingLost
    ParsesAsWritten
    OperandsKept
    DeclaresAsWritten
    TreeOK
    RunTypeOK
    SharedLives
PROPERTIES
    FreedNeedsCycle
    MainInOrder
    KindsKept
    ArgumentOfCaller
