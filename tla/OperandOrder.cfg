SPECIFICATION MCSpec
CONSTANTS
    Texts <- AnyText
    IntSize = 16
    Objects = {o1}
    NoObject = NoObject
    NameOrder <- NamesInOrder
    Statements = {}
    MaxCalls = 1
    Kinds = {"expr"}
    LeafWords = {"1", "2", "3"}
    BinaryOps = {"+", "-"}
    OtherOps = {}
CHECK_DEADLOCK FALSE
INVARIANTS
    ValueAsPrinted
