SPECIFICATION Spec
CONSTANTS
    a = a
    b = b
    Instances <- Two
    NoInstance = NoInstance
    NoException = NoException
    Thrown = Thrown
    HandlerStackSize = 2
    Selves = {a}
    Others = {b}
    WithLists <- Lists
    MaxDepth = 4
    MaxOperands = 1
    MaxAbandoned = 1
CHECK_DEADLOCK FALSE
INVARIANTS
    TypeOK
    HandlersMatchTries
    ContextFollowsCode
    OperandsKept
    ParkedForItsFinally
PROPERTY
    ExceptionsSettle
