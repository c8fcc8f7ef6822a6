SPECIFICATION FairSpec
CONSTANTS
    Periods = {1, 2}
    MinCapacity = 1
    Pads = 1
    Ops = {"callLater", "cancel", "save", "group", "picker", "video", "open", "close", "destroyMap", "goto", "restart"}
    MaxOps = 3
    MaxEntries = 2
    MaxMaps = 5
    MaxDepth = 3
INVARIANTS
    TypeOK
    CallbacksOnce
    AnsweredInOrder
    AsyncLoadIsTheEvents
PROPERTY
    Answered
