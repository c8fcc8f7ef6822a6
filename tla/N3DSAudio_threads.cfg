SPECIFICATION Spec
CONSTANTS
    NumSlots = 2
    NumReserved = 1
    NumChannels = 3
    NumBuffers = 2
    Streams = {"song"}
    Effects = {"hit"}
    Width <- OneStereoStream
    NumChunks = 3
    LoopStart = 1
    FileLoops = TRUE
    Targets = {1, 3}
    PrewarmCount = 1
    MaxOps = 3
INVARIANTS
    TypeOK
    PlaysInOrder
    ChannelsOwned
    BufferHasOneUser
