SPECIFICATION FairSpec
CONSTANTS
    NumSlots = 1
    NumReserved = 0
    NumChannels = 2
    NumBuffers = 2
    Streams = {"song"}
    Effects = {"hit"}
    Width <- OneStereoStream
    NumChunks = 3
    LoopStart = 1
    FileLoops = TRUE
    Targets = {2}
    PrewarmCount = 1
    MaxOps = 2
PROPERTIES
    CallsReturn
    StreamEnds
