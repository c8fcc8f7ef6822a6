SPECIFICATION Spec
CONSTANTS
    ObjectCount = 2
    ObjectOf <- MCObjectOf
    MaxId = 4
    Handlers <- EachLoop
    CollidesWith <- Mutual
    MinCapacity = 3
    Ops = {"create", "destroy", "sleep", "wake", "change", "goto", "lives", "writeAll", "query", "alarm"}
    MaxOps = 3
    MaxCode = 3
    MaxFrames = 1
INVARIANT
    MouseSnapshotLive
