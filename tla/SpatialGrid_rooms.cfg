SPECIFICATION Spec
CONSTANTS
    hall = hall
    cave = cave
    NoOne = NoOne
    NoBox = NoBox
    Rooms <- MCRooms
    FirstRoom = hall
    RoomObjects <- HallOnly
    StaticIds = {1}
    FirstDynamic = 2
    CellSize = 2
    GridWidth = 2
    HalfRange = 4
    Boxes <- MCBoxes
    AskedBoxes <- MCAskedBoxes
    StartBox <- Across
    MaxId = 2
    PersistentRooms = {cave}
    PlayOps = {"move", "query", "create", "destroy", "sleep", "persist", "reachSaved"}
    CleanUpOps = {"move"}
INVARIANTS
    TypeOK
    QueryFindsOverlapping
    EntriesRemembered
