SPECIFICATION Spec
CONSTANTS
    parent = parent
    child = child
    hall = hall
    cave = cave
    NoObject = NoObject
    NoRoom = NoRoom
    Restart = Restart
    NoOne = NoOne
    Objects <- MCObjects
    Parent <- MCParent
    PersistentObjects = {child}
    Rooms <- MCRooms
    FirstRoom = hall
    PersistentRooms = {hall}
    RoomsWithCode = {hall}
    RoomObjects <- MCRoomObjects
    StaticIds <- MCStaticIds
    ObjectOf <- MCObjectOf
    FirstDynamic = 3
    MaxId = 3
    CodeOps <- RestoredOps
    Handlers <- RestoredHandlers
    MaxCode = 2
    HandlesRoomChange = TRUE
INVARIANT
    RestoresWhatWasSaved
