SPECIFICATION Spec
CONSTANTS
    parent = parent
    child = child
    hall = hall
    cave = cave
    NoObject = NoObject
    NoRoom = NoRoom
    Restart = Restart
    NoOne = NoOne
    Objects <- MCObjects
    Parent <- MCParent
    PersistentObjects = {child}
    Rooms <- MCRooms
    FirstRoom = hall
    PersistentRooms = {cave}
    RoomsWithCode = {}
    RoomObjects <- MCRoomObjects
    StaticIds <- MCStaticIds
    ObjectOf <- MCObjectOf
    FirstDynamic = 3
    MaxId = 3
    CodeOps <- LifeOps
    Handlers <- LifeHandlers
    MaxCode = 2
    HandlesRoomChange = TRUE
INVARIANTS
    TypeOK
    NoDanglingPointer
    ObjectListsInSync
    CreateAtMostOnce
    EveryInstanceOwned
