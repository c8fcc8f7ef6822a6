SPECIFICATION FairSpec
CONSTANTS
    parent = parent
    child = child
    hall = hall
    cave = cave
    NoObject = NoObject
    NoRoom = NoRoom
    Restart = Restart
    NoOne = NoOne
    Objects <- MCObjects
    Parent <- MCParent
    PersistentObjects = {child}
    Rooms <- MCRooms
    FirstRoom = hall
    PersistentRooms = {cave}
    RoomsWithCode = {hall}
    RoomObjects <- MCRoomObjects
    StaticIds <- MCStaticIds
    ObjectOf <- MCObjectOf
    FirstDynamic = 3
    MaxId = 3
    CodeOps <- UpheavalOps
    Handlers <- UpheavalHandlers
    MaxCode = 2
    HandlesRoomChange = TRUE
INVARIANTS
    DestroyedInactive
    EveryInstanceOwned
PROPERTIES
    RoomChangeHappens
    DestroyedFreed
    PersistentSurvives
CHECK_DEADLOCK FALSE
