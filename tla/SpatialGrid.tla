------------------------------ MODULE SpatialGrid ------------------------------
(***************************************************************************)
(* The collision grid of src/src/spatial_grid.c: a cache of where the      *)
(* instances of the room are, repaired lazily.  A move only marks the      *)
(* instance dirty; a query first repairs the instances marked since the    *)
(* last one.  Instances meanwhile sleep, are destroyed, and leave with     *)
(* their room, whose grid is thrown away.                                  *)
(*                                                                         *)
(* The axes of the grid are alike; one of them is modelled.  A cell counts *)
(* its entries, since an array may hold a pointer twice.                   *)
(***************************************************************************)
EXTENDS Integers, FiniteSets

CONSTANTS
    StaticIds,          \* ids of the instances placed in rooms
    FirstDynamic,       \* the first id given at run time
    MaxId,              \* bound: no instance is created past this id
    NoOne,              \* no instance
    Rooms, FirstRoom,
    PersistentRooms,
    RoomObjects,        \* [Rooms -> SUBSET StaticIds]
    CellSize,           \* SPATIAL_GRID_CELL_SIZE
    GridWidth,          \* cells of an axis: room size / CellSize + 1
    HalfRange,          \* 2^15: the int16_t of a cell are -HalfRange .. HalfRange - 1
    Boxes,              \* bounding boxes that instances take
    AskedBoxes,         \* boxes that queries ask for
    StartBox,           \* where an instance starts
    NoBox,              \* the box of an instance without sprite (bbox.valid = false)
    PlayOps,            \* what the code of ordinary events may do
    CleanUpOps          \* what CleanUp code may do while a room is left

Ids == StaticIds \cup (FirstDynamic .. MaxId)
Cells == 0 .. (GridWidth - 1)
OpNames == {"move", "query", "create", "destroy", "sleep", "persist", "reachSaved"}

ASSUME GridAssumption ==
    /\ FirstDynamic \in Nat /\ MaxId \in Nat /\ StaticIds \subseteq 0 .. (FirstDynamic - 1)
    /\ NoOne \notin Nat
    /\ FirstRoom \in Rooms /\ PersistentRooms \subseteq Rooms
    /\ RoomObjects \in [Rooms -> SUBSET StaticIds]
    /\ CellSize \in Nat \ {0} /\ GridWidth \in Nat \ {0}
    /\ HalfRange \in Nat /\ GridWidth <= HalfRange
    /\ Boxes \cup AskedBoxes \subseteq {b \in Int \X Int : b[1] <= b[2]} /\ NoBox \notin Boxes
    /\ StartBox \in Boxes \cup {NoBox}
    /\ PlayOps \subseteq OpNames /\ CleanUpOps \subseteq {"move", "query"}

VARIABLES
    heap,       \* allocated instances
    inst,       \* their fields
    known,      \* keys of runner->instancesById
    instances,  \* runner->instances
    nextId,     \* runner->nextInstanceId
    room,       \* runner->currentRoom
    visited,    \* rooms whose savedRoomState is initialized
    saved,      \* instances of the saved rooms
    grid,       \* spatialGrid->grid: how often each cell holds each instance
    dirtyIds,   \* spatialGrid->dirtyInstances
    phase,      \* play, or inside takePersistentInstances: take, cleanUp
    todo,       \* instances it has still to look at
    carried,    \* carriedPersistent
    victim,     \* the instance whose CleanUp code runs
    lost        \* history: instances the grid may have lost sight of

roomVars == <<room, visited, saved>>
takeVars == <<phase, todo, carried, victim>>
gridVars == <<inst, grid, dirtyIds>>
vars == <<heap, known, instances, nextId, roomVars, gridVars, takeVars, lost>>

Instance == [active: BOOLEAN, destroyed: BOOLEAN, persistent: BOOLEAN, box: Boxes \cup {NoBox},
             spatialGridDirty: BOOLEAN, collisionCells: SUBSET Cells]

TypeOK ==
    /\ heap \subseteq Ids /\ known \subseteq heap /\ inst \in [Ids -> Instance]
    /\ instances \subseteq Ids /\ nextId \in Nat
    /\ room \in Rooms /\ visited \subseteq Rooms /\ saved \in [Rooms -> SUBSET Ids]
    /\ grid \in [Cells -> [Ids -> Nat]] /\ dirtyIds \subseteq Ids
    /\ phase \in {"play", "take", "cleanUp"} /\ todo \subseteq Ids /\ carried \subseteq Ids
    /\ victim \in heap \cup {NoOne} /\ lost \subseteq Ids

-------------------------------------------------------------------------------
(* Boxes and cells                                                         *)

\* The C conversion of a quotient to an integer cuts towards zero, ...
Quotient(x) == IF x >= 0 THEN x \div CellSize ELSE -((-x) \div CellSize)
\* ... and to int16_t keeps the low 16 bits: what the compiled code does with an int too wide
\* for it, which C leaves undefined.
Truncate(x) == ((Quotient(x) + HalfRange) % (2 * HalfRange)) - HalfRange
Clamp(c) == IF c < 0 THEN 0 ELSE IF c > GridWidth - 1 THEN GridWidth - 1 ELSE c

\* Seeded fault: what lies outside the room is in no cell.
CellRangeUnclamped(b) == (Truncate(b[1]) .. Truncate(b[2])) \cap Cells
\* SpatialGrid_computeCellRange; the edge cells also stand for what is outside the room.
CellRange(b) == Clamp(Truncate(b[1])) .. Clamp(Truncate(b[2]))
CellsOf(b) == IF b = NoBox THEN {} ELSE CellRange(b)

\* A box whose cells an int16_t can name; one that is not near, some two million pixels
\* away, wraps around to any cells or to none.
Near(b) == \A k \in {1, 2} : - HalfRange <= Quotient(b[k]) /\ Quotient(b[k]) < HalfRange

Overlap(a, b) == a[1] <= b[2] /\ b[1] <= a[2]

EmptyGrid == [c \in Cells |-> [i \in Ids |-> 0]]
NewInstance(b) == [active |-> TRUE, destroyed |-> FALSE, persistent |-> FALSE, box |-> b,
                   spatialGridDirty |-> FALSE, collisionCells |-> {}]
Blank == NewInstance(StartBox)

-------------------------------------------------------------------------------
(* Marking and repairing                                                   *)

Live(f, i) == f[i].active /\ ~ f[i].destroyed

\* Seeded fault: an instance that has left a cell already is taken out again.
RemovedTwice(g, S) == [c \in Cells |-> [i \in Ids |->
    IF i \in S /\ c \in inst[i].collisionCells THEN g[c][i] - 1 ELSE g[c][i]]]

\* removeInstanceFromGridCells: one entry from each cell the instance remembers.
Removed(g, S) == [c \in Cells |-> [i \in Ids |->
    IF i \in S /\ c \in inst[i].collisionCells /\ g[c][i] > 0 THEN g[c][i] - 1 ELSE g[c][i]]]

\* SpatialGrid_markInstanceAsDirty for each of `S', whose fields have become `f', in a
\* grid with dirty ids `ids' and cells `g'.
Mark(f, S, ids, g) ==
    /\ inst' = [i \in Ids |-> IF i \in S /\ Live(f, i)
                              THEN [f[i] EXCEPT !.spatialGridDirty = TRUE] ELSE f[i]]
    /\ dirtyIds' = ids \cup {i \in S : Live(f, i) /\ ~ f[i].spatialGridDirty}
    /\ grid' = Removed(g, {i \in S : ~ Live(f, i)})

\* Seeded fault: the old cells are not left.
SyncKeepingCells ==
    LET due == {i \in dirtyIds : i \in known /\ Live(inst, i) /\ inst[i].spatialGridDirty} IN
    /\ inst' = [i \in Ids |-> IF i \in due
                              THEN [inst[i] EXCEPT !.spatialGridDirty = FALSE,
                                                   !.collisionCells = CellsOf(inst[i].box)]
                              ELSE inst[i]]
    /\ grid' = [c \in Cells |-> [i \in Ids |->
                  IF i \in due /\ c \in CellsOf(inst[i].box) /\ grid[c][i] = 0 THEN 1
                  ELSE grid[c][i]]]
    /\ dirtyIds' = {}

\* SpatialGrid_syncGrid: an id that is gone, asleep or already repaired is skipped.
Sync ==
    LET due == {i \in dirtyIds : i \in known /\ Live(inst, i) /\ inst[i].spatialGridDirty}
        left == Removed(grid, due) IN
    /\ inst' = [i \in Ids |-> IF i \in due
                              THEN [inst[i] EXCEPT !.spatialGridDirty = FALSE,
                                                   !.collisionCells = CellsOf(inst[i].box)]
                              ELSE inst[i]]
    /\ grid' = [c \in Cells |-> [i \in Ids |->
                  IF i \in due /\ c \in CellsOf(inst[i].box) THEN left[c][i] + 1 ELSE left[c][i]]]
    /\ dirtyIds' = {}

\* What a query for box `b' gets to see: the active instances of the cells it covers.
Found(b) == {i \in Ids : inst[i].active /\ \E c \in CellRange(b) : grid[c][i] > 0}

-------------------------------------------------------------------------------
(* Game code                                                               *)

Calls(op) == op \in CASE phase = "play" -> PlayOps
                      [] phase = "cleanUp" -> CleanUpOps
                      [] OTHER -> {}
SavedInstances == UNION {saved[r] : r \in Rooms}

\* Code reaches what instancesById knows, an instance of a saved room by its id only.
Reachable == {i \in known : i \in SavedInstances => Calls("reachSaved")}
                \cup ({victim} \ {NoOne})

\* x, y, sprite, mask, scale and angle setters, and the engine's own motion.
Move(i, b) ==
    /\ Calls("move") /\ i \in Reachable /\ inst[i].box # b
    /\ Mark([inst EXCEPT ![i].box = b], {i}, dirtyIds, grid)
    /\ lost' = lost \cup {j \in {i} : ~ Live(inst, j) \/ j \in SavedInstances}
    /\ UNCHANGED <<heap, known, instances, nextId, roomVars, takeVars>>

\* A collision builtin: repair, then look (Found).
Query ==
    /\ Calls("query") /\ dirtyIds # {}
    /\ Sync
    /\ UNCHANGED <<heap, known, instances, nextId, roomVars, takeVars, lost>>

Create(b) ==
    /\ Calls("create") /\ nextId <= MaxId
    /\ Mark([inst EXCEPT ![nextId] = NewInstance(b)], {nextId}, dirtyIds, grid)
    /\ heap' = heap \cup {nextId} /\ known' = known \cup {nextId}
    /\ instances' = instances \cup {nextId} /\ nextId' = nextId + 1
    /\ UNCHANGED <<roomVars, takeVars, lost>>

\* Runner_destroyInstance sets `destroyed', runs code, and clears `active': no mark.
BeginDestroy(i) ==
    /\ Calls("destroy") /\ i \in Reachable /\ ~ inst[i].destroyed
    /\ inst' = [inst EXCEPT ![i].destroyed = TRUE]
    /\ UNCHANGED <<heap, known, instances, nextId, roomVars, grid, dirtyIds, takeVars, lost>>
EndDestroy(i) ==
    /\ i \in known /\ inst[i].destroyed /\ inst[i].active
    /\ inst' = [inst EXCEPT ![i].active = FALSE]
    /\ UNCHANGED <<heap, known, instances, nextId, roomVars, grid, dirtyIds, takeVars, lost>>

\* instance_activate_* and instance_deactivate_*: no mark either.
SetActive(i, b) ==
    /\ Calls("sleep") /\ i \in instances /\ ~ inst[i].destroyed /\ inst[i].active # b
    /\ inst' = [inst EXCEPT ![i].active = b]
    /\ lost' = lost \cup {j \in {i} : inst[j].spatialGridDirty}
    /\ UNCHANGED <<heap, known, instances, nextId, roomVars, grid, dirtyIds, takeVars>>

SetPersistent(i, b) ==
    /\ Calls("persist") /\ i \in instances /\ inst[i].persistent # b
    /\ inst' = [inst EXCEPT ![i].persistent = b]
    /\ UNCHANGED <<heap, known, instances, nextId, roomVars, grid, dirtyIds, takeVars, lost>>

-------------------------------------------------------------------------------
(* The engine                                                              *)

\* Seeded fault: the grid is created once only.
NewGridOnce == grid
NewGrid == EmptyGrid

\* No instance is in the middle of its destruction.
Settled == \A i \in known : ~ (inst[i].destroyed /\ inst[i].active)

\* Runner_cleanupDestroyedInstances marks, and so removes, what it frees.
CleanupDestroyed ==
    LET dead == {i \in instances : inst[i].destroyed} IN
    /\ phase = "play" /\ Settled /\ dead # {}
    /\ heap' = heap \ dead /\ known' = known \ dead /\ instances' = instances \ dead
    /\ Mark([i \in Ids |-> IF i \in dead
                           THEN [Blank EXCEPT !.destroyed = TRUE, !.active = FALSE]
                           ELSE inst[i]], dead, dirtyIds, grid)
    /\ lost' = lost \ dead
    /\ UNCHANGED <<nextId, roomVars, takeVars>>

\* persistRoomState, if the room is persistent, and initRoom up to the loop of
\* takePersistentInstances: the new room has an empty grid from here on.
ChangeRoom(next) ==
    LET staying == {i \in instances : inst[i].persistent}
        keep == {i \in instances \ staying : inst[i].active}
        dead == saved[room] \cup (instances \ (staying \cup keep))
        leaving == room \in PersistentRooms IN
    /\ phase = "play" /\ Settled
    /\ IF leaving
       THEN /\ heap' = heap \ dead /\ known' = known \ dead
            /\ instances' = staying /\ todo' = staying
            /\ saved' = [saved EXCEPT ![room] = keep]
            /\ visited' = visited \cup {room}
            /\ inst' = [i \in Ids |->
                          IF i \in dead THEN Blank
                          ELSE IF i \in staying /\ Live(inst, i)
                          THEN [inst[i] EXCEPT !.spatialGridDirty = TRUE] ELSE inst[i]]
            /\ lost' = (lost \ dead) \cup {i \in keep : inst[i].spatialGridDirty}
       ELSE /\ todo' = instances
            /\ UNCHANGED <<heap, known, instances, saved, visited, inst, lost>>
    /\ room' = next /\ grid' = NewGrid /\ dirtyIds' = {}
    /\ carried' = {} /\ phase' = "take"
    /\ UNCHANGED <<nextId, victim>>

TakeCarried(i) ==
    /\ inst[i].persistent
    /\ inst' = [inst EXCEPT ![i].spatialGridDirty = FALSE, ![i].collisionCells = {}]
    /\ carried' = carried \cup {i}
    /\ UNCHANGED <<known, phase, victim>>
TakeOther(i) ==
    /\ ~ inst[i].persistent
    /\ known' = known \ {i} /\ victim' = i /\ phase' = "cleanUp"
    /\ UNCHANGED <<inst, carried>>
TakeStep ==
    /\ phase = "take"
    /\ \E i \in todo : todo' = todo \ {i} /\ (TakeCarried(i) \/ TakeOther(i))
    /\ UNCHANGED <<heap, instances, nextId, roomVars, grid, dirtyIds, lost>>

\* After its CleanUp code the instance is freed.
FreeVictim ==
    /\ phase = "cleanUp"
    /\ heap' = heap \ {victim}
    /\ inst' = [inst EXCEPT ![victim] = Blank]
    /\ victim' = NoOne /\ phase' = "take" /\ lost' = lost \ {victim}
    /\ UNCHANGED <<known, instances, nextId, roomVars, grid, dirtyIds, todo, carried>>

\* The rest of initRoom: the instances restored or created, then those carried.
Arrive ==
    LET restores == room \in PersistentRooms /\ room \in visited
        new == RoomObjects[room] \ known
        arrivals == carried \cup (IF restores THEN saved[room] ELSE new)
        f == [i \in Ids |-> IF ~ restores /\ i \in new THEN Blank ELSE inst[i]] IN
    /\ phase = "take" /\ todo = {}
    /\ instances' = arrivals
    /\ Mark(f, arrivals, dirtyIds, grid)
    /\ IF restores
       THEN saved' = [saved EXCEPT ![room] = {}] /\ UNCHANGED <<heap, known, visited>>
       ELSE /\ heap' = heap \cup new /\ known' = known \cup new
            /\ visited' = visited \cup {room} /\ UNCHANGED saved
    /\ phase' = "play" /\ carried' = {}
    /\ lost' = lost \cup {i \in arrivals : ~ f[i].active}
    /\ UNCHANGED <<nextId, room, todo, victim>>

Init ==
    /\ heap = {} /\ known = {} /\ instances = {} /\ nextId = FirstDynamic
    /\ inst = [i \in Ids |-> Blank]
    /\ room = FirstRoom /\ visited = {} /\ saved = [r \in Rooms |-> {}]
    /\ grid = EmptyGrid /\ dirtyIds = {}
    /\ phase = "take" /\ todo = {} /\ carried = {} /\ victim = NoOne
    /\ lost = {}

Next ==
    \/ \E i \in Ids : \/ BeginDestroy(i) \/ EndDestroy(i)
                      \/ \E b \in Boxes \cup {NoBox} : Move(i, b)
                      \/ \E b \in BOOLEAN : SetActive(i, b) \/ SetPersistent(i, b)
    \/ \E b \in Boxes : Create(b)
    \/ Query \/ CleanupDestroyed \/ TakeStep \/ FreeVictim \/ Arrive
    \/ \E r \in Rooms : ChangeRoom(r)

Spec == Init /\ [][Next]_vars

-------------------------------------------------------------------------------
(* Properties                                                              *)

Finds(i) == \A b \in {q \in AskedBoxes : Near(q)} :
    Overlap(inst[i].box, b) => i \in Found(b)

\* A query never sees an instance that is not in the room: one that left with its room, or
\* that waits in a saved one, unless code moved it there.
FoundInRoom == phase = "play" => \A b \in AskedBoxes : Found(b) \subseteq instances \cup lost

\* A query finds every active instance of the room whose box meets the one it asks for,
\* inside the room or out of it: what the collision builtins rely on after syncGrid, when
\* no id waits for repair.  Excepted are boxes too far out for the int16_t of a cell (Near),
\* and the instances that `lost' names: put to sleep while dirty, carried asleep, moved while
\* asleep or saved, or saved while dirty. And it finds no others, near or far.
QueryFindsOverlapping ==
    /\ phase = "play" /\ dirtyIds = {} =>
         \A i \in instances \ lost :
            Live(inst, i) /\ inst[i].box # NoBox /\ Near(inst[i].box) => Finds(i)
    /\ FoundInRoom

\* Every entry of the grid leads to an allocated instance ("Destroyed instances are updated
\* instantly") that remembers the entry, and no cell holds it twice: the only way to find the
\* entries again when it moves or dies.
EntriesRemembered == \A c \in Cells, i \in Ids :
    grid[c][i] <= IF i \in heap /\ c \in inst[i].collisionCells THEN 1 ELSE 0
===============================================================================
