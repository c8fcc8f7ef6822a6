-------------------------------- MODULE Runner --------------------------------
(***************************************************************************)
(* The life cycle of GameMaker instances in src/src/runner.c: creation,    *)
(* destruction, activation, object change, the frame loop that dispatches  *)
(* events to them, and the change of room that frees, saves, restores or   *)
(* carries them.                                                           *)
(*                                                                         *)
(* The program is single threaded, but game code (the bytecode of an       *)
(* event) runs inside the loops of the engine and may call back into them  *)
(* at any point.  `stack' is the C call stack reduced to the frames that   *)
(* can be interrupted by game code; its head is the innermost.  Everything *)
(* that runs no game code in between is one action.                        *)
(*                                                                         *)
(* The arrays of instances are sets: the order in which a loop visits its  *)
(* snapshot is left open, so what holds here holds for every order.        *)
(***************************************************************************)
EXTENDS Integers, FiniteSets, Sequences

CONSTANTS
    Objects,            \* object definitions (objt.objects)
    NoObject,           \* parentId of an object without parent
    Parent,             \* [Objects -> Objects \cup {NoObject}]
    PersistentObjects,  \* the objects whose definition sets `persistent'
    Rooms, NoRoom,      \* rooms; NoRoom is pendingRoom = -1
    Restart,            \* ROOM_RESTARTGAME as a value of pendingRoom
    FirstRoom,          \* roomOrder[0]
    PersistentRooms,    \* rooms persistent in the data file
    RoomsWithCode,      \* rooms with creation code
    RoomObjects,        \* [Rooms -> SUBSET StaticIds], the instances of a room
    StaticIds,          \* instance ids fixed in the data file
    ObjectOf,           \* [StaticIds -> Objects]
    FirstDynamic,       \* gen8.lastObj + 1
    MaxId,              \* bound: no instance is created past this id
    NoOne,              \* no instance (the dummy self of room code)
    CodeOps,            \* [Events -> SUBSET OpNames], what an event's code calls
    Handlers,           \* SUBSET (Objects \X Events), the events objects define
    MaxCode,            \* bound: depth of game code nested in game code
    HandlesRoomChange   \* the port's main loop calls Runner_handlePendingRoomChange

Ids == StaticIds \cup (FirstDynamic .. MaxId)

NoEvent == "none"
Events == {"PreCreate", "PreCode", "Create", "CreationCode", "RoomCode", "Destroy",
           "CleanUp", "Step", "Draw", "GameStart", "RoomStart", "RoomEnd"}
OpNames == {"create", "destroy", "destroyObject", "change", "copy", "activate",
            "deactivate", "withAll", "persist", "roomGoto", "gameRestart", "gameEnd",
            "roomSetPersistent"}

ASSUME ConstantsAssumption ==
    /\ Parent \in [Objects -> Objects \cup {NoObject}] /\ NoObject \notin Objects
    /\ PersistentObjects \subseteq Objects /\ Objects # {}
    /\ NoRoom \notin Rooms /\ Restart \notin Rooms /\ NoRoom # Restart
    /\ FirstRoom \in Rooms /\ PersistentRooms \subseteq Rooms /\ RoomsWithCode \subseteq Rooms
    /\ RoomObjects \in [Rooms -> SUBSET StaticIds] /\ ObjectOf \in [StaticIds -> Objects]
    /\ FirstDynamic \in Nat /\ MaxId \in Nat
    /\ StaticIds \subseteq 0 .. (FirstDynamic - 1)
    /\ NoOne \notin Nat
    /\ CodeOps \in [Events -> SUBSET OpNames]
    /\ Handlers \subseteq Objects \X Events
    /\ MaxCode \in Nat /\ HandlesRoomChange \in BOOLEAN

VARIABLES
    heap,           \* ids whose Instance is allocated
    inst,           \* the fields of each Instance
    instances,      \* runner->instances
    byId,           \* keys of runner->instancesById
    byObject,       \* runner->instancesByObject
    byExact,        \* runner->instancesByExactObject
    nextId,         \* runner->nextInstanceId
    saved,          \* runner->savedRoomStates
    room,           \* runner->currentRoom
    pendingRoom,    \* runner->pendingRoom
    roomPersistent, \* room.rooms[r].persistent
    shouldExit,     \* runner->shouldExit
    phase,          \* where the engine is between two loops over game code
    caller,         \* who called initRoom: boot, bootGoto or main
    target,         \* the room being entered
    carried,        \* carriedPersistent of initRoom
    stack,          \* interruptible frames, innermost first
    births,         \* history: Create events fired in the life of an instance, less those
                    \* that instance_change asked for
    kept            \* history: rooms whose instances were saved when last left

tables == <<heap, instances, byId, byObject, byExact, nextId>>
heapVars == <<tables, inst>>
roomVars == <<saved, room, pendingRoom, roomPersistent>>
engineVars == <<shouldExit, phase, caller, target, carried>>
history == <<births, kept>>
vars == <<heapVars, roomVars, engineVars, stack, history>>

Phases == {"boot", "enter", "takeRestore", "takePopulate", "restore", "populate", "pass2",
           "roomCode", "initialized", "entered", "gameStarted", "bootCheck", "bootLeave",
           "frame", "stepped", "draw", "drawn", "leave", "changed", "exit"}
Callers == {"boot", "bootGoto", "main"}
Kinds == {"code", "dispatch", "create", "destroy", "destroyEach", "change", "take", "free", "pass2", "roomCreate",
          "wild"}

Instance == [object: Objects, active: BOOLEAN, destroyed: BOOLEAN,
             persistent: BOOLEAN, created: BOOLEAN]
Frame == {f \in [kind: Kinds, self: Ids \cup {NoOne}, event: Events \cup {NoEvent},
                  object: Objects \cup {NoObject}, todo: SUBSET Ids] :
            /\ f.kind = "change" => f.object \in Objects
            /\ f.kind \in {"code", "dispatch"} => f.event \in Events
            /\ f.kind \in {"create", "destroy", "change", "free", "roomCreate"} => f.self \in Ids}
SavedRoom == [initialized: BOOLEAN, instances: SUBSET Ids]

TypeOK ==
    /\ heap \subseteq Ids /\ instances \subseteq Ids /\ byId \subseteq Ids
    /\ inst \in [Ids -> Instance]
    /\ byObject \in [Objects -> SUBSET Ids] /\ byExact \in [Objects -> SUBSET Ids]
    /\ nextId \in Nat /\ nextId >= FirstDynamic
    /\ saved \in [Rooms -> SavedRoom]
    /\ room \in Rooms \cup {NoRoom} /\ pendingRoom \in Rooms \cup {NoRoom, Restart}
    /\ roomPersistent \in [Rooms -> BOOLEAN]
    /\ shouldExit \in BOOLEAN /\ phase \in Phases /\ caller \in Callers
    /\ phase \notin {"boot", "enter"} => room \in Rooms
    /\ target \in Rooms /\ carried \subseteq Ids
    /\ stack \in Seq(Frame)
    /\ births \in [Ids -> Nat] /\ kept \subseteq Rooms

-------------------------------------------------------------------------------
(* Objects, instances and frames                                           *)

\* The parent chain from an object, cut after `n' steps as the C loops do at 32.
Chain[n \in 0 .. 32] ==
    [o \in Objects |->
        IF n = 0 THEN {}
        ELSE {o} \cup (IF Parent[o] = NoObject THEN {} ELSE Chain[n - 1][Parent[o]])]
Lineage == Chain[32]

HasHandler(o, e) == \E a \in Lineage[o] : <<a, e>> \in Handlers

NewInstance(o) == [object |-> o, active |-> TRUE, destroyed |-> FALSE,
                   persistent |-> o \in PersistentObjects, created |-> FALSE]
Blank == NewInstance(CHOOSE o \in Objects : TRUE)

\* Seeded fault: the instance leaves the lists of the object it has become.
ObjectListsAfterChange(f, add, del) ==
    [o \in Objects |-> (byObject[o] \ {i \in del : o \in Lineage[f[i].object]})
                          \cup {i \in add : o \in Lineage[f[i].object]}]
\* Seeded fault: an instance that leaves stays in its exact bucket.
ExactListsNeverShrink(f, add, del) ==
    [o \in Objects |-> byExact[o] \cup {i \in add : f[i].object = o}]

\* The object lists once the instances `add' (whose fields are `f') enter them and the
\* instances `del' leave them.
ObjectLists(f, add, del) ==
    [o \in Objects |-> (byObject[o] \ {i \in del : o \in Lineage[inst[i].object]})
                          \cup {i \in add : o \in Lineage[f[i].object]}]
ExactLists(f, add, del) ==
    [o \in Objects |-> (byExact[o] \ {i \in del : inst[i].object = o})
                          \cup {i \in add : f[i].object = o}]
NoLists == [o \in Objects |-> {}]

FrameOf(kind) == [kind |-> kind, self |-> NoOne, event |-> NoEvent,
                  object |-> NoObject, todo |-> {}]
CodeFrame(i, e) == [FrameOf("code") EXCEPT !.self = i, !.event = e]
SelfFrame(kind, i, e) == [FrameOf(kind) EXCEPT !.self = i, !.event = e]
LoopFrame(kind, ids, e) == [FrameOf(kind) EXCEPT !.todo = ids, !.event = e]

Running(kind) == stack # <<>> /\ Head(stack).kind = kind
Idle == stack = <<>>
Top == Head(stack)
Below == Tail(stack)
Depth == Cardinality({k \in DOMAIN stack : stack[k].kind = "code"})

\* A pending room change silences every event, except that persistent instances and
\* the instances of a persistent room still get the Create, Destroy and Other events.
SurvivesPending == {"PreCreate", "Create", "Destroy", "GameStart", "RoomStart", "RoomEnd"}
Blocked(f, e) ==
    /\ pendingRoom \in Rooms
    /\ \/ ~ f.persistent /\ ~ (room # NoRoom /\ roomPersistent[room])
       \/ e \notin SurvivesPending

\* The frames once event `e' is executed, above the frames `rest', on instance `i' with
\* fields f[i].
Execute(f, i, e, rest) ==
    IF HasHandler(f[i].object, e) /\ ~ Blocked(f[i], e) /\ ~ shouldExit
    THEN <<CodeFrame(i, e)>> \o rest ELSE rest

\* Code of the room editor is run without the gate of events.
ExecuteCode(i, e, rest) ==
    IF HasHandler(inst[i].object, e) THEN <<CodeFrame(i, e)>> \o rest ELSE rest

-------------------------------------------------------------------------------
(* What game code may do.  Code on behalf of `Top.self' reaches any instance *)
(* that is active and in instancesById (`with (id)', `with (object)').      *)

Calls(op) == Running("code") /\ op \in CodeOps[Top.event]
MayNest == Depth < MaxCode
Targets == {i \in byId : inst[i].active} \cup ({Top.self} \ {NoOne})

\* Allocate instance `i' of object `o' and enter it in every table.
Register(i, f) ==
    /\ inst' = f
    /\ heap' = heap \cup {i} /\ byId' = byId \cup {i} /\ instances' = instances \cup {i}
    /\ byObject' = ObjectLists(f, {i}, {})
    /\ byExact' = ExactLists(f, {i}, {})
    /\ births' = [births EXCEPT ![i] = 0]
    /\ nextId' = nextId + 1

InstanceCreate(o) ==
    LET f == [inst EXCEPT ![nextId] = [NewInstance(o) EXCEPT !.created = TRUE]] IN
    /\ Calls("create") /\ MayNest /\ nextId <= MaxId
    /\ Register(nextId, f)
    /\ stack' = Execute(f, nextId, "PreCreate", <<SelfFrame("create", nextId, "Create")>> \o stack)
    /\ UNCHANGED <<roomVars, engineVars, kept>>

\* instance_copy: the fields of the new instance overwrite those of the source, because
\* Instance_copyFields takes (source, destination) and is called with (new, source).
InstanceCopy(i, performEvent) ==
    LET new == NewInstance(inst[i].object)
        f == [inst EXCEPT ![nextId] = [new EXCEPT !.created = TRUE],
                          ![i].active = new.active, ![i].persistent = new.persistent] IN
    /\ Calls("copy") /\ i \in Targets /\ MayNest /\ nextId <= MaxId
    /\ Register(nextId, f)
    /\ stack' = IF performEvent
                THEN Execute(f, nextId, "PreCreate",
                             <<SelfFrame("create", nextId, "Create")>> \o stack)
                ELSE stack
    /\ UNCHANGED <<roomVars, engineVars, kept>>

\* Runner_destroyInstance, up to its Destroy event.
MarkDestroyed(i, firstEvent, rest) ==
    IF inst[i].destroyed THEN UNCHANGED inst /\ stack' = rest
    ELSE /\ inst' = [inst EXCEPT ![i].destroyed = TRUE]
         /\ stack' = <<SelfFrame("destroy", i, firstEvent)>> \o rest

InstanceDestroy(i, runDestroyEvent) ==
    /\ Calls("destroy") /\ i \in Targets /\ ~ inst[i].destroyed /\ MayNest
    /\ MarkDestroyed(i, IF runDestroyEvent THEN "Destroy" ELSE "CleanUp", stack)
    /\ UNCHANGED <<tables, roomVars, engineVars, history>>

InstanceDestroyObject(o, runDestroyEvent) ==
    /\ Calls("destroyObject") /\ byObject[o] # {} /\ MayNest
    /\ stack' = <<LoopFrame("destroyEach", byObject[o],
                            IF runDestroyEvent THEN "Destroy" ELSE "CleanUp")>> \o stack
    /\ UNCHANGED <<heapVars, roomVars, engineVars, history>>

\* instance_change moves the instance between the object lists.
Changed(i, o) == [inst EXCEPT ![i].object = o, ![i].persistent = o \in PersistentObjects]
ChangeObject(i, o) ==
    /\ inst' = Changed(i, o)
    /\ byObject' = ObjectLists(Changed(i, o), {i}, {i})
    /\ byExact' = ExactLists(Changed(i, o), {i}, {i})
    /\ UNCHANGED <<heap, instances, byId, nextId, roomVars, engineVars, history>>

\* With events, Destroy and CleanUp of the old object run before, Create of the new after.
InstanceChange(i, o, performEvents) ==
    /\ Calls("change") /\ i \in Targets
    /\ IF performEvents
       THEN /\ MayNest
            /\ stack' = Execute(inst, i, "Destroy",
                   <<[SelfFrame("change", i, "CleanUp") EXCEPT !.object = o]>> \o stack)
            /\ UNCHANGED <<heapVars, roomVars, engineVars, history>>
       ELSE ChangeObject(i, o) /\ UNCHANGED stack

\* The instances an activation builtin is given: an object, an id, or all.
Selections == {byObject[o] : o \in Objects} \cup {{i} : i \in byId} \cup {instances}

SetActive(f) ==
    /\ inst' = f
    /\ UNCHANGED <<tables, roomVars, engineVars, stack, history>>

\* Seeded fault: an activation does not look at `destroyed'.
InstanceActivateAny(sel) ==
    /\ Calls("activate") /\ sel \subseteq heap
    /\ SetActive([i \in Ids |-> IF i \in sel THEN [inst[i] EXCEPT !.active = TRUE] ELSE inst[i]])

InstanceActivate(sel) ==
    /\ Calls("activate") /\ sel \subseteq heap
    /\ SetActive([i \in Ids |-> IF i \in sel /\ ~ inst[i].destroyed
                                THEN [inst[i] EXCEPT !.active = TRUE] ELSE inst[i]])

InstanceDeactivate(sel) ==
    /\ Calls("deactivate") /\ sel \subseteq heap
    /\ SetActive([i \in Ids |-> IF i \in sel /\ ~ inst[i].destroyed
                                THEN [inst[i] EXCEPT !.active = FALSE] ELSE inst[i]])

\* instance_deactivate_all does not look at `destroyed'.
InstanceDeactivateAll(notme) ==
    /\ Calls("deactivate") /\ instances \subseteq heap
    /\ SetActive([i \in Ids |-> IF i \in instances /\ ~ (notme /\ i = Top.self)
                                THEN [inst[i] EXCEPT !.active = FALSE] ELSE inst[i]])

\* The calls that look at everything in runner->instances: instance_activate_all and
\* _region, instance_deactivate_all and _region, and any builtin or `with' given `all'.
WholeRoomOps == {"activate", "deactivate", "withAll"}

\* While takePersistentInstances runs, runner->instances still names what it has freed.
\* CleanUp code that looks at the whole room then reads freed memory: from here on the C
\* program has no defined behaviour, and the model ends.
WalkFreed ==
    /\ \E op \in WholeRoomOps : Calls(op)
    /\ ~ instances \subseteq heap
    /\ stack' = <<FrameOf("wild")>> \o stack
    /\ UNCHANGED <<heapVars, roomVars, engineVars, history>>

SetPersistent(i, b) ==
    /\ Calls("persist") /\ i \in Targets
    /\ inst' = [inst EXCEPT ![i].persistent = b]
    /\ UNCHANGED <<tables, roomVars, engineVars, stack, history>>

SetPendingRoom(r) ==
    /\ pendingRoom' = r
    /\ UNCHANGED <<heapVars, saved, room, roomPersistent, engineVars, stack, history>>
RoomGoto(r) == Calls("roomGoto") /\ SetPendingRoom(r)
GameRestart == Calls("gameRestart") /\ SetPendingRoom(Restart)

GameEnd ==
    /\ Calls("gameEnd")
    /\ shouldExit' = TRUE
    /\ UNCHANGED <<heapVars, roomVars, phase, caller, target, carried, stack, history>>

\* room_set_persistent, and room_persistent on the current or pending room.
RoomSetPersistent(r, b) ==
    /\ Calls("roomSetPersistent")
    /\ roomPersistent' = [roomPersistent EXCEPT ![r] = b]
    /\ UNCHANGED <<heapVars, saved, room, pendingRoom, engineVars, stack, history>>

CodeReturn ==
    /\ Running("code")
    /\ stack' = Below
    /\ UNCHANGED <<heapVars, roomVars, engineVars, history>>

GameCode ==
    \/ \E o \in Objects : \/ InstanceCreate(o)
                           \/ \E b \in BOOLEAN : InstanceDestroyObject(o, b)
    \/ \E i \in Ids, b \in BOOLEAN : \/ InstanceCopy(i, b) \/ InstanceDestroy(i, b)
                                     \/ SetPersistent(i, b)
                                     \/ \E o \in Objects : InstanceChange(i, o, b)
    \/ \E sel \in Selections : InstanceActivate(sel) \/ InstanceDeactivate(sel)
    \/ \E b \in BOOLEAN : InstanceDeactivateAll(b)
    \/ WalkFreed
    \/ \E r \in Rooms : RoomGoto(r) \/ \E b \in BOOLEAN : RoomSetPersistent(r, b)
    \/ GameRestart \/ GameEnd
    \/ CodeReturn

-------------------------------------------------------------------------------
(* The engine between two pieces of game code: the frame on top of `stack'. *)

\* dispatchInstanceCreationEvents after PreCreate.
CreateStep ==
    /\ Running("create")
    /\ stack' = Execute(inst, Top.self, "Create", Below)
    /\ births' = [births EXCEPT ![Top.self] = @ + 1]
    /\ UNCHANGED <<heapVars, roomVars, engineVars, kept>>

\* Runner_destroyInstance after the mark: Destroy, CleanUp, and only then inactive.
DestroyStep ==
    /\ Running("destroy")
    /\ \/ /\ Top.event = "Destroy"
          /\ stack' = Execute(inst, Top.self, "Destroy",
                              <<[Top EXCEPT !.event = "CleanUp"]>> \o Below)
          /\ UNCHANGED inst
       \/ /\ Top.event = "CleanUp"
          /\ stack' = Execute(inst, Top.self, "CleanUp",
                              <<[Top EXCEPT !.event = NoEvent]>> \o Below)
          /\ UNCHANGED inst
       \/ /\ Top.event = NoEvent
          /\ inst' = [inst EXCEPT ![Top.self].active = FALSE]
          /\ stack' = Below
    /\ UNCHANGED <<tables, roomVars, engineVars, history>>

\* instance_destroy(object): each instance of the snapshot that is still active.
DestroyEachStep ==
    /\ Running("destroyEach")
    /\ IF Top.todo = {} THEN stack' = Below /\ UNCHANGED inst
       ELSE \E i \in Top.todo :
              LET rest == <<[Top EXCEPT !.todo = @ \ {i}]>> \o Below IN
              IF inst[i].active THEN MarkDestroyed(i, Top.event, rest)
              ELSE stack' = rest /\ UNCHANGED inst
    /\ UNCHANGED <<tables, roomVars, engineVars, history>>

\* The Create event here is the second in the life of the instance, and meant to be:
\* `births' counts the others.
ChangeStep ==
    /\ Running("change")
    /\ \/ /\ Top.event = "CleanUp"
          /\ stack' = Execute(inst, Top.self, "CleanUp",
                              <<[Top EXCEPT !.event = NoEvent]>> \o Below)
          /\ UNCHANGED <<heapVars, roomVars, engineVars, history>>
       \/ /\ Top.event = NoEvent
          /\ ChangeObject(Top.self, Top.object)
          /\ stack' = Execute(Changed(Top.self, Top.object), Top.self, "Create", Below)

\* Runner_executeEventForAll: the snapshot and the loop over it.  (In the source at hand the
\* lines that append a bucket to the snapshot, after line 518, are missing with a closing
\* brace; they are taken to do what the comment at line 504 and the declaration say.)
Dispatched(e) ==
    IF e = "Step" THEN UNION {byExact[o] : o \in {p \in Objects : HasHandler(p, e)}}
    ELSE instances
DispatchStep ==
    /\ Running("dispatch")
    /\ IF Top.todo = {} THEN stack' = Below
       ELSE \E i \in Top.todo :
              LET rest == <<[Top EXCEPT !.todo = @ \ {i}]>> \o Below IN
              stack' = IF inst[i].active THEN Execute(inst, i, Top.event, rest) ELSE rest
    /\ UNCHANGED <<heapVars, roomVars, engineVars, history>>

-------------------------------------------------------------------------------
(* Leaving a room and entering another: initRoom and persistRoomState.     *)

\* Seeded fault: the request is cleared after Room End, with one made meanwhile.
EnterRoomClearingRequest ==
    /\ Idle /\ phase = "enter"
    /\ room' = target /\ pendingRoom' = NoRoom
    /\ phase' = IF roomPersistent[target] /\ saved[target].initialized
                THEN "takeRestore" ELSE "takePopulate"
    /\ stack' = <<LoopFrame("take", instances, NoEvent)>>
    /\ carried' = {}
    /\ UNCHANGED <<heapVars, saved, roomPersistent, shouldExit, caller, target, history>>

\* initRoom up to takePersistentInstances.  The choice between restoring the room and
\* building it is made here, before any CleanUp code runs.
EnterRoom ==
    /\ Idle /\ phase = "enter"
    /\ room' = target
    /\ phase' = IF roomPersistent[target] /\ saved[target].initialized
                THEN "takeRestore" ELSE "takePopulate"
    /\ stack' = <<LoopFrame("take", instances, NoEvent)>>
    /\ carried' = {}
    /\ UNCHANGED <<heapVars, saved, pendingRoom, roomPersistent, shouldExit, caller, target, history>>

\* Seeded fault: persistence is read from the object, not from the instance.
CarriesByObject(i) == inst[i].object \in PersistentObjects
Carries(i) == inst[i].persistent

\* takePersistentInstances: a persistent instance is carried; of any other the id is
\* forgotten, CleanUp is run, and the instance is freed (FreeStep).
TakeStep ==
    /\ Running("take") /\ Top.todo # {}
    /\ \E i \in Top.todo :
         LET rest == <<[Top EXCEPT !.todo = @ \ {i}]>> \o Below IN
         IF Carries(i)
         THEN carried' = carried \cup {i} /\ stack' = rest /\ UNCHANGED byId
         ELSE /\ byId' = byId \ {i}
              /\ stack' = Execute(inst, i, "CleanUp", <<SelfFrame("free", i, NoEvent)>> \o rest)
              /\ UNCHANGED carried
    /\ UNCHANGED <<heap, inst, instances, byObject, byExact, nextId, roomVars,
                   shouldExit, phase, caller, target, history>>

FreeStep ==
    /\ Running("free")
    /\ heap' = heap \ {Top.self}
    /\ inst' = [inst EXCEPT ![Top.self] = Blank]
    /\ byObject' = ObjectLists(inst, {}, {Top.self})
    /\ byExact' = ExactLists(inst, {}, {Top.self})
    /\ births' = [births EXCEPT ![Top.self] = 0]
    /\ stack' = Below
    /\ UNCHANGED <<instances, byId, nextId, roomVars, engineVars, kept>>

\* The end of takePersistentInstances: the array and the object lists are emptied.
TakeDone ==
    /\ Running("take") /\ Top.todo = {}
    /\ instances' = {} /\ byObject' = NoLists /\ byExact' = NoLists
    /\ stack' = Below
    /\ \/ phase = "takeRestore" /\ phase' = "restore"
       \/ phase = "takePopulate" /\ phase' = "populate"
    /\ UNCHANGED <<heap, inst, byId, nextId, roomVars, shouldExit, caller, target, carried, history>>

\* A persistent room visited before: its saved instances, then the carried ones.
RestoreRoom ==
    LET arrivals == saved[room].instances \cup carried IN
    /\ Idle /\ phase = "restore"
    /\ instances' = arrivals
    /\ byObject' = ObjectLists(inst, arrivals, {})
    /\ byExact' = ExactLists(inst, arrivals, {})
    /\ saved' = [saved EXCEPT ![room].instances = {}]
    /\ carried' = {} /\ phase' = "entered"
    /\ UNCHANGED <<heap, inst, byId, nextId, room, pendingRoom, roomPersistent,
                   shouldExit, caller, target, stack, history>>

\* Pass 1 creates the room's own instances without events, skipping an id that is
\* already known; the carried instances follow.
PopulateRoom ==
    LET new == RoomObjects[room] \ byId
        f == [i \in Ids |-> IF i \in new THEN NewInstance(ObjectOf[i]) ELSE inst[i]] IN
    /\ Idle /\ phase = "populate"
    /\ inst' = f
    /\ heap' = heap \cup new /\ byId' = byId \cup new
    /\ instances' = new \cup carried
    /\ byObject' = ObjectLists(f, new \cup carried, {})
    /\ byExact' = ExactLists(f, new \cup carried, {})
    /\ births' = [i \in Ids |-> IF i \in new THEN 0 ELSE births[i]]
    /\ carried' = {} /\ phase' = "pass2"
    /\ stack' = <<LoopFrame("pass2", RoomObjects[room], NoEvent)>>
    /\ UNCHANGED <<nextId, roomVars, shouldExit, caller, target, kept>>

\* Seeded fault: pass 2 does not ask whether Create has already fired.
NeedsCreateAlways(i) == i \in byId
NeedsCreate(i) == i \in byId /\ ~ inst[i].created

\* Pass 2 runs the creation code of each instance whose Create has not fired yet.
Pass2Step ==
    /\ phase = "pass2" /\ Running("pass2")
    /\ IF Top.todo = {} THEN stack' = Below /\ phase' = "roomCode" /\ UNCHANGED inst
       ELSE /\ \E i \in Top.todo :
                 LET rest == <<[Top EXCEPT !.todo = @ \ {i}]>> \o Below IN
                 IF NeedsCreate(i)
                 THEN /\ inst' = [inst EXCEPT ![i].created = TRUE]
                      /\ stack' = IF inst[i].destroyed THEN rest
                                  ELSE <<SelfFrame("roomCreate", i, "PreCreate")>> \o rest
                 ELSE stack' = rest /\ UNCHANGED inst
            /\ UNCHANGED phase
    /\ UNCHANGED <<tables, roomVars,
                   shouldExit, caller, target, carried, history>>

\* PreCreate, preCreateCode, Create and creationCode, until the instance is destroyed.
RoomCreateStep ==
    LET i == Top.self
        Then(e) == <<[Top EXCEPT !.event = e]>> \o Below IN
    /\ Running("roomCreate")
    /\ stack' = CASE Top.event = "PreCreate" -> Execute(inst, i, "PreCreate", Then("PreCode"))
                  [] Top.event = "PreCode" -> ExecuteCode(i, "PreCode", Then("Create"))
                  [] Top.event = "Create" /\ ~ inst[i].destroyed ->
                       Execute(inst, i, "Create", Then("CreationCode"))
                  [] Top.event = "CreationCode" /\ ~ inst[i].destroyed ->
                       ExecuteCode(i, "CreationCode", Below)
                  [] OTHER -> Below
    /\ births' = IF Top.event = "Create" /\ ~ inst[i].destroyed
                 THEN [births EXCEPT ![i] = @ + 1] ELSE births
    /\ UNCHANGED <<heapVars, roomVars, engineVars, kept>>

\* Room creation code, on a dummy instance; the room then counts as initialized.
RoomCreationCode ==
    /\ Idle /\ phase = "roomCode"
    /\ stack' = IF room \in RoomsWithCode THEN <<CodeFrame(NoOne, "RoomCode")>> ELSE <<>>
    /\ phase' = "initialized"
    /\ UNCHANGED <<heapVars, roomVars, shouldExit, caller, target, carried, history>>

MarkInitialized ==
    /\ Idle /\ phase = "initialized"
    /\ saved' = [saved EXCEPT ![room].initialized = TRUE]
    /\ phase' = "entered"
    /\ UNCHANGED <<heapVars, room, pendingRoom, roomPersistent, shouldExit, caller, target,
                   carried, stack, history>>

\* Seeded fault: the id of a freed instance stays known.
FreeKeepingId(dead) ==
    /\ heap' = heap \ dead /\ UNCHANGED byId
    /\ inst' = [i \in Ids |-> IF i \in dead THEN Blank ELSE inst[i]]
    /\ births' = [i \in Ids |-> IF i \in dead THEN 0 ELSE births[i]]

\* Release the instances `dead' and forget their ids.
Free(dead) ==
    /\ heap' = heap \ dead /\ byId' = byId \ dead
    /\ inst' = [i \in Ids |-> IF i \in dead THEN Blank ELSE inst[i]]
    /\ births' = [i \in Ids |-> IF i \in dead THEN 0 ELSE births[i]]

Staying == {i \in instances : inst[i].persistent}

\* Seeded fault: what an earlier visit saved and no later one restored is forgotten.
EarlierForgotten == {}
Earlier == saved[room].instances

\* persistRoomState: persistent instances stay, active ones are saved, and the others
\* are freed with those saved by an earlier visit.
PersistRoomState ==
    LET staying == Staying
        toSave == {i \in instances \ staying : inst[i].active} IN
    /\ Free(Earlier \cup (instances \ (staying \cup toSave)))
    /\ instances' = staying
    /\ byObject' = [o \in Objects |-> {i \in staying : o \in Lineage[inst[i].object]}]
    /\ byExact' = [o \in Objects |-> {i \in staying : inst[i].object = o}]
    /\ saved' = [saved EXCEPT ![room] = [initialized |-> TRUE, instances |-> toSave]]
    /\ UNCHANGED nextId

LeavesPersistently == roomPersistent[room]

LeaveRoom ==
    /\ Idle /\ phase = "leave"
    /\ IF LeavesPersistently THEN PersistRoomState
       ELSE UNCHANGED <<heapVars, saved, births>>
    /\ phase' = "enter" /\ caller' = "main"
    /\ kept' = IF LeavesPersistently THEN kept \cup {room} ELSE kept \ {room}
    /\ UNCHANGED <<room, pendingRoom, roomPersistent, shouldExit, target, carried, stack>>

-------------------------------------------------------------------------------
(* The start of the game, the frame loop of the port, and restart.         *)

GoTo(from, to) ==
    /\ Idle /\ phase = from /\ phase' = to
    /\ UNCHANGED <<shouldExit, carried>>

\* Dispatch `e' to all, then go on in phase `to'.
Dispatch(from, e, to) ==
    /\ GoTo(from, to)
    /\ stack' = <<LoopFrame("dispatch", Dispatched(e), e)>>
    /\ UNCHANGED <<heapVars, saved, room, roomPersistent, caller, history>>

Boot ==
    /\ GoTo("boot", "enter")
    /\ target' = FirstRoom /\ caller' = "boot"
    /\ UNCHANGED <<heapVars, roomVars, stack, history>>

EnteredRoom ==
    /\ IF caller = "boot" THEN Dispatch("entered", "GameStart", "gameStarted")
       ELSE Dispatch("entered", "RoomStart", IF caller = "main" THEN "changed" ELSE "frame")
    /\ UNCHANGED <<pendingRoom, target>>
GameStarted ==
    /\ Dispatch("gameStarted", "RoomStart", "bootCheck")
    /\ UNCHANGED <<pendingRoom, target>>

\* Seeded fault: -1 is taken for a room.
TakeAnyPendingRoom(from, to) ==
    /\ pendingRoom # Restart
    /\ target' = pendingRoom /\ pendingRoom' = NoRoom
    /\ Dispatch(from, "RoomEnd", to)

\* Take up the pending room: the flag is cleared before Room End is dispatched.
TakePendingRoom(from, to) ==
    /\ pendingRoom \in Rooms
    /\ target' = pendingRoom /\ pendingRoom' = NoRoom
    /\ Dispatch(from, "RoomEnd", to)

\* Runner_reset: everything but the persistence of rooms starts over.
Reset(from) ==
    /\ pendingRoom = Restart
    /\ Idle /\ phase = from /\ phase' = "boot"
    /\ heap' = {} /\ instances' = {} /\ byId' = {} /\ byObject' = NoLists /\ byExact' = NoLists
    /\ inst' = [i \in Ids |-> Blank] /\ births' = [i \in Ids |-> 0] /\ kept' = {}
    /\ nextId' = FirstDynamic
    /\ saved' = [r \in Rooms |-> [initialized |-> FALSE, instances |-> {}]]
    /\ pendingRoom' = NoRoom
    /\ UNCHANGED <<room, roomPersistent, shouldExit, caller, target, carried, stack>>

\* Runner_initFirstRoom honours a room_goto made while the game starts.
BootCheck ==
    \/ Reset("bootCheck")
    \/ TakePendingRoom("bootCheck", "bootLeave")
    \/ /\ pendingRoom = NoRoom /\ GoTo("bootCheck", "frame")
       /\ UNCHANGED <<heapVars, roomVars, caller, target, stack, history>>
BootLeave ==
    /\ GoTo("bootLeave", "enter")
    /\ caller' = "bootGoto"
    /\ kept' = kept \ {room}
    /\ UNCHANGED <<heapVars, roomVars, target, stack, births>>

\* One iteration of the main loop: step, clean up, draw, change room.
BeginStep ==
    /\ ~ shouldExit /\ Dispatch("frame", "Step", "stepped")
    /\ UNCHANGED <<pendingRoom, target>>
Exit ==
    /\ shouldExit /\ GoTo("frame", "exit")
    /\ UNCHANGED <<heapVars, roomVars, caller, target, stack, history>>

\* Seeded fault: persistent instances are never cleaned up.
DoomedUnlessPersistent == {i \in instances : inst[i].destroyed /\ ~ inst[i].persistent}
Doomed == {i \in instances : inst[i].destroyed}

\* Runner_cleanupDestroyedInstances.
CleanupDestroyed(from, to) ==
    LET dead == Doomed IN
    /\ GoTo(from, to)
    /\ Free(dead)
    /\ instances' = instances \ dead
    /\ byObject' = ObjectLists(inst, {}, dead)
    /\ byExact' = ExactLists(inst, {}, dead)
    /\ UNCHANGED <<nextId, roomVars, caller, target, stack, kept>>
EndStep == CleanupDestroyed("stepped", "draw")

Draw ==
    /\ Dispatch("draw", "Draw", "drawn")
    /\ UNCHANGED <<pendingRoom, target>>

\* Runner_handlePendingRoomChange, in the ports whose main loop calls it.
HandlePendingRoomChange ==
    /\ HandlesRoomChange
    /\ Reset("drawn") \/ TakePendingRoom("drawn", "leave")
NextFrame ==
    /\ ~ HandlesRoomChange \/ pendingRoom = NoRoom
    /\ GoTo("drawn", "frame")
    /\ UNCHANGED <<heapVars, roomVars, caller, target, stack, history>>
EndRoomChange == CleanupDestroyed("changed", "frame")

Engine ==
    \/ CreateStep \/ DestroyStep \/ DestroyEachStep \/ ChangeStep \/ DispatchStep
    \/ EnterRoom \/ TakeStep \/ FreeStep \/ TakeDone \/ RestoreRoom
    \/ PopulateRoom \/ Pass2Step \/ RoomCreateStep \/ RoomCreationCode \/ MarkInitialized
    \/ LeaveRoom \/ Boot \/ EnteredRoom \/ GameStarted \/ BootCheck \/ BootLeave
    \/ BeginStep \/ Exit \/ EndStep \/ Draw \/ HandlePendingRoomChange \/ NextFrame
    \/ EndRoomChange

Init ==
    /\ heap = {} /\ instances = {} /\ byId = {}
    /\ inst = [i \in Ids |-> Blank]
    /\ byObject = NoLists /\ byExact = NoLists
    /\ nextId = FirstDynamic
    /\ saved = [r \in Rooms |-> [initialized |-> FALSE, instances |-> {}]]
    /\ room = NoRoom /\ pendingRoom = NoRoom
    /\ roomPersistent = [r \in Rooms |-> r \in PersistentRooms]
    /\ shouldExit = FALSE /\ phase = "boot" /\ caller = "boot"
    /\ target = FirstRoom /\ carried = {}
    /\ stack = <<>> /\ births = [i \in Ids |-> 0] /\ kept = {}

Next == GameCode \/ Engine

\* The engine always goes on, and each piece of game code eventually returns.
Fairness == WF_vars(Engine) /\ WF_vars(CodeReturn)

Spec == Init /\ [][Next]_vars
FairSpec == Spec /\ Fairness

-------------------------------------------------------------------------------
(* Properties                                                              *)

Taking == phase \in {"takeRestore", "takePopulate"}

\* The program has followed a pointer to a freed instance.
Lost == Running("wild")
SavedInstances == UNION {saved[r].instances : r \in Rooms}

\* Every pointer the engine may follow leads to an allocated instance, whatever game code
\* destroyed meanwhile, and no freed one has been followed: frees are deferred to points
\* where no loop holds a snapshot.  (While takePersistentInstances runs, runner->instances
\* itself names instances it has freed.  The property allows that, but not that code run
\* meanwhile looks there.  CleanUp code that activates, deactivates or visits the whole room
\* does, so this is a property of games whose CleanUp code does not.)
NoDanglingPointer ==
    /\ ~ Lost
    /\ Taking \/ instances \subseteq heap
    /\ byId \cup carried \cup SavedInstances \subseteq heap
    /\ \A o \in Objects : byObject[o] \cup byExact[o] \subseteq heap
    /\ \A k \in DOMAIN stack :
          /\ stack[k].self \in heap \cup {NoOne}
          /\ stack[k].kind = "pass2" \/ stack[k].todo \subseteq heap

\* An instance of the room is in the list of each object of its lineage and in no other,
\* and in exactly one exact bucket: no event is dispatched twice or to a stranger.
ObjectListsInSync ==
    \A i \in instances \cap heap, o \in Objects :
        phase \notin {"restore", "populate"} =>
            /\ i \in byObject[o] <=> o \in Lineage[inst[i].object]
            /\ i \in byExact[o] <=> o = inst[i].object

\* "A destroyed instance must ALWAYS be not active": outside Runner_destroyInstance itself no
\* activation, change or nested destruction revives an instance that waits to be freed.  This
\* is said of games without instance_copy, which does revive: it copies the fields of the
\* new instance, `active' with them, over those of the instance it is to copy.
DestroyedInactive ==
    \A i \in heap : inst[i].destroyed /\ inst[i].active =>
        \E k \in DOMAIN stack : stack[k].kind = "destroy" /\ stack[k].self = i

\* Between its allocation and its release an instance gets its Create event at most once,
\* not counting those that instance_change with events runs for the object it turns into,
\* although both passes of initRoom meet again the persistent instances it carries.
CreateAtMostOnce == \A i \in Ids : births[i] <= 1

\* Where an instance is kept while the room changes and otherwise.
Home == carried \cup (IF Taking THEN stack[Len(stack)].todo ELSE instances)

\* An instance known by id is in exactly one place, the room or one saved room; nothing is
\* lost from or doubled between runner->instances, the carried ones and the saved rooms.
EveryInstanceOwned ==
    /\ byId = Home \cup SavedInstances
    /\ Home \cap SavedInstances = {}
    /\ \A r, q \in Rooms : r # q => saved[r].instances \cap saved[q].instances = {}

\* A room is only restored from what was saved when it was last left, as "if this is a
\* persistent room that was previously visited, restore saved state" (initRoom) has it.  The
\* code does not keep this: a room left by a room_goto made while the game starts, or while it
\* was not persistent, counts as initialized all the same and is restored empty or stale.
RestoresWhatWasSaved == phase = "restore" => room \in kept

\* A persistent instance of the room that was not destroyed is never lost to a change of room.
PersistentSurvives ==
    [][\A i \in byId \ SavedInstances : inst[i].persistent /\ ~ inst[i].destroyed /\ i \notin byId'
           => pendingRoom = Restart]_vars

\* A requested room is entered, unless game code asks for another one, ends the game or
\* makes the program follow a freed pointer (WalkFreed).
RoomChangeHappens ==
    \A r \in Rooms : pendingRoom = r ~> \/ room = r /\ phase = "entered"
                                        \/ pendingRoom \notin {r, NoRoom}
                                        \/ phase = "exit" \/ Lost

\* What is destroyed in the room is eventually freed, unless the game ends or the program
\* follows a freed pointer.
DestroyedFreed ==
    \A i \in Ids : i \in instances /\ inst[i].destroyed ~> i \notin heap \/ phase = "exit" \/ Lost
-------------------------------------------------------------------------------
(* The inductive invariant behind NoDanglingPointer.                        *)

\* The frames `s' over the heap `h', when `b' are the ids known and `taking' says whether
\* takePersistentInstances runs: it is the outermost frame, it can only be interrupted by
\* the CleanUp of one instance it has already forgotten and will free.  Only while it runs
\* can a freed pointer be followed.
StackSafe(s, h, b, taking) ==
    /\ \A k \in DOMAIN s : /\ s[k].self \in h \cup {NoOne}
                           /\ s[k].kind # "pass2" => s[k].todo \subseteq h
                           /\ s[k].kind = "take" => taking /\ k = Len(s) /\ s[k].self = NoOne
                           /\ s[k].kind = "free" => taking /\ k = Len(s) - 1 /\ s[k].self \notin b
                           /\ s[k].kind = "wild" => taking
    /\ taking => s # <<>> /\ s[Len(s)].kind = "take"

\* Ids are never reused, and what is known by id is allocated.
IdsInv == byId \subseteq heap /\ \A i \in heap : i < nextId

\* What is in a list is allocated, and its object belongs there.
ListsInv == \A o \in Objects :
    /\ \A i \in byObject[o] : i \in heap /\ o \in Lineage[inst[i].object]
    /\ \A i \in byExact[o] : i \in heap /\ o = inst[i].object

\* The instances of the room, those carried and those saved are known and kept apart.
OwnInv ==
    /\ Home \cup SavedInstances \subseteq byId
    /\ Home \cap SavedInstances = {}
    /\ \A r, q \in Rooms : r # q => saved[r].instances \cap saved[q].instances = {}
    /\ carried # {} => phase \in {"takeRestore", "takePopulate", "restore", "populate"}
    /\ Taking => carried \cap stack[Len(stack)].todo = {}

SafeInv == IdsInv /\ ListsInv /\ OwnInv /\ StackSafe(stack, heap, byId, Taking)

\* Nothing happens between the end of takePersistentInstances and pass 1, which therefore
\* meets empty lists.
ClearInv == phase = "populate" => stack = <<>> /\ byObject = NoLists /\ byExact = NoLists

InductiveInv == SafeInv /\ ClearInv
===============================================================================
