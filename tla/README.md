# A TLA+ verification of Cinnamon

Cinnamon is a reimplementation in C of the GameMaker: Studio runner. It loads a game's
`data.win`, runs the bytecode of its events, and draws, plays and stores what they ask for,
on the 3DS, the Wii U and half a dozen other systems. The ports differ in their renderer,
audio, files and main loop; what a game *is* lives in the shared core (`src/src/runner.c`,
`vm.c`, `vm_builtins.c`, `spatial_grid.c`, ...), and the core is where this project works.

The core is single threaded, which does not make it simple. Game code runs in the middle of
the core's loops, and from there it may call back into nearly every operation of the core:
destroy the instance whose event is running, leave the room that is being entered, restart
the game. Most of the concurrency modelled here is of that kind; the threads are in the
ports' audio and loading code.

## Inventory

Paths are relative to `src/src/`.

| component | state | operations | hard because |
|---|---|---|---|
| instance life cycle (`runner.c`, `instance.c`) | `instances`, `instancesById`, `instancesByObject`, `instancesByExactObject`, the flags of each `Instance` | create, copy, change, destroy, (de)activate, the sweep of destroyed ones | frees happen while loops hold pointers; events nest |
| rooms (`runner.c`) | `currentRoom`, `pendingRoom`, `savedRoomStates`, the persistence of rooms | room_goto, room change, persistent rooms, boot, game_restart | code runs between the steps of a change; three ways in, two ways out |
| event dispatch (`runner.c`, `event_table.c`) | snapshot arrays, resolved event table | `Runner_executeEventForAll`, collisions, mouse | one shared snapshot array, not re-entrant |
| timers (`runner.c`) | 12 alarms an instance, call_later entries, timelines, queued saves and loads | step, cancel, reschedule | callbacks change the arrays that are walked |
| spatial grid (`spatial_grid.c`) | grid cells, dirty list, the cells recorded in each instance | mark dirty, sync, query | a lazily repaired cache of positions over instances that come and go |
| VM (`vm.c`) | value stack, call depth, with-stack, exception frames, `currentInstance` | call, with, try/throw/finally, event entry | exceptions cross frames of C, of with and of events |
| arrays, structs, strings (`gml_array.c`, `rvalue.h`, `instance.c`) | reference counts, copy-on-write owner, struct registry | assign, copy, sweep | sharing that game code must not notice |
| pools of data structures (`vm_builtins.c`) | lists, maps, grids, buffers, text and ini files by small ids | create, destroy, access | ids are reused |
| overlay file system (`overlay_file_system.c`) | bundle and save directories | open, write, delete, list | two directories that must look like one |
| input (`runner_keyboard.c`, `runner_mouse.c`, `runner_gamepad.c`, `input_recording.c`) | down, pressed, released, last key; recorded frames | host events, clear, record, replay | edges against levels over a frame, replay |
| drawing (`runner.c`, renderers) | drawable cache, surface stack, texture caches | rebuild, push, pop, evict | caches of raw pointers, stacks with limits |
| 3DS audio (`n3ds/n3ds_audio_system.c`) | sound instances, streams, one job at a time for a worker thread | play, stop, update, the worker | a real second thread |
| ports (`*/main.c`) | windows, settings, main loop | step, draw, room change | each port has its own loop |
| loader, JSON, strings, debugging | none between calls | parse, print | sequential; not modelled |

How they interact: a port's main loop calls `Runner_beginFrame`, `Runner_step`, the draw
functions and `Runner_handlePendingRoomChange`. `Runner_step` dispatches events; an event runs
in the VM (`Runner_executeResolvedEvent`, `VM_executeCode`); the bytecode calls builtins of
`vm_builtins.c`, which call back into `runner.c`, mark instances dirty in the spatial grid,
use the pools and the file system, and may run more code. The renderer, the audio system and
the file system are tables of function pointers that a port fills in.

What makes each component correct, as far as this project says it:

* instances: nobody follows a pointer to a freed instance; every table agrees with the fields
  of the instances; Create fires once; the destroyed stay inactive and are freed;
* rooms: an instance is in one place, the room or one saved room; what a persistent room
  saved is what it restores (it is not, at game start); a requested room is entered;
* spatial grid: an active instance is found where it is, or is known to be out of date;
* VM: after an event, a call or an exception the caller finds its own state;
* arrays: a value assigned is a value copied, whoever shares the storage;
* overlay: writes go to the save directory, and a reader sees the last write;
* input: pressed and released are edges of down, and a replay repeats them;
* 3DS audio: the worker and the main thread never use a stream buffer at once, and a stop
  neither waits for ever nor leaves a stale buffer behind.

## Module `Runner`: instances and rooms

`stack` is the C call stack reduced to the frames that game code can interrupt: a piece of
game code, a dispatch loop, the loop of `takePersistentInstances`, the tail of
`Runner_destroyInstance`, and so on. Its head runs next. What runs no game code in between is
one action, so each interleaving of the engine with the code it calls is a behaviour.

| in the module | in the code |
|---|---|
| `heap` | which `Instance`s are allocated; ids are never reused except by `Runner_reset` |
| `instances`, `byId`, `byObject`, `byExact` | the arrays and the map of the same names; arrays are sets, the order of a loop is left open |
| `inst[i]` | `objectIndex`, `active`, `destroyed`, `persistent`, `createEventFired` |
| `saved`, `room`, `pendingRoom`, `roomPersistent` | `savedRoomStates`, `currentRoom`, `pendingRoom`, `room.persistent` |
| `phase`, `caller`, `target`, `carried` | where the engine is between two loops, and the locals of `initRoom` |
| `births`, `kept` | history: Create events of an instance, those of instance_change excepted; rooms that were saved when left |

`CodeOps[e]` says which builtins the code of event `e` may call and `Handlers` which objects
define which events, so a run chooses its own mix of game code. `Handlers` and the pending
room decide through `Execute` whether an event runs, as `Runner_executeResolvedEvent` does.

At the commit at hand `Runner_executeEventForAll` is cut short: in the branch for Step, Alarm
and keyboard events the lines that append each bucket to the snapshot are missing after line
518, with the brace that closes the loop (the file has one `{` more than `}`). `Dispatched`
takes them to be what the comment at line 504 and the names say.

Left out: layers, cameras, structs (`sweepDeadStructs` runs in `CleanupDestroyed` but touches
no instance of a room), the events between Step and Draw, which run as Step does, and the
order in which loops visit.

### Runs

| run | question | bounds |
|---|---|---|
| `life` | do the tables stay in step and own every instance while code creates, copies, changes and destroys across two rooms, one persistent? | 2 objects, one the parent of the other; 2 rooms with one instance each; one instance created at run time; code nested twice |
| `upheaval` | the same with activation and deactivation, also from the Destroy and CleanUp code of the instance itself, game_restart, game_end, room_set_persistent, changing persistence and room_goto from Step, Room End and creation code; and under fairness, is a requested room entered, is the destroyed freed? | no instance at run time, nested twice |
| `restored` (violation) | is a room restored from what was saved when it was last left, as runner.c:1816 says? (No.) | a persistent first room whose creation code calls room_goto |

`restored` is a finding: `Runner_initFirstRoom` leaves the first room, when code asked for another
one while the game starts, by `initRoom` alone (runner.c:3037) and not by way of
`persistRoomState`, but the first visit has marked the room as initialized. The next visit, or a
room_goto to the first room itself, "restores" a room in which nothing was saved: empty. A room
that was not persistent when it was last left and is when it is entered again fares the same,
with what an earlier visit saved in place of nothing.

Two objects are enough for a lineage and a change along it, two rooms for leaving, coming back
and carrying, one dynamic instance for an id that is not the room's, and two levels of code
for a call out of a loop out of a call. `MaxId` and `MaxCode` are the only bounds on the code;
both are guards of the actions named in the module.

Fairness (`upheaval`): the engine always takes its next step, and each piece of game code
returns. The first is the C program running; the second is an assumption about games, without
which nothing can be promised (the code has no watchdog).

### CleanUp code that looks at the whole room

While `takePersistentInstances` runs, `runner->instances` names instances it has freed, and the
CleanUp code it calls (runner.c:1707) may walk that array: instance_activate_all,
instance_deactivate_all, instance_activate_object and a with (all) do
(vm_builtins.c:8591-8716). From the second instance on they read freed memory. `WalkFreed` is that
step, and after it the model says nothing more (the frame `wild`, `Lost`). No text of the
repository says that such code is safe, and `NoDanglingPointer` is said of games without it: in
`life` CleanUp code destroys only. `upheaval` has it, and its properties hold up to that point. That nothing else
can go wrong with pointers, in any game, is the theorem `OnlyWalksDangle`.

### Seen while modelling, without a run

* `Runner_copyInstance` (runner.c:2783) calls `Instance_copyFields(new, source)`, which
  instance.c:108 defines as (source, destination): instance_copy overwrites its source with a
  blank instance, and revives it if it was being destroyed, against the comment at
  runner.c:2807. The module does what the code does; `DestroyedInactive` is said of games
  without it: add `copy` to `UpheavalOps` and it fails.
* The main loops of the 3DS, Wii and Wii U never call `Runner_handlePendingRoomChange`, and
  nothing else takes up `pendingRoom`: with `HandlesRoomChange = FALSE`, `RoomChangeHappens`
  fails.

And in the core: an instance that CleanUp code
creates during a room change stays in `instancesById` but in no list; deactivated instances of
a persistent room are freed when it is left; instance_change with events runs a Create event for
the object it turns into (vm_builtins.c:8584), which `births` does not count.

### Proofs (`RunnerProofs`)

The theorems hold for every value of the constants that satisfies `ConstantsAssumption`: any
game, any number of rooms and instances, any nesting of code. All invariants of the passing
runs and the action property `PersistentSurvives` are proved, some under a hypothesis about the
game; liveness stays with TLC.

`RunnerProofs` proves `TypeOK` and the invariant `InductiveInv` under all
the rest (`RunnerConsistent`). That a loop's snapshot stays allocated depends on who may free:
only `takePersistentInstances`, `CleanupDestroyed`, `PersistRoomState` and `Reset`, the last
three at points where no frame is open. `InductiveInv` says so in five parts:

* `IdsInv`: what is known by id is allocated, and the next id is unused;
* `ListsInv`: what is in an object list is allocated and belongs there, so that removing an
  instance along its lineage removes it everywhere;
* `OwnInv`: the room's, the carried and the saved instances are known and disjoint, so that
  freeing one group leaves the others;
* `StackSafe`: frames hold allocated instances; the take loop is outermost; the one instance
  it is about to free is already forgotten, so that the CleanUp code run in between cannot
  enter it into a new snapshot;
* `ClearInv`: pass 1 of `initRoom` meets empty lists.

Its second part adds one invariant per property, each inductive together with
`InductiveInv`. Its lemmas on frames say for every action which frames it pushes and pops
(`GameCodeFrames`, `HandlerFrames`), as sets of frames, so that an invariant about nested code
is proved without counting positions on the stack.

| theorem | invariant | under the hypothesis |
|---|---|---|
| `OnlyWalksDangle` | `InductiveInv`: where no freed instance was followed, `NoDanglingPointer` holds | none |
| `RunnerNoDanglingPointer` | the same and `OwnedInv`, which knows what code runs while a room is left | `NoBirthOnLeaving`, `NoWalkOnLeaving` |
| `ListsAgreeWithObjects` | `FilledInv`: what is in the room is in all its lists, except between their emptying and their filling | none |
| `CreatedOnce` | `BirthInv`: at most one open frame owes an instance its Create event, none once it has fired, and both set the mark that pass 2 of `initRoom` asks for | none |
| `PersistentOnesSurvive` | none: `InductiveInv` is enough | none |
| `DestroyedStayInactive` | `DeathInv`: what is destroyed and active is in the hands of an open `Runner_destroyInstance` | `NoCopy` |
| `EveryInstanceIsOwned` | `OwnedInv`: what is known is in the room, carried or saved; only CleanUp code and what it sets off runs while a room is left | `NoBirthOnLeaving` |

Each hypothesis is about what a game's code calls, and each is there because the property fails
without it, for the reasons given above:

* `NoCopy`: no code calls instance_copy, which revives its source.
* `NoBirthOnLeaving`: the code of CleanUp, Destroy and Create events creates no instances. These
  are the events that run while `takePersistentInstances` does, and what they create there
  stays in `instancesById` and in no list. (The model gives an event the same code at all times;
  what matters is only the code that runs during a room change.)
* `NoWalkOnLeaving`: nor does that code look at the whole room, as said above.

`life` satisfies the three but for `NoCopy`, `upheaval` all but `NoWalkOnLeaving`.

The proof of `CreatedOnce` showed that two guards of `RoomCreateStep` overlapped in an earlier
form of the module, where a CASE of TLA+ leaves the choice open; they now exclude each other as
the `if`s of the code do.

Only model-checked: `RoomChangeHappens` and `DestroyedFreed`, which are liveness.


## Module `SpatialGrid`: the collision grid

Collision builtins do not look at every instance of the room. Each instance is entered in the
grid cells that its bounding box covers; a move only marks it dirty and lists its id, and the
next query first repairs the listed instances. The module follows that cache along one axis of
the grid through all that happens to the instances meanwhile: they sleep and wake, are
destroyed in two steps with code between, become persistent, and leave with a room whose grid
is thrown away, to be freed, carried into the next room's grid or saved with theirs.

| in the module | in the code |
|---|---|
| `grid[c][i]` | how often cell `c` holds the pointer to instance `i` |
| `inst[i]` | the flags of `Instance`, `spatialGridDirty` and the remembered cells |
| `dirtyIds`, `known`, `instances`, `saved` | `dirtyInstances`, `instancesById`, `instances`, `savedRoomStates` |
| `phase`, `todo`, `carried`, `victim` | where `takePersistentInstances` is; CleanUp code runs inside it |
| `lost` | history: instances that the grid may have lost sight of, and why (below) |

| run | question | bounds |
|---|---|---|
| `grid_rooms` | does each query find those and only those it should, and is no freed or forgotten pointer left in a cell? | two rooms, one persistent; an instance placed in a room and one created; two cells of two pixels; instances across the cells, right of the room, so far right that a cell number wraps around, or without a box, and queries left of the room besides; cell numbers wrap at 4 |

A box across two cells meets the edge of each, from left of zero, where the conversion cuts the
other way; a box outside meets the clamping, on either side; one instance of each kind meets
every way to come and go, and they do not interact with each other.

A cell number is an int16_t (spatial_grid.h:51-54). `Truncate` cuts towards zero and keeps the low
bits: C leaves the conversion of a value too wide undefined, and the compiled code of the
usual targets goes through a wider integer. `HalfRange` is 2^15 in the code and 4 in the run, so that
`Far` wraps. Some two million pixels out, then, a box is in whatever cells it wraps to, or in
none when its ends come out in the wrong order, and queries miss it; `Near` names the boxes of
which this is not true.

`QueryFindsOverlapping` says both directions: a query finds what overlaps it, if both boxes are
near, and what it finds is an instance of the room (`FoundInRoom`), near or far. It leaves out the
instances in `lost`: those put to sleep while dirty,
carried while asleep, moved while asleep or saved, or saved while dirty. For these the code
does lose sight of an instance. In the last case, for one, `persistRoomState` keeps the
flag `spatialGridDirty`, the new grid has an empty list, and `markInstanceAsDirty` returns
early for a dirty instance, so after the return to the room no query finds it until something
clears the flag, and nothing does. Also seen, without a run: an instance deactivated with
entries in the grid keeps them, although `instance_deactivate_*` (vm_builtins.c:8659) says the
grid holds no inactive ones; and a query from CleanUp code during a room change enters
instances of the old room in the new grid, where they stay after they are freed. `CleanUpOps`
leaves queries out of the passing run for that reason.

### Proofs (`SpatialGridProofs`)

`TypeOK`, `EntriesRemembered` and `QueryFindsOverlapping` are theorems for every set of rooms
and instances, every size of room and cell and every set of boxes, as long as CleanUp code
makes no query while a room is left (`NoQueryOnLeaving`, for the reason above), and with what the
property itself leaves out: the instances in `lost` and the boxes that are not near.

That a query finds all it should is a promise about the past: whatever happened to an instance
since its cells were last computed either left it where it was or marked it. `IInv` carries
that through:

* `MarkedOrPlaced`: an instance of the room that is not in `lost` is marked, awake and in
  `dirtyIds`, or it is unmarked, its remembered cells are those of its box, and it is in each of
  them;
* `CarriedMarked`, `SavedUnmarked`: what of that still holds on the way to another room, whose
  list of dirty ids was emptied, and in a saved one;
* `EntriesRemembered`, `EntriesOfRoom`, `MarksOfRoom`: entries, and marks that will become
  entries, are of instances of the room, so that the search finds no stranger;
* `EmptyWhileLeaving`, `OnePlace`, `IdsFresh`: the new grid is filled only once the instances
  are there, an instance is in one place, and a new one has no marks.

The lemmas under it are about the operators: the cells of a
near box are monotonic in its corners (`QuotientMonotonic`, `TruncateFacts`, `CellRangeType`:
division, conversion and clamping), so overlapping near boxes share a cell, and what the repair of
one instance does to the cells of the others. On the instance of `grid_rooms` (1 970 659 states) TLC finds `IInv` true.


## Modules `GameFiles` and `Files`: the files of game code

`GameFiles` says what a game is promised: one directory. The files that come with the game can
be replaced but not lost; a text file appears whole when it is closed; a binary stream finds its
file emptied or as it was, as the mode says (file_system.h:17-20), and changes that file only; a
crash leaves the files as they are but for what streams still flush. `Files` is the code: ini, text, binary and buffer builtins over the overlay
of a save directory on the bundle, or over the file system of the 3DS. `OneDirectory` is the
refinement, with what a read by relative name returns as the abstract file.

One step of `GameFiles` is no promise but a named departure from one, `HideShipped`:
GML_FILE_BIN_READWRITE "preserves contents otherwise" by file_system.h:20, and the overlay opens a
shipped file that has no replacement, when the bundle cannot be written, as an empty file
in the save directory (overlay_file_system.c:247-253). The refinement holds with that step, for unreplaced shipped
files, and fails without it.

| in the module | in the code |
|---|---|
| `disk` | the files of both directories |
| `resolved` | `resolvedPathCache`, on the 3DS only (`Cached`) |
| `currentIni`, `cachedIni` | the same, with path and dirty flag; an ini has one key |
| `texts` | `openTextFiles`: the name and the buffered text of a writer |
| `bins` | `openBinaryFiles`: directory, name, position, and the bytes in the C library's buffer, which may be flushed at any time |
| `strays` | history: names whose file changed, or could not be written, without their ini |

A name is relative or, after `working_directory`, already resolved to the bundle (`full`).

| run | question | bounds |
|---|---|---|
| `files` | do overlapping handles, inis and deletions of a file leave what the abstract directory says, across restarts? Do inis agree with their files? | a file of the bundle by both its names; bundle not writable; two text handles, one binary; contents of at most one token |

`IniAgreesWithFile` includes that the open and the cached ini are never two copies of one file
(`OneCopyOfIni`).

`cleanupState` closes the FILEs in the order of their slots (`Closed`): two of them may be on one
file, and the last one wins.

**Proved** (`FilesProofs`), for any files, names, contents, slots and bundle:

* `TypeCorrect` and `IniAgrees`, on the desktop and on the 3DS. The inductive invariant `IInv` adds
  `Buffered`: what waits in a buffer fits behind the position of its FILE, and waits only where the
  FILE may be written; without it a flush could leave the types, and a file opened for reading
  could change one. Each action is one of four kinds, with a lemma each: it changes open files only
  (`DiskKept`), it changes the disk and counts the names that read differently (`StraysCounted`),
  it changes inis and not the open files (`InisChange`), or it forgets everything (`ForgottenIs`).
* `OneDirectoryHolds`: the refinement, if the overlay is the desktop's and the bundle cannot be
  written (`Desktop`); with either condition dropped it is false, as said below. The invariant adds
  `Saved`: the bundle is as shipped and every FILE that may write is in the save directory. The
  map of the state is `Fs`, `Ws`, `Ss`; a lemma for each abstract action says what these three have
  to do (`OpensWriter`, `Extends`, `ClosesWriter`, `Stores`, `BeginsEmpty`,
  `BeginsUpdate`, `HidesShipped`, `Writes`, `Deletes`, `Halts`, `Stutters`), and
  one lemma for each action of the code (named `...Seen`) which of them it takes. Reading, opening an ini and
  filling a buffer are stutters; a flush is a `Write` to the one file it reaches.
* Closing all FILEs is a recursive function over their slots. That it exists (`ClosingExists`) and
  loses no file (`ClosedIs`) is shown by taking the least slot for which it would fail.

One file is enough for TLC because the code treats files independently but for the one open and the
one cached ini, which the two names exercise.

Seen while modelling, without a run: `ini_open` returns the cached ini of a path (vm_builtins.c:7366)
though the file was since replaced by file_text_close, buffer_save or file_bin, or deleted; the 3DS
looks in romfs first unless the file was written in this session (n3ds_file_system.c:145), so
that after a restart what the game wrote over one of its own files is not read (`OneDirectory`
fails with `Cached = TRUE`); a write under `working_directory` goes to the bundle, if the system lets it,
although the overlay's header calls it read-only, and deletion then does not bring the shipped
file back (`OneDirectory` fails with `BundleWritable = TRUE`); the table of functions of the 3DS has
no binary functions, and file_bin_open calls through the null pointer.

A write truncates the file first (overlay_file_system.c:166), so that a crash before fclose
loses the old contents; the model takes both as one action.

Not modelled: directories, file_find, reading positions, a failure in the middle of a write.
Deleting a file that is open is taken to work as in POSIX.

## Module `VMCalls`: calls, with-blocks and exceptions

One C function, `executeLoop`, runs all bytecode. Scripts and methods call it again through
`VM_callCodeIndex`, events through `executeCode` of `runner.c` and `VM_executeCode`; all share
one value stack, one list of with-environments, one of exception handlers and one pair of
registers self and other. Who restores what differs: a script keeps the stack below its own
and counts in `callDepth`; an event starts an empty stack and does not count.

| in the module | in the code |
|---|---|
| `frames` | the calls of `executeLoop` on the C stack, with what `CallFrame` or the locals of `executeCode` save; `blocks` is the position in the bytecode |
| `envStack` | `EnvFrame`s, with the instances still to come |
| `handlers` | `exceptionHandlerFrameStack`; `frame` and `block` stand for the address |
| `stack` | the values of the stack, each as the frame it belongs to |
| `exception`, `parkedException`, `callDepth` | the same |
| `halted` | the program stopped, or went where the model does not follow |
| `abandoned`, `muddled` | history: with-blocks left by an exception; a finally that was left while it ran for an exception, or that lost, or parked over, another's |

What the compiler makes of try, catch and finally is read from the bytecode of the
repository's test game (`tests/try-catch-finally-test`) and stated at the head of the module.
Each action is one instruction or builtin call, or one thing the head of the loop does with a
pending exception (`Swallow`, `Propagate`, `JumpToHandler`, `JumpAstray`). The compiler does
not emit a return inside a try statement in that game, and the model has none.

| run | question | bounds |
|---|---|---|
| `vm` | do callers find self, other, operands and handlers as they left them, and is every exception dealt with? | frames and the blocks they are in, four together; one operand; two handlers; two instances; nothing new begins once an exception has left a with-block |

Four levels hold a try or with in each of two codes, or one in a code that calls through two
more, and the properties relate neighbours in the nesting. The run takes half a minute; five
levels were run once by hand (over a million states) and agree.

Fairness: `WF_vars(Next)`, the interpreter goes on and so does the event loop, which a running
game has. `ExceptionsSettle` needs the event loop: after `ThrowLast` the exception waits for
the next code.

Two properties have a condition, and the condition is the finding. `ContextFollowsCode` holds
until an exception leaves a with-block: `executeLoop` cuts the value stack back to the
handler's height but not `envStack`, so that the catch block runs with the self of the
with-block, and a later PopEnv or with (other) goes back to whatever instance was saved, freed
or not. `ParkedForItsFinally` holds until finally
blocks meet: an exception leaves one that runs for another or is parked over another, or a finally inside
another ends while that one's exception is parked. There is one `parkedException`, so the inner statement's end takes
the outer one's exception, and one left behind is thrown again by the next finally anywhere.

Seen without a run: a handler is known by its call depth, and events do not count. A try
block that creates an instance whose Create event throws gets the exception taken to the
handler's address in the bytecode of the Create event.

Also seen: a throw as the last instruction of an event stays pending until the
next code begins, which is dropped with it (`ThrowLast`, then `Swallow`); `VM_reset` frees
pending and parked exceptions and keeps the pointers, and `Runner_reset` calls it twice;
a throw in a catch block skips the statement's own finally block, since its handler is gone
by then.

Not modelled: arguments, results and locals, whose lifetime is that of the frame; the balance
of SAVEAREF, which an exception can leave odd, so that the program stops; what an instruction
does with values.

### Proofs (`VMCallsProofs`)

All five invariants are theorems for every nesting of code and blocks, any number of operands,
handlers and abandoned with-blocks, and any instances, without hypotheses beyond the module's
assumption. They follow from one inductive invariant, `Inv`; no part of it is inductive without
the others, since what a return or a landing restores is what the entry saved:

* `FramesFit`: every frame is well formed. Within a frame only a with-block changes self and
  other (`Steady`), operands are never below those of an open block (`Stacked`), a landing and
  a skipped with are always the innermost block (`Orderly`), and a script inherits its caller's
  registers (`Inherits`). `callDepth` is the number of scripts and methods.
* `HandlersFit`: each handler is of an armed block, with the depth and the stack height at which
  it was entered, each armed block has one, and they are in the order of the blocks. This is
  what makes `Last(handlers)` the right one for every pop in the bytecode: if its depth is the
  current one, or there is none, no armed block of the running code is above it.
* `OperandsFit`: what each frame has saved of the stack is its caller's operands above those of
  the callers before.
* `EnvsFit` and `ContextInv`: there are as many environment frames as open with-blocks and
  abandoned ones together; if none is abandoned, each holds the self and other around its
  block, and each frame those of its caller.
* `ParkedInv`: without a muddle, at most one block runs for a parked exception, and one is
  parked exactly if there is one.
* `PendingCalm`: an exception is only pending in code that was at a statement.

The module first says what entering, leaving and replacing blocks and frames does to each part;
then come one lemma per action, `NextStep` that puts them together, and the theorems.
On the instance of `vm` TLC finds `Inv` true. Only model-checked: `ExceptionsSettle`, which is
a liveness property.

## Module `EventDispatch`: loops over instances while code changes the lists

`Runner_step` is a list of loops, each handing one event to the instances of a list. `agenda`
is what is left of that list, as pairs of an event and the objects still to be done for it, taken least
first; `stack` is the C stack: loops and the game code they run, which may
start loops of its own (`AssignLives` dispatches "no more lives", `WriteAll` sets a variable of
every instance of an object, `Query` stands for the builtins that copy a list and drop it).

| in the module | in the code |
|---|---|
| `arena`, `arenaCap`, `arenaEpoch` | `runner->instanceSnapshots`, a stb_ds array used as a stack; the epoch counts reallocations |
| `scratch`, `scratchCap`, `scratchEpoch` | `runner->eventDispatchInstances`, filled anew by each `Runner_executeEventForAll` |
| a loop's `via` | where its copy is: arena by index, arena by raw pointer, scratch |
| a loop's `snap` | the model's record of what was copied; the code has no such thing |
| `bucket` | `instancesByExactObject`, and without parents also `instancesByObject` |
| `ticks`, `changed` | history of this step: alarm decrements, instances that changed object |

| run | question | bounds |
|---|---|---|
| `dispatch_step` | are the copies outer loops walk in the arena still theirs after any code inside, and those in the scratch array as long as nothing inside refills or moves it; do alarms count once? | two objects, two instances and two newborn, every kind of loop, three calls by game code, three codes deep, one step; arrays grow from three |
| `dispatch_mouse` | does the pointer the local mouse loops hold stay valid? (No.) | the same |

`MinCapacity` is 3 in the runs and 4 in stb_ds, so that two instances and one nested copy
already move an array. Objects are the numbers below `ObjectCount`, in whose order the buckets
are done. Three calls are enough for a loop, code that starts a loop in it and
code in that one that changes the lists. One step: no array content outlives a step.

Finding (`dispatch_mouse`): the copy of the local mouse events is walked by pointer and a push
inside a handler may move the arena. The other loops index the arena anew each time.

`LoopsReadTheirCopies` has two parts, `ArenaIsTheLoops` for the loops over the arena and
`ScratchReads` for those over the shared array. `ScratchReads` has a condition, and the condition is the finding's neighbour: a dispatch inside
a dispatch (setting `lives` or `health` to zero in a Step event is enough) overwrites the
instances the outer loop has still to visit, so that it skips some and visits others twice, and
when it grows the array the outer loop's local pointer dangles (line 538). The comment at line 504 has
the loop walk the snapshot taken before dispatching; the property says where that is so.

Also seen, without a run: an instance created by an alarm or a collision does run in the same
phase when its object comes later (each bucket is copied when its turn comes), though the
comments at lines 4241 and 3536 say it does not; an instance that changes object in a loop
still runs the code of its old object; an instance that destroys or deactivates itself in a
collision event goes on colliding with the rest of that object's list (line 3564 asks `other`
only); the moments of a timeline run after `room_goto`.

The source at hand lacks the lines after 518 that append a bucket, with a closing brace; the
model takes them to do what the comment at line 504 says. Mouse stages stand for ten subtypes,
`Keyboard` for all keys, one alarm for twelve; view events (`dispatchOutsideViewEvents`) have
the shape of `OutsideRoom`.

### Proofs (`EventDispatchProofs`)

`TypeOK`, `LoopsReadTheirCopies` and `AlarmOncePerStep` are theorems for any objects, instances
of the room, handlers, collision tables, game code and depth of nesting, without hypotheses
beyond the module's assumption.

The inductive invariant `IInv` holds the types and

* `ListsInv`: an instance is at most once in a bucket, which is that of its object, and no list
  names one that was not created yet;
* `AgendaOK`: an entry of the agenda is for the list of all instances or for some objects, and
  alarms are due once;
* `FramesOK`: what each loop on the stack knows of the scratch array and of the list of all
  instances. A loop over that list has copied a beginning of it, since instances are only
  appended while loops run; that is why a nested dispatch over the list overwrites the scratch
  array with the same beginning;
* `ArenaOK`: the copies lie in the arena one after the other, the inner above the outer, and
  cover it. The top one ends where the arena does, so that a push above it touches none and its
  pop leaves what was there.

Each step is shown to keep `World`, that is `FramesOK` and `ArenaOK`, by a lemma per way of
changing the stack: push and pop of a frame, of a copy, advance of the top loop, refill of the
scratch array. Filtered and sorted lists are given by rank (`Nth`, the k-th of a finite set of
numbers), whose existence a least-number argument gives, and the concatenated buckets by a
recursive function over the number of objects.

`AlarmInv` is inductive relative to `IInv`: an alarm loop is the outermost one, walks a copy of
the bucket of an object that is no longer due, and has each instance once (`AlarmLoops`); an
instance whose alarm was counted is neither ahead in that loop nor in the bucket of an object
still due, unless it changed object in this step (`AlarmTicks`). `Follows` says of a step that it
leaves the alarm loop where it was or moves it on, which is all that most actions need. TLC
found the strengthening true on the instance of `dispatch_step` before it was proved.

The counterexample of `dispatch_mouse` is not contradicted: the theorem says what the arena
holds, the finding that a pointer into it may be one into its former place.

## The audio worker of the 3DS: `N3DSAudio`

Source: `src/src/n3ds/n3ds_audio_system.c`.

Three actors share the instances: the thread of the game (`main`), which calls
play, stop, seek, pause, destroy and, once a frame, update; the worker thread
(`worker`), which reads the next part of a stream or warms the cache of sounds;
and the DSP, which plays what is queued on each channel (`PlaysOut`, modelled
from how the code uses it).  One lock guards everything except the reading
itself, between `PickFill` and `EndFill`.  The game gives the lock up in one
place only, asleep on a condition variable until the worker has put its answer
down (`WaitForFillIdle`, `Relock`).  Calls that may have to wait are a step that
takes the lock, steps that release or cancel one instance each, and a step that
returns; the others are one action.  `UpdateBuffer` is the body of the inner
loop of update for one buffer, because the DSP moves between two of them.

A file is `NumChunks` chunks long, one to a buffer.  Samples, ADPCM contexts,
volume, pitch, file paths and the tick at which a sound may be released are left
out, and the byte budget of the cache with them: a cached sound counts as one.
The round robin of channels is the least free one, and the cursor over the
sounds to warm is any sound not yet tried.  A read that fails while a stream is primed or
filled at once is left out (it leaves fewer buffers filled, in the same order), and a start that
fails is one step whose result is what the clean-up gives back (`AfterFailure`): all of it happens
under the lock.  Streams are the native ADPCM ones:
the path that decodes to PCM (`startFileStreamPlayback`) is never called.

| Run | Instance | Shows |
| --- | --- | --- |
| `audio` | two instances (one reserved for streams), three channels, two buffers, a stereo stream of three chunks that loops and one sound, three calls, with and without a worker | The buffer the worker writes is in no channel's queue and its instance stays the stream it was, and the DSP has nothing of a freed instance (`BufferHasOneUser`, which is `WorkerOwnsBuffer` and `DspReadsLive`); each lane of a stream plays its chunks in order across seeks, loops and late answers (`PlaysInOrder`); channels are owned by one active instance each, also after a start that failed halfway (`ChannelsOwned`). |
| `audio_live` | one instance, two calls | Calls return although they wait for the worker (`CallsReturn`); a stream that does not loop ends (`StreamEnds`). |

Three calls are enough for play, play and seek (or stop, or destroy) with a fill
under way, for a second start that finds one channel free, and for a third sound
that finds no instance.

Fairness: the game goes on calling update (`WF` of its steps), and the worker
gets the lock again and again because the game leaves it alone between frames
(`SF`); the DSP plays.  With two streams at once nothing but real time keeps the
first, whose request is always looked at first, from starving the second; the
run has one stream at a time.

Seen while modelling, and said by no property:

* The event is sticky and never cleared, so that from the first request on the
  worker no longer sleeps; no wake-up can be lost.  A request to warm the cache
  that is made while music plays signals nobody; if the worker has never been
  woken it rests until a stream needs it.
* The check of the generation in line 2671 never fails: whoever changes the
  generation has waited for the worker.  Ids of instances are a base and the
  slot, so that a stale id stops whatever plays in the slot now.
* A seek that cannot read the file (`SeekFails`) returns with the channels cleared
  and the status of their buffers as it was: such a buffer stays busy, and the
  instance is never given back by update.  `StreamEnds` names the case
  (`Stranded`).
* `StoreSound` overwrites a path that the thread of the game may have resolved in
  the meantime.

### Proofs: `N3DSAudioProofs`

From `AudioAssumption` alone, for any number of instances, channels, buffers and chunks, the
module proves `InvHolds` (`Spec => []Inv`) and from it `TypeCorrect`, `EachChannelHasItsOwner`,
`BuffersHaveOneUser` and `StreamsPlayInOrder`.  None of the three properties is inductive: that
the DSP hears chunks in order depends on the order in which they were queued, and that on the
worker reading the chunk its instance comes to next.  `Inv` has three parts.

* `Sounding` is about the slots.  Each one is `Good`: an active stream has its channels and their
  buffers' states in step (`Paired`, `LanesAgree`); what is asked of the worker is a buffer that
  is free, to be filled with the chunk at the cursor (`FillIsFree`, `FillIsNext`); in each lane
  the queue holds exactly the busy buffers (`Owed`), the chunks heard and queued follow each
  other, and the last of them reaches the cursor (`InOrder`, `Reaches`).  Besides, a channel in
  use is that of one slot, and one not in use has an empty queue.
* `Counters` gives the types of what belongs to one thread: the call under way, the worker's
  place, the references of streams.
* `Filling` says of the worker that reads without the lock that its slot is still the stream
  that wants this buffer, and that the cursor is where it was.

Nearly every step changes one slot and the queues of its channels.  `OneSlotChanges` is the
argument for them all: if the new slot is `Good`, the queues of other channels are as they were
and its channels are its old ones or free ones, `Sounding` holds again.  What a step is left
with is the slot it changes (`PrimedIsGood`, `ReclaimedIsGood`, `FilledIsGood`, ...).

`CallsReturn` and `StreamEnds` are liveness properties and stay with TLC.

## Module `Timers`: what the step does later

Source: `runner.c` 4190-4455 and the builtins of `vm_builtins.c` that feed it.

Game code asks for something now and hears of it later: a callback of call_later, the answer
to a buffer saved or loaded asynchronously, to the account picker, a gamepad that came or
went, a video that ended. The step walks the arrays that hold the requests and runs game code
on the way, which makes and cancels requests. Each action is a stretch in which no game code
runs.

| in the module | in the code |
|---|---|
| `entries`, `capacity` | `callLaterEntries`, a stb_ds array; the place stands for the id |
| `held` | the local `entry` of the loop, a pointer into that array across the callback; `damaged` names the entries it should have changed and could not |
| `queue`, `pending`, `nextRequest`, `group` | `asyncSaveLoadQueue`, the local copy, `asyncBufferNextRequestId`, the open group |
| `answered`, `lost` | history: requests taken up, in order; those of them whose event did not run |
| `picker`, `pads`, `video` | the pending picker, slots whose connection changed, `gVideoStubState` |
| `maps`, `asyncLoad` | `dsMapPool` as far as answers are in it, `asyncLoadMapId` |
| `stack` | handlers under way; `runs` says whether the listener hears of the event (`isEventBlockedByPendingRoom`) |

| run | question | bounds |
|---|---|---|
| `timers` | are callbacks called once (those in `damaged` excepted), requests taken up once, in order and in the end, and heard of unless a pending room blocks the event; is async_load the event's own? | periods of one and two frames, any eleven kinds of call, three calls in all, two entries, five maps, handlers nested three deep, one gamepad |

Three calls are enough for a request made in the answer to another, for a callback that cancels
itself and arms the next, and for a video within an answer within a step; four calls were run
once by hand (three million states) without the liveness property and agree. `MinCapacity` is 1
and not the 4 of stb_ds, so that the second entry already moves the array. Only one listener:
what several do to one another is the subject of `EventDispatch`.

Fairness: `WF_vars(MainLoop)`, handlers return and the next frame comes. Game code owes nothing.

`CallbacksOnce` leaves out the entries in `damaged`, and that is the finding: when a callback
calls call_later and the array moves, the step writes `active = false` and frees the callback
through the old pointer. The entry in the new array stays armed and runs again, with a callback
that has been freed. No text of the repository promises otherwise, so there is no run for it.

Also seen, without a run:

* The bound of the loop over entries is evaluated anew for each (`repeat` in `utils.h:45`):
  a callback that arms call_later with a period of one frame or less hears from it in the same
  step, and if it does so each time the step never ends. `MaxEntries` hides it.
* The comment at `vm_builtins.c:9607` has the event fire on a later frame; a request made before
  the asynchronous part of a step is answered in that step.
* While a room change is pending, a listener that is not persistent in a room that is not
  persistent does not hear of its answer, and the answer is gone (`runs`, `lost`). `Answered` says so: what is
  asked for is heard of, lost in this way, or forgotten by a restart of the game.
* video_open in the handler of video_end is closed at once by the line after that event.
* The account picker keeps one request, the latest; the ids of earlier ones are never answered.

Left out: timers in seconds, which add another increment; what is saved and loaded (`Files`);
Room End and Room Start code, which may do what `work` does; timelines (`EventDispatch`).

### Proofs (`TimersProofs`)

`TypeOK`, `CallbacksOnce`, `AnsweredInOrder` and `AsyncLoadIsTheEvents` are theorems for any
number of callbacks, requests, maps and gamepads and any depth of handlers, without hypotheses
beyond the module's assumptions. `IInv` has these parts:

* `StackOK`: the step calls one handler at a time, at the bottom of the stack; all above it are
  events of a video, started from a handler, and each remembers the map of the handler it
  interrupted. That is what makes async_load come back right when it returns.
* `AtItsStage`: the handler under way is the one the stage of the step calls, and the place the
  loop is at is within the array it walks, although game code appends to another one meanwhile.
* `Owed`: a callback that is to run once has run only while it is running, and is armed exactly
  as long as the entry holds a reference, entries in `damaged` excepted.
* `Numbered`: requests answered, walked and waiting are numbered through without a gap. This is
  `AnsweredInOrder` position by position, which the provers can reason about; the theorem puts
  the three sequences together again.

On the instance of `timers` TLC finds `IInv` true (608 431 states). Only model-checked: the
liveness property.

## Module `GmlArray`: arrays, counts and copy on write

Source: `gml_array.c`, `rvalue.h`, the instructions of `vm.c` that touch arrays, `array_set`.

To game code an array is a value in some instructions and a reference in others, and the
storage is always shared until somebody writes. Three things have to agree: the count of an
array, the owner it was last written under, and the operands of the value stack, most of which
look at an array without counting. An action is one instruction; an event runs, and may call
one script at a time.

| in the module | in the code |
|---|---|
| `heap` | the `GMLArray`s: `refCount`, `owner`, the cells; an array is named by its allocation, not its address |
| `slots` | global and instance variables, the script's one local and one argument (`selfVars`, `localVars`, `scriptArgs`) |
| `stack`, `frame` | the value stack, the call under way and the arguments its caller will free |
| an operand's `kind` | `ownsReference`, and whether it is the array reference of a chain; `at` is history: the owner token when it was made |
| `modern`, `currentArrayOwner` | wadVersion 17 and the token BREAK_SETOWNER left; before that the owner is the variable's address |
| `status` | stopped by the assertion of BREAK_POPAF, or by the use of a freed array, beyond which nothing can be said |

| run | question | bounds |
|---|---|---|
| `arrays` | do counts count their holders; does a write stay with the writer; does a chain `a[i][j] = v` end in an array it may write to? | both formats; two globals, a local, an argument; three arrays between instructions; the index 2, so that growing fills a gap; seven instructions from an array shared by both globals, flat or holding another one twice, that an earlier event left; one token and nullptr; the globals are symmetric |

Seven instructions are what the longest case needs that starts from such a shape: the value,
the array reference, a call in the index whose script sets the token and returns, and the
store. The shapes are what makes seven enough, since to build them takes as many again.
Operands stand where the compiler puts them (a value under the reference of the chain that
writes it, a call between the two), and `Popz` also stands for using up a call's result as
that index. The run takes about two minutes.

`MaxLength` bounds the cells of an array. `Release` says what the recursion of GMLArray_decRef
comes to and not how it gets there: with an array whose last reference goes, it frees
(`FreedWith`) what only freed arrays still held, and every other array loses one count per cell
that held it. Of the shapes, `ShapesAssumption` asks what earlier events make true: cells and
globals hold numbers or arrays that exist, and every array is held by somebody.

`OthersKeepWhatTheySee` is the promise of `gml_array.h` 14-17 with its exception: what the
writer owns it changes in place, for everyone who shares it. array_set, array_push and their
like write in place whoever owns the array, by design, and are not in the property. It and
`CountsOwners` end where undefined behaviour begins, and that is what was seen, without a run:

* An operand that looks at an array does not keep it. `f(a)` where the script assigns to the
  global the array came from, and array_set that overwrites the cell which held the last
  reference to the value (it frees before it holds, vm_builtins.c:6163), leave a pointer to
  freed memory (`FollowDangling`, the `dangling` case of `ArraySet` and `BreakPopAF`).
* In the older format the owner is the address of a variable, and a script's locals are
  allocated anew in each call: an array whose owner was a local of a script that returned is
  written without a fork by the local that has the address next.
* `currentArrayOwner` is not restored when a script returns. A chain that writes and whose
  index calls a script with another token reaches the assertion of BREAK_POPAF (line 2810) and
  the game stops (`BreakPopAFAborts`), although the comment above it expects the fork at the
  top to be enough; `ChainsAreForked` says when it is.
* A chain that reads makes the arrays it does not find, and from its second index on forks as
  if to write (`BreakPushAC`).
* `gml_array.h` 58 says gaps are filled with undefined; they are filled with zero. Reading out of
  range gives undefined. The model has zero for both.
* An array that contains itself is never freed.

Not modelled: strings, structs and methods in cells, the other array builtins, `Dup`, rows
beyond the first of the older format, chains through instances, lengths near overflow.

### Proofs (`GmlArrayProofs`)

The three invariants and the action property are theorems for any variables, tokens, shapes and
bounds that meet the two assumptions of the module. They follow from one inductive invariant, `IInv`:

* `Fits`: the types, with what they leave out: the frame's base is within the stack, without a
  call there are no arguments and the argument is zero, and before wadVersion 17 there is no token.
* `HeapOK`: an array whose count is zero has no cells. Without it a freed array would still
  count as a holder.
* `Ledger`: unless undefined behaviour was reached, the count of every array is the number of
  variables, operands and arguments that own it plus the cells that hold it. `CountsOwners` is
  this, but one instruction moves references between these places several times, so that the
  ledger is kept as a debt: `Ledger(h, n)` says that the heap `h` is right for `n` references
  from outside the arrays, and every operator of the model has a lemma that says how it changes
  both (`Retain` takes one up, `Release` settles one, `Create` and `Fork` leave one for the new
  array, `Vacate` and filling a cell turn one into the other).
* `Chained`: the references of chains are arrays, and those that write have the owner token
  they were made under. A count alone would not be enough: the owner is what no other
  instruction can take away, while anyone may share the array.

The lemma about `Release` is the one that carries the rest: what `FreedWith` frees is closed
under "held by freed arrays only", so that nothing that is still held is freed and nothing that
is freed still holds. There is one lemma per action, `IInvKept` puts them together. On the
instance of `arrays` TLC finds `IInv` true.

`OthersKeepWhatTheySee` compares what is reachable before and after a write that goes through
several stages (hold the value, fork, grow, fork the inner array, fill the cell, free what was
there), some of which free arrays. The argument has four parts:

* `ReachIs`: whatever has the value and is closed under the cells that are reached has all that
  is reached. It is what stands for an induction over the steps of `Reach`: the first step that
  leaves such a set would have a step before it that does not (`LeastOf`).
* `Alters(g, h, A)`: from heap `h` to heap `g` only the arrays in `A` are written or made, others
  may be freed. Every operator has such a lemma beside its `Ledger` lemma, and they compose.
* `StillSeen`: if no stage writes what is seen through a variable, all of it is still there at
  the end, because the ledger counts the variable and every cell on the way.
* `SeenTwice`: an array that one variable sees and another one holds has two references. So the
  test `refCount > 1` of the older format is enough to keep a write out of arrays others see;
  with wadVersion 17 the array's owner is the writer's, which is the exception of the property.

## Plan

1. done: `Runner`, `SpatialGrid`, `Files` under `GameFiles`, `VMCalls`, `EventDispatch`,
   `Timers`, `N3DSAudio`, `GmlArray`.
2. done: the inductive invariants and all safety invariants of `Runner`, `SpatialGrid`,
   `Timers`, `VMCalls`, `EventDispatch`, `N3DSAudio`, `Files` and `GmlArray` as theorems, the action properties of `Runner` and `GmlArray`, and the refinement of `GameFiles` by `Files`.
3. `StructRefs`: reference counts of structs and methods, and the sweep of the registry.
4. `Input`, `IntHashMap`, `DsPools`, the surface stack and the drawable cache.

Abstract specifications worth stating: arrays as values above `GmlArray`, a finite map for the
hash map, a world of rooms and instances for `Runner`.

## What is proved and what is only model-checked

| module | theorems | only TLC |
|---|---|---|
| `Runner` | every invariant of the passing runs, one action property; `NoDanglingPointer`, `EveryInstanceOwned` and `DestroyedInactive` under hypotheses about the game | liveness (`RestoresWhatWasSaved` is false: the finding) |
| `SpatialGrid` | every invariant | - |
| `Timers` | every invariant | liveness |
| `VMCalls` | every invariant | liveness (`ExceptionsSettle`) |
| `EventDispatch` | every invariant | - (`MouseSnapshotLive` is false: the finding) |
| `N3DSAudio` | every invariant | liveness (`CallsReturn`, `StreamEnds`) |
| `Files`, `GameFiles` | every invariant; the refinement, for the desktop | - |
| `GmlArray` | every invariant, the action property | - |

Liveness and ENABLED are out of the provers' reach everywhere and stay with TLC.

## Not modelled

* Renderers and texture caches: they end in a GPU. The caches of the 3DS would be worth a
  module, but at this commit the renderer does not fit the table of functions it fills in
  (`renderer.h` lacks members it sets, and holds unresolved merge markers), so that no call
  reaches part of it.
* The loader, JSON, strings, text and images: sequential readers and formatters without state
  between calls; a test with a file says more than a model without one.
* Tools, tests, vendored code, debugging aids: not part of the running game.
* Windowing, settings, front ends, the mixers of the other ports: calls of platform libraries.
* The several hundred builtins that only read or set a field, and arithmetic, comparison and
  conversion in the VM: data, which no property here tells apart.
* Input, data structure pools, hash maps, structs and methods, surfaces: planned above. The
  pools, the hash maps and the surface stack are small sequential structures; input and
  structs are the next to gain from a model.

