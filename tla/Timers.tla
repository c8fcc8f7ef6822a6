-------------------------------- MODULE Timers --------------------------------
(***************************************************************************)
(* What Runner_step (src/src/runner.c) calls later on behalf of game code: *)
(* the entries of call_later, and the events that answer an asynchronous   *)
(* save, an account picker, a gamepad that came or went, or a video.       *)
(*                                                                         *)
(* Callbacks and handlers are game code: they add and cancel entries, make *)
(* further requests and ask for another room while the step walks the      *)
(* arrays that hold all of this.  An answer is handed over in a map whose  *)
(* id is the global async_load; a video's events nest in other handlers.   *)
(*                                                                         *)
(* One instance listens to every event.  Time is counted in frames.        *)
(***************************************************************************)
EXTENDS Integers, Sequences, SequencesExt

CONSTANTS
    Periods,        \* periods game code asks for, in frames
    MinCapacity,    \* least capacity of a stb_ds array (4)
    Pads,           \* number of gamepad slots (MAX_GAMEPADS)
    Ops,            \* what game code may do
    MaxOps,         \* bound on what game code does
    MaxEntries,     \* bound on the entries of call_later
    MaxMaps,        \* bound on the maps
    MaxDepth        \* bound on handlers nested in handlers

ASSUME TimersAssumption ==
    /\ Periods \subseteq Nat /\ MinCapacity \in Nat \ {0} /\ Pads \in Nat
    /\ {MaxOps, MaxEntries, MaxMaps, MaxDepth} \subseteq Nat
    /\ Ops \subseteq {"callLater", "cancel", "save", "group", "picker", "video", "open", "close",
                      "destroyMap", "goto", "restart"}

VARIABLES
    entries,        \* runner->callLaterEntries; an id is the place in the array
    capacity,       \* of that array
    held,           \* the pointer `entry' of the step: how it stands to the array
    damaged,        \* entries a write through a dangling `entry' was meant for
    queue,          \* runner->asyncSaveLoadQueue, the request ids
    pending,        \* the copy the step walks
    nextRequest,    \* runner->asyncBufferNextRequestId
    group,          \* operations of the open group, or -1 when none is open
    picker,         \* runner->xboxAccountPickerPendingId >= 0
    pads,           \* slot->connected # slot->connectedPrev, for each slot
    video,          \* gVideoStubState
    maps,           \* runner->dsMapPool: the answer each map holds, if any
    asyncLoad,      \* runner->asyncLoadMapId
    pendingRoom,    \* runner->pendingRoom: "none", "room" or "restart"
    persistent,     \* the listener, or its room, is persistent
    stage, at,      \* where the step is
    stack,          \* game code running, innermost first
    ops,            \* things game code has done
    answered,       \* history: requests answered, in order
    lost            \* history: those of them whose event did not run

timers == <<entries, capacity, held, damaged>>
requests == <<queue, pending, nextRequest, group, answered, lost>>
others == <<picker, pads, video>>
answers == <<maps, asyncLoad>>
rooms == <<pendingRoom, persistent>>
place == <<stage, at>>
vars == <<timers, requests, others, answers, rooms, place, stack, ops>>

NoMap == -1
Empty == "empty"
Answers == {"pad", "dialog", "save", "videoStart", "videoEnd"}
Video == [isOpen: BOOLEAN, start: BOOLEAN, end: BOOLEAN]  \* startDispatched, endDispatched
Closed == [isOpen |-> FALSE, start |-> FALSE, end |-> FALSE]
Entry == [active: BOOLEAN, repeat: BOOLEAN, period: Nat, elapsed: Nat, refs: Nat, fired: 0 .. 2]
\* Game code: what it answers, the map it was given, async_load before it, and whether it runs.
Frame == [kind: Answers \cup {"callback", "work"}, map: Int, prev: Int, runs: BOOLEAN]
Stages == {"input", "timers", "work", "pads", "dialog", "saves", "room"}

TypeOK ==
    /\ entries \in Seq(Entry) /\ capacity \in Nat /\ Len(entries) <= capacity
    /\ held \in {"none", "live", "dangling"} /\ damaged \subseteq Nat
    /\ queue \in Seq(Nat) /\ pending \in Seq(Nat) /\ nextRequest \in Nat /\ group \in Int
    /\ answered \in Seq(Nat) /\ lost \subseteq Nat
    /\ picker \in BOOLEAN /\ pads \in [1 .. Pads -> BOOLEAN] /\ video \in Video
    /\ maps \in Seq(Answers \cup {Empty}) /\ asyncLoad \in {NoMap} \cup 0 .. Len(maps) - 1
    /\ pendingRoom \in {"none", "room", "restart"} /\ persistent \in BOOLEAN
    /\ stage \in Stages /\ at \in Nat /\ stack \in Seq(Frame) /\ ops \in Nat
    /\ held = "none" <=> \A k \in 1 .. Len(stack) : stack[k].kind # "callback"

Top == stack[1]
AtStage(s) == stage = s /\ stack = <<>>
GoTo(s) == stage' = s /\ at' = 1

\* isEventBlockedByPendingRoom for alarms and the events of EVENT_OTHER.
Blocked == pendingRoom = "room" /\ ~persistent

-------------------------------------------------------------------------------
(* Handing over an answer                                                  *)

\* A new map holds the answer, async_load names it, and the listener hears of it.
Dispatch(kind) ==
    /\ maps' = Append(maps, kind)
    /\ asyncLoad' = Len(maps)
    /\ stack' = <<[kind |-> kind, map |-> Len(maps), prev |-> asyncLoad, runs |-> ~Blocked]>> \o stack

\* cleanupAsyncMap, and its copies in Runner_step.
Cleaned(map) == [maps EXCEPT ![map + 1] = Empty]

\* Seeded fault: every handler leaves async_load unset.
RestoredToNone(frame) == NoMap
\* The step's own dispatches are outermost and unset it, a video's may be nested.
Restored(frame) == IF frame.kind \in {"videoStart", "videoEnd"} THEN frame.prev ELSE NoMap

Over(kind) ==
    /\ stack # <<>> /\ Top.kind = kind
    /\ stack' = Tail(stack)
    /\ maps' = Cleaned(Top.map) /\ asyncLoad' = Restored(Top)

-------------------------------------------------------------------------------
(* What game code does                                                     *)

Code(op) == /\ stack # <<>> /\ Top.runs /\ op \in Ops /\ ops < MaxOps
            /\ ops' = ops + 1

\* Seeded fault: the length is set without room for it.
GrownNever(cap, need) == cap
Grown(cap, need) == IF need <= cap THEN cap
                    ELSE IF 2 * cap >= need /\ 2 * cap >= MinCapacity THEN 2 * cap
                    ELSE IF need >= MinCapacity THEN need ELSE MinCapacity

\* call_later: arrput may move the array, with the step's pointer into it.
CallLater ==
    /\ Code("callLater") /\ Len(entries) < MaxEntries
    /\ \E period \in Periods, repeat \in BOOLEAN :
           entries' = Append(entries, [active |-> TRUE, repeat |-> repeat, period |-> period,
                                       elapsed |-> 0, refs |-> 1, fired |-> 0])
    /\ capacity' = Grown(capacity, Len(entries) + 1)
    /\ held' \in IF held = "live" /\ capacity' # capacity THEN {"live", "dangling"} ELSE {held}
    /\ UNCHANGED <<damaged, requests, others, answers, rooms, place, stack>>

\* Seeded fault: the callback is let go but stays in use.
CancelledActive(entry) == [entry EXCEPT !.refs = 0]
Cancelled(entry) == [entry EXCEPT !.active = FALSE, !.refs = 0]

CallCancel ==
    /\ Code("cancel")
    /\ \E i \in DOMAIN entries : /\ entries[i].active
                                 /\ entries' = [entries EXCEPT ![i] = Cancelled(@)]
    /\ UNCHANGED <<capacity, held, damaged, requests, others, answers, rooms, place, stack>>

\* gmlAsyncBufferKick: the files are read or written at once, the answer waits.
Kick == /\ queue' = Append(queue, nextRequest)
        /\ nextRequest' = nextRequest + 1

SaveAsync ==
    /\ Code("save")
    /\ IF group >= 0 THEN group' = group + 1 /\ UNCHANGED <<queue, nextRequest>>
       ELSE Kick /\ UNCHANGED group
    /\ UNCHANGED <<pending, answered, lost, timers, others, answers, rooms, place, stack>>

GroupBegin ==
    /\ Code("group") /\ group < 0 /\ group' = 0
    /\ UNCHANGED <<queue, pending, nextRequest, answered, lost, timers, others, answers, rooms, place, stack>>

GroupEnd ==
    /\ Code("group") /\ group >= 0 /\ group' = -1
    /\ IF group > 0 THEN Kick ELSE UNCHANGED <<queue, nextRequest>>
    /\ UNCHANGED <<pending, answered, lost, timers, others, answers, rooms, place, stack>>

\* xboxone_show_account_picker: one request is kept, the latest.
ShowPicker ==
    /\ Code("picker") /\ picker' = TRUE
    /\ UNCHANGED <<timers, requests, pads, video, answers, rooms, place, stack>>

OpenVideo ==
    /\ Code("open") /\ video' = [Closed EXCEPT !.isOpen = TRUE]
    /\ UNCHANGED <<timers, requests, picker, pads, answers, rooms, place, stack>>

CloseVideo ==
    /\ Code("close") /\ video' = Closed
    /\ UNCHANGED <<timers, requests, picker, pads, answers, rooms, place, stack>>

\* ds_map_destroy(async_load): the id stays taken.
DestroyMap ==
    /\ Code("destroyMap") /\ asyncLoad # NoMap
    /\ maps' = Cleaned(asyncLoad)
    /\ UNCHANGED <<asyncLoad, timers, requests, others, rooms, place, stack>>

RoomGoto ==
    /\ Code("goto") /\ pendingRoom' = "room"
    /\ UNCHANGED <<persistent, timers, requests, others, answers, place, stack>>

GameRestart ==
    /\ Code("restart") /\ pendingRoom' = "restart"
    /\ UNCHANGED <<persistent, timers, requests, others, answers, place, stack>>

-------------------------------------------------------------------------------
(* finishVideoStub: a video that is drawn or asked about has ended         *)

StartVideo ==
    /\ Code("video") /\ Len(stack) < MaxDepth /\ Len(maps) < MaxMaps
    /\ video.isOpen /\ ~video.start
    /\ video' = [video EXCEPT !.start = TRUE]
    /\ Dispatch("videoStart")
    /\ UNCHANGED <<timers, requests, picker, pads, rooms, place>>

\* The same call goes on when its video_start is over, a later one starts here.
EndVideo ==
    /\ Code("video") /\ Len(stack) < MaxDepth /\ Len(maps) < MaxMaps
    /\ video.isOpen /\ video.start /\ ~video.end
    /\ video' = [video EXCEPT !.end = TRUE]
    /\ Dispatch("videoEnd")
    /\ UNCHANGED <<timers, requests, picker, pads, rooms, place>>

VideoStarted ==
    /\ stack # <<>> /\ Top.kind = "videoStart"
    /\ asyncLoad' = IF video.isOpen /\ ~video.end THEN Len(maps) ELSE Restored(Top)
    /\ IF video.isOpen /\ ~video.end
       THEN /\ video' = [video EXCEPT !.end = TRUE]
            /\ maps' = Append(Cleaned(Top.map), "videoEnd")
            /\ stack' = <<[kind |-> "videoEnd", map |-> Len(maps), prev |-> Restored(Top),
                           runs |-> ~Blocked]>> \o Tail(stack)
       ELSE /\ maps' = Cleaned(Top.map) /\ stack' = Tail(stack) /\ UNCHANGED video
    /\ UNCHANGED <<timers, requests, picker, pads, rooms, place, ops>>

VideoEnded ==
    /\ Over("videoEnd")
    /\ video' = [video EXCEPT !.isOpen = FALSE]
    /\ UNCHANGED <<timers, requests, picker, pads, rooms, place, ops>>

-------------------------------------------------------------------------------
(* The step                                                                *)

\* The main loop polls the gamepads before a step.
Input ==
    /\ AtStage("input") /\ GoTo("timers")
    /\ \/ UNCHANGED pads
       \/ \E slot \in 1 .. Pads : Len(maps) < MaxMaps /\ pads' = [pads EXCEPT ![slot] = TRUE]
    /\ UNCHANGED <<timers, requests, picker, video, answers, rooms, stack, ops>>

Due(entry) == entry.active /\ entry.elapsed + 1 >= entry.period

\* The length is read anew for each entry: those a callback adds are ticked in the same step.
TickEntry ==
    /\ AtStage("timers") /\ at <= Len(entries) /\ ~Due(entries[at])
    /\ entries' = [entries EXCEPT ![at].elapsed = IF entries[at].active THEN @ + 1 ELSE @]
    /\ at' = at + 1
    /\ UNCHANGED <<capacity, held, damaged, requests, others, answers, rooms, stage, stack, ops>>

FireEntry ==
    /\ AtStage("timers") /\ at <= Len(entries) /\ Due(entries[at])
    /\ entries' = [entries EXCEPT ![at].elapsed = 0, ![at].fired = IF @ = 2 THEN 2 ELSE @ + 1]
    /\ held' = "live"
    /\ stack' = <<[kind |-> "callback", map |-> NoMap, prev |-> NoMap, runs |-> TRUE]>>
    /\ UNCHANGED <<capacity, damaged, requests, others, answers, rooms, place, ops>>

\* Seeded fault: what ran once stays for the next step.
CalledStaysActive(entry) == IF entry.repeat THEN entry ELSE [entry EXCEPT !.refs = 0]
Called(entry) == IF entry.repeat THEN entry ELSE [entry EXCEPT !.active = FALSE, !.refs = 0]

\* A dangling `entry' is read and written all the same: what it says of `repeat' is anything,
\* the callback it names may be let go, and the entry in the new array knows nothing of it.
EndCallback ==
    /\ stack # <<>> /\ Top.kind = "callback"
    /\ IF held = "live"
       THEN entries' = [entries EXCEPT ![at] = Called(@)] /\ UNCHANGED damaged
       ELSE /\ \E refs \in {0, entries[at].refs} : entries' = [entries EXCEPT ![at].refs = refs]
            /\ damaged' = damaged \cup {at}
    /\ held' = "none" /\ at' = at + 1 /\ stack' = Tail(stack)
    /\ UNCHANGED <<capacity, requests, others, answers, rooms, stage, ops>>

TimersDone ==
    /\ AtStage("timers") /\ at > Len(entries) /\ GoTo("work")
    /\ stack' = <<[kind |-> "work", map |-> NoMap, prev |-> NoMap, runs |-> ~Blocked]>>
    /\ UNCHANGED <<timers, requests, others, answers, rooms, ops>>

\* Alarm, Step and the other events of the step up to the asynchronous ones.
EndWork ==
    /\ stack # <<>> /\ Top.kind = "work" /\ stack' = Tail(stack) /\ GoTo("pads")
    /\ UNCHANGED <<timers, requests, others, answers, rooms, ops>>

PadEvent ==
    /\ AtStage("pads") /\ at <= Pads
    /\ IF pads[at] THEN Dispatch("pad") /\ UNCHANGED at
       ELSE at' = at + 1 /\ UNCHANGED <<answers, stack>>
    /\ UNCHANGED <<timers, requests, others, rooms, stage, ops>>

EndPadEvent ==
    /\ Over("pad") /\ at' = at + 1 /\ pads' = [pads EXCEPT ![at] = FALSE]
    /\ UNCHANGED <<timers, requests, picker, video, rooms, stage, ops>>

\* The request is forgotten before its event, whose code may make another.
DialogEvent ==
    /\ AtStage("pads") /\ at > Pads /\ GoTo("dialog")
    /\ picker' = FALSE
    /\ IF picker THEN Dispatch("dialog") ELSE UNCHANGED <<answers, stack>>
    /\ UNCHANGED <<timers, requests, pads, video, rooms, ops>>

EndDialogEvent ==
    /\ Over("dialog")
    /\ UNCHANGED <<timers, requests, others, rooms, place, ops>>

\* Seeded fault: answers are held back while a group is open.
TakenUnlessGroup == IF group >= 0 THEN 0 ELSE Len(queue)
Taken == Len(queue)

\* The copy is walked, so that requests made on the way wait for the next step.
TakeQueue ==
    /\ AtStage("dialog") /\ GoTo("saves")
    /\ pending' = SubSeq(queue, 1, Taken) /\ queue' = SubSeq(queue, Taken + 1, Len(queue))
    /\ UNCHANGED <<nextRequest, group, answered, lost, timers, others, answers, rooms, stack, ops>>

SaveEvent ==
    /\ AtStage("saves") /\ at <= Len(pending)
    /\ Dispatch("save") /\ answered' = Append(answered, pending[at])
    /\ lost' = IF Blocked THEN lost \cup {pending[at]} ELSE lost
    /\ UNCHANGED <<queue, pending, nextRequest, group, timers, others, rooms, place, ops>>

EndSaveEvent ==
    /\ Over("save") /\ at' = at + 1
    /\ UNCHANGED <<timers, requests, others, rooms, stage, ops>>

\* Seeded fault: the array walked is the queue itself, freed at the end of the walk.
LeftWithPending == <<>>
Left == queue

EndSaves ==
    /\ AtStage("saves") /\ at > Len(pending) /\ GoTo("room")
    /\ pending' = <<>> /\ queue' = Left
    /\ UNCHANGED <<nextRequest, group, answered, lost, timers, others, answers, rooms, stack, ops>>

\* Runner_handlePendingRoomChange; Runner_reset drops what was asked for.
EnterRoom ==
    /\ AtStage("room") /\ pendingRoom # "restart" /\ GoTo("input")
    /\ pendingRoom' = "none" /\ persistent' \in (IF pendingRoom = "room" THEN BOOLEAN ELSE {persistent})
    /\ UNCHANGED <<timers, requests, others, answers, stack, ops>>

Reset ==
    /\ AtStage("room") /\ pendingRoom = "restart" /\ GoTo("input")
    /\ pendingRoom' = "none" /\ persistent' \in BOOLEAN
    /\ entries' = <<>> /\ capacity' = 0 /\ held' = "none" /\ damaged' = {}
    /\ queue' = <<>> /\ pending' = <<>> /\ nextRequest' = 1 /\ group' = -1 /\ answered' = <<>> /\ lost' = {}
    /\ picker' = FALSE /\ maps' = <<>> /\ asyncLoad' = NoMap
    /\ UNCHANGED <<pads, video, stack, ops>>

-------------------------------------------------------------------------------

Init ==
    /\ entries = <<>> /\ capacity = 0 /\ held = "none" /\ damaged = {}
    /\ queue = <<>> /\ pending = <<>> /\ nextRequest = 1 /\ group = -1 /\ answered = <<>> /\ lost = {}
    /\ picker = FALSE /\ pads = [s \in 1 .. Pads |-> FALSE] /\ video = Closed
    /\ maps = <<>> /\ asyncLoad = NoMap
    /\ pendingRoom = "none" /\ persistent \in BOOLEAN
    /\ stage = "input" /\ at = 1 /\ stack = <<>> /\ ops = 0

GameCode ==
    \/ CallLater \/ CallCancel \/ SaveAsync \/ GroupBegin \/ GroupEnd \/ ShowPicker
    \/ OpenVideo \/ CloseVideo \/ DestroyMap \/ RoomGoto \/ GameRestart \/ StartVideo \/ EndVideo

MainLoop ==
    \/ VideoStarted \/ VideoEnded \/ Input \/ TickEntry \/ FireEntry \/ EndCallback \/ TimersDone
    \/ EndWork \/ PadEvent \/ EndPadEvent \/ DialogEvent \/ EndDialogEvent \/ TakeQueue
    \/ SaveEvent \/ EndSaveEvent \/ EndSaves \/ EnterRoom \/ Reset

Next == GameCode \/ MainLoop
Spec == Init /\ [][Next]_vars

\* The main loop keeps running: game code returns, and the next step comes.
FairSpec == Spec /\ WF_vars(MainLoop)

-------------------------------------------------------------------------------
(* Properties                                                              *)

\* A callback that repeats is called until it is cancelled and then never again; one that does
\* not is called once, whatever it arms or cancels itself, and what is still to be called has
\* not been let go.  Excepted is an entry whose callback's call_later moved the array: the step
\* retires it through its old pointer (runner.c:4209-4217), and it may be called again.
CallbacksOnce ==
    \A i \in DOMAIN entries \ damaged :
        /\ ~entries[i].repeat => entries[i].fired <= 1
        /\ entries[i].refs = (IF entries[i].active THEN 1 ELSE 0)
        /\ entries[i].active /\ ~entries[i].repeat /\ entries[i].fired = 1 => at = i /\ stack # <<>>

\* Every request is taken up once and in the order made: those taken so far, those the step
\* still walks and those that wait are all the requests there were, in order, also when
\* handlers make more.
AnsweredInOrder ==
    answered \o (IF stage = "saves"
                 THEN SubSeq(pending, IF stack # <<>> THEN at + 1 ELSE at, Len(pending)) ELSE <<>>)
             \o queue = [r \in 1 .. nextRequest - 1 |-> r]

\* In a handler, async_load names the map that came with the event, and the map holds that
\* answer or was destroyed by game code, also when another handler has run inside this one.
\* Outside of handlers it names none.
AsyncLoadIsTheEvents ==
    IF stack = <<>> THEN asyncLoad = NoMap
    ELSE /\ asyncLoad = Top.map   \* callbacks and the step's own events come without one
         /\ Top.map # NoMap => maps[Top.map + 1] \in {Top.kind, Empty}

Heard == ToSet(answered) \ lost

\* What is asked for is answered in the end.  The event of a request runs on a later frame
\* (vm_builtins.c:9607), unless the game starts over first, or, what that comment does not
\* say, a room is asked for before that frame's events and the listener does not persist:
\* its answer is then taken from the queue and lost.  A picker's request is taken up unless
\* the game asks for another in every answer.
Answered ==
    /\ \A r \in 1 .. MaxOps :
           (r \in ToSet(queue)) ~> (r \in Heard \/ r \in lost \/ pendingRoom = "restart")
    /\ picker ~> ~picker
===============================================================================
