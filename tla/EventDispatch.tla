----------------------------- MODULE EventDispatch -----------------------------
(***************************************************************************)
(* The loops of Runner_step (src/src/runner.c) that hand an event to each  *)
(* instance of a list while game code, run by the event, changes the lists *)
(* and starts loops of its own.                                            *)
(*                                                                         *)
(* A loop copies its list first.  Runner_executeEventForAll copies it into *)
(* one scratch array that a nested call overwrites; the other loops push   *)
(* their copy on an arena, used as a stack, and pop it when they end.      *)
(* Both arrays are reallocated when they outgrow their capacity, which     *)
(* leaves a pointer into the old one dangling.                             *)
(*                                                                         *)
(* Objects have no parents here, so that the list of an object and its     *)
(* exact bucket are the same; module Runner has the hierarchy.             *)
(***************************************************************************)
EXTENDS Integers, Sequences, FiniteSets, SequencesExt

CONSTANTS
    ObjectCount,    \* objects are 0 .. ObjectCount - 1
    ObjectOf,       \* the objects of the instances of the room, in room order
    MaxId,          \* bound: instances are 1 .. MaxId
    Handlers,       \* [Events -> SUBSET Objects], the objects that define an event
    CollidesWith,   \* [Objects -> Seq(Objects)], flattenedCollisionEvents
    MinCapacity,    \* least capacity of a stb_ds array (4)
    Ops,            \* what game code may do
    MaxOps,         \* bound on what game code does
    MaxCode,        \* bound: depth of game code nested in game code
    MaxFrames       \* bound on the frames

Objects == 0 .. ObjectCount - 1
Ids == 1 .. MaxId
Everyone == -3      \* INSTANCE_ALL: a loop over the list of all instances

BucketForAll == {"BeginStep", "Keyboard", "Step", "EndStep"}  \* eventUsesPerObjectDispatch
ListForAll == {"GlobalMouse", "Async", "NoMoreLives"}
ForAll == BucketForAll \cup ListForAll
BucketLoops == {"Alarm", "OutsideRoom", "Collision"}
MouseStages == <<"MouseEnter", "MouseHeld", "MouseReleased">>
Events == ForAll \cup BucketLoops \cup {"Timeline"} \cup ToSet(MouseStages)

Max2(a, b) == IF a > b THEN a ELSE b

ASSUME DispatchAssumption ==
    /\ ObjectCount \in Nat \ {0}
    /\ ObjectOf \in Seq(Objects) /\ MaxId \in Nat /\ Len(ObjectOf) <= MaxId
    /\ Handlers \in [Events -> SUBSET Objects]
    /\ CollidesWith \in [Objects -> Seq(Objects)]
    /\ Handlers["Collision"] = {o \in Objects : CollidesWith[o] # <<>>}
    /\ MinCapacity \in Nat \ {0} /\ MaxOps \in Nat /\ MaxCode \in Nat /\ MaxFrames \in Nat
    /\ Ops \subseteq {"create", "destroy", "sleep", "wake", "change", "goto", "lives",
                      "writeAll", "query", "alarm"}

VARIABLES
    instances,      \* runner->instances
    bucket,         \* runner->instancesByExactObject
    inst,           \* fields of the instances
    nextId,         \* runner->nextInstanceId
    arena,          \* runner->instanceSnapshots: contents,
    arenaCap,       \*   capacity
    arenaEpoch,     \*   and how often it was reallocated
    scratch,        \* runner->eventDispatchInstances: memory,
    scratchCap,     \*   capacity
    scratchEpoch,   \*   and how often it was reallocated
    lives,          \* runner->lives is positive
    pendingRoom,    \* runner->pendingRoom >= 0
    agenda,         \* loops that Runner_step has still to run: <<event, objects>>
    crashed,        \* the program died of a dangling pointer
    stack,          \* the loops and game code on the C stack, innermost first
    frames,         \* steps begun
    ops,            \* things game code has done
    ticks,          \* history: how often the alarm of each was decremented in this step
    changed         \* history: instances that changed object in this step

lists == <<instances, bucket, inst, nextId>>
arenaVars == <<arena, arenaCap, arenaEpoch>>
scratchVars == <<scratch, scratchCap, scratchEpoch>>
history == <<ticks, changed>>
vars == <<lists, arenaVars, scratchVars, lives, pendingRoom, agenda, crashed, stack, frames, ops, history>>

Instance == [object: Objects, active: BOOLEAN, destroyed: BOOLEAN,
             alarm: Int, mask: BOOLEAN]

\* A loop: `via' tells where its copy is: in the arena by index or by pointer, or in
\* scratch.  snap is what was copied (the model's own record of it).
Loop == [kind: {"loop"}, via: {"arena", "pointer", "scratch"}, event: Events \cup {"Hit", "Write"},
         object: Objects \cup {Everyone}, self: Ids \cup {0}, targets: Seq(Objects),
         base: Nat, snap: Seq(Ids), pos: Nat, epoch: Nat, overrun: BOOLEAN]
Code == [kind: {"code"}, self: Ids, event: Events]
Solid == [kind: {"solid"}, self: Ids, other: Ids]

TypeOK ==
    /\ instances \in Seq(Ids) /\ bucket \in [Objects -> Seq(Ids)]
    /\ inst \in [Ids -> Instance] /\ nextId \in Nat \ {0}
    /\ arena \in Seq(Ids) /\ scratch \in Seq(Ids)
    /\ arenaCap \in Nat /\ arenaEpoch \in Nat /\ scratchCap \in Nat /\ scratchEpoch \in Nat
    /\ Len(arena) <= arenaCap /\ Len(scratch) <= scratchCap
    /\ lives \in BOOLEAN /\ pendingRoom \in BOOLEAN /\ crashed \in BOOLEAN
    /\ agenda \in Seq((Events \cup {"Cleanup"}) \X SUBSET (Objects \cup {Everyone}))
    /\ stack \in Seq(Loop \cup Code \cup Solid)
    /\ frames \in Nat /\ ops \in Nat
    /\ ticks \in [Ids -> Nat] /\ changed \subseteq Ids

-------------------------------------------------------------------------------
(* Arrays, lists and the order of a step                                   *)

\* Seeded fault: the length is set without room for it.
CapacityUnchecked(cap, need) == cap
Capacity(cap, need) == IF need <= cap THEN cap ELSE Max2(Max2(need, 2 * cap), MinCapacity)
Epoch(epoch, cap, need) == IF need <= cap THEN epoch ELSE epoch + 1

\* arrsetlen and memcpy at the end of the arena.
Push(list) ==
    LET need == Len(arena) + Len(list) IN
    /\ arena' = arena \o list
    /\ arenaCap' = Capacity(arenaCap, need)
    /\ arenaEpoch' = Epoch(arenaEpoch, arenaCap, need)
Pop(base) == arena' = SubSeq(arena, 1, base) /\ UNCHANGED <<arenaCap, arenaEpoch>>

Without(list, i) == IF i \in ToSet(list)
                    THEN RemoveAt(list, CHOOSE k \in DOMAIN list : list[k] = i) ELSE list

\* The k-th of a set of numbers, and the entries of a list whose positions are in a set.
Nth(S, k) == CHOOSE n \in S : Cardinality({m \in S : m < n}) = k - 1
Entries(list, S) == [k \in 1 .. Cardinality(S) |-> list[Nth(S, k)]]
ByObjectAndId(list) == [k \in 1 .. Cardinality(ToSet(list)) |-> Nth(ToSet(list), k)]

Least(S) == CHOOSE o \in S : \A p \in S : o <= p
PerObject(event) == IF Handlers[event] = {} THEN <<>> ELSE <<<<event, Handlers[event]>>>>
Once(event) == IF Handlers[event] = {} THEN <<>> ELSE <<<<event, {Everyone}>>>>
HandlesMouse == \E k \in DOMAIN MouseStages : Handlers[MouseStages[k]] # {}

\* The loops of Runner_step in their order; events nobody handles have no slot, and some are
\* run object by object.
StepAgenda ==
    Once("BeginStep") \o PerObject("Alarm") \o Once("Keyboard") \o Once("Timeline")
    \o Once("GlobalMouse") \o (IF HandlesMouse THEN <<<<"MouseEnter", {Everyone}>>>> ELSE <<>>)
    \o Once("Step") \o PerObject("OutsideRoom") \o Once("Async") \o PerObject("Collision")
    \o Once("EndStep") \o <<<<"Cleanup", {Everyone}>>>>

LoopOf(event, object, via, base, snap) ==
    [kind |-> "loop", via |-> via, event |-> event, object |-> object, self |-> 0,
     targets |-> <<>>, base |-> base, snap |-> snap, pos |-> 1, epoch |-> 0, overrun |-> FALSE]

Top == Head(stack)
Below == Tail(stack)
Running(kind) == ~ crashed /\ stack # <<>> /\ Top.kind = kind
Depth == Cardinality({k \in DOMAIN stack : stack[k].kind = "code"})

\* isEventBlockedByPendingRoom for instances that are not persistent in a room that is
\* not; the moments of a timeline are run without asking it.
Blocked(event) == pendingRoom /\ event # "Timeline"
Execute(i, event, rest) ==
    IF Blocked(event) THEN rest ELSE <<[kind |-> "code", self |-> i, event |-> event]>> \o rest

-------------------------------------------------------------------------------
(* Runner_executeEventForAll                                               *)

\* (In the source at hand the lines that append a bucket to the array, after line 518, are
\* missing with a closing brace; they are taken to do what the comment at line 504 says.)
Responders(event) ==
    LET upTo[o \in 0 .. ObjectCount] ==
            IF o = 0 THEN <<>>
            ELSE upTo[o - 1] \o (IF o - 1 \in Handlers[event] THEN bucket[o - 1] ELSE <<>>)
    IN  upTo[ObjectCount]
Dispatched(event) == IF event \in BucketForAll THEN Responders(event) ELSE instances

Overrun(frames_) ==
    [k \in DOMAIN frames_ |->
        IF frames_[k].kind = "loop" THEN IF frames_[k].via = "scratch"
            THEN [frames_[k] EXCEPT !.overrun = TRUE] ELSE frames_[k] ELSE frames_[k]]

\* Seeded fault: the array is not truncated at the start of the call.
FilledAfterOld(list) == scratch \o list
Filled(list) == list \o SubSeq(scratch, Len(list) + 1, Len(scratch))

ExecuteEventForAll(event, rest) ==
    LET list == Dispatched(event)
        need == Len(list) IN
    IF Handlers[event] = {} \/ list = <<>>
    THEN stack' = rest /\ UNCHANGED scratchVars
    ELSE /\ scratch' = Filled(list)
         /\ scratchCap' = Capacity(scratchCap, need)
         /\ scratchEpoch' = Epoch(scratchEpoch, scratchCap, need)
         /\ stack' = <<[LoopOf(event, Everyone, "scratch", 0, list) EXCEPT !.epoch = scratchEpoch']>>
                         \o Overrun(rest)

\* Runner_setLives and Runner_setHealth, from code or from a loop.
SetLives(positive, rest) ==
    /\ lives' = positive
    /\ IF lives /\ ~ positive THEN ExecuteEventForAll("NoMoreLives", rest)
       ELSE stack' = rest /\ UNCHANGED scratchVars

-------------------------------------------------------------------------------
(* Game code                                                               *)

Known == ToSet(instances)
Does(op) == Running("code") /\ op \in Ops /\ ops < MaxOps /\ ops' = ops + 1
InCode == UNCHANGED <<agenda, crashed, frames>>
SameStack == UNCHANGED <<arenaVars, scratchVars, lives, stack>>

InstanceCreate(o) ==
    /\ Does("create") /\ nextId <= MaxId
    /\ instances' = Append(instances, nextId)
    /\ bucket' = [bucket EXCEPT ![o] = Append(@, nextId)]
    /\ inst' = [inst EXCEPT ![nextId].object = o]
    /\ nextId' = nextId + 1
    /\ SameStack /\ InCode /\ UNCHANGED <<pendingRoom, history>>

InstanceDestroy(i) ==
    /\ Does("destroy") /\ i \in Known /\ ~ inst[i].destroyed
    /\ inst' = [inst EXCEPT ![i].destroyed = TRUE, ![i].active = FALSE]
    /\ SameStack /\ InCode /\ UNCHANGED <<instances, bucket, nextId, pendingRoom, history>>

SetActive(i, active) ==
    /\ Does(IF active THEN "wake" ELSE "sleep")
    /\ i \in Known /\ ~ inst[i].destroyed /\ inst[i].active # active
    /\ inst' = [inst EXCEPT ![i].active = active]
    /\ SameStack /\ InCode /\ UNCHANGED <<instances, bucket, nextId, pendingRoom, history>>

InstanceChange(i, o) ==
    /\ Does("change") /\ i \in Known /\ inst[i].object # o
    /\ bucket' = [bucket EXCEPT ![inst[i].object] = Without(@, i), ![o] = Append(@, i)]
    /\ inst' = [inst EXCEPT ![i].object = o]
    /\ changed' = changed \cup {i}
    /\ SameStack /\ InCode /\ UNCHANGED <<instances, nextId, pendingRoom, ticks>>

AlarmSet(i, steps) ==
    /\ Does("alarm") /\ i \in Known
    /\ inst' = [inst EXCEPT ![i].alarm = steps, ![i].mask = steps > 0]
    /\ SameStack /\ InCode /\ UNCHANGED <<instances, bucket, nextId, pendingRoom, history>>

RoomGoto ==
    /\ Does("goto") /\ pendingRoom' = TRUE
    /\ SameStack /\ InCode /\ UNCHANGED <<lists, history>>

AssignLives(positive) ==
    /\ Does("lives") /\ Depth < MaxCode
    /\ SetLives(positive, stack)
    /\ InCode /\ UNCHANGED <<lists, arenaVars, pendingRoom, history>>

\* object.lives = 0: the setter runs for each instance of a copy on the arena.
WriteAll(o) ==
    /\ Does("writeAll") /\ Depth < MaxCode
    /\ Push(bucket[o])
    /\ stack' = <<LoopOf("Write", o, "arena", Len(arena), bucket[o])>> \o stack
    /\ InCode /\ UNCHANGED <<lists, scratchVars, lives, pendingRoom, history>>

\* Builtins that walk a copy of a list and run no code meanwhile: push and pop.
Query(o) ==
    LET need == Len(arena) + Len(bucket[o]) IN
    /\ Does("query")
    /\ arenaCap' = Capacity(arenaCap, need) /\ arenaEpoch' = Epoch(arenaEpoch, arenaCap, need)
    /\ InCode /\ UNCHANGED <<lists, arena, scratchVars, lives, pendingRoom, stack, history>>

CodeReturn ==
    /\ Running("code") /\ stack' = Below
    /\ UNCHANGED <<lists, arenaVars, scratchVars, lives, pendingRoom, agenda, crashed, frames, ops, history>>

GameCode ==
    \/ \E o \in Objects :
          \/ InstanceCreate(o) \/ WriteAll(o) \/ Query(o)
          \/ \E i \in Ids : InstanceChange(i, o)
    \/ \E i \in Ids : \/ InstanceDestroy(i) \/ \E b \in BOOLEAN : SetActive(i, b)
                      \/ \E n \in 0 .. 2 : AlarmSet(i, n)
    \/ RoomGoto \/ \E b \in BOOLEAN : AssignLives(b)
    \/ CodeReturn

-------------------------------------------------------------------------------
(* The loops                                                               *)

Undisturbed == UNCHANGED <<lives, pendingRoom, crashed, frames, ops>>

\* Seeded fault: alarms walk the list of all instances once for each object.
ListOfAll(object) == instances
ListOf(object) == IF object = Everyone THEN instances ELSE bucket[object]

\* Runner_step enters the next loop of its agenda.
StartLoop ==
    /\ stack = <<>> /\ agenda # <<>> /\ Head(agenda)[1] # "Cleanup"
    /\ LET event == Head(agenda)[1]
           object == Least(Head(agenda)[2])
           others == Head(agenda)[2] \ {object}
           list == ListOf(object) IN
       /\ agenda' = (IF others = {} THEN <<>> ELSE <<<<event, others>>>>) \o Tail(agenda)
       /\ IF event \in ForAll THEN ExecuteEventForAll(event, <<>>) /\ UNCHANGED arenaVars
          ELSE IF list = <<>> \/ (event = "MouseEnter" /\ pendingRoom)
          THEN UNCHANGED <<stack, arenaVars, scratchVars>>
          ELSE /\ Push(list)
               /\ stack' = <<LoopOf(event, object, "arena", Len(arena), list)>>
               /\ UNCHANGED scratchVars
    /\ Undisturbed /\ UNCHANGED <<lists, history>>

\* The memory a loop reads is still its array's.
Intact(f) ==
    \/ f.via = "arena"
    \/ f.via = "scratch" /\ f.epoch = scratchEpoch
    \/ f.via = "pointer" /\ f.epoch = arenaEpoch
\* Freed memory still holds the copy, unless reading it ends the program (Crash).
Read(f) ==
    IF ~ Intact(f) THEN f.snap[f.pos]
    ELSE IF f.via = "scratch" THEN scratch[f.pos] ELSE arena[f.base + f.pos]

Crash ==
    /\ Running("loop") /\ Top.pos <= Len(Top.snap) /\ ~ Intact(Top)
    /\ crashed' = TRUE
    /\ UNCHANGED <<lists, arenaVars, scratchVars, lives, pendingRoom, agenda, stack, frames, ops, history>>

ReturnsEarly(f) == pendingRoom /\ f.event \in ToSet(MouseStages) \cup {"OutsideRoom"}
Visiting(events) ==
    /\ Running("loop") /\ Top.event \in events
    /\ Top.pos <= Len(Top.snap) /\ Top.targets = <<>> /\ ~ ReturnsEarly(Top)
Advanced == <<[Top EXCEPT !.pos = @ + 1]>> \o Below
Visited == UNCHANGED <<arenaVars, agenda>> /\ Undisturbed

\* Loops that run the event on each instance still active.
VisitEach ==
    LET i == Read(Top) IN
    /\ Visiting(ForAll)
    /\ stack' = IF inst[i].active /\ inst[i].object \in Handlers[Top.event]
                THEN Execute(i, Top.event, Advanced) ELSE Advanced
    /\ Visited /\ UNCHANGED <<lists, scratchVars, history>>

\* Loops that run it on some: the mouse is over them, they have left the room, or their
\* timeline has come to a moment.
VisitSome(i, fires) ==
    /\ \/ stack' = Advanced
       \/ fires /\ stack' = Execute(i, Top.event, Advanced)
    /\ Visited /\ UNCHANGED <<lists, scratchVars, history>>
VisitMouse ==
    LET i == Read(Top) IN
    /\ Visiting(ToSet(MouseStages))
    /\ VisitSome(i, inst[i].active /\ inst[i].object \in Handlers[Top.event])
VisitOutside ==
    LET i == Read(Top) IN
    Visiting({"OutsideRoom"}) /\ VisitSome(i, inst[i].active)
VisitTimeline ==
    LET i == Read(Top) IN
    /\ Visiting({"Timeline"})
    /\ VisitSome(i, /\ inst[i].active /\ ~ inst[i].destroyed
                    /\ inst[i].object \in Handlers["Timeline"])

AlarmOff(i) == [inst EXCEPT ![i].alarm = -1, ![i].mask = FALSE]
VisitAlarm ==
    LET i == Read(Top) IN
    /\ Visiting({"Alarm"})
    /\ IF ~ inst[i].active \/ ~ inst[i].mask
       THEN stack' = Advanced /\ UNCHANGED <<inst, ticks>>
       ELSE /\ ticks' = [ticks EXCEPT ![i] = @ + 1]
            /\ IF inst[i].alarm = 1
               THEN inst' = AlarmOff(i) /\ stack' = Execute(i, "Alarm", Advanced)
               ELSE inst' = [inst EXCEPT ![i].alarm = @ - 1] /\ stack' = Advanced
    /\ Visited /\ UNCHANGED <<instances, bucket, nextId, scratchVars, changed>>

\* dispatchCollisionEvents: each instance of the bucket, then each object it collides with,
\* then each instance of that object.
VisitCollider ==
    LET i == Read(Top) IN
    /\ Visiting({"Collision"})
    /\ stack' = IF ~ inst[i].active THEN Advanced
                ELSE <<[Top EXCEPT !.pos = @ + 1, !.self = i,
                                   !.targets = CollidesWith[inst[i].object]]>> \o Below
    /\ Visited /\ UNCHANGED <<lists, scratchVars, history>>
NextTarget ==
    /\ Running("loop") /\ Top.targets # <<>>
    /\ LET list == ByObjectAndId(bucket[Head(Top.targets)]) IN
       /\ Push(list)
       /\ stack' = <<[LoopOf("Hit", Head(Top.targets), "arena", Len(arena), list)
                         EXCEPT !.self = Top.self],
                     [Top EXCEPT !.targets = Tail(@)]>> \o Below
    /\ UNCHANGED <<lists, scratchVars, agenda, history>> /\ Undisturbed
\* An overlap runs the code of self; if one of the two is solid, then also that of the other.
VisitOther ==
    LET other == Read(Top) IN
    /\ Visiting({"Hit"})
    /\ \/ stack' = Advanced
       \/ /\ inst[other].active /\ other # Top.self
          /\ \/ stack' = Execute(Top.self, "Collision", Advanced)
             \/ stack' = Execute(Top.self, "Collision",
                           <<[kind |-> "solid", self |-> Top.self, other |-> other]>> \o Advanced)
    /\ Visited /\ UNCHANGED <<lists, scratchVars, history>>
Symmetric ==
    /\ Running("solid")
    /\ stack' = IF /\ inst[Top.self].active /\ inst[Top.other].active
                   /\ inst[Top.self].object \in ToSet(CollidesWith[inst[Top.other].object])
                THEN Execute(Top.other, "Collision", Below) ELSE Below
    /\ Visited /\ UNCHANGED <<lists, scratchVars, history>>

\* object.lives = 0, one instance after the other.
VisitWrite ==
    LET i == Read(Top) IN
    /\ Visiting({"Write"})
    /\ IF inst[i].active THEN SetLives(FALSE, Advanced)
       ELSE stack' = Advanced /\ UNCHANGED <<lives, scratchVars>>
    /\ UNCHANGED <<lists, arenaVars, agenda, pendingRoom, crashed, frames, ops, history>>

\* A loop over the arena ends and pops its copy; the stages of the local mouse events share
\* one, and after the first each is handed a pointer to it.
StageOf(event) == CHOOSE k \in DOMAIN MouseStages : MouseStages[k] = event
EndLoop ==
    /\ Running("loop") /\ Top.pos > Len(Top.snap) /\ Top.targets = <<>> /\ ~ ReturnsEarly(Top)
    /\ IF Top.event \in ToSet(MouseStages) /\ StageOf(Top.event) < Len(MouseStages)
       THEN /\ stack' = <<[Top EXCEPT !.event = MouseStages[StageOf(Top.event) + 1], !.pos = 1,
                                      !.via = "pointer", !.epoch = arenaEpoch]>> \o Below
            /\ UNCHANGED arenaVars
       ELSE /\ stack' = Below
            /\ IF Top.via = "scratch" THEN UNCHANGED arenaVars ELSE Pop(Top.base)
    /\ UNCHANGED <<lists, scratchVars, agenda, history>> /\ Undisturbed

\* The objects that are left of an event are not visited.
GivenUp(event) ==
    IF agenda # <<>> /\ Head(agenda)[1] = event THEN Tail(agenda) ELSE agenda

\* Seeded fault: the early return leaves the copy on the arena.
EarlyReturnWithoutPop ==
    /\ Running("loop") /\ ReturnsEarly(Top)
    /\ stack' = Below
    /\ agenda' = GivenUp(Top.event)
    /\ UNCHANGED <<lists, arenaVars, scratchVars, history>> /\ Undisturbed
\* A change of room is asked for: the local mouse and the outside-room events are given up.
EarlyReturn ==
    /\ Running("loop") /\ ReturnsEarly(Top)
    /\ stack' = Below /\ Pop(Top.base)
    /\ agenda' = GivenUp(Top.event)
    /\ UNCHANGED <<lists, scratchVars, history>> /\ Undisturbed

BeginFrame ==
    /\ stack = <<>> /\ agenda = <<>> /\ frames < MaxFrames /\ ~ pendingRoom
    /\ agenda' = StepAgenda /\ frames' = frames + 1
    /\ ticks' = [i \in Ids |-> 0] /\ changed' = {}
    /\ UNCHANGED <<lists, arenaVars, scratchVars, lives, pendingRoom, crashed, stack, ops>>

\* Runner_cleanupDestroyedInstances.
CleanupDestroyed ==
    /\ stack = <<>> /\ agenda = <<<<"Cleanup", {Everyone}>>>>
    /\ LET alive(list) == Entries(list, {k \in DOMAIN list : ~ inst[list[k]].destroyed}) IN
       /\ instances' = alive(instances)
       /\ bucket' = [o \in Objects |-> alive(bucket[o])]
    /\ agenda' = <<>>
    /\ UNCHANGED <<inst, nextId, arenaVars, scratchVars, stack, history>> /\ Undisturbed

\* The room changes (module Runner), the program is dead or the bound is reached.
Stopped ==
    /\ crashed \/ (stack = <<>> /\ agenda = <<>> /\ (frames = MaxFrames \/ pendingRoom))
    /\ UNCHANGED vars

Engine ==
    \/ BeginFrame \/ StartLoop \/ Crash \/ VisitEach \/ VisitMouse \/ VisitOutside
    \/ VisitTimeline \/ VisitAlarm
    \/ VisitCollider \/ NextTarget \/ VisitOther \/ Symmetric \/ VisitWrite
    \/ EndLoop \/ EarlyReturn \/ CleanupDestroyed

Init ==
    /\ instances = [k \in 1 .. Len(ObjectOf) |-> k]
    /\ bucket = [o \in Objects |-> Entries(instances, {k \in DOMAIN ObjectOf : ObjectOf[k] = o})]
    /\ inst \in {f \in [Ids -> [object : Objects, active : {TRUE}, destroyed : {FALSE},
                               alarm : {-1, 1}, mask : BOOLEAN]] :
                 \A i \in Ids :
                    /\ f[i].mask = (f[i].alarm > 0)
                    /\ IF i <= Len(ObjectOf) THEN f[i].object = ObjectOf[i]
                       ELSE f[i].alarm = -1 /\ f[i].object = CHOOSE o \in Objects : TRUE}
    /\ nextId = Len(ObjectOf) + 1
    /\ arena = <<>> /\ arenaCap = 0 /\ arenaEpoch = 0
    /\ scratch = <<>> /\ scratchCap = 0 /\ scratchEpoch = 0
    /\ lives = TRUE /\ pendingRoom = FALSE /\ agenda = <<>> /\ crashed = FALSE
    /\ stack = <<>> /\ frames = 0 /\ ops = 0
    /\ ticks = [i \in Ids |-> 0] /\ changed = {}

Next == GameCode \/ Engine \/ Stopped
Spec == Init /\ [][Next]_vars

-------------------------------------------------------------------------------
(* Properties                                                              *)

LoopsOver(kinds) == {k \in DOMAIN stack : stack[k].kind = "loop" /\ stack[k].via \in kinds}
ArenaLoops == LoopsOver({"arena", "pointer"})
End(f) == f.base + Len(f.snap)

\* The arena holds the copies of the loops that run, one after the other and unchanged, and
\* nothing else: what the assertion at the top of Runner_step and the comment at
\* runner.h:497 count on, whatever the code inside the loops does.
ArenaIsTheLoops ==
    /\ \A k \in ArenaLoops : /\ End(stack[k]) <= Len(arena)
                             /\ \A j \in DOMAIN stack[k].snap :
                                   arena[stack[k].base + j] = stack[k].snap[j]
    /\ \A k, m \in ArenaLoops : k < m => stack[k].base >= End(stack[m])
    /\ \A p \in DOMAIN arena : \E k \in ArenaLoops : stack[k].base < p /\ p <= End(stack[k])

\* A loop over the scratch array goes on with the instances it copied, except in the two cases
\* where the code does not keep it to them: a dispatch inside it moved the array, which the
\* loop goes on reading where it was, or, in a loop over buckets, overwrote it with instances of
\* its own.  The copy that runner.c:504 speaks of is then lost.
ScratchReads ==
    \A k \in LoopsOver({"scratch"}) :
        LET f == stack[k] IN
        f.epoch = scratchEpoch /\ (~ f.overrun \/ f.event \in ListForAll)
            => \A j \in DOMAIN f.snap : scratch[j] = f.snap[j]

\* Whatever the code inside a loop does, a loop over the arena goes on over the instances it
\* copied, and one over the scratch array does so unless a dispatch inside it took the array.
LoopsReadTheirCopies == ArenaIsTheLoops /\ ScratchReads

\* An alarm counts down once in a step, though the objects are done one after the other
\* and each bucket is copied when its turn comes; only an instance that changes object in
\* the step may be met twice.  The mask that lets idle instances be skipped tells which alarms
\* are set, so that an alarm that its own event sets again is not forgotten.
AlarmOncePerStep ==
    \A i \in Ids : /\ ticks[i] > 1 => i \in changed
                   /\ inst[i].mask = (inst[i].alarm > 0)

\* What runner.h:497 says of every snapshot: outer ranges stay untouched under newer pushes.
\* The pointer the local mouse loops hold into the arena dangles once the arena moves.
MouseSnapshotLive == \A k \in LoopsOver({"pointer"}) : stack[k].epoch = arenaEpoch

===============================================================================
