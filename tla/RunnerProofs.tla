----------------------------- MODULE RunnerProofs -----------------------------
(* Theorems about Runner, for every set of objects, rooms and instances and   *)
(* every game code.                                                           *)
EXTENDS Runner, SequenceTheorems, TLAPS

-------------------------------------------------------------------------------
(* Frames and the tables are well typed.                                    *)

\* Pushing a frame keeps a stack a stack.
LEMMA PushType ==
    ASSUME NEW S, NEW x \in S, NEW s \in Seq(S)
    PROVE  <<x>> \o s \in Seq(S)
  OBVIOUS

\* The frames that run code, ...
LEMMA CodeFrameType ==
    ASSUME NEW i \in Ids \cup {NoOne}, NEW e \in Events
    PROVE  CodeFrame(i, e) \in Frame
  BY DEF CodeFrame, FrameOf, Frame, Kinds

\* ... attend to one instance, ...
LEMMA SelfFrameType ==
    ASSUME NEW kind \in {"create", "destroy", "free", "roomCreate"}, NEW i \in Ids,
           NEW e \in Events \cup {NoEvent}
    PROVE  SelfFrame(kind, i, e) \in Frame
  BY DEF SelfFrame, FrameOf, Frame, Kinds

\* ... or walk a snapshot are frames.
LEMMA LoopFrameType ==
    ASSUME NEW kind \in {"dispatch", "destroyEach", "take", "pass2"}, NEW ids \in SUBSET Ids,
           NEW e \in Events \cup {NoEvent}, kind = "dispatch" => e \in Events
    PROVE  LoopFrame(kind, ids, e) \in Frame
  BY DEF LoopFrame, FrameOf, Frame, Kinds

\* A read of freed memory ends the stack of frames with one of its own.
LEMMA WildFrameType == FrameOf("wild") \in Frame
  BY DEF FrameOf, Frame, Kinds

\* Executing an event leaves a stack of frames, whether or not code runs.
LEMMA ExecuteType ==
    ASSUME NEW f, NEW i \in Ids, NEW e \in Events, NEW rest \in Seq(Frame)
    PROVE  Execute(f, i, e, rest) \in Seq(Frame)
  BY CodeFrameType, PushType DEF Execute

\* The same for the code of the room editor.
LEMMA ExecuteCodeType ==
    ASSUME NEW i \in Ids, NEW e \in Events, NEW rest \in Seq(Frame)
    PROVE  ExecuteCode(i, e, rest) \in Seq(Frame)
  BY CodeFrameType, PushType DEF ExecuteCode

\* The innermost frame and what is below it.
LEMMA TopType ==
    ASSUME stack \in Seq(Frame), stack # <<>>
    PROVE  Top \in Frame /\ Below \in Seq(Frame)
  BY HeadTailProperties DEF Top, Below

\* A loop that goes on with fewer instances, a handler that goes on with another event.
LEMMA TopUpdateType ==
    ASSUME stack \in Seq(Frame), stack # <<>>
    PROVE  /\ \A i : <<[Top EXCEPT !.todo = @ \ {i}]>> \o Below \in Seq(Frame)
           /\ Top.kind \in {"destroy", "change", "roomCreate"} =>
                \A e \in Events \cup {NoEvent} :
                    <<[Top EXCEPT !.event = e]>> \o Below \in Seq(Frame)
<1>1. Top \in Frame /\ Below \in Seq(Frame)
  BY TopType
<1>2. ASSUME NEW i PROVE [Top EXCEPT !.todo = @ \ {i}] \in Frame
  BY <1>1 DEF Frame
<1>3. ASSUME NEW e \in Events \cup {NoEvent}, Top.kind \in {"destroy", "change", "roomCreate"}
      PROVE  [Top EXCEPT !.event = e] \in Frame
  BY <1>1, <1>3 DEF Frame
<1> QED BY <1>1, <1>2, <1>3, PushType

\* The object lists stay lists of ids.
LEMMA ListsType ==
    ASSUME byObject \in [Objects -> SUBSET Ids], byExact \in [Objects -> SUBSET Ids],
           NEW f, NEW add \in SUBSET Ids, NEW del
    PROVE  /\ ObjectLists(f, add, del) \in [Objects -> SUBSET Ids]
           /\ ExactLists(f, add, del) \in [Objects -> SUBSET Ids]
           /\ NoLists \in [Objects -> SUBSET Ids]
  BY DEF ObjectLists, ExactLists, NoLists

\* A fresh instance is an instance.
LEMMA NewInstanceType ==
    ASSUME NEW o \in Objects
    PROVE  NewInstance(o) \in Instance /\ Blank \in Instance
<1>1. \A p \in Objects : NewInstance(p) \in Instance
  BY DEF NewInstance, Instance
<1> QED BY <1>1, ConstantsAssumption DEF Blank

\* Assigning a field leaves a record of an instance well typed.
LEMMA FieldType ==
    ASSUME NEW r \in Instance
    PROVE  /\ [r EXCEPT !.active = TRUE] \in Instance /\ [r EXCEPT !.active = FALSE] \in Instance
           /\ [r EXCEPT !.destroyed = TRUE] \in Instance
           /\ [r EXCEPT !.created = TRUE] \in Instance
           /\ \A b \in BOOLEAN : [r EXCEPT !.persistent = b] \in Instance
           /\ \A o \in Objects, b \in BOOLEAN :
                 [r EXCEPT !.object = o, !.persistent = b] \in Instance
  BY DEF Instance

\* The same for one instance among all.
LEMMA UpdateType ==
    ASSUME NEW g \in [Ids -> Instance], NEW i \in Ids
    PROVE  /\ [g EXCEPT ![i].active = TRUE] \in [Ids -> Instance]
           /\ [g EXCEPT ![i].active = FALSE] \in [Ids -> Instance]
           /\ [g EXCEPT ![i].destroyed = TRUE] \in [Ids -> Instance]
           /\ [g EXCEPT ![i].created = TRUE] \in [Ids -> Instance]
           /\ \A b \in BOOLEAN : [g EXCEPT ![i].persistent = b] \in [Ids -> Instance]
           /\ \A o \in Objects, b \in BOOLEAN :
                [g EXCEPT ![i].object = o, ![i].persistent = b] \in [Ids -> Instance]
<1>1. ASSUME NEW r \in Instance PROVE [g EXCEPT ![i] = r] \in [Ids -> Instance]
  OBVIOUS
<1>2. g[i] \in Instance
  OBVIOUS
<1> QED BY <1>1, <1>2, FieldType

-------------------------------------------------------------------------------
(* Type correctness                                                         *)

\* Every operation of game code preserves the types.
LEMMA GameCodeType == TypeOK /\ GameCode => TypeOK'
<1> SUFFICES ASSUME TypeOK, GameCode PROVE TypeOK'
  OBVIOUS
<1> USE ConstantsAssumption DEF TypeOK, tables, heapVars, roomVars, engineVars, history
<1>1. \A o \in Objects : NewInstance(o) \in Instance
  BY NewInstanceType
<1>2. nextId <= MaxId => nextId \in Ids
  BY DEF Ids
<1>3. ASSUME NEW f \in [Ids -> Instance], Register(nextId, f), nextId \in Ids
      PROVE  /\ heap' \subseteq Ids /\ instances' \subseteq Ids /\ byId' \subseteq Ids
             /\ inst' \in [Ids -> Instance]
             /\ byObject' \in [Objects -> SUBSET Ids] /\ byExact' \in [Objects -> SUBSET Ids]
             /\ nextId' \in Nat /\ nextId' >= FirstDynamic /\ births' \in [Ids -> Nat]
  <2>1. {nextId} \in SUBSET Ids
    BY <1>3
  <2>2. byObject' \in [Objects -> SUBSET Ids] /\ byExact' \in [Objects -> SUBSET Ids]
    BY <1>3, <2>1, ListsType DEF Register
  <2>3. births' \in [Ids -> Nat]
    BY <1>3 DEF Register
  <2>4. inst' \in [Ids -> Instance]
    BY <1>3 DEF Register
  <2>5. /\ heap' \subseteq Ids /\ instances' \subseteq Ids /\ byId' \subseteq Ids
        /\ nextId' \in Nat /\ nextId' >= FirstDynamic
    BY <1>3 DEF Register
  <2> QED BY <2>2, <2>3, <2>4, <2>5
<1>4. ASSUME NEW i \in Ids, NEW f, NEW e \in Events \cup {NoEvent},
             NEW k \in {"create", "destroy"}
      PROVE  /\ <<SelfFrame(k, i, e)>> \o stack \in Seq(Frame)
             /\ Execute(f, i, "PreCreate", <<SelfFrame(k, i, e)>> \o stack) \in Seq(Frame)
  <2>1. <<SelfFrame(k, i, e)>> \o stack \in Seq(Frame)
    BY SelfFrameType, PushType
  <2>2. "PreCreate" \in Events
    BY DEF Events
  <2> QED BY <2>1, <2>2, ExecuteType
<1>5. ASSUME NEW o \in Objects, InstanceCreate(o) PROVE TypeOK'
  <2>1. nextId \in Ids
    BY <1>2, <1>5 DEF InstanceCreate
  <2>2. [inst EXCEPT ![nextId] = [NewInstance(o) EXCEPT !.created = TRUE]] \in [Ids -> Instance]
    BY <1>1, <2>1, FieldType
  <2>3. "Create" \in Events
    BY DEF Events
  <2> QED BY <1>3, <1>4, <1>5, <2>1, <2>2, <2>3 DEF InstanceCreate
<1>6. ASSUME NEW i \in Ids, NEW b \in BOOLEAN, InstanceCopy(i, b) PROVE TypeOK'
  <2> DEFINE new == NewInstance(inst[i].object)
             f == [inst EXCEPT ![nextId] = [new EXCEPT !.created = TRUE],
                               ![i].active = new.active, ![i].persistent = new.persistent]
  <2>1. nextId \in Ids
    BY <1>2, <1>6 DEF InstanceCopy
  <2>2. new \in Instance
    BY <1>1 DEF Instance
  <2>3. f \in [Ids -> Instance]
    <3>1. [new EXCEPT !.created = TRUE] \in Instance
      BY <2>2 DEF Instance
    <3>2. new.active \in BOOLEAN /\ new.persistent \in BOOLEAN
      BY <2>2 DEF Instance
    <3> HIDE DEF new
    <3> QED BY <3>1, <3>2, <2>1 DEF Instance
  <2>4. Register(nextId, f)
    BY <1>6 DEF InstanceCopy
  <2>5. stack' \in Seq(Frame)
    <3>1. "Create" \in Events
      BY DEF Events
    <3> QED BY <1>4, <1>6, <2>1, <3>1 DEF InstanceCopy
  <2> HIDE DEF f
  <2> QED BY <1>3, <1>6, <2>1, <2>3, <2>4, <2>5 DEF InstanceCopy
<1>7. ASSUME NEW i \in Ids, NEW b \in BOOLEAN, InstanceDestroy(i, b) PROVE TypeOK'
  <2> DEFINE e == IF b THEN "Destroy" ELSE "CleanUp"
  <2>0. inst' = [inst EXCEPT ![i].destroyed = TRUE] /\ stack' = <<SelfFrame("destroy", i, e)>> \o stack
    BY <1>7 DEF InstanceDestroy, MarkDestroyed
  <2>1. inst' \in [Ids -> Instance]
    BY <2>0, UpdateType
  <2>2. stack' \in Seq(Frame)
    <3>1. e \in Events
      BY DEF Events
    <3> HIDE DEF e
    <3> QED BY <1>4, <2>0, <3>1
  <2> QED BY <1>7, <2>1, <2>2 DEF InstanceDestroy
<1>8. ASSUME NEW o \in Objects, NEW b \in BOOLEAN, InstanceDestroyObject(o, b) PROVE TypeOK'
  <2>1. stack' \in Seq(Frame)
    BY <1>8, LoopFrameType, PushType DEF InstanceDestroyObject, Events
  <2> QED BY <1>8, <2>1 DEF InstanceDestroyObject
<1>9. ASSUME NEW i \in Ids, NEW b \in BOOLEAN, SetPersistent(i, b) PROVE TypeOK'
  BY <1>9, UpdateType DEF SetPersistent
<1>10. ASSUME NEW i \in Ids, NEW o \in Objects, NEW b \in BOOLEAN, InstanceChange(i, o, b)
       PROVE  TypeOK'
  <2>1. CASE b
    <3>1. [SelfFrame("change", i, "CleanUp") EXCEPT !.object = o] \in Frame
      BY DEF SelfFrame, FrameOf, Frame, Kinds, Events
    <3>2. "Destroy" \in Events
      BY DEF Events
    <3>3. <<[SelfFrame("change", i, "CleanUp") EXCEPT !.object = o]>> \o stack \in Seq(Frame)
      BY <3>1, PushType
    <3>4. stack' \in Seq(Frame)
      <4>1. stack' = Execute(inst, i, "Destroy",
                       <<[SelfFrame("change", i, "CleanUp") EXCEPT !.object = o]>> \o stack)
        BY <1>10, <2>1 DEF InstanceChange
      <4> QED BY <4>1, <3>2, <3>3, ExecuteType
    <3> QED BY <1>10, <2>1, <3>4 DEF InstanceChange
  <2>2. CASE ~ b
    <3>1. Changed(i, o) \in [Ids -> Instance]
      <4>1. (o \in PersistentObjects) \in BOOLEAN
        OBVIOUS
      <4> QED BY <4>1, UpdateType DEF Changed
    <3>2. {i} \in SUBSET Ids
      OBVIOUS
    <3>3. byObject' \in [Objects -> SUBSET Ids] /\ byExact' \in [Objects -> SUBSET Ids]
      <4>1. ChangeObject(i, o)
        BY <1>10, <2>2 DEF InstanceChange
      <4>2. /\ byObject' = ObjectLists(Changed(i, o), {i}, {i})
            /\ byExact' = ExactLists(Changed(i, o), {i}, {i})
        BY <4>1 DEF ChangeObject
      <4> QED BY <4>2, <3>2, ListsType
    <3> QED BY <1>10, <2>2, <3>1, <3>3 DEF InstanceChange, ChangeObject
  <2> QED BY <2>1, <2>2
<1>11. ASSUME NEW sel \in Selections, InstanceActivate(sel) \/ InstanceDeactivate(sel)
       PROVE  TypeOK'
  <2>1. inst' \in [Ids -> Instance]
    <3>1. CASE InstanceActivate(sel)
      BY <3>1, FieldType DEF InstanceActivate, SetActive
    <3>2. CASE InstanceDeactivate(sel)
      BY <3>2, FieldType DEF InstanceDeactivate, SetActive
    <3> QED BY <1>11, <3>1, <3>2
  <2> QED BY <1>11, <2>1 DEF InstanceActivate, InstanceDeactivate, SetActive
<1>12. ASSUME NEW b \in BOOLEAN, InstanceDeactivateAll(b) PROVE TypeOK'
  <2>1. inst' \in [Ids -> Instance]
    BY <1>12, FieldType DEF InstanceDeactivateAll, SetActive
  <2> QED BY <1>12, <2>1 DEF InstanceDeactivateAll, SetActive
<1>13. ASSUME NEW r \in Rooms, RoomGoto(r) PROVE TypeOK'
  BY <1>13 DEF RoomGoto, SetPendingRoom
<1>14. ASSUME NEW r \in Rooms, NEW b \in BOOLEAN, RoomSetPersistent(r, b) PROVE TypeOK'
  BY <1>14 DEF RoomSetPersistent
<1>15. CASE GameRestart
  BY <1>15 DEF GameRestart, SetPendingRoom
<1>16. CASE GameEnd
  BY <1>16 DEF GameEnd
<1>17. CASE CodeReturn
  BY <1>17, TopType DEF CodeReturn, Running
<1>18. CASE WalkFreed
  <2>1. stack' \in Seq(Frame)
    BY <1>18, WildFrameType, PushType DEF WalkFreed
  <2> QED BY <1>18, <2>1 DEF WalkFreed
<1> QED
  BY <1>5, <1>6, <1>7, <1>8, <1>9, <1>10, <1>11, <1>12, <1>13, <1>14, <1>15, <1>16, <1>17, <1>18
  DEF GameCode

\* What is known of the frame on top while a handler runs.
LEMMA RunningType ==
    ASSUME TypeOK, NEW kind, Running(kind)
    PROVE  /\ Top \in Frame /\ Top.kind = kind /\ Below \in Seq(Frame)
           /\ Top.todo \in SUBSET Ids /\ Top.event \in Events \cup {NoEvent}
           /\ kind = "dispatch" => Top.event \in Events
           /\ kind = "change" => Top.object \in Objects
           /\ kind \in {"create", "destroy", "change", "free", "roomCreate"} => Top.self \in Ids
           /\ \A i : <<[Top EXCEPT !.todo = @ \ {i}]>> \o Below \in Seq(Frame)
           /\ kind \in {"destroy", "change", "roomCreate"} =>
                \A e \in Events \cup {NoEvent} :
                    <<[Top EXCEPT !.event = e]>> \o Below \in Seq(Frame)
<1>1. stack \in Seq(Frame) /\ stack # <<>> /\ Top.kind = kind
  BY DEF TypeOK, Running, Top
<1>2. Top \in Frame /\ Below \in Seq(Frame)
  BY <1>1, TopType
<1> QED BY <1>1, <1>2, TopUpdateType DEF Frame

\* Forgetting the fields of instances keeps them typed.
LEMMA FreeType ==
    ASSUME TypeOK, NEW dead, Free(dead)
    PROVE  /\ heap' \subseteq Ids /\ byId' \subseteq Ids
           /\ inst' \in [Ids -> Instance] /\ births' \in [Ids -> Nat]
<1>1. Blank \in Instance
  BY ConstantsAssumption, NewInstanceType
<1>2. inst' \in [Ids -> Instance]
  BY <1>1 DEF TypeOK, Free
<1>3. births' \in [Ids -> Nat]
  BY DEF TypeOK, Free
<1> QED BY <1>2, <1>3 DEF TypeOK, Free

\* The events are events.
LEMMA EventNames ==
    /\ "PreCreate" \in Events /\ "PreCode" \in Events /\ "Create" \in Events
    /\ "CreationCode" \in Events /\ "RoomCode" \in Events /\ "Destroy" \in Events
    /\ "CleanUp" \in Events /\ "Step" \in Events /\ "Draw" \in Events
    /\ "GameStart" \in Events /\ "RoomStart" \in Events /\ "RoomEnd" \in Events
  BY DEF Events

\* The handlers of events that engine loops interrupt preserve the types.
LEMMA HandlerType ==
    TypeOK /\ (CreateStep \/ DestroyStep \/ DestroyEachStep \/ ChangeStep \/ DispatchStep) => TypeOK'
<1> SUFFICES ASSUME TypeOK,
                    CreateStep \/ DestroyStep \/ DestroyEachStep \/ ChangeStep \/ DispatchStep
             PROVE  TypeOK'
  OBVIOUS
<1> USE EventNames DEF tables, heapVars, roomVars, engineVars, history
<1>1. CASE CreateStep
  <2>1. Top.self \in Ids /\ Below \in Seq(Frame)
    BY <1>1, RunningType DEF CreateStep
  <2>2. stack' \in Seq(Frame)
    BY <1>1, <2>1, ExecuteType DEF CreateStep
  <2>3. births' \in [Ids -> Nat]
    BY <1>1, <2>1 DEF CreateStep, TypeOK
  <2> QED BY <1>1, <2>2, <2>3 DEF CreateStep, TypeOK
<1>2. CASE DestroyStep
  <2>1. /\ Top.self \in Ids /\ Below \in Seq(Frame)
        /\ \A e \in Events \cup {NoEvent} : <<[Top EXCEPT !.event = e]>> \o Below \in Seq(Frame)
    BY <1>2, RunningType DEF DestroyStep
  <2>2. stack' \in Seq(Frame)
    <3>1. CASE Top.event = "Destroy" /\
               stack' = Execute(inst, Top.self, "Destroy", <<[Top EXCEPT !.event = "CleanUp"]>> \o Below)
      BY <2>1, <3>1, ExecuteType
    <3>2. CASE Top.event = "CleanUp" /\
               stack' = Execute(inst, Top.self, "CleanUp", <<[Top EXCEPT !.event = NoEvent]>> \o Below)
      BY <2>1, <3>2, ExecuteType
    <3>3. CASE stack' = Below
      BY <2>1, <3>3
    <3> QED BY <1>2, <3>1, <3>2, <3>3 DEF DestroyStep
  <2>3. inst' \in [Ids -> Instance]
    <3>1. CASE inst' = [inst EXCEPT ![Top.self].active = FALSE]
      BY <2>1, <3>1, UpdateType DEF TypeOK
    <3>2. CASE inst' = inst
      BY <3>2 DEF TypeOK
    <3> QED BY <1>2, <3>1, <3>2 DEF DestroyStep
  <2> QED BY <1>2, <2>2, <2>3 DEF DestroyStep, TypeOK
<1>3. CASE DestroyEachStep
  <2>1. /\ Top.todo \in SUBSET Ids /\ Below \in Seq(Frame)
        /\ Top.event \in Events \cup {NoEvent}
        /\ \A i : <<[Top EXCEPT !.todo = @ \ {i}]>> \o Below \in Seq(Frame)
    BY <1>3, RunningType DEF DestroyEachStep
  <2>2. stack' \in Seq(Frame) /\ inst' \in [Ids -> Instance]
    <3>1. CASE Top.todo = {}
      BY <1>3, <2>1, <3>1 DEF DestroyEachStep, TypeOK
    <3>2. CASE Top.todo # {}
      <4> PICK i \in Top.todo :
             LET rest == <<[Top EXCEPT !.todo = @ \ {i}]>> \o Below IN
             IF inst[i].active THEN MarkDestroyed(i, Top.event, rest)
             ELSE stack' = rest /\ UNCHANGED inst
        BY <1>3, <3>2 DEF DestroyEachStep
      <4> DEFINE rest == <<[Top EXCEPT !.todo = @ \ {i}]>> \o Below
      <4>1. rest \in Seq(Frame) /\ i \in Ids
        BY <2>1
      <4>2. CASE inst[i].active /\ ~ inst[i].destroyed
        <5>1. /\ inst' = [inst EXCEPT ![i].destroyed = TRUE]
              /\ stack' = <<SelfFrame("destroy", i, Top.event)>> \o rest
          BY <4>2 DEF MarkDestroyed
        <5>2. SelfFrame("destroy", i, Top.event) \in Frame
          BY <2>1, <4>1, SelfFrameType
        <5> HIDE DEF rest
        <5>3. inst' \in [Ids -> Instance]
          BY <4>1, <5>1, UpdateType DEF TypeOK
        <5> QED BY <4>1, <5>1, <5>2, <5>3, PushType
      <4>3. CASE ~ (inst[i].active /\ ~ inst[i].destroyed)
        BY <4>1, <4>3 DEF MarkDestroyed, TypeOK
      <4> QED BY <4>2, <4>3
    <3> QED BY <3>1, <3>2
  <2> QED BY <1>3, <2>2 DEF DestroyEachStep, TypeOK
<1>4. CASE ChangeStep
  <2>1. /\ Top.self \in Ids /\ Below \in Seq(Frame) /\ Top.object \in Objects
        /\ <<[Top EXCEPT !.event = NoEvent]>> \o Below \in Seq(Frame)
    BY <1>4, RunningType DEF ChangeStep
  <2>2. CASE Top.event = "CleanUp"
    <3>1. stack' = Execute(inst, Top.self, "CleanUp", <<[Top EXCEPT !.event = NoEvent]>> \o Below)
      BY <1>4, <2>2 DEF ChangeStep, NoEvent
    <3>2. stack' \in Seq(Frame)
      BY <2>1, <3>1, ExecuteType
    <3> QED BY <1>4, <2>2, <3>2 DEF ChangeStep, TypeOK, NoEvent
  <2>3. CASE Top.event = NoEvent
    <3>1. /\ ChangeObject(Top.self, Top.object)
          /\ stack' = Execute(Changed(Top.self, Top.object), Top.self, "Create", Below)
      BY <1>4, <2>3 DEF ChangeStep, NoEvent
    <3>2. stack' \in Seq(Frame)
      BY <2>1, <3>1, ExecuteType
    <3>3. Changed(Top.self, Top.object) \in [Ids -> Instance]
      <4>1. (Top.object \in PersistentObjects) \in BOOLEAN
        OBVIOUS
      <4> QED BY <2>1, <4>1, UpdateType DEF Changed, TypeOK
    <3>4. {Top.self} \in SUBSET Ids
      BY <2>1
    <3>5. byObject' \in [Objects -> SUBSET Ids] /\ byExact' \in [Objects -> SUBSET Ids]
      BY <3>1, <3>4, ListsType DEF ChangeObject, TypeOK
    <3> QED BY <3>1, <3>2, <3>3, <3>5 DEF ChangeObject, TypeOK
  <2> QED BY <1>4, <2>2, <2>3 DEF ChangeStep
<1>5. CASE DispatchStep
  <2>1. /\ Top.todo \in SUBSET Ids /\ Below \in Seq(Frame) /\ Top.event \in Events
        /\ \A i : <<[Top EXCEPT !.todo = @ \ {i}]>> \o Below \in Seq(Frame)
    BY <1>5, RunningType DEF DispatchStep
  <2>2. stack' \in Seq(Frame)
    <3>1. CASE Top.todo = {}
      BY <1>5, <2>1, <3>1 DEF DispatchStep
    <3>2. CASE Top.todo # {}
      <4> PICK i \in Top.todo :
             LET rest == <<[Top EXCEPT !.todo = @ \ {i}]>> \o Below IN
             stack' = IF inst[i].active THEN Execute(inst, i, Top.event, rest) ELSE rest
        BY <1>5, <3>2 DEF DispatchStep
      <4>1. i \in Ids
        BY <2>1
      <4> QED BY <2>1, <4>1, ExecuteType
    <3> QED BY <3>1, <3>2
  <2> QED BY <1>5, <2>2 DEF DispatchStep, TypeOK
<1> QED BY <1>1, <1>2, <1>3, <1>4, <1>5

\* Entering a room, up to the loop over its instances, preserves the types.
LEMMA ArrivalType ==
    TypeOK /\ (EnterRoom \/ TakeStep \/ FreeStep \/ TakeDone \/ RestoreRoom) => TypeOK'
<1> SUFFICES ASSUME TypeOK, EnterRoom \/ TakeStep \/ FreeStep \/ TakeDone \/ RestoreRoom
             PROVE  TypeOK'
  OBVIOUS
<1> USE EventNames DEF tables, heapVars, roomVars, engineVars, history
<1>1. CASE EnterRoom
  <2>1. stack' \in Seq(Frame)
    <3>1. LoopFrame("take", instances, NoEvent) \in Frame
      BY LoopFrameType DEF TypeOK
    <3> QED BY <1>1, <3>1 DEF EnterRoom
  <2>2. phase' \in {"takeRestore", "takePopulate"}
    BY <1>1 DEF EnterRoom
  <2> QED BY <1>1, <2>1, <2>2 DEF EnterRoom, TypeOK, Phases
<1>2. CASE TakeStep
  <2>1. /\ Top.todo \in SUBSET Ids
        /\ \A i : <<[Top EXCEPT !.todo = @ \ {i}]>> \o Below \in Seq(Frame)
    BY <1>2, RunningType DEF TakeStep
  <2> PICK i \in Top.todo :
         LET rest == <<[Top EXCEPT !.todo = @ \ {i}]>> \o Below IN
         IF Carries(i)
         THEN carried' = carried \cup {i} /\ stack' = rest /\ UNCHANGED byId
         ELSE /\ byId' = byId \ {i}
              /\ stack' = Execute(inst, i, "CleanUp", <<SelfFrame("free", i, NoEvent)>> \o rest)
              /\ UNCHANGED carried
    BY <1>2 DEF TakeStep
  <2> DEFINE rest == <<[Top EXCEPT !.todo = @ \ {i}]>> \o Below
  <2>2. i \in Ids /\ rest \in Seq(Frame)
    BY <2>1
  <2>3. <<SelfFrame("free", i, NoEvent)>> \o rest \in Seq(Frame)
    BY <2>2, SelfFrameType, PushType
  <2>4. stack' \in Seq(Frame) /\ byId' \subseteq Ids /\ carried' \subseteq Ids
    <3>1. CASE Carries(i)
      BY <2>2, <3>1 DEF TypeOK
    <3>2. CASE ~ Carries(i)
      <4>1. stack' = Execute(inst, i, "CleanUp", <<SelfFrame("free", i, NoEvent)>> \o rest)
        BY <3>2
      <4>2. stack' \in Seq(Frame)
        BY <2>2, <2>3, <4>1, ExecuteType
      <4> QED BY <3>2, <4>2 DEF TypeOK
    <3> QED BY <3>1, <3>2
  <2> QED BY <1>2, <2>4 DEF TakeStep, TypeOK
<1>3. CASE FreeStep
  <2>1. Top.self \in Ids /\ Below \in Seq(Frame)
    BY <1>3, RunningType DEF FreeStep
  <2>2. inst' \in [Ids -> Instance]
    <3>1. Blank \in Instance
      BY ConstantsAssumption, NewInstanceType
    <3> QED BY <1>3, <2>1, <3>1 DEF FreeStep, TypeOK
  <2>3. births' \in [Ids -> Nat]
    BY <1>3, <2>1 DEF FreeStep, TypeOK
  <2>4. byObject' \in [Objects -> SUBSET Ids] /\ byExact' \in [Objects -> SUBSET Ids]
    <3>1. {} \in SUBSET Ids
      OBVIOUS
    <3>2. /\ byObject' = ObjectLists(inst, {}, {Top.self})
          /\ byExact' = ExactLists(inst, {}, {Top.self})
      BY <1>3 DEF FreeStep
    <3> QED BY <3>1, <3>2, ListsType DEF TypeOK
  <2> QED BY <1>3, <2>1, <2>2, <2>3, <2>4 DEF FreeStep, TypeOK
<1>4. CASE TakeDone
  <2>1. Below \in Seq(Frame)
    BY <1>4, RunningType DEF TakeDone
  <2>2. NoLists \in [Objects -> SUBSET Ids]
    BY DEF NoLists
  <2>3. room \in Rooms /\ phase' \in {"restore", "populate"}
    BY <1>4 DEF TakeDone, TypeOK
  <2> QED BY <1>4, <2>1, <2>2, <2>3 DEF TakeDone, TypeOK, Phases
<1>5. CASE RestoreRoom
  <2>1. room \in Rooms
    BY <1>5 DEF RestoreRoom, TypeOK
  <2>2. saved[room].instances \cup carried \in SUBSET Ids
    BY <2>1 DEF TypeOK, SavedRoom
  <2>3. /\ byObject' = ObjectLists(inst, saved[room].instances \cup carried, {})
        /\ byExact' = ExactLists(inst, saved[room].instances \cup carried, {})
    BY <1>5 DEF RestoreRoom
  <2>4. byObject' \in [Objects -> SUBSET Ids] /\ byExact' \in [Objects -> SUBSET Ids]
    BY <2>2, <2>3, ListsType DEF TypeOK
  <2>5. saved' \in [Rooms -> SavedRoom]
    BY <1>5, <2>1 DEF RestoreRoom, TypeOK, SavedRoom
  <2> QED BY <1>5, <2>1, <2>2, <2>4, <2>5 DEF RestoreRoom, TypeOK, Phases
<1> QED BY <1>1, <1>2, <1>3, <1>4, <1>5

\* Building the room and leaving it preserves the types.
LEMMA RoomType ==
    TypeOK /\ (PopulateRoom \/ Pass2Step \/ RoomCreateStep \/ RoomCreationCode
                \/ MarkInitialized \/ LeaveRoom) => TypeOK'
<1> SUFFICES ASSUME TypeOK,
                    PopulateRoom \/ Pass2Step \/ RoomCreateStep \/ RoomCreationCode
                       \/ MarkInitialized \/ LeaveRoom
             PROVE  TypeOK'
  OBVIOUS
<1> USE EventNames DEF tables, heapVars, roomVars, engineVars, history
<1>1. CASE PopulateRoom
  <2> DEFINE new == RoomObjects[room] \ byId
             f == [i \in Ids |-> IF i \in new THEN NewInstance(ObjectOf[i]) ELSE inst[i]]
  <2>1. room \in Rooms
    BY <1>1 DEF PopulateRoom, TypeOK
  <2>2. RoomObjects[room] \in SUBSET StaticIds /\ StaticIds \subseteq Ids
    BY <2>1, ConstantsAssumption DEF Ids
  <2>3. f \in [Ids -> Instance]
    <3>1. ASSUME NEW i \in new PROVE NewInstance(ObjectOf[i]) \in Instance
      BY <2>2, ConstantsAssumption, NewInstanceType
    <3> HIDE DEF new
    <3> QED BY <3>1 DEF TypeOK
  <2>4. new \cup carried \in SUBSET Ids
    BY <2>2 DEF TypeOK
  <2>5. byObject' \in [Objects -> SUBSET Ids] /\ byExact' \in [Objects -> SUBSET Ids]
    <3>1. /\ byObject' = ObjectLists(f, new \cup carried, {})
          /\ byExact' = ExactLists(f, new \cup carried, {})
      BY <1>1 DEF PopulateRoom
    <3> HIDE DEF f, new
    <3> QED BY <2>4, <3>1, ListsType DEF TypeOK
  <2>6. stack' \in Seq(Frame)
    <3>1. LoopFrame("pass2", RoomObjects[room], NoEvent) \in Frame
      BY <2>2, LoopFrameType
    <3> QED BY <1>1, <3>1 DEF PopulateRoom
  <2>7. births' \in [Ids -> Nat]
    BY <1>1 DEF PopulateRoom, TypeOK
  <2>8. inst' = f /\ heap' = heap \cup new /\ byId' = byId \cup new /\ instances' = new \cup carried
    BY <1>1 DEF PopulateRoom
  <2> HIDE DEF f, new
  <2> QED BY <1>1, <2>1, <2>3, <2>4, <2>5, <2>6, <2>7, <2>8 DEF PopulateRoom, TypeOK, Phases
<1>2. CASE Pass2Step
  <2>1. /\ Top.todo \in SUBSET Ids /\ Below \in Seq(Frame)
        /\ \A i : <<[Top EXCEPT !.todo = @ \ {i}]>> \o Below \in Seq(Frame)
    BY <1>2, RunningType DEF Pass2Step
  <2>2. stack' \in Seq(Frame) /\ inst' \in [Ids -> Instance]
    <3>1. CASE Top.todo = {}
      BY <1>2, <2>1, <3>1 DEF Pass2Step, TypeOK
    <3>2. CASE Top.todo # {}
      <4> PICK i \in Top.todo :
             LET rest == <<[Top EXCEPT !.todo = @ \ {i}]>> \o Below IN
             IF NeedsCreate(i)
             THEN /\ inst' = [inst EXCEPT ![i].created = TRUE]
                  /\ stack' = IF inst[i].destroyed THEN rest
                              ELSE <<SelfFrame("roomCreate", i, "PreCreate")>> \o rest
             ELSE stack' = rest /\ UNCHANGED inst
        BY <1>2, <3>2 DEF Pass2Step
      <4> DEFINE rest == <<[Top EXCEPT !.todo = @ \ {i}]>> \o Below
      <4>1. i \in Ids /\ rest \in Seq(Frame)
        BY <2>1
      <4>2. CASE NeedsCreate(i)
        <5>1. <<SelfFrame("roomCreate", i, "PreCreate")>> \o rest \in Seq(Frame)
          BY <4>1, SelfFrameType, PushType
        <5>2. inst' = [inst EXCEPT ![i].created = TRUE]
          BY <4>2
        <5>3. inst' \in [Ids -> Instance]
          BY <4>1, <5>2, UpdateType DEF TypeOK
        <5> QED BY <4>1, <4>2, <5>1, <5>3
      <4>3. CASE ~ NeedsCreate(i)
        BY <4>1, <4>3 DEF TypeOK
      <4> QED BY <4>2, <4>3
    <3> QED BY <3>1, <3>2
  <2>3. phase = "pass2" /\ phase' \in {"pass2", "roomCode"}
    BY <1>2 DEF Pass2Step
  <2> QED BY <1>2, <2>2, <2>3 DEF Pass2Step, TypeOK, Phases
<1>3. CASE RoomCreateStep
  <2>1. /\ Top.self \in Ids /\ Below \in Seq(Frame)
        /\ \A e \in Events \cup {NoEvent} : <<[Top EXCEPT !.event = e]>> \o Below \in Seq(Frame)
    BY <1>3, RunningType DEF RoomCreateStep
  <2>2. stack' \in Seq(Frame)
    <3>1. CASE stack' = Execute(inst, Top.self, "PreCreate", <<[Top EXCEPT !.event = "PreCode"]>> \o Below)
      BY <2>1, <3>1, ExecuteType
    <3>2. CASE stack' = ExecuteCode(Top.self, "PreCode", <<[Top EXCEPT !.event = "Create"]>> \o Below)
      BY <2>1, <3>2, ExecuteCodeType
    <3>3. CASE stack' = Below
      BY <2>1, <3>3
    <3>4. CASE stack' = Execute(inst, Top.self, "Create", <<[Top EXCEPT !.event = "CreationCode"]>> \o Below)
      BY <2>1, <3>4, ExecuteType
    <3>5. CASE stack' = ExecuteCode(Top.self, "CreationCode", Below)
      BY <2>1, <3>5, ExecuteCodeType
    <3> QED BY <1>3, <3>1, <3>2, <3>3, <3>4, <3>5 DEF RoomCreateStep
  <2>3. births' \in [Ids -> Nat]
    BY <1>3, <2>1 DEF RoomCreateStep, TypeOK
  <2> QED BY <1>3, <2>2, <2>3 DEF RoomCreateStep, TypeOK
<1>4. CASE RoomCreationCode
  <2>1. stack' \in Seq(Frame)
    <3>1. CodeFrame(NoOne, "RoomCode") \in Frame
      BY CodeFrameType
    <3> QED BY <1>4, <3>1 DEF RoomCreationCode
  <2> QED BY <1>4, <2>1 DEF RoomCreationCode, TypeOK, Phases
<1>5. CASE MarkInitialized
  BY <1>5 DEF MarkInitialized, TypeOK, Phases, SavedRoom
<1>6. CASE LeaveRoom
  <2>1. room \in Rooms
    BY <1>6 DEF LeaveRoom, TypeOK
  <2>2. kept' \subseteq Rooms
    BY <1>6, <2>1 DEF LeaveRoom, TypeOK
  <2>3. CASE LeavesPersistently
    <3> DEFINE toSave == {i \in instances \ Staying : inst[i].active}
    <3>1. PersistRoomState
      BY <1>6, <2>3 DEF LeaveRoom
    <3>2. /\ heap' \subseteq Ids /\ byId' \subseteq Ids
          /\ inst' \in [Ids -> Instance] /\ births' \in [Ids -> Nat]
      BY <3>1, FreeType DEF PersistRoomState, Earlier
    <3>3. Staying \subseteq Ids /\ toSave \subseteq Ids
      BY DEF Staying, TypeOK
    <3>4. saved' = [saved EXCEPT ![room] = [initialized |-> TRUE, instances |-> toSave]]
      BY <3>1 DEF PersistRoomState, Earlier
    <3>5. saved' \in [Rooms -> SavedRoom]
      BY <3>3, <3>4, <2>1 DEF TypeOK, SavedRoom
    <3>6. /\ instances' \subseteq Ids
          /\ byObject' \in [Objects -> SUBSET Ids] /\ byExact' \in [Objects -> SUBSET Ids]
      BY <3>1, <3>3 DEF PersistRoomState, Earlier
    <3>7. nextId' = nextId
      BY <3>1 DEF PersistRoomState, Earlier
    <3> QED BY <1>6, <2>2, <3>2, <3>5, <3>6, <3>7 DEF LeaveRoom, TypeOK, Phases, Callers
  <2>4. CASE ~ LeavesPersistently
    BY <1>6, <2>2, <2>4 DEF LeaveRoom, TypeOK, Phases, Callers
  <2> QED BY <2>3, <2>4
<1> QED BY <1>1, <1>2, <1>3, <1>4, <1>5, <1>6

\* The start of the game, the frame loop and the restart preserve the types.
LEMMA LoopType ==
    TypeOK /\ (Boot \/ EnteredRoom \/ GameStarted \/ BootCheck \/ BootLeave \/ BeginStep \/ Exit
                \/ EndStep \/ Draw \/ HandlePendingRoomChange \/ NextFrame \/ EndRoomChange)
      => TypeOK'
<1> SUFFICES ASSUME TypeOK,
                    Boot \/ EnteredRoom \/ GameStarted \/ BootCheck \/ BootLeave \/ BeginStep \/ Exit
                       \/ EndStep \/ Draw \/ HandlePendingRoomChange \/ NextFrame \/ EndRoomChange
             PROVE  TypeOK'
  OBVIOUS
<1> USE EventNames DEF tables, heapVars, roomVars, engineVars, history
<1>1. ASSUME NEW from \in Phases \ {"boot", "enter"}, NEW e \in Events,
             NEW to \in Phases, Dispatch(from, e, to),
             pendingRoom' \in Rooms \cup {NoRoom, Restart}, target' \in Rooms
      PROVE  TypeOK'
  <2>1. Dispatched(e) \in SUBSET Ids
    BY DEF Dispatched, TypeOK
  <2>2. LoopFrame("dispatch", Dispatched(e), e) \in Frame
    BY <2>1, LoopFrameType
  <2>3. stack' \in Seq(Frame)
    BY <1>1, <2>2 DEF Dispatch
  <2>4. room \in Rooms
    BY <1>1 DEF Dispatch, GoTo, TypeOK
  <2> QED BY <1>1, <2>3, <2>4 DEF Dispatch, GoTo, TypeOK
<1>2. ASSUME NEW from \in Phases \ {"boot", "enter"}, NEW to \in Phases, CleanupDestroyed(from, to)
      PROVE  TypeOK'
  <2>1. Free(Doomed)
    BY <1>2 DEF CleanupDestroyed
  <2>2. /\ heap' \subseteq Ids /\ byId' \subseteq Ids
        /\ inst' \in [Ids -> Instance] /\ births' \in [Ids -> Nat]
    BY <2>1, FreeType
  <2>3. byObject' \in [Objects -> SUBSET Ids] /\ byExact' \in [Objects -> SUBSET Ids]
    <3>1. byObject' = ObjectLists(inst, {}, Doomed) /\ byExact' = ExactLists(inst, {}, Doomed)
      BY <1>2 DEF CleanupDestroyed
    <3>2. {} \in SUBSET Ids
      OBVIOUS
    <3> QED BY <3>1, <3>2, ListsType DEF TypeOK
  <2>4. room \in Rooms
    BY <1>2 DEF CleanupDestroyed, GoTo, TypeOK
  <2> QED BY <1>2, <2>2, <2>3, <2>4 DEF CleanupDestroyed, GoTo, TypeOK
<1>3. ASSUME NEW from, Reset(from) PROVE TypeOK'
  <2>1. Blank \in Instance
    BY ConstantsAssumption, NewInstanceType
  <2>2. inst' \in [Ids -> Instance]
    BY <1>3, <2>1 DEF Reset
  <2>3. births' \in [Ids -> Nat]
    BY <1>3 DEF Reset
  <2>4. byObject' \in [Objects -> SUBSET Ids] /\ byExact' \in [Objects -> SUBSET Ids]
    BY <1>3 DEF Reset, NoLists
  <2>5. saved' \in [Rooms -> SavedRoom]
    BY <1>3 DEF Reset, SavedRoom
  <2>6. nextId' \in Nat /\ nextId' >= FirstDynamic
    BY <1>3, ConstantsAssumption DEF Reset
  <2> QED BY <1>3, <2>2, <2>3, <2>4, <2>5, <2>6 DEF Reset, TypeOK, Phases
<1>4. CASE Boot
  BY <1>4, ConstantsAssumption DEF Boot, GoTo, TypeOK, Phases, Callers
<1>5. CASE EnteredRoom
  BY <1>1, <1>5 DEF EnteredRoom, Phases, TypeOK
<1>6. CASE GameStarted
  BY <1>1, <1>6 DEF GameStarted, Phases, TypeOK
<1>7. CASE BootCheck
  <2>1. CASE TakePendingRoom("bootCheck", "bootLeave")
    BY <1>1, <2>1 DEF TakePendingRoom, Phases, TypeOK
  <2>2. CASE pendingRoom = NoRoom /\ GoTo("bootCheck", "frame") /\
             UNCHANGED <<heapVars, roomVars, caller, target, stack, history>>
    BY <2>2 DEF GoTo, TypeOK, Phases
  <2> QED BY <1>3, <1>7, <2>1, <2>2 DEF BootCheck
<1>8. CASE BootLeave
  BY <1>8 DEF BootLeave, GoTo, TypeOK, Phases, Callers
<1>9. CASE BeginStep
  BY <1>1, <1>9 DEF BeginStep, Phases, TypeOK
<1>10. CASE Exit
  BY <1>10 DEF Exit, GoTo, TypeOK, Phases
<1>11. CASE EndStep \/ EndRoomChange
  BY <1>2, <1>11 DEF EndStep, EndRoomChange, Phases
<1>12. CASE Draw
  BY <1>1, <1>12 DEF Draw, Phases, TypeOK
<1>13. CASE HandlePendingRoomChange
  <2>1. CASE TakePendingRoom("drawn", "leave")
    BY <1>1, <2>1 DEF TakePendingRoom, Phases, TypeOK
  <2> QED BY <1>3, <1>13, <2>1 DEF HandlePendingRoomChange
<1>14. CASE NextFrame
  BY <1>14 DEF NextFrame, GoTo, TypeOK, Phases
<1> QED BY <1>4, <1>5, <1>6, <1>7, <1>8, <1>9, <1>10, <1>11, <1>12, <1>13, <1>14

\* Whatever game code does, every table, frame and flag of the runner keeps its type: in
\* particular the room is set before any loop over its instances starts, and a piece of
\* code always runs on behalf of an instance the program can name.
THEOREM RunnerTypeOK == Spec => []TypeOK
<1>1. Init => TypeOK
  <2> SUFFICES ASSUME Init PROVE TypeOK
    OBVIOUS
  <2>1. Blank \in Instance
    BY ConstantsAssumption, NewInstanceType
  <2>2. inst \in [Ids -> Instance] /\ births \in [Ids -> Nat]
    BY <2>1 DEF Init
  <2>3. stack \in Seq(Frame)
    BY DEF Init
  <2>4. saved \in [Rooms -> SavedRoom]
    BY DEF Init, SavedRoom
  <2>5. byObject \in [Objects -> SUBSET Ids] /\ byExact \in [Objects -> SUBSET Ids]
    BY DEF Init, NoLists
  <2>6. roomPersistent \in [Rooms -> BOOLEAN]
    <3>1. \A r \in Rooms : (r \in PersistentRooms) \in BOOLEAN
      OBVIOUS
    <3> QED BY <3>1 DEF Init
  <2>7. /\ nextId \in Nat /\ nextId >= FirstDynamic /\ target \in Rooms
        /\ phase \in Phases /\ caller \in Callers /\ (phase \notin {"boot", "enter"} => room \in Rooms)
    BY ConstantsAssumption DEF Init, Phases, Callers
  <2> QED BY <2>2, <2>3, <2>4, <2>5, <2>6, <2>7 DEF Init, TypeOK
<1>2. TypeOK /\ [Next]_vars => TypeOK'
  <2>1. CASE UNCHANGED vars
    BY <2>1 DEF TypeOK, vars, tables, heapVars, roomVars, engineVars, history
  <2>2. CASE GameCode
    BY <2>2, GameCodeType
  <2>3. CASE Engine
    BY <2>3, HandlerType, ArrivalType, RoomType, LoopType DEF Engine
  <2> QED BY <2>1, <2>2, <2>3 DEF Next
<1> QED BY <1>1, <1>2, PTL DEF Spec

-------------------------------------------------------------------------------
(* No dangling pointer: what pushing, popping and running code does to a     *)
(* safe stack.  `Doing' is what the outermost loop still has to visit.        *)

Doing(s) == s[Len(s)].todo

\* A frame that is about allocated instances may be pushed.
LEMMA PushSafe ==
    ASSUME NEW s \in Seq(Frame), NEW h, NEW b, NEW taking \in BOOLEAN, StackSafe(s, h, b, taking),
           NEW f \in Frame, f.kind \notin {"take", "free"}, f.self \in h \cup {NoOne},
           f.kind # "pass2" => f.todo \subseteq h, f.kind = "wild" => taking
    PROVE  /\ StackSafe(<<f>> \o s, h, b, taking)
           /\ taking => Doing(<<f>> \o s) = Doing(s)
<1> DEFINE t == <<f>> \o s
<1>1. /\ t \in Seq(Frame) /\ Len(t) = Len(s) + 1 /\ t[1] = f
      /\ \A k \in DOMAIN t : k # 1 => k - 1 \in DOMAIN s /\ t[k] = s[k - 1]
  OBVIOUS
<1>2. taking => t # <<>> /\ t[Len(t)] = s[Len(s)]
  BY <1>1 DEF StackSafe
<1> HIDE DEF t
<1>3. ASSUME NEW k \in DOMAIN t
      PROVE  /\ t[k].self \in h \cup {NoOne}
             /\ t[k].kind # "pass2" => t[k].todo \subseteq h
             /\ t[k].kind = "take" => taking /\ k = Len(t) /\ t[k].self = NoOne
             /\ t[k].kind = "free" => taking /\ k = Len(t) - 1 /\ t[k].self \notin b
             /\ t[k].kind = "wild" => taking
  <2>1. CASE k = 1
    BY <1>1, <2>1
  <2>2. CASE k # 1
    <3>1. k - 1 \in DOMAIN s /\ t[k] = s[k - 1] /\ k \in Nat /\ Len(s) \in Nat
      BY <1>1, <2>2
    <3> QED BY <1>1, <3>1 DEF StackSafe
  <2> QED BY <2>1, <2>2
<1>4. StackSafe(t, h, b, taking)
  BY <1>2, <1>3 DEF StackSafe
<1> QED BY <1>2, <1>4 DEF t, Doing

\* Any frame but the outermost of a room change may be popped.
LEMMA PopSafe ==
    ASSUME NEW s \in Seq(Frame), NEW h, NEW b, NEW taking \in BOOLEAN, StackSafe(s, h, b, taking),
           s # <<>>, Head(s).kind # "take"
    PROVE  /\ StackSafe(Tail(s), h, b, taking)
           /\ taking => Doing(Tail(s)) = Doing(s)
<1> DEFINE t == Tail(s)
<1>1. /\ t \in Seq(Frame) /\ Len(t) = Len(s) - 1 /\ Len(s) \in Nat /\ Head(s) = s[1]
      /\ \A k \in DOMAIN t : k \in Nat /\ k + 1 \in DOMAIN s /\ t[k] = s[k + 1]
  OBVIOUS
<1>2. taking => t # <<>> /\ t[Len(t)] = s[Len(s)]
  <2> SUFFICES ASSUME taking PROVE t # <<>> /\ t[Len(t)] = s[Len(s)]
    OBVIOUS
  <2>1. s[Len(s)].kind = "take"
    BY DEF StackSafe
  <2>2. Len(s) # 1 /\ Len(s) # 0
    BY <1>1, <2>1
  <2>3. Len(t) \in DOMAIN t
    BY <1>1, <2>2
  <2>4. t[Len(t)] = s[Len(t) + 1]
    BY <1>1, <2>3
  <2>5. Len(t) + 1 = Len(s)
    BY <1>1
  <2>6. t # <<>>
    <3>1. Len(t) # 0
      BY <1>1, <2>2
    <3>2. Len(<<>>) = 0
      BY EmptySeq
    <3> HIDE DEF t
    <3> QED BY <3>1, <3>2, Zenon
  <2> QED BY <2>4, <2>5, <2>6
<1> HIDE DEF t
<1>3. ASSUME NEW k \in DOMAIN t
      PROVE  /\ t[k].self \in h \cup {NoOne}
             /\ t[k].kind # "pass2" => t[k].todo \subseteq h
             /\ t[k].kind = "take" => taking /\ k = Len(t) /\ t[k].self = NoOne
             /\ t[k].kind = "free" => taking /\ k = Len(t) - 1 /\ t[k].self \notin b
             /\ t[k].kind = "wild" => taking
  BY <1>1 DEF StackSafe
<1>4. StackSafe(t, h, b, taking)
  BY <1>2, <1>3 DEF StackSafe
<1> QED BY <1>2, <1>4 DEF t, Doing

\* Running an event leaves the stack safe.
LEMMA ExecuteSafe ==
    ASSUME NEW s \in Seq(Frame), NEW h, NEW b, NEW taking \in BOOLEAN, StackSafe(s, h, b, taking),
           NEW f, NEW i \in Ids \cap h, NEW e \in Events
    PROVE  /\ StackSafe(Execute(f, i, e, s), h, b, taking)
           /\ StackSafe(ExecuteCode(i, e, s), h, b, taking)
           /\ taking => Doing(Execute(f, i, e, s)) = Doing(s)
           /\ taking => Doing(ExecuteCode(i, e, s)) = Doing(s)
<1>1. CodeFrame(i, e) \in Frame
  BY CodeFrameType
<1>2. CodeFrame(i, e).kind = "code" /\ CodeFrame(i, e).self = i /\ CodeFrame(i, e).todo = {}
  BY DEF CodeFrame, FrameOf
<1>3. /\ StackSafe(<<CodeFrame(i, e)>> \o s, h, b, taking)
      /\ taking => Doing(<<CodeFrame(i, e)>> \o s) = Doing(s)
  BY <1>1, <1>2, PushSafe
<1> QED BY <1>3 DEF Execute, ExecuteCode

\* More may be allocated, and fresh ids become known.
LEMMA GrowSafe ==
    ASSUME NEW s \in Seq(Frame), NEW h, NEW b, NEW taking \in BOOLEAN, StackSafe(s, h, b, taking),
           NEW h2, h \subseteq h2, NEW b2, b2 \cap h \subseteq b, NoOne \notin b2
    PROVE  StackSafe(s, h2, b2, taking)
  BY DEF StackSafe

\* A frame that attends to one allocated instance.
LEMMA SelfFrameSafe ==
    ASSUME NEW s \in Seq(Frame), NEW h, NEW b, NEW taking \in BOOLEAN, StackSafe(s, h, b, taking),
           NEW kind \in {"create", "destroy", "roomCreate"}, NEW i \in Ids \cap h,
           NEW e \in Events \cup {NoEvent}
    PROVE  /\ StackSafe(<<SelfFrame(kind, i, e)>> \o s, h, b, taking)
           /\ taking => Doing(<<SelfFrame(kind, i, e)>> \o s) = Doing(s)
<1>1. SelfFrame(kind, i, e) \in Frame
  BY SelfFrameType
<1>2. /\ SelfFrame(kind, i, e).kind = kind /\ SelfFrame(kind, i, e).self = i
      /\ SelfFrame(kind, i, e).todo = {}
  BY DEF SelfFrame, FrameOf
<1> QED BY <1>1, <1>2, PushSafe

-------------------------------------------------------------------------------
(* No dangling pointer: every step keeps SafeInv.                            *)

\* Ids are numbers; no one is not.
LEMMA IdsAreNumbers == Ids \subseteq Nat /\ NoOne \notin Ids
<1>1. FirstDynamic \in Nat /\ MaxId \in Nat /\ StaticIds \subseteq 0 .. (FirstDynamic - 1)
  BY ConstantsAssumption
<1>2. Ids \subseteq Nat
  BY <1>1 DEF Ids
<1> QED BY <1>2, ConstantsAssumption

\* What is known of the stack while a handler runs.
LEMMA RunningSafe ==
    ASSUME TypeOK, SafeInv, NEW kind, Running(kind)
    PROVE  /\ Top.self \in heap \cup {NoOne}
           /\ Top.self \in Ids => Top.self \in heap
           /\ kind # "pass2" => Top.todo \subseteq heap
           /\ kind # "take" => StackSafe(Below, heap, byId, Taking)
           /\ kind # "take" /\ Taking => Doing(Below) = Doing(stack)
<1>1. stack \in Seq(Frame) /\ stack # <<>> /\ Head(stack).kind = kind /\ Taking \in BOOLEAN
  BY DEF TypeOK, Running, Taking
<1>2. 1 \in DOMAIN stack /\ Head(stack) = stack[1]
  BY <1>1
<1>3. StackSafe(stack, heap, byId, Taking)
  BY DEF SafeInv
<1>4. /\ Top.self \in heap \cup {NoOne}
      /\ kind # "pass2" => Top.todo \subseteq heap
  BY <1>1, <1>2, <1>3 DEF StackSafe, Top
<1>5. kind # "take" => /\ StackSafe(Below, heap, byId, Taking)
                       /\ Taking => Doing(Below) = Doing(stack)
  BY <1>1, <1>3, PopSafe DEF Below
<1> QED BY <1>4, <1>5, IdsAreNumbers

\* A step that leaves the tables alone is safe if it leaves the stack and the lists safe.
LEMMA StepSafe ==
    ASSUME SafeInv, UNCHANGED <<heap, byId, nextId, instances, saved, phase, carried>>,
           StackSafe(stack', heap, byId, Taking), Taking => Doing(stack') = Doing(stack),
           ListsInv'
    PROVE  SafeInv'
<1>1. Taking' = Taking /\ SavedInstances' = SavedInstances
  BY DEF Taking, SavedInstances
<1>2. Home' = Home
  BY <1>1 DEF Home, Doing
<1>3. OwnInv'
  BY <1>1, <1>2 DEF SafeInv, OwnInv, Doing
<1>4. IdsInv'
  BY DEF SafeInv, IdsInv
<1> QED BY <1>1, <1>3, <1>4 DEF SafeInv

\* The lists stay sound if no instance changes its object.
LEMMA ListsKept ==
    ASSUME TypeOK, ListsInv, UNCHANGED <<heap, byObject, byExact>>,
           \A i \in Ids : inst'[i].object = inst[i].object
    PROVE  ListsInv'
  BY DEF ListsInv, TypeOK

\* Setting a flag does not change the object.
LEMMA FlagKept ==
    ASSUME TypeOK, NEW i \in Ids,
           \/ inst' = [inst EXCEPT ![i].active = FALSE]
           \/ inst' = [inst EXCEPT ![i].destroyed = TRUE]
           \/ inst' = [inst EXCEPT ![i].created = TRUE]
           \/ \E b \in BOOLEAN : inst' = [inst EXCEPT ![i].persistent = b]
    PROVE  \A j \in Ids : inst'[j].object = inst[j].object
<1>1. inst \in [Ids -> Instance]
  BY DEF TypeOK
<1>2. CASE inst' = [inst EXCEPT ![i].active = FALSE]
  BY <1>1, <1>2 DEF Instance
<1>3. CASE inst' = [inst EXCEPT ![i].destroyed = TRUE]
  BY <1>1, <1>3 DEF Instance
<1>4. CASE inst' = [inst EXCEPT ![i].created = TRUE]
  BY <1>1, <1>4 DEF Instance
<1>5. ASSUME NEW b \in BOOLEAN, inst' = [inst EXCEPT ![i].persistent = b]
      PROVE  \A j \in Ids : inst'[j].object = inst[j].object
  BY <1>1, <1>5 DEF Instance
<1> QED BY <1>2, <1>3, <1>4, <1>5

\* instance_change takes the instance out of its old lists and into its new ones.
LEMMA ChangeSafe ==
    ASSUME TypeOK, ListsInv, NEW i \in heap, NEW o \in Objects, ChangeObject(i, o)
    PROVE  ListsInv'
<1>1. i \in Ids /\ inst' = Changed(i, o) /\ heap' = heap
  BY DEF TypeOK, ChangeObject
<1>2. \A j \in Ids : inst'[j].object = IF j = i THEN o ELSE inst[j].object
  BY <1>1 DEF TypeOK, Changed, Instance
<1>3. ASSUME NEW q \in Objects, NEW j \in byObject'[q]
      PROVE  j \in heap' /\ q \in Lineage[inst'[j].object]
  <2>1. \/ j \in byObject[q] \ {k \in {i} : q \in Lineage[inst[k].object]}
        \/ j \in {k \in {i} : q \in Lineage[Changed(i, o)[k].object]}
    BY <1>3 DEF ChangeObject, ObjectLists
  <2>2. CASE j = i
    BY <1>1, <2>1, <2>2 DEF ListsInv
  <2>3. CASE j # i
    BY <1>1, <1>2, <2>1, <2>3 DEF ListsInv, TypeOK
  <2> QED BY <2>2, <2>3
<1>4. ASSUME NEW q \in Objects, NEW j \in byExact'[q]
      PROVE  j \in heap' /\ q = inst'[j].object
  <2>1. \/ j \in byExact[q] \ {k \in {i} : inst[k].object = q}
        \/ j \in {k \in {i} : Changed(i, o)[k].object = q}
    BY <1>4 DEF ChangeObject, ExactLists
  <2>2. CASE j = i
    BY <1>1, <2>1, <2>2 DEF ListsInv
  <2>3. CASE j # i
    BY <1>1, <1>2, <2>1, <2>3 DEF ListsInv, TypeOK
  <2> QED BY <2>2, <2>3
<1> QED BY <1>3, <1>4 DEF ListsInv

\* A new instance gets an id never used before, in every table at once.
LEMMA RegisterSafe ==
    ASSUME TypeOK, SafeInv, nextId \in Ids, NEW f, Register(nextId, f),
           \A i \in Ids \ {nextId} : f[i].object = inst[i].object,
           UNCHANGED <<saved, phase, carried>>,
           StackSafe(stack', heap', byId', Taking), Taking => Doing(stack') = Doing(stack)
    PROVE  SafeInv'
<1>1. nextId \notin heap /\ nextId \in Nat
  BY DEF SafeInv, IdsInv, TypeOK
<1>2. IdsInv'
  <2>1. \A i \in heap' : i < nextId'
    BY IdsAreNumbers DEF Register, SafeInv, IdsInv, TypeOK
  <2> QED BY <2>1 DEF Register, SafeInv, IdsInv
<1>3. Taking' = Taking /\ SavedInstances' = SavedInstances
  BY DEF Taking, SavedInstances
<1>4. SavedInstances \subseteq byId
  BY DEF SafeInv, OwnInv
<1>5. Home' \subseteq Home \cup {nextId}
  BY <1>3 DEF Home, Doing, Register
<1>6. OwnInv'
  <2>1. Home' \cup SavedInstances' \subseteq byId'
    BY <1>3, <1>5 DEF SafeInv, OwnInv, Register
  <2>2. Home' \cap SavedInstances' = {}
    BY <1>1, <1>3, <1>4, <1>5 DEF SafeInv, OwnInv, IdsInv
  <2> QED BY <1>3, <2>1, <2>2 DEF SafeInv, OwnInv, Doing
<1>7. ListsInv'
  <2>1. ASSUME NEW q \in Objects, NEW j \in byObject'[q]
        PROVE  j \in heap' /\ q \in Lineage[inst'[j].object]
    <3>1. \/ j \in byObject[q]
          \/ j = nextId /\ q \in Lineage[f[nextId].object]
      BY <2>1 DEF Register, ObjectLists
    <3>2. CASE j \in byObject[q]
      <4>1. j \in heap /\ q \in Lineage[inst[j].object] /\ j \in Ids \ {nextId}
        BY <1>1, <3>2 DEF SafeInv, ListsInv, TypeOK
      <4> QED BY <4>1 DEF Register
    <3> QED BY <3>1, <3>2 DEF Register
  <2>2. ASSUME NEW q \in Objects, NEW j \in byExact'[q]
        PROVE  j \in heap' /\ q = inst'[j].object
    <3>1. \/ j \in byExact[q]
          \/ j = nextId /\ f[nextId].object = q
      BY <2>2 DEF Register, ExactLists
    <3>2. CASE j \in byExact[q]
      <4>1. j \in heap /\ q = inst[j].object /\ j \in Ids \ {nextId}
        BY <1>1, <3>2 DEF SafeInv, ListsInv, TypeOK
      <4> QED BY <4>1 DEF Register
    <3> QED BY <3>1, <3>2 DEF Register
  <2> QED BY <2>1, <2>2 DEF ListsInv
<1> QED BY <1>2, <1>3, <1>6, <1>7 DEF SafeInv

\* Whatever game code calls is safe.
LEMMA GameCodeSafe == TypeOK /\ SafeInv /\ GameCode => SafeInv'
<1> SUFFICES ASSUME TypeOK, SafeInv, GameCode PROVE SafeInv'
  OBVIOUS
<1> USE EventNames DEF tables, heapVars, roomVars, engineVars, history
<1>0. /\ StackSafe(stack, heap, byId, Taking) /\ stack \in Seq(Frame) /\ Taking \in BOOLEAN
      /\ ListsInv /\ byId \subseteq heap /\ heap \subseteq Ids /\ nextId \in Nat
  BY DEF SafeInv, IdsInv, TypeOK, Taking
<1>1. ASSUME NEW op, NEW i \in Ids, Calls(op), i \in Targets PROVE i \in heap
  BY <1>0, <1>1, RunningSafe DEF Calls, Targets
<1>2. nextId <= MaxId => nextId \in Ids
  BY DEF Ids, TypeOK
<1>3. nextId \notin heap /\ NoOne \notin byId \cup {nextId}
  <2>1. nextId \notin heap
    BY <1>0 DEF SafeInv, IdsInv
  <2>2. NoOne \notin byId /\ NoOne # nextId
    BY <1>0, IdsAreNumbers, ConstantsAssumption
  <2> QED BY <2>1, <2>2
<1>4. ASSUME nextId \in Ids, NEW f, Register(nextId, f),
             \/ stack' = stack
             \/ stack' = Execute(f, nextId, "PreCreate",
                                <<SelfFrame("create", nextId, "Create")>> \o stack),
             UNCHANGED <<saved, phase, carried>>,
             \A i \in Ids \ {nextId} : f[i].object = inst[i].object
      PROVE  SafeInv'
  <2>1. heap' = heap \cup {nextId} /\ byId' = byId \cup {nextId}
    BY <1>4 DEF Register
  <2>2. StackSafe(stack, heap', byId', Taking)
    BY <1>0, <1>3, <2>1, GrowSafe
  <2>3. nextId \in Ids \cap heap'
    BY <1>4, <2>1
  <2> DEFINE s == <<SelfFrame("create", nextId, "Create")>> \o stack
  <2>4. /\ s \in Seq(Frame) /\ StackSafe(s, heap', byId', Taking)
        /\ Taking => Doing(s) = Doing(stack)
    <3>1. SelfFrame("create", nextId, "Create") \in Frame
      BY <2>3, SelfFrameType
    <3> QED BY <1>0, <2>2, <2>3, <3>1, SelfFrameSafe, PushType
  <2> HIDE DEF s
  <2>5. /\ StackSafe(Execute(f, nextId, "PreCreate", s), heap', byId', Taking)
        /\ Taking => Doing(Execute(f, nextId, "PreCreate", s)) = Doing(s)
    BY <1>0, <2>3, <2>4, ExecuteSafe
  <2>6. /\ StackSafe(stack', heap', byId', Taking)
        /\ Taking => Doing(stack') = Doing(stack)
    BY <1>4, <2>2, <2>4, <2>5 DEF s
  <2> QED BY <1>4, <2>6, RegisterSafe
<1>5. ASSUME NEW o \in Objects, InstanceCreate(o) PROVE SafeInv'
  <2> DEFINE f == [inst EXCEPT ![nextId] = [NewInstance(o) EXCEPT !.created = TRUE]]
  <2>1. nextId \in Ids /\ Register(nextId, f)
    BY <1>2, <1>5 DEF InstanceCreate
  <2>2. \A i \in Ids \ {nextId} : f[i].object = inst[i].object
    BY DEF TypeOK
  <2>3. stack' = Execute(f, nextId, "PreCreate", <<SelfFrame("create", nextId, "Create")>> \o stack)
    BY <1>5 DEF InstanceCreate
  <2> HIDE DEF f
  <2> QED BY <1>4, <1>5, <2>1, <2>2, <2>3 DEF InstanceCreate
<1>6. ASSUME NEW i \in Ids, NEW b \in BOOLEAN, InstanceCopy(i, b) PROVE SafeInv'
  <2> DEFINE new == NewInstance(inst[i].object)
             f == [inst EXCEPT ![nextId] = [new EXCEPT !.created = TRUE],
                               ![i].active = new.active, ![i].persistent = new.persistent]
  <2>1. nextId \in Ids /\ Register(nextId, f)
    BY <1>2, <1>6 DEF InstanceCopy
  <2>2. \A j \in Ids \ {nextId} : f[j].object = inst[j].object
    BY DEF TypeOK, Instance
  <2>3. \/ stack' = stack
        \/ stack' = Execute(f, nextId, "PreCreate", <<SelfFrame("create", nextId, "Create")>> \o stack)
    BY <1>6 DEF InstanceCopy
  <2> HIDE DEF f
  <2> QED BY <1>4, <1>6, <2>1, <2>2, <2>3 DEF InstanceCopy
<1>7. ASSUME NEW i \in Ids, NEW b \in BOOLEAN, InstanceDestroy(i, b) PROVE SafeInv'
  <2> DEFINE e == IF b THEN "Destroy" ELSE "CleanUp"
  <2>1. inst' = [inst EXCEPT ![i].destroyed = TRUE] /\ stack' = <<SelfFrame("destroy", i, e)>> \o stack
    BY <1>7 DEF InstanceDestroy, MarkDestroyed
  <2>2. i \in heap
    BY <1>1, <1>7 DEF InstanceDestroy
  <2>3. e \in Events \cup {NoEvent}
    OBVIOUS
  <2> HIDE DEF e
  <2>4. /\ StackSafe(stack', heap, byId, Taking)
        /\ Taking => Doing(stack') = Doing(stack)
    BY <1>0, <2>1, <2>2, <2>3, SelfFrameSafe
  <2>5. ListsInv'
    BY <1>0, <1>7, <2>1, FlagKept, ListsKept DEF InstanceDestroy
  <2>6. UNCHANGED <<heap, byId, nextId, instances, saved, phase, carried>>
    BY <1>7 DEF InstanceDestroy
  <2> QED BY <2>4, <2>5, <2>6, StepSafe
<1>8. ASSUME NEW o \in Objects, NEW b \in BOOLEAN, InstanceDestroyObject(o, b) PROVE SafeInv'
  <2> DEFINE e == IF b THEN "Destroy" ELSE "CleanUp"
             f == LoopFrame("destroyEach", byObject[o], e)
  <2>1. stack' = <<f>> \o stack
    BY <1>8 DEF InstanceDestroyObject
  <2>2. f \in Frame
    BY LoopFrameType DEF TypeOK
  <2>3. f.kind = "destroyEach" /\ f.self = NoOne /\ f.todo = byObject[o]
    BY DEF LoopFrame, FrameOf
  <2>4. byObject[o] \subseteq heap
    BY <1>0 DEF ListsInv
  <2> HIDE DEF f
  <2>5. /\ StackSafe(stack', heap, byId, Taking)
        /\ Taking => Doing(stack') = Doing(stack)
    BY <1>0, <2>1, <2>2, <2>3, <2>4, PushSafe
  <2>6. ListsInv'
    BY <1>0, <1>8, ListsKept DEF InstanceDestroyObject
  <2>7. UNCHANGED <<heap, byId, nextId, instances, saved, phase, carried>>
    BY <1>8 DEF InstanceDestroyObject
  <2> QED BY <2>5, <2>6, <2>7, StepSafe
<1>9. ASSUME NEW i \in Ids, NEW b \in BOOLEAN, SetPersistent(i, b) PROVE SafeInv'
  <2>1. ListsInv'
    BY <1>0, <1>9, FlagKept, ListsKept DEF SetPersistent
  <2> QED BY <1>0, <1>9, <2>1, StepSafe DEF SetPersistent
<1>10. ASSUME NEW i \in Ids, NEW o \in Objects, NEW b \in BOOLEAN, InstanceChange(i, o, b)
       PROVE  SafeInv'
  <2>1. i \in heap
    BY <1>1, <1>10 DEF InstanceChange
  <2>2. CASE b
    <3> DEFINE f == [SelfFrame("change", i, "CleanUp") EXCEPT !.object = o]
               s == <<f>> \o stack
    <3>1. stack' = Execute(inst, i, "Destroy", s)
      BY <1>10, <2>2 DEF InstanceChange
    <3>2. f \in Frame /\ f.kind = "change" /\ f.self = i /\ f.todo = {}
      BY DEF SelfFrame, FrameOf, Frame, Kinds, Events
    <3> HIDE DEF f
    <3>3. /\ s \in Seq(Frame)
          /\ StackSafe(s, heap, byId, Taking)
          /\ Taking => Doing(s) = Doing(stack)
      BY <1>0, <2>1, <3>2, PushSafe, PushType
    <3> HIDE DEF s
    <3>4. /\ StackSafe(stack', heap, byId, Taking)
          /\ Taking => Doing(stack') = Doing(stack)
      <4>1. i \in Ids \cap heap
        BY <2>1
      <4>2. /\ StackSafe(Execute(inst, i, "Destroy", s), heap, byId, Taking)
            /\ Taking => Doing(Execute(inst, i, "Destroy", s)) = Doing(s)
        BY <1>0, <3>3, <4>1, ExecuteSafe
      <4> QED BY <3>1, <3>3, <4>2
    <3>5. ListsInv'
      BY <1>0, <1>10, <2>2, ListsKept DEF InstanceChange
    <3>6. UNCHANGED <<heap, byId, nextId, instances, saved, phase, carried>>
      BY <1>10, <2>2 DEF InstanceChange
    <3> QED BY <3>4, <3>5, <3>6, StepSafe
  <2>3. CASE ~ b
    <3>1. ChangeObject(i, o) /\ stack' = stack
      BY <1>10, <2>3 DEF InstanceChange
    <3>2. ListsInv'
      BY <1>0, <2>1, <3>1, ChangeSafe
    <3> QED BY <1>0, <3>1, <3>2, StepSafe DEF ChangeObject
  <2> QED BY <2>2, <2>3
<1>11. ASSUME NEW f, SetActive(f), \A i \in Ids : f[i].object = inst[i].object PROVE SafeInv'
  <2>1. ListsInv'
    BY <1>0, <1>11, ListsKept DEF SetActive
  <2> QED BY <1>0, <1>11, <2>1, StepSafe DEF SetActive
<1>12. ASSUME NEW i \in Ids, NEW b \in {TRUE, FALSE}
       PROVE  [inst[i] EXCEPT !.active = b].object = inst[i].object
  BY DEF TypeOK, Instance
<1>13. ASSUME NEW sel \in Selections, InstanceActivate(sel) PROVE SafeInv'
  <2> DEFINE f == [i \in Ids |-> IF i \in sel /\ ~ inst[i].destroyed
                                 THEN [inst[i] EXCEPT !.active = TRUE] ELSE inst[i]]
  <2>1. \A i \in Ids : f[i].object = inst[i].object
    BY <1>12
  <2>2. SetActive(f)
    BY <1>13 DEF InstanceActivate
  <2> QED BY <1>11, <2>1, <2>2
<1>14. ASSUME NEW sel \in Selections, InstanceDeactivate(sel) PROVE SafeInv'
  <2> DEFINE f == [i \in Ids |-> IF i \in sel /\ ~ inst[i].destroyed
                                 THEN [inst[i] EXCEPT !.active = FALSE] ELSE inst[i]]
  <2>1. \A i \in Ids : f[i].object = inst[i].object
    BY <1>12
  <2>2. SetActive(f)
    BY <1>14 DEF InstanceDeactivate
  <2> QED BY <1>11, <2>1, <2>2
<1>15. ASSUME NEW b \in BOOLEAN, InstanceDeactivateAll(b) PROVE SafeInv'
  <2> DEFINE f == [i \in Ids |-> IF i \in instances /\ ~ (b /\ i = Top.self)
                                 THEN [inst[i] EXCEPT !.active = FALSE] ELSE inst[i]]
  <2>1. \A i \in Ids : f[i].object = inst[i].object
    BY <1>12
  <2>2. SetActive(f)
    BY <1>15 DEF InstanceDeactivateAll
  <2> QED BY <1>11, <2>1, <2>2
<1>16. ASSUME \/ \E r \in Rooms : RoomGoto(r) \/ \E b \in BOOLEAN : RoomSetPersistent(r, b)
              \/ GameRestart \/ GameEnd
       PROVE  SafeInv'
  <2>1. UNCHANGED <<heapVars, saved, phase, carried, stack>>
    BY <1>16 DEF RoomGoto, RoomSetPersistent, GameRestart, GameEnd, SetPendingRoom
  <2>2. ListsInv'
    BY <1>0, <2>1, ListsKept
  <2> QED BY <1>0, <2>1, <2>2, StepSafe
<1>17. CASE CodeReturn
  <2>1. /\ StackSafe(stack', heap, byId, Taking)
        /\ Taking => Doing(stack') = Doing(stack)
    <3>1. Running("code") /\ stack' = Below
      BY <1>17 DEF CodeReturn
    <3> QED BY <3>1, RunningSafe
  <2>2. ListsInv'
    BY <1>0, <1>17, ListsKept DEF CodeReturn
  <2>3. UNCHANGED <<heap, byId, nextId, instances, saved, phase, carried>>
    BY <1>17 DEF CodeReturn
  <2> QED BY <2>1, <2>2, <2>3, StepSafe
<1>18. CASE WalkFreed
  <2> DEFINE f == FrameOf("wild")
  <2>1. stack' = <<f>> \o stack
    BY <1>18 DEF WalkFreed
  <2>2. f \in Frame /\ f.kind = "wild" /\ f.self = NoOne /\ f.todo = {}
    BY WildFrameType DEF FrameOf
  <2> HIDE DEF f
  <2>6. Taking
    BY <1>0, <1>18 DEF WalkFreed, SafeInv, OwnInv, Home
  <2>3. /\ StackSafe(stack', heap, byId, Taking)
        /\ Taking => Doing(stack') = Doing(stack)
    BY <1>0, <2>1, <2>2, <2>6, PushSafe
  <2>4. ListsInv'
    BY <1>0, <1>18, ListsKept DEF WalkFreed
  <2>5. UNCHANGED <<heap, byId, nextId, instances, saved, phase, carried>>
    BY <1>18 DEF WalkFreed
  <2> QED BY <2>3, <2>4, <2>5, StepSafe
<1> QED
  BY <1>5, <1>6, <1>7, <1>8, <1>9, <1>10, <1>13, <1>14, <1>15, <1>16, <1>17, <1>18 DEF GameCode

\* A handler that goes on with another event, a loop that goes on with fewer instances.
LEMMA ResumeSafe ==
    ASSUME TypeOK, SafeInv, NEW kind \in Kinds \ {"take", "free", "wild"}, Running(kind)
    PROVE  /\ kind \in {"destroy", "change", "roomCreate"} =>
                \A e \in Events \cup {NoEvent} :
                    LET s == <<[Top EXCEPT !.event = e]>> \o Below IN
                    StackSafe(s, heap, byId, Taking) /\ (Taking => Doing(s) = Doing(stack))
           /\ \A i : LET s == <<[Top EXCEPT !.todo = @ \ {i}]>> \o Below IN
                    StackSafe(s, heap, byId, Taking) /\ (Taking => Doing(s) = Doing(stack))
<1>1. /\ Top \in Frame /\ Top.kind = kind /\ Below \in Seq(Frame) /\ Taking \in BOOLEAN
      /\ StackSafe(Below, heap, byId, Taking)
      /\ Taking => Doing(Below) = Doing(stack)
      /\ Top.self \in heap \cup {NoOne}
      /\ kind # "pass2" => Top.todo \subseteq heap
  BY RunningType, RunningSafe DEF Taking
<1>2. ASSUME NEW e \in Events \cup {NoEvent}, kind \in {"destroy", "change", "roomCreate"}
      PROVE  LET s == <<[Top EXCEPT !.event = e]>> \o Below IN
             StackSafe(s, heap, byId, Taking) /\ (Taking => Doing(s) = Doing(stack))
  <2> DEFINE f == [Top EXCEPT !.event = e]
  <2>1. f \in Frame /\ f.kind = kind /\ f.self = Top.self /\ f.todo = Top.todo
    BY <1>1, <1>2 DEF Frame
  <2> HIDE DEF f
  <2>2. /\ StackSafe(<<f>> \o Below, heap, byId, Taking)
        /\ Taking => Doing(<<f>> \o Below) = Doing(Below)
    BY <1>1, <2>1, PushSafe
  <2> QED BY <1>1, <2>2 DEF f
<1>3. ASSUME NEW i
      PROVE  LET s == <<[Top EXCEPT !.todo = @ \ {i}]>> \o Below IN
             StackSafe(s, heap, byId, Taking) /\ (Taking => Doing(s) = Doing(stack))
  <2> DEFINE f == [Top EXCEPT !.todo = @ \ {i}]
  <2>1. f \in Frame /\ f.kind = kind /\ f.self = Top.self /\ f.todo \subseteq Top.todo
    BY <1>1 DEF Frame
  <2> HIDE DEF f
  <2>2. /\ StackSafe(<<f>> \o Below, heap, byId, Taking)
        /\ Taking => Doing(<<f>> \o Below) = Doing(Below)
    BY <1>1, <2>1, PushSafe
  <2> QED BY <1>1, <2>2 DEF f
<1> QED BY <1>2, <1>3

\* The handlers of events that loops interrupt are safe.
LEMMA HandlerSafe ==
    TypeOK /\ SafeInv /\ (CreateStep \/ DestroyStep \/ DestroyEachStep \/ ChangeStep \/ DispatchStep)
      => SafeInv'
<1> SUFFICES ASSUME TypeOK, SafeInv,
                    CreateStep \/ DestroyStep \/ DestroyEachStep \/ ChangeStep \/ DispatchStep
             PROVE  SafeInv'
  OBVIOUS
<1> USE EventNames DEF tables, heapVars, roomVars, engineVars, history
<1>0. ListsInv /\ heap \subseteq Ids /\ Taking \in BOOLEAN
  BY DEF SafeInv, TypeOK, Taking
<1>1. CASE CreateStep
  <2>1. /\ Top.self \in Ids \cap heap /\ Below \in Seq(Frame)
        /\ StackSafe(Below, heap, byId, Taking)
        /\ Taking => Doing(Below) = Doing(stack)
    BY <1>1, RunningType, RunningSafe DEF CreateStep
  <2>2. stack' = Execute(inst, Top.self, "Create", Below)
    BY <1>1 DEF CreateStep
  <2>3. /\ StackSafe(stack', heap, byId, Taking)
        /\ Taking => Doing(stack') = Doing(stack)
    BY <1>0, <2>1, <2>2, ExecuteSafe
  <2>4. ListsInv'
    BY <1>0, <1>1, ListsKept DEF CreateStep
  <2>5. UNCHANGED <<heap, byId, nextId, instances, saved, phase, carried>>
    BY <1>1 DEF CreateStep
  <2> QED BY <2>3, <2>4, <2>5, StepSafe
<1>2. CASE DestroyStep
  <2>1. /\ Top.self \in Ids \cap heap /\ Below \in Seq(Frame)
        /\ StackSafe(Below, heap, byId, Taking)
        /\ Taking => Doing(Below) = Doing(stack)
        /\ \A e \in Events \cup {NoEvent} : <<[Top EXCEPT !.event = e]>> \o Below \in Seq(Frame)
    BY <1>2, RunningType, RunningSafe DEF DestroyStep
  <2>2. ASSUME NEW e \in Events, NEW then \in Events \cup {NoEvent},
               stack' = Execute(inst, Top.self, e, <<[Top EXCEPT !.event = then]>> \o Below)
        PROVE  /\ StackSafe(stack', heap, byId, Taking)
               /\ Taking => Doing(stack') = Doing(stack)
    <3> DEFINE s == <<[Top EXCEPT !.event = then]>> \o Below
    <3>1. s \in Seq(Frame)
      BY <2>1
    <3>2. /\ StackSafe(s, heap, byId, Taking)
          /\ Taking => Doing(s) = Doing(stack)
      BY <1>2, ResumeSafe DEF DestroyStep, Kinds
    <3>3. stack' = Execute(inst, Top.self, e, s)
      BY <2>2
    <3> HIDE DEF s
    <3> QED BY <1>0, <2>1, <3>1, <3>2, <3>3, ExecuteSafe
  <2>3. /\ StackSafe(stack', heap, byId, Taking)
        /\ Taking => Doing(stack') = Doing(stack)
    <3>1. CASE stack' = Execute(inst, Top.self, "Destroy", <<[Top EXCEPT !.event = "CleanUp"]>> \o Below)
      BY <2>2, <3>1
    <3>2. CASE stack' = Execute(inst, Top.self, "CleanUp", <<[Top EXCEPT !.event = NoEvent]>> \o Below)
      BY <2>2, <3>2
    <3>3. CASE stack' = Below
      BY <2>1, <3>3
    <3> QED BY <1>2, <3>1, <3>2, <3>3 DEF DestroyStep
  <2>4. ListsInv'
    <3>1. CASE inst' = [inst EXCEPT ![Top.self].active = FALSE]
      BY <1>0, <1>2, <2>1, <3>1, FlagKept, ListsKept DEF DestroyStep
    <3>2. CASE inst' = inst
      BY <1>0, <1>2, <3>2, ListsKept DEF DestroyStep
    <3> QED BY <1>2, <3>1, <3>2 DEF DestroyStep
  <2>5. UNCHANGED <<heap, byId, nextId, instances, saved, phase, carried>>
    BY <1>2 DEF DestroyStep
  <2> QED BY <2>3, <2>4, <2>5, StepSafe
<1>3. CASE DestroyEachStep
  <2>1. /\ Below \in Seq(Frame) /\ Top.todo \subseteq heap /\ Top.event \in Events \cup {NoEvent}
        /\ StackSafe(Below, heap, byId, Taking)
        /\ Taking => Doing(Below) = Doing(stack)
        /\ \A i : <<[Top EXCEPT !.todo = @ \ {i}]>> \o Below \in Seq(Frame)
    BY <1>3, RunningType, RunningSafe DEF DestroyEachStep
  <2>2. /\ StackSafe(stack', heap, byId, Taking)
        /\ Taking => Doing(stack') = Doing(stack)
        /\ \A j \in Ids : inst'[j].object = inst[j].object
    <3>1. CASE Top.todo = {}
      BY <1>3, <2>1, <3>1 DEF DestroyEachStep
    <3>2. CASE Top.todo # {}
      <4> PICK i \in Top.todo :
             LET rest == <<[Top EXCEPT !.todo = @ \ {i}]>> \o Below IN
             IF inst[i].active THEN MarkDestroyed(i, Top.event, rest)
             ELSE stack' = rest /\ UNCHANGED inst
        BY <1>3, <3>2 DEF DestroyEachStep
      <4> DEFINE rest == <<[Top EXCEPT !.todo = @ \ {i}]>> \o Below
      <4>1. i \in Ids \cap heap /\ rest \in Seq(Frame)
        BY <1>0, <2>1
      <4>2. /\ StackSafe(rest, heap, byId, Taking)
            /\ Taking => Doing(rest) = Doing(stack)
        BY <1>3, ResumeSafe DEF DestroyEachStep, Kinds
      <4>3. CASE inst[i].active /\ ~ inst[i].destroyed
        <5>1. /\ inst' = [inst EXCEPT ![i].destroyed = TRUE]
              /\ stack' = <<SelfFrame("destroy", i, Top.event)>> \o rest
          BY <4>3 DEF MarkDestroyed
        <5> HIDE DEF rest
        <5>2. /\ StackSafe(stack', heap, byId, Taking)
              /\ Taking => Doing(stack') = Doing(stack)
          BY <1>0, <2>1, <4>1, <4>2, <5>1, SelfFrameSafe
        <5> QED BY <4>1, <5>1, <5>2, FlagKept
      <4>4. CASE ~ (inst[i].active /\ ~ inst[i].destroyed)
        <5>1. stack' = rest /\ inst' = inst
          BY <4>4 DEF MarkDestroyed
        <5> HIDE DEF rest
        <5> QED BY <4>2, <5>1
      <4> QED BY <4>3, <4>4
    <3> QED BY <3>1, <3>2
  <2>3. ListsInv'
    BY <1>0, <1>3, <2>2, ListsKept DEF DestroyEachStep
  <2>4. UNCHANGED <<heap, byId, nextId, instances, saved, phase, carried>>
    BY <1>3 DEF DestroyEachStep
  <2> QED BY <2>2, <2>3, <2>4, StepSafe
<1>4. CASE ChangeStep
  <2>1. /\ Top.self \in Ids \cap heap /\ Below \in Seq(Frame) /\ Top.object \in Objects
        /\ StackSafe(Below, heap, byId, Taking)
        /\ Taking => Doing(Below) = Doing(stack)
        /\ <<[Top EXCEPT !.event = NoEvent]>> \o Below \in Seq(Frame)
    BY <1>4, RunningType, RunningSafe DEF ChangeStep
  <2>2. CASE Top.event = "CleanUp"
    <3> DEFINE s == <<[Top EXCEPT !.event = NoEvent]>> \o Below
    <3>1. stack' = Execute(inst, Top.self, "CleanUp", s) /\ UNCHANGED <<heapVars, roomVars, engineVars>>
      BY <1>4, <2>2 DEF ChangeStep, NoEvent
    <3>2. /\ StackSafe(s, heap, byId, Taking)
          /\ Taking => Doing(s) = Doing(stack)
          /\ s \in Seq(Frame)
      BY <1>4, <2>1, ResumeSafe DEF ChangeStep, Kinds
    <3> HIDE DEF s
    <3>3. /\ StackSafe(stack', heap, byId, Taking)
          /\ Taking => Doing(stack') = Doing(stack)
      BY <1>0, <2>1, <3>1, <3>2, ExecuteSafe
    <3>4. ListsInv'
      BY <1>0, <3>1, ListsKept
    <3>5. UNCHANGED <<heap, byId, nextId, instances, saved, phase, carried>>
      BY <3>1
    <3> QED BY <3>3, <3>4, <3>5, StepSafe
  <2>3. CASE Top.event = NoEvent
    <3>1. /\ ChangeObject(Top.self, Top.object)
          /\ stack' = Execute(Changed(Top.self, Top.object), Top.self, "Create", Below)
      BY <1>4, <2>3 DEF ChangeStep, NoEvent
    <3>2. /\ StackSafe(stack', heap, byId, Taking)
          /\ Taking => Doing(stack') = Doing(stack)
      BY <1>0, <2>1, <3>1, ExecuteSafe
    <3>3. ListsInv'
      BY <1>0, <2>1, <3>1, ChangeSafe
    <3>4. UNCHANGED <<heap, byId, nextId, instances, saved, phase, carried>>
      BY <3>1 DEF ChangeObject
    <3> QED BY <3>2, <3>3, <3>4, StepSafe
  <2> QED BY <1>4, <2>2, <2>3 DEF ChangeStep
<1>5. CASE DispatchStep
  <2>1. /\ Below \in Seq(Frame) /\ Top.todo \subseteq heap /\ Top.event \in Events
        /\ StackSafe(Below, heap, byId, Taking)
        /\ Taking => Doing(Below) = Doing(stack)
        /\ \A i : <<[Top EXCEPT !.todo = @ \ {i}]>> \o Below \in Seq(Frame)
    <3>1. Running("dispatch")
      BY <1>5 DEF DispatchStep
    <3>2. /\ Below \in Seq(Frame) /\ Top.event \in Events
          /\ \A i : <<[Top EXCEPT !.todo = @ \ {i}]>> \o Below \in Seq(Frame)
      BY <3>1, RunningType
    <3>3. /\ Top.todo \subseteq heap /\ StackSafe(Below, heap, byId, Taking)
          /\ Taking => Doing(Below) = Doing(stack)
      BY <3>1, RunningSafe
    <3> QED BY <3>2, <3>3
  <2>2. /\ StackSafe(stack', heap, byId, Taking)
        /\ Taking => Doing(stack') = Doing(stack)
    <3>1. CASE Top.todo = {}
      BY <1>5, <2>1, <3>1 DEF DispatchStep
    <3>2. CASE Top.todo # {}
      <4> PICK i \in Top.todo :
             LET rest == <<[Top EXCEPT !.todo = @ \ {i}]>> \o Below IN
             stack' = IF inst[i].active THEN Execute(inst, i, Top.event, rest) ELSE rest
        BY <1>5, <3>2 DEF DispatchStep
      <4> DEFINE rest == <<[Top EXCEPT !.todo = @ \ {i}]>> \o Below
      <4>1. i \in Ids \cap heap /\ rest \in Seq(Frame)
        BY <1>0, <2>1
      <4>2. /\ StackSafe(rest, heap, byId, Taking)
            /\ Taking => Doing(rest) = Doing(stack)
        BY <1>5, ResumeSafe DEF DispatchStep, Kinds
      <4>3. stack' = Execute(inst, i, Top.event, rest) \/ stack' = rest
        OBVIOUS
      <4> HIDE DEF rest
      <4>4. /\ StackSafe(Execute(inst, i, Top.event, rest), heap, byId, Taking)
            /\ Taking => Doing(Execute(inst, i, Top.event, rest)) = Doing(rest)
        BY <1>0, <2>1, <4>1, <4>2, ExecuteSafe
      <4> QED BY <4>2, <4>3, <4>4
    <3> QED BY <3>1, <3>2
  <2>3. ListsInv'
    BY <1>0, <1>5, ListsKept DEF DispatchStep
  <2>4. UNCHANGED <<heap, byId, nextId, instances, saved, phase, carried>>
    BY <1>5 DEF DispatchStep
  <2> QED BY <2>2, <2>3, <2>4, StepSafe
<1> QED BY <1>1, <1>2, <1>3, <1>4, <1>5

\* A stack whose only frame is the outermost one of a room change.
LEMMA TakeSafe ==
    ASSUME NEW f \in Frame, f.kind = "take", f.self = NoOne, NEW h, NEW b, f.todo \subseteq h
    PROVE  /\ StackSafe(<<f>>, h, b, TRUE)
           /\ Doing(<<f>>) = f.todo
  BY DEF StackSafe, Doing

\* takePersistentInstances is the outermost loop, ...
LEMMA TakeAlone ==
    ASSUME TypeOK, SafeInv, Running("take")
    PROVE  Taking /\ Below = <<>> /\ Top.self = NoOne /\ Doing(stack) = Top.todo /\ Top \in Frame
<1>1. /\ stack \in Seq(Frame) /\ stack # <<>> /\ Head(stack) = stack[1] /\ 1 \in DOMAIN stack
      /\ stack[1].kind = "take" /\ Top = stack[1]
  BY DEF TypeOK, Running, Top
<1>2. Taking /\ Len(stack) = 1 /\ stack[1].self = NoOne
  BY <1>1 DEF SafeInv, StackSafe
<1>3. Below \in Seq(Frame) /\ Len(Below) = 0
  BY <1>1, <1>2, HeadTailProperties DEF Below
<1>4. Below = <<>>
  BY <1>3, EmptySeq
<1> QED BY <1>1, <1>2, <1>4 DEF Doing

\* ... and an instance is only freed directly inside it.
LEMMA FreeInTake ==
    ASSUME TypeOK, SafeInv, Running("free")
    PROVE  /\ Taking /\ Top.self \notin byId /\ Top.self \in Ids
           /\ \E f \in Frame : /\ Below = <<f>> /\ f.kind = "take" /\ f.self = NoOne
                              /\ f.todo = Doing(stack) /\ f.todo \subseteq heap
<1>1. /\ stack \in Seq(Frame) /\ stack # <<>> /\ Head(stack) = stack[1] /\ 1 \in DOMAIN stack
      /\ stack[1].kind = "free" /\ Top = stack[1] /\ Len(stack) \in Nat
  BY DEF TypeOK, Running, Top
<1>2. Taking /\ Len(stack) = 2 /\ stack[1].self \notin byId
  <2>1. \A k \in DOMAIN stack : stack[k].kind = "free" =>
           Taking /\ k = Len(stack) - 1 /\ stack[k].self \notin byId
    BY DEF SafeInv, StackSafe
  <2>2. Taking /\ 1 = Len(stack) - 1 /\ stack[1].self \notin byId
    BY <1>1, <2>1
  <2> QED BY <1>1, <2>2
<1>3. 2 \in DOMAIN stack /\ stack[2] \in Frame
  BY <1>1, <1>2
<1>4. stack[2].kind = "take" /\ stack[2].self = NoOne /\ stack[2].todo \subseteq heap
  BY <1>2, <1>3 DEF SafeInv, StackSafe
<1>5. Below = <<stack[2]>>
  <2>1. Below \in Seq(Frame) /\ Len(Below) = 1 /\ \A i \in 1 .. 1 : Below[i] = stack[i + 1]
    BY <1>1, <1>2, HeadTailProperties DEF Below
  <2>2. <<stack[2]>> \in Seq(Frame) /\ Len(<<stack[2]>>) = 1
    BY <1>3
  <2>3. \A i \in 1 .. Len(Below) : Below[i] = <<stack[2]>>[i]
    BY <2>1
  <2> QED BY <2>1, <2>2, <2>3, SeqEqual
<1>6. Top.self \in Ids
  BY RunningType
<1> QED BY <1>1, <1>2, <1>3, <1>4, <1>5, <1>6 DEF Doing

\* Entering a room, up to the loop over its instances, is safe.
LEMMA ArrivalSafe ==
    TypeOK /\ SafeInv /\ (EnterRoom \/ TakeStep \/ FreeStep \/ TakeDone \/ RestoreRoom) => SafeInv'
<1> SUFFICES ASSUME TypeOK, SafeInv, EnterRoom \/ TakeStep \/ FreeStep \/ TakeDone \/ RestoreRoom
             PROVE  SafeInv'
  OBVIOUS
<1> USE EventNames DEF tables, heapVars, roomVars, engineVars, history
<1>0. /\ ListsInv /\ heap \subseteq Ids /\ IdsInv /\ OwnInv /\ StackSafe(stack, heap, byId, Taking)
      /\ byId \subseteq heap /\ NoOne \notin Ids
  BY IdsAreNumbers DEF SafeInv, TypeOK, IdsInv
<1>1. CASE EnterRoom
  <2> DEFINE f == LoopFrame("take", instances, NoEvent)
  <2>1. f \in Frame /\ f.kind = "take" /\ f.self = NoOne /\ f.todo = instances
    BY LoopFrameType DEF LoopFrame, FrameOf, TypeOK
  <2>2. stack' = <<f>> /\ Taking' /\ ~ Taking /\ SavedInstances' = SavedInstances
    BY <1>1 DEF EnterRoom, Taking, SavedInstances
  <2>3. instances \subseteq Home /\ instances \subseteq byId
    BY <1>0, <2>2 DEF Home, OwnInv
  <2> HIDE DEF f
  <2>4. StackSafe(stack', heap', byId', TRUE) /\ Doing(stack') = instances
    BY <1>0, <1>1, <2>1, <2>2, <2>3, TakeSafe DEF EnterRoom
  <2>5. Home' = instances
    BY <1>1, <2>2, <2>4 DEF Home, Doing, EnterRoom
  <2>6. OwnInv'
    BY <1>0, <1>1, <2>2, <2>3, <2>5 DEF OwnInv, EnterRoom
  <2>7. ListsInv' /\ IdsInv'
    BY <1>0, <1>1 DEF ListsInv, IdsInv, EnterRoom
  <2> QED BY <2>2, <2>4, <2>6, <2>7 DEF SafeInv
<1>2. CASE TakeStep
  <2>1. /\ Taking /\ Below = <<>> /\ Top.self = NoOne /\ Doing(stack) = Top.todo /\ Top \in Frame
        /\ Top.kind = "take" /\ Top.todo \subseteq heap
    <3>1. Running("take")
      BY <1>2 DEF TakeStep
    <3>2. Top.kind = "take"
      BY <3>1 DEF Running, Top
    <3>3. Taking /\ Below = <<>> /\ Top.self = NoOne /\ Doing(stack) = Top.todo /\ Top \in Frame
      BY <3>1, TakeAlone
    <3>4. Top.todo \subseteq heap
      BY <3>1, <3>2, RunningSafe
    <3> QED BY <3>2, <3>3, <3>4
  <2> PICK i \in Top.todo :
         LET rest == <<[Top EXCEPT !.todo = @ \ {i}]>> \o Below IN
         IF Carries(i)
         THEN carried' = carried \cup {i} /\ stack' = rest /\ UNCHANGED byId
         ELSE /\ byId' = byId \ {i}
              /\ stack' = Execute(inst, i, "CleanUp", <<SelfFrame("free", i, NoEvent)>> \o rest)
              /\ UNCHANGED carried
    BY <1>2 DEF TakeStep
  <2> DEFINE f == [Top EXCEPT !.todo = @ \ {i}]
             rest == <<f>> \o Below
  <2>2. f \in Frame /\ f.kind = "take" /\ f.self = NoOne /\ f.todo = Top.todo \ {i}
    BY <2>1 DEF Frame
  <2> HIDE DEF f
  <2>3. rest = <<f>>
    BY <2>1, <2>2
  <2> HIDE DEF rest
  <2>4. /\ i \in Ids \cap heap /\ i \in Home /\ i \notin carried /\ i \in byId
        /\ i \notin SavedInstances
    BY <1>0, <2>1 DEF Home, OwnInv, Doing
  <2>5. /\ Taking' = Taking /\ SavedInstances' = SavedInstances /\ saved' = saved /\ phase' = phase
        /\ heap' = heap /\ ListsInv'
    BY <1>0, <1>2 DEF TakeStep, Taking, SavedInstances, ListsInv
  <2>6. CASE Carries(i)
    <3>1. carried' = carried \cup {i} /\ stack' = <<f>> /\ byId' = byId
      BY <2>3, <2>6 DEF f, rest
    <3>2. StackSafe(stack', heap', byId', TRUE) /\ Doing(stack') = Top.todo \ {i}
      BY <2>1, <2>2, <2>5, <3>1, TakeSafe
    <3>3. Home' = Home
      BY <2>1, <2>4, <2>5, <3>1, <3>2 DEF Home, Doing
    <3>4. OwnInv'
      BY <1>0, <2>1, <2>4, <2>5, <3>1, <3>2, <3>3 DEF OwnInv, Doing, Taking
    <3>5. IdsInv'
      BY <1>0, <1>2, <3>1 DEF IdsInv, TakeStep
    <3> QED BY <2>1, <2>5, <3>2, <3>4, <3>5 DEF SafeInv
  <2>7. CASE ~ Carries(i)
    <3> DEFINE g == SelfFrame("free", i, NoEvent)
               s == <<g>> \o rest
    <3>1. byId' = byId \ {i} /\ stack' = Execute(inst, i, "CleanUp", s) /\ carried' = carried
      BY <2>7 DEF f, rest
    <3>2. g \in Frame /\ g.kind = "free" /\ g.self = i /\ g.todo = {}
      BY <2>4, SelfFrameType DEF SelfFrame, FrameOf
    <3> HIDE DEF g
    <3>3. s = <<g, f>> /\ s \in Seq(Frame)
      <4>1. /\ <<g>> \in Seq(Frame) /\ <<f>> \in Seq(Frame) /\ <<g, f>> \in Seq(Frame)
            /\ Len(<<g>>) = 1 /\ Len(<<f>>) = 1 /\ Len(<<g, f>>) = 2
        BY <2>2, <3>2
      <4>2. /\ <<g>> \o <<f>> \in Seq(Frame) /\ Len(<<g>> \o <<f>>) = 2
            /\ \A k \in 1 .. 2 : (<<g>> \o <<f>>)[k] = <<g, f>>[k]
        BY <4>1
      <4>3. <<g>> \o <<f>> = <<g, f>>
        BY <4>1, <4>2, SeqEqual
      <4> QED BY <2>3, <4>1, <4>3
    <3> HIDE DEF s
    <3>4. StackSafe(s, heap, byId', TRUE) /\ Doing(s) = Top.todo \ {i}
      BY <2>1, <2>2, <2>4, <3>1, <3>2, <3>3 DEF StackSafe, Doing
    <3>5. StackSafe(stack', heap', byId', TRUE) /\ Doing(stack') = Top.todo \ {i}
      <4>1. /\ Taking \in BOOLEAN /\ Taking /\ StackSafe(s, heap, byId', Taking)
            /\ i \in Ids \cap heap /\ "CleanUp" \in Events
        BY <2>1, <2>4, <2>5, <3>4 DEF Taking
      <4>2. /\ StackSafe(Execute(inst, i, "CleanUp", s), heap, byId', Taking)
            /\ Taking => Doing(Execute(inst, i, "CleanUp", s)) = Doing(s)
        <5> DEFINE h == heap  b == byId'  e == "CleanUp"
        <5>1. /\ s \in Seq(Frame) /\ StackSafe(s, h, b, Taking) /\ i \in Ids \cap h
              /\ e \in Events /\ Taking \in BOOLEAN
          BY <3>3, <4>1
        <5> HIDE DEF h, b, e
        <5>2. /\ StackSafe(Execute(inst, i, e, s), h, b, Taking)
              /\ Taking => Doing(Execute(inst, i, e, s)) = Doing(s)
          BY <5>1, ExecuteSafe
        <5> QED BY <5>2 DEF h, b, e
      <4> QED BY <2>5, <3>1, <3>4, <4>1, <4>2
    <3>6. Home' = Home \ {i}
      BY <2>1, <2>4, <2>5, <3>1, <3>5 DEF Home, Doing
    <3>7. OwnInv'
      BY <1>0, <2>1, <2>4, <2>5, <3>1, <3>5, <3>6 DEF OwnInv, Doing, Taking
    <3>8. IdsInv'
      BY <1>0, <1>2, <3>1 DEF IdsInv, TakeStep
    <3> QED BY <2>1, <2>5, <3>5, <3>7, <3>8 DEF SafeInv
  <2> QED BY <2>6, <2>7
<1>3. CASE FreeStep
  <2>1. /\ Taking /\ Top.self \notin byId /\ Top.self \in Ids
    BY <1>3, FreeInTake DEF FreeStep
  <2>2. PICK f \in Frame : /\ Below = <<f>> /\ f.kind = "take" /\ f.self = NoOne
                           /\ f.todo = Doing(stack) /\ f.todo \subseteq heap
    BY <1>3, FreeInTake DEF FreeStep
  <2>3. f.todo \subseteq byId /\ f.todo \subseteq heap'
    BY <1>0, <1>3, <2>1, <2>2 DEF OwnInv, Home, Doing, FreeStep
  <2>4. StackSafe(stack', heap', byId', TRUE) /\ Doing(stack') = Doing(stack)
    BY <1>3, <2>2, <2>3, TakeSafe DEF FreeStep
  <2>5. /\ Taking' = Taking /\ SavedInstances' = SavedInstances /\ Home' = Home
    BY <1>3, <2>1, <2>4 DEF FreeStep, Taking, SavedInstances, Home, Doing
  <2>6. OwnInv'
    BY <1>0, <1>3, <2>1, <2>4, <2>5 DEF OwnInv, FreeStep, Doing
  <2>7. IdsInv'
    BY <1>0, <1>3, <2>1 DEF IdsInv, FreeStep
  <2>8. \A j \in Ids \ {Top.self} : inst'[j] = inst[j]
    BY <1>3 DEF FreeStep, TypeOK
  <2>9. ListsInv'
    <3>1. ASSUME NEW q \in Objects, NEW j \in byObject'[q]
          PROVE  j \in heap' /\ q \in Lineage[inst'[j].object]
      <4>1. j \in byObject[q] \ {k \in {Top.self} : q \in Lineage[inst[k].object]}
        BY <1>3, <3>1 DEF FreeStep, ObjectLists
      <4>2. j \in heap /\ q \in Lineage[inst[j].object] /\ j # Top.self
        BY <1>0, <4>1 DEF ListsInv
      <4> QED BY <1>0, <1>3, <2>8, <4>2 DEF FreeStep
    <3>2. ASSUME NEW q \in Objects, NEW j \in byExact'[q]
          PROVE  j \in heap' /\ q = inst'[j].object
      <4>1. j \in byExact[q] \ {k \in {Top.self} : inst[k].object = q}
        BY <1>3, <3>2 DEF FreeStep, ExactLists
      <4>2. j \in heap /\ q = inst[j].object /\ j # Top.self
        BY <1>0, <4>1 DEF ListsInv
      <4> QED BY <1>0, <1>3, <2>8, <4>2 DEF FreeStep
    <3> QED BY <3>1, <3>2 DEF ListsInv
  <2> QED BY <2>1, <2>4, <2>5, <2>6, <2>7, <2>9 DEF SafeInv
<1>4. CASE TakeDone
  <2>1. Taking /\ Below = <<>> /\ Doing(stack) = {}
    BY <1>4, TakeAlone DEF TakeDone
  <2>2. /\ ~ Taking' /\ SavedInstances' = SavedInstances /\ stack' = <<>>
        /\ phase' \in {"restore", "populate"}
    BY <1>4, <2>1 DEF TakeDone, Taking, SavedInstances
  <2>3. Home' = Home
    BY <1>4, <2>1, <2>2 DEF Home, Doing, TakeDone
  <2>4. OwnInv'
    BY <1>0, <1>4, <2>2, <2>3 DEF OwnInv, TakeDone
  <2>5. IdsInv' /\ ListsInv'
    BY <1>0, <1>4 DEF IdsInv, ListsInv, TakeDone, NoLists
  <2>6. StackSafe(stack', heap', byId', Taking')
    BY <2>2 DEF StackSafe
  <2> QED BY <2>4, <2>5, <2>6 DEF SafeInv
<1>5. CASE RestoreRoom
  <2> DEFINE arrivals == saved[room].instances \cup carried
  <2>1. /\ room \in Rooms /\ ~ Taking /\ ~ Taking' /\ stack' = <<>> /\ stack = <<>>
        /\ instances' = arrivals /\ carried' = {} /\ heap' = heap /\ byId' = byId /\ nextId' = nextId
        /\ inst' = inst
    BY <1>5 DEF RestoreRoom, Taking, Idle, TypeOK
  <2>2. saved' = [saved EXCEPT ![room].instances = {}]
    BY <1>5 DEF RestoreRoom
  <2>3. \A r \in Rooms : saved'[r].instances = IF r = room THEN {} ELSE saved[r].instances
    BY <2>1, <2>2 DEF TypeOK, SavedRoom
  <2>4. arrivals \subseteq byId
    BY <1>0, <2>1 DEF OwnInv, Home, SavedInstances
  <2>5. Home' = arrivals
    BY <2>1 DEF Home
  <2>6. OwnInv'
    <3>1. SavedInstances' \subseteq SavedInstances /\ SavedInstances' \cap saved[room].instances = {}
      BY <1>0, <2>1, <2>3 DEF SavedInstances, OwnInv
    <3>2. carried \cap SavedInstances = {}
      BY <1>0 DEF OwnInv, Home
    <3>3. Home' \cap SavedInstances' = {}
      BY <2>5, <3>1, <3>2
    <3>4. Home' \cup SavedInstances' \subseteq byId'
      BY <1>0, <2>1, <2>4, <2>5, <3>1 DEF OwnInv
    <3> QED BY <1>0, <2>1, <2>3, <3>3, <3>4 DEF OwnInv
  <2>7. IdsInv'
    BY <1>0, <2>1 DEF IdsInv
  <2>8. ListsInv'
    <3>1. /\ byObject' = ObjectLists(inst, arrivals, {})
          /\ byExact' = ExactLists(inst, arrivals, {})
      BY <1>5 DEF RestoreRoom
    <3> HIDE DEF arrivals
    <3> QED BY <1>0, <2>1, <2>4, <3>1 DEF ListsInv, ObjectLists, ExactLists
  <2>9. StackSafe(stack', heap', byId', Taking')
    BY <2>1 DEF StackSafe
  <2> QED BY <2>6, <2>7, <2>8, <2>9 DEF SafeInv
<1> QED BY <1>1, <1>2, <1>3, <1>4, <1>5

\* A single frame.
LEMMA OneFrameSafe ==
    ASSUME NEW h, NEW b, NEW f, f.kind \notin {"take", "free", "wild"}, f.self \in h \cup {NoOne},
           f.kind # "pass2" => f.todo \subseteq h
    PROVE  StackSafe(<<f>>, h, b, FALSE)
  BY DEF StackSafe

\* What is freed while no instance is being taken, and was known, leaves the stack and the
\* ids safe if nothing runs.
LEMMA FreeIds ==
    ASSUME SafeInv, NEW dead, Free(dead), nextId' = nextId
    PROVE  IdsInv'
  BY DEF SafeInv, IdsInv, Free

\* Building a room, its creation code, and leaving it are safe.
LEMMA PopulateSafe ==
    ASSUME TypeOK, SafeInv, ClearInv, PopulateRoom
    PROVE  SafeInv'
<1> USE DEF tables, heapVars, roomVars, engineVars, history
<1> DEFINE new == RoomObjects[room] \ byId
           f == [i \in Ids |-> IF i \in new THEN NewInstance(ObjectOf[i]) ELSE inst[i]]
           g == LoopFrame("pass2", RoomObjects[room], NoEvent)
<1>1. /\ room \in Rooms /\ ~ Taking /\ ~ Taking' /\ phase = "populate" /\ phase' = "pass2"
      /\ byObject = NoLists /\ byExact = NoLists
      /\ inst' = f /\ heap' = heap \cup new /\ byId' = byId \cup new
      /\ instances' = new \cup carried /\ carried' = {} /\ saved' = saved /\ nextId' = nextId
      /\ byObject' = ObjectLists(f, new \cup carried, {})
      /\ byExact' = ExactLists(f, new \cup carried, {})
      /\ stack' = <<g>>
  BY DEF PopulateRoom, ClearInv, Taking, TypeOK
<1>2. new \subseteq StaticIds /\ new \cap byId = {} /\ StaticIds \subseteq 0 .. FirstDynamic - 1
  BY <1>1, ConstantsAssumption
<1>3. g.kind = "pass2" /\ g.self = NoOne
  BY DEF LoopFrame, FrameOf
<1> HIDE DEF new, f, g
<1>4. StackSafe(stack', heap', byId', Taking')
  <2>1. StackSafe(<<g>>, heap', byId', FALSE)
    BY <1>3, OneFrameSafe
  <2>2. Taking' = FALSE
    BY <1>1 DEF Taking
  <2> QED BY <1>1, <2>1, <2>2
<1>5. IdsInv'
  <2>1. nextId \in Nat /\ nextId >= FirstDynamic /\ FirstDynamic \in Nat
    BY ConstantsAssumption DEF TypeOK
  <2>2. \A i \in new : i < nextId
    BY <1>2, <2>1
  <2>3. byId \subseteq heap /\ \A i \in heap : i < nextId
    BY DEF SafeInv, IdsInv
  <2>4. byId' \subseteq heap' /\ \A i \in heap' : i < nextId'
    BY <1>1, <2>2, <2>3
  <2> QED BY <2>4 DEF IdsInv
<1>6. ListsInv'
  <2>1. carried \subseteq heap
    BY <1>1 DEF SafeInv, IdsInv, OwnInv, Home
  <2> QED BY <1>1, <2>1 DEF ListsInv, ObjectLists, ExactLists, NoLists
<1>7. OwnInv'
  <2>1. Home' = new \cup carried /\ SavedInstances' = SavedInstances
    BY <1>1 DEF Home, SavedInstances
  <2>2. carried \subseteq byId /\ SavedInstances \subseteq byId /\ carried \cap SavedInstances = {}
    BY <1>1 DEF SafeInv, OwnInv, Home
  <2> QED BY <1>1, <1>2, <2>1, <2>2 DEF SafeInv, OwnInv
<1> QED BY <1>4, <1>5, <1>6, <1>7 DEF SafeInv

\* Pass 2 looks an id up before it runs its creation code.
LEMMA Pass2Safe ==
    ASSUME TypeOK, SafeInv, Pass2Step
    PROVE  SafeInv'
<1> USE EventNames DEF tables, heapVars, roomVars, engineVars, history
<1>0. /\ ListsInv /\ heap \subseteq Ids /\ byId \subseteq heap
      /\ Taking = FALSE /\ Taking' = FALSE /\ carried = {} /\ Running("pass2")
  BY DEF SafeInv, IdsInv, OwnInv, TypeOK, Taking, Pass2Step
<1>1. /\ Below \in Seq(Frame) /\ StackSafe(Below, heap, byId, Taking)
      /\ \A i : <<[Top EXCEPT !.todo = @ \ {i}]>> \o Below \in Seq(Frame)
  <2>1. /\ Below \in Seq(Frame)
        /\ \A i : <<[Top EXCEPT !.todo = @ \ {i}]>> \o Below \in Seq(Frame)
    BY <1>0, RunningType
  <2>2. StackSafe(Below, heap, byId, Taking)
    BY <1>0, RunningSafe
  <2> QED BY <2>1, <2>2
<1>2. UNCHANGED <<heap, byId, byObject, byExact, nextId, instances, saved, carried>>
  BY DEF Pass2Step
<1>3. /\ StackSafe(stack', heap, byId, Taking)
      /\ \A j \in Ids : inst'[j].object = inst[j].object
  <2>1. CASE Top.todo = {}
    BY <1>1, <2>1 DEF Pass2Step
  <2>2. CASE Top.todo # {}
    <3> PICK i \in Top.todo :
           LET rest == <<[Top EXCEPT !.todo = @ \ {i}]>> \o Below IN
           IF NeedsCreate(i)
           THEN /\ inst' = [inst EXCEPT ![i].created = TRUE]
                /\ stack' = IF inst[i].destroyed THEN rest
                            ELSE <<SelfFrame("roomCreate", i, "PreCreate")>> \o rest
           ELSE stack' = rest /\ UNCHANGED inst
      BY <2>2 DEF Pass2Step
    <3> DEFINE rest == <<[Top EXCEPT !.todo = @ \ {i}]>> \o Below
    <3>1. rest \in Seq(Frame)
      BY <1>1
    <3>2. StackSafe(rest, heap, byId, Taking)
      BY <1>0, ResumeSafe DEF Kinds
    <3>3. \/ NeedsCreate(i) /\ inst' = [inst EXCEPT ![i].created = TRUE] /\ stack' = rest
          \/ /\ NeedsCreate(i) /\ inst' = [inst EXCEPT ![i].created = TRUE]
             /\ stack' = <<SelfFrame("roomCreate", i, "PreCreate")>> \o rest
          \/ inst' = inst /\ stack' = rest
      OBVIOUS
    <3> HIDE DEF rest
    <3>4. NeedsCreate(i) => i \in Ids \cap heap
      BY <1>0 DEF NeedsCreate
    <3>5. NeedsCreate(i) => StackSafe(<<SelfFrame("roomCreate", i, "PreCreate")>> \o rest, heap, byId, Taking)
      BY <1>0, <3>1, <3>2, <3>4, SelfFrameSafe
    <3>6. StackSafe(stack', heap, byId, Taking)
      BY <3>2, <3>3, <3>5
    <3>7. \A j \in Ids : inst'[j].object = inst[j].object
      BY <3>3, <3>4, FlagKept
    <3> QED BY <3>6, <3>7
  <2> QED BY <2>1, <2>2
<1>4. ListsInv'
  BY <1>0, <1>2, <1>3, ListsKept
<1>5. OwnInv'
  <2>1. Home' = Home /\ SavedInstances' = SavedInstances
    BY <1>0, <1>2 DEF Home, SavedInstances
  <2> QED BY <1>0, <1>2, <2>1 DEF SafeInv, OwnInv
<1>6. IdsInv'
  BY <1>2 DEF SafeInv, IdsInv
<1> QED BY <1>0, <1>2, <1>3, <1>4, <1>5, <1>6 DEF SafeInv

\* The creation events of an instance of the room.
LEMMA RoomCreateSafe ==
    ASSUME TypeOK, SafeInv, RoomCreateStep
    PROVE  SafeInv'
<1> USE EventNames DEF tables, heapVars, roomVars, engineVars, history
<1>0. ListsInv /\ heap \subseteq Ids /\ Taking \in BOOLEAN /\ Running("roomCreate")
  BY DEF SafeInv, TypeOK, Taking, RoomCreateStep
<1>1. /\ Top.self \in Ids \cap heap /\ Below \in Seq(Frame)
      /\ StackSafe(Below, heap, byId, Taking)
      /\ Taking => Doing(Below) = Doing(stack)
      /\ \A e \in Events \cup {NoEvent} : <<[Top EXCEPT !.event = e]>> \o Below \in Seq(Frame)
  <2>1. /\ Top.self \in Ids /\ Below \in Seq(Frame)
        /\ \A e \in Events \cup {NoEvent} : <<[Top EXCEPT !.event = e]>> \o Below \in Seq(Frame)
    BY <1>0, RunningType
  <2>2. /\ Top.self \in Ids => Top.self \in heap
        /\ StackSafe(Below, heap, byId, Taking)
        /\ Taking => Doing(Below) = Doing(stack)
    BY <1>0, RunningSafe
  <2> QED BY <2>1, <2>2
<1>2. ASSUME NEW e \in Events, NEW then \in Events \cup {NoEvent},
             LET s == <<[Top EXCEPT !.event = then]>> \o Below IN
             \/ stack' = Execute(inst, Top.self, e, s)
             \/ stack' = ExecuteCode(Top.self, e, s)
      PROVE  /\ StackSafe(stack', heap, byId, Taking)
             /\ Taking => Doing(stack') = Doing(stack)
  <2> DEFINE s == <<[Top EXCEPT !.event = then]>> \o Below
  <2>1. s \in Seq(Frame)
    BY <1>1
  <2>2. /\ StackSafe(s, heap, byId, Taking)
        /\ Taking => Doing(s) = Doing(stack)
    BY <1>0, ResumeSafe DEF Kinds
  <2>3. stack' = Execute(inst, Top.self, e, s) \/ stack' = ExecuteCode(Top.self, e, s)
    BY <1>2
  <2> HIDE DEF s
  <2> QED BY <1>0, <1>1, <2>1, <2>2, <2>3, ExecuteSafe
<1>3. /\ StackSafe(stack', heap, byId, Taking)
      /\ Taking => Doing(stack') = Doing(stack)
  <2>1. CASE stack' = Execute(inst, Top.self, "PreCreate", <<[Top EXCEPT !.event = "PreCode"]>> \o Below)
    BY <1>2, <2>1
  <2>2. CASE stack' = ExecuteCode(Top.self, "PreCode", <<[Top EXCEPT !.event = "Create"]>> \o Below)
    BY <1>2, <2>2
  <2>3. CASE stack' = Below
    BY <1>1, <2>3
  <2>4. CASE stack' = Execute(inst, Top.self, "Create", <<[Top EXCEPT !.event = "CreationCode"]>> \o Below)
    BY <1>2, <2>4
  <2>5. CASE stack' = ExecuteCode(Top.self, "CreationCode", Below)
    <3>1. ASSUME NEW e \in Events
          PROVE  /\ StackSafe(ExecuteCode(Top.self, e, Below), heap, byId, Taking)
                 /\ Taking => Doing(ExecuteCode(Top.self, e, Below)) = Doing(Below)
                 /\ StackSafe(Execute(inst, Top.self, e, Below), heap, byId, Taking)
      BY <1>0, <1>1, ExecuteSafe
    <3> QED BY <1>1, <2>5, <3>1
  <2> QED BY <2>1, <2>2, <2>3, <2>4, <2>5 DEF RoomCreateStep
<1>4. ListsInv'
  BY <1>0, ListsKept DEF RoomCreateStep
<1>5. UNCHANGED <<heap, byId, nextId, instances, saved, phase, carried>>
  BY DEF RoomCreateStep
<1> QED BY <1>3, <1>4, <1>5, StepSafe

\* Leaving a persistent room frees what was saved before and what is inactive now: nothing
\* that stays, is saved now, or belongs to another room.
LEMMA PersistSafe ==
    ASSUME TypeOK, SafeInv, LeaveRoom, LeavesPersistently
    PROVE  SafeInv'
<1> DEFINE toSave == {i \in instances \ Staying : inst[i].active}
           dead == saved[room].instances \cup (instances \ (Staying \cup toSave))
<1>1. /\ room \in Rooms /\ ~ Taking /\ ~ Taking' /\ stack = <<>> /\ stack' = <<>>
      /\ carried = {} /\ carried' = {} /\ nextId' = nextId
      /\ Free(dead) /\ instances' = Staying
      /\ byObject' = [o \in Objects |-> {i \in Staying : o \in Lineage[inst[i].object]}]
      /\ byExact' = [o \in Objects |-> {i \in Staying : inst[i].object = o}]
      /\ saved' = [saved EXCEPT ![room] = [initialized |-> TRUE, instances |-> toSave]]
  BY DEF LeaveRoom, PersistRoomState, Earlier, Taking, Idle, SafeInv, OwnInv, TypeOK
<1>2. \A r \in Rooms : saved'[r].instances = IF r = room THEN toSave ELSE saved[r].instances
  BY <1>1 DEF TypeOK, SavedRoom
<1>3. /\ Staying \subseteq instances /\ toSave \subseteq instances /\ Staying \cap toSave = {}
      /\ dead \cap (Staying \cup toSave) = {} /\ dead \subseteq saved[room].instances \cup instances
  <2>1. instances \cap saved[room].instances = {}
    BY <1>1 DEF SafeInv, OwnInv, Home, SavedInstances
  <2> QED BY <2>1 DEF Staying
<1>4. /\ heap' = heap \ dead /\ byId' = byId \ dead
      /\ \A i \in Ids \ dead : inst'[i] = inst[i]
  BY <1>1 DEF Free
<1> HIDE DEF toSave, dead
<1>5. Home = instances /\ Home' = Staying
  BY <1>1 DEF Home
<1>6. /\ SavedInstances' = toSave \cup UNION {saved[r].instances : r \in Rooms \ {room}}
      /\ SavedInstances = saved[room].instances \cup UNION {saved[r].instances : r \in Rooms \ {room}}
  BY <1>1, <1>2 DEF SavedInstances
<1>7. /\ instances \cup SavedInstances \subseteq byId /\ instances \cap SavedInstances = {}
      /\ \A r, q \in Rooms : r # q => saved[r].instances \cap saved[q].instances = {}
  BY <1>5 DEF SafeInv, OwnInv
<1>8. dead \cap SavedInstances' = {} /\ SavedInstances' \cap Staying = {}
  BY <1>1, <1>3, <1>6, <1>7
<1>9. OwnInv'
  <2>1. Home' \cup SavedInstances' \subseteq byId'
    BY <1>3, <1>4, <1>5, <1>6, <1>7, <1>8
  <2>2. ASSUME NEW r \in Rooms, NEW q \in Rooms, r # q
        PROVE  saved'[r].instances \cap saved'[q].instances = {}
    <3>1. \A p \in Rooms : saved[p].instances \cap toSave = {}
      BY <1>3, <1>7 DEF SavedInstances
    <3> QED BY <1>2, <1>7, <2>2, <3>1
  <2> QED BY <1>1, <1>5, <1>8, <2>1, <2>2 DEF OwnInv
<1>10. IdsInv'
  BY <1>1, FreeIds
<1>11. ListsInv'
  <2>1. Staying \subseteq heap' /\ Staying \subseteq Ids /\ \A i \in Staying : inst'[i] = inst[i]
    BY <1>3, <1>4, <1>7 DEF SafeInv, IdsInv, TypeOK
  <2> QED BY <1>1, <2>1 DEF ListsInv
<1>12. StackSafe(stack', heap', byId', Taking')
  BY <1>1 DEF StackSafe
<1> QED BY <1>9, <1>10, <1>11, <1>12 DEF SafeInv

\* Creating the room's instances, running its code and leaving it keep every table consistent.
LEMMA RoomSafe ==
    ASSUME TypeOK, SafeInv, ClearInv,
           PopulateRoom \/ Pass2Step \/ RoomCreateStep \/ RoomCreationCode \/ MarkInitialized \/ LeaveRoom
    PROVE  SafeInv'
<1> USE DEF tables, heapVars, roomVars, engineVars, history
<1>1. CASE RoomCreationCode
  <2>1. /\ Taking = FALSE /\ Taking' = FALSE /\ carried = {}
        /\ UNCHANGED <<heap, inst, byId, byObject, byExact, nextId, instances, saved, carried>>
        /\ stack' = <<CodeFrame(NoOne, "RoomCode")>> \/ stack' = <<>>
        /\ phase' = "initialized"
    BY <1>1 DEF RoomCreationCode, Taking, SafeInv, OwnInv
  <2>2. Home' = Home /\ SavedInstances' = SavedInstances
    BY <2>1 DEF Home, SavedInstances
  <2>3. StackSafe(stack', heap', byId', FALSE)
    <3>1. /\ CodeFrame(NoOne, "RoomCode").kind = "code" /\ CodeFrame(NoOne, "RoomCode").self = NoOne
          /\ CodeFrame(NoOne, "RoomCode").todo = {}
      BY DEF CodeFrame, FrameOf
    <3>2. StackSafe(<<CodeFrame(NoOne, "RoomCode")>>, heap', byId', FALSE)
      BY <3>1, OneFrameSafe
    <3>3. StackSafe(<<>>, heap', byId', FALSE)
      BY DEF StackSafe
    <3> QED BY <2>1, <3>2, <3>3
  <2>4. OwnInv'
    BY <2>1, <2>2 DEF SafeInv, OwnInv
  <2>5. IdsInv' /\ ListsInv'
    BY <2>1 DEF SafeInv, IdsInv, ListsInv
  <2> QED BY <2>1, <2>3, <2>4, <2>5 DEF SafeInv
<1>2. CASE MarkInitialized \/ (LeaveRoom /\ ~ LeavesPersistently)
  <2>1. /\ Taking = FALSE /\ Taking' = FALSE /\ carried = {} /\ stack' = <<>>
        /\ UNCHANGED <<heap, inst, byId, byObject, byExact, nextId, instances, carried>>
    BY <1>2 DEF MarkInitialized, LeaveRoom, Taking, SafeInv, OwnInv, Idle
  <2>2. \A r \in Rooms : saved'[r].instances = saved[r].instances
    BY <1>2, SMTT(30) DEF MarkInitialized, LeaveRoom, TypeOK, SavedRoom
  <2>3. Home' = Home /\ SavedInstances' = SavedInstances
    BY <2>1, <2>2 DEF Home, SavedInstances
  <2>4. OwnInv'
    BY <2>1, <2>2, <2>3 DEF SafeInv, OwnInv
  <2>5. IdsInv' /\ ListsInv' /\ StackSafe(stack', heap', byId', Taking')
    BY <2>1 DEF SafeInv, IdsInv, ListsInv, StackSafe
  <2> QED BY <2>4, <2>5 DEF SafeInv
<1> QED BY <1>1, <1>2, PopulateSafe, Pass2Safe, RoomCreateSafe, PersistSafe

\* The frame loop, the start of the game and the restart are safe.
LEMMA LoopSafe ==
    ASSUME TypeOK, SafeInv,
           Boot \/ EnteredRoom \/ GameStarted \/ BootCheck \/ BootLeave \/ BeginStep \/ Exit
              \/ EndStep \/ Draw \/ HandlePendingRoomChange \/ NextFrame \/ EndRoomChange
    PROVE  SafeInv'
<1> USE EventNames DEF tables, heapVars, roomVars, engineVars, history
<1> DEFINE Resting == Phases \ {"takeRestore", "takePopulate", "restore", "populate"}
<1>1. ASSUME phase \in Resting, phase' \in Resting,
             UNCHANGED <<heap, inst, byId, byObject, byExact, nextId, instances, saved, carried>>,
             StackSafe(stack', heap, byId, FALSE)
      PROVE  SafeInv'
  <2>1. Taking = FALSE /\ Taking' = FALSE /\ carried = {}
    BY <1>1 DEF Taking, SafeInv, OwnInv
  <2>2. Home' = Home /\ SavedInstances' = SavedInstances
    BY <1>1, <2>1 DEF Home, SavedInstances
  <2>3. OwnInv'
    BY <1>1, <2>1, <2>2 DEF SafeInv, OwnInv
  <2>4. IdsInv' /\ ListsInv'
    BY <1>1 DEF SafeInv, IdsInv, ListsInv
  <2>5. StackSafe(stack', heap', byId', Taking')
    BY <1>1, <2>1
  <2> QED BY <2>3, <2>4, <2>5 DEF SafeInv
<1>2. ASSUME phase \in Resting PROVE StackSafe(<<>>, heap, byId, FALSE)
  BY DEF StackSafe
<1>3. ASSUME NEW from \in Resting, NEW to \in Resting, NEW e \in Events, Dispatch(from, e, to)
      PROVE  SafeInv'
  <2> DEFINE f == LoopFrame("dispatch", Dispatched(e), e)
  <2>1. instances \subseteq heap
    BY <1>3 DEF Dispatch, GoTo, SafeInv, OwnInv, IdsInv, Home, Taking
  <2>2. Dispatched(e) \subseteq heap
    BY <2>1 DEF Dispatched, SafeInv, ListsInv
  <2>3. f.kind = "dispatch" /\ f.self = NoOne /\ f.todo = Dispatched(e)
    BY DEF LoopFrame, FrameOf
  <2> HIDE DEF f
  <2>4. StackSafe(<<f>>, heap, byId, FALSE)
    BY <2>2, <2>3, OneFrameSafe
  <2>5. /\ stack' = <<f>> /\ phase = from /\ phase' = to
        /\ UNCHANGED <<heap, inst, byId, byObject, byExact, nextId, instances, saved, carried>>
    BY <1>3 DEF Dispatch, GoTo, f
  <2> QED BY <1>1, <1>3, <2>4, <2>5
<1>4. ASSUME NEW from \in Resting, NEW to \in Resting, GoTo(from, to), UNCHANGED <<heapVars, saved, stack>>
      PROVE  SafeInv'
  <2>1. stack' = <<>> /\ phase = from /\ phase' = to
    BY <1>4 DEF GoTo, Idle
  <2>2. UNCHANGED <<heap, inst, byId, byObject, byExact, nextId, instances, saved, carried>>
    BY <1>4 DEF GoTo
  <2> QED BY <1>1, <1>2, <2>1, <2>2
<1>5. ASSUME NEW from \in Resting, NEW to \in Resting, CleanupDestroyed(from, to)
      PROVE  SafeInv'
  <2>1. /\ Taking = FALSE /\ Taking' = FALSE /\ carried = {} /\ carried' = {} /\ stack' = <<>>
        /\ saved' = saved /\ nextId' = nextId /\ instances' = instances \ Doomed /\ Free(Doomed)
        /\ byObject' = ObjectLists(inst, {}, Doomed) /\ byExact' = ExactLists(inst, {}, Doomed)
    BY <1>5 DEF CleanupDestroyed, GoTo, Idle, Taking, SafeInv, OwnInv
  <2>2. Home = instances /\ Home' = instances \ Doomed /\ SavedInstances' = SavedInstances
    BY <2>1 DEF Home, SavedInstances
  <2>3. /\ heap' = heap \ Doomed /\ byId' = byId \ Doomed
        /\ \A i \in Ids \ Doomed : inst'[i] = inst[i]
    BY <2>1 DEF Free
  <2>4. Doomed \subseteq instances
    BY DEF Doomed
  <2>5. OwnInv'
    <3>1. instances \cup SavedInstances \subseteq byId /\ instances \cap SavedInstances = {}
      BY <2>2 DEF SafeInv, OwnInv
    <3> QED BY <2>1, <2>2, <2>3, <2>4, <3>1 DEF SafeInv, OwnInv
  <2>6. IdsInv'
    BY <2>1, FreeIds
  <2>7. ListsInv'
    <3>1. ASSUME NEW q \in Objects, NEW j \in byObject'[q]
          PROVE  j \in heap' /\ q \in Lineage[inst'[j].object]
      <4>1. j \in byObject[q] \ {k \in Doomed : q \in Lineage[inst[k].object]}
        BY <2>1, <3>1 DEF ObjectLists
      <4>2. j \in heap /\ q \in Lineage[inst[j].object] /\ j \notin Doomed /\ j \in Ids
        BY <4>1 DEF SafeInv, ListsInv, TypeOK
      <4> QED BY <2>3, <4>2
    <3>2. ASSUME NEW q \in Objects, NEW j \in byExact'[q]
          PROVE  j \in heap' /\ q = inst'[j].object
      <4>1. j \in byExact[q] \ {k \in Doomed : inst[k].object = q}
        BY <2>1, <3>2 DEF ExactLists
      <4>2. j \in heap /\ q = inst[j].object /\ j \notin Doomed /\ j \in Ids
        BY <4>1 DEF SafeInv, ListsInv, TypeOK
      <4> QED BY <2>3, <4>2
    <3> QED BY <3>1, <3>2 DEF ListsInv
  <2>8. StackSafe(stack', heap', byId', Taking')
    BY <2>1 DEF StackSafe
  <2> QED BY <2>5, <2>6, <2>7, <2>8 DEF SafeInv
<1>6. ASSUME NEW from \in Resting, Reset(from)
      PROVE  SafeInv'
  <2>1. /\ Taking' = FALSE /\ carried' = {} /\ stack' = <<>>
        /\ heap' = {} /\ byId' = {} /\ instances' = {} /\ byObject' = NoLists /\ byExact' = NoLists
        /\ saved' = [r \in Rooms |-> [initialized |-> FALSE, instances |-> {}]]
    BY <1>6 DEF Reset, Idle, Taking, SafeInv, OwnInv
  <2>2. Home' = {} /\ SavedInstances' = {}
    BY <2>1 DEF Home, SavedInstances
  <2>3. OwnInv'
    BY <2>1, <2>2 DEF OwnInv
  <2>4. IdsInv' /\ ListsInv' /\ StackSafe(stack', heap', byId', Taking')
    BY <2>1 DEF IdsInv, ListsInv, StackSafe, NoLists
  <2> QED BY <2>3, <2>4 DEF SafeInv
<1>7. CASE Boot \/ Exit \/ NextFrame \/ BootLeave
  BY <1>4, <1>7 DEF Boot, Exit, NextFrame, BootLeave, GoTo, Phases
<1>8. CASE EnteredRoom \/ GameStarted \/ BeginStep \/ Draw
  BY <1>3, <1>8 DEF EnteredRoom, GameStarted, BeginStep, Draw, Phases
<1>9. CASE EndStep \/ EndRoomChange
  BY <1>5, <1>9 DEF EndStep, EndRoomChange, Phases
<1>10. CASE BootCheck
  <2>1. CASE TakePendingRoom("bootCheck", "bootLeave")
    BY <1>3, <2>1 DEF TakePendingRoom, Phases
  <2>2. CASE Reset("bootCheck")
    BY <1>6, <2>2 DEF Phases
  <2>3. CASE GoTo("bootCheck", "frame") /\ UNCHANGED <<heapVars, saved, stack>>
    BY <1>4, <2>3 DEF Phases
  <2> QED BY <1>10, <2>1, <2>2, <2>3 DEF BootCheck
<1>11. CASE HandlePendingRoomChange
  <2>1. CASE TakePendingRoom("drawn", "leave")
    BY <1>3, <2>1 DEF TakePendingRoom, Phases
  <2>2. CASE Reset("drawn")
    BY <1>6, <2>2 DEF Phases
  <2> QED BY <1>11, <2>1, <2>2 DEF HandlePendingRoomChange
<1> QED BY <1>7, <1>8, <1>9, <1>10, <1>11

\* Only TakeDone opens the phase of pass 1, and only PopulateRoom is enabled in it.
LEMMA ClearKept ==
    ASSUME TypeOK, SafeInv, ClearInv, Next
    PROVE  ClearInv'
<1> USE DEF tables, heapVars, roomVars, engineVars, history
<1>1. CASE TakeDone
  <2>1. Running("take")
    BY <1>1 DEF TakeDone
  <2>2. Below = <<>>
    BY <2>1, TakeAlone
  <2> QED BY <1>1, <2>2 DEF TakeDone, ClearInv
<1>2. ASSUME phase' = phase, stack # <<>> PROVE ClearInv'
  BY <1>2 DEF ClearInv
<1>3. ASSUME phase' # "populate" PROVE ClearInv'
  BY <1>3 DEF ClearInv
<1>4. CASE GameCode
  <2> USE DEF Calls, Running, SetActive, SetPendingRoom, ChangeObject
  <2>1. ASSUME NEW o \in Objects, NEW b \in BOOLEAN, InstanceCreate(o) \/ InstanceDestroyObject(o, b)
        PROVE  phase' = phase /\ stack # <<>>
    BY <2>1 DEF InstanceCreate, InstanceDestroyObject
  <2>2. ASSUME NEW i \in Ids, NEW b \in BOOLEAN,
               InstanceCopy(i, b) \/ InstanceDestroy(i, b) \/ SetPersistent(i, b)
        PROVE  phase' = phase /\ stack # <<>>
    BY <2>2 DEF InstanceCopy, InstanceDestroy, SetPersistent
  <2>3. ASSUME NEW i \in Ids, NEW o \in Objects, NEW b \in BOOLEAN, InstanceChange(i, o, b)
        PROVE  phase' = phase /\ stack # <<>>
    BY <2>3 DEF InstanceChange
  <2>4. ASSUME NEW sel, InstanceActivate(sel) \/ InstanceDeactivate(sel)
        PROVE  phase' = phase /\ stack # <<>>
    BY <2>4 DEF InstanceActivate, InstanceDeactivate
  <2>5. ASSUME NEW b \in BOOLEAN, InstanceDeactivateAll(b)
        PROVE  phase' = phase /\ stack # <<>>
    BY <2>5 DEF InstanceDeactivateAll
  <2>6. ASSUME NEW r \in Rooms, NEW b \in BOOLEAN, RoomGoto(r) \/ RoomSetPersistent(r, b)
        PROVE  phase' = phase /\ stack # <<>>
    BY <2>6 DEF RoomGoto, RoomSetPersistent
  <2>7. CASE GameRestart \/ GameEnd \/ CodeReturn \/ WalkFreed
    BY <1>2, <2>7 DEF GameRestart, GameEnd, CodeReturn, WalkFreed
  <2> HIDE DEF Calls, Running, SetActive, SetPendingRoom, ChangeObject
  <2> QED BY <1>2, <1>4, <2>1, <2>2, <2>3, <2>4, <2>5, <2>6, <2>7 DEF GameCode
<1>5. CASE CreateStep \/ DestroyStep \/ DestroyEachStep \/ ChangeStep \/ DispatchStep
           \/ TakeStep \/ FreeStep \/ RoomCreateStep
  <2>1. phase' = phase /\ stack # <<>>
    BY <1>5 DEF CreateStep, DestroyStep, DestroyEachStep, ChangeStep, ChangeObject, DispatchStep,
                TakeStep, FreeStep, RoomCreateStep, Running
  <2> QED BY <1>2, <2>1
<1>6. CASE EnterRoom \/ RestoreRoom \/ PopulateRoom \/ Pass2Step \/ RoomCreationCode
           \/ MarkInitialized \/ LeaveRoom
  <2>1. phase' # "populate"
    BY <1>6 DEF EnterRoom, RestoreRoom, PopulateRoom, Pass2Step, RoomCreationCode,
                MarkInitialized, LeaveRoom
  <2> QED BY <1>3, <2>1
<1>7. CASE Boot \/ EnteredRoom \/ GameStarted \/ BootCheck \/ BootLeave \/ BeginStep \/ Exit
           \/ EndStep \/ Draw \/ HandlePendingRoomChange \/ NextFrame \/ EndRoomChange
  <2>1. phase' # "populate"
    BY <1>7 DEF Boot, EnteredRoom, GameStarted, BootCheck, BootLeave, BeginStep, Exit, EndStep, Draw,
                HandlePendingRoomChange, NextFrame, EndRoomChange, TakePendingRoom, Reset,
                Dispatch, GoTo, CleanupDestroyed
  <2> QED BY <1>3, <2>1
<1> QED BY <1>1, <1>4, <1>5, <1>6, <1>7 DEF Next, Engine

\* In every reachable state the tables, the lists, the owners and the frames agree as
\* InductiveInv says; the other theorems about Runner rest on it.
THEOREM RunnerConsistent == Spec => []InductiveInv
<1>1. Init => InductiveInv
  <2> SUFFICES ASSUME Init PROVE InductiveInv
    OBVIOUS
  <2>1. ~ Taking /\ Home = {} /\ SavedInstances = {}
    BY DEF Init, Taking, Home, SavedInstances
  <2>2. OwnInv
    BY <2>1 DEF Init, OwnInv
  <2>3. IdsInv /\ ListsInv /\ StackSafe(stack, heap, byId, Taking) /\ ClearInv
    BY <2>1 DEF Init, IdsInv, ListsInv, NoLists, StackSafe, ClearInv
  <2> QED BY <2>2, <2>3 DEF InductiveInv, SafeInv
<1>2. TypeOK /\ InductiveInv /\ [Next]_vars => InductiveInv'
  <2> SUFFICES ASSUME TypeOK, SafeInv, ClearInv, [Next]_vars PROVE SafeInv' /\ ClearInv'
    BY DEF InductiveInv
  <2>1. CASE UNCHANGED vars
    BY <2>1 DEF vars, tables, heapVars, roomVars, engineVars, history, SafeInv, ClearInv, IdsInv,
                ListsInv, OwnInv, Home, SavedInstances, Taking, StackSafe
  <2>2. CASE GameCode
    BY <2>2, GameCodeSafe, ClearKept DEF Next
  <2>3. CASE CreateStep \/ DestroyStep \/ DestroyEachStep \/ ChangeStep \/ DispatchStep
    BY <2>3, HandlerSafe, ClearKept DEF Next, Engine
  <2>4. CASE EnterRoom \/ TakeStep \/ FreeStep \/ TakeDone \/ RestoreRoom
    BY <2>4, ArrivalSafe, ClearKept DEF Next, Engine
  <2>5. CASE PopulateRoom \/ Pass2Step \/ RoomCreateStep \/ RoomCreationCode \/ MarkInitialized
             \/ LeaveRoom
    BY <2>5, RoomSafe, ClearKept DEF Next, Engine
  <2>6. CASE Boot \/ EnteredRoom \/ GameStarted \/ BootCheck \/ BootLeave \/ BeginStep \/ Exit
             \/ EndStep \/ Draw \/ HandlePendingRoomChange \/ NextFrame \/ EndRoomChange
    BY <2>6, LoopSafe, ClearKept DEF Next, Engine
  <2> QED BY <2>1, <2>2, <2>3, <2>4, <2>5, <2>6 DEF Next, Engine
<1> QED BY <1>1, <1>2, RunnerTypeOK, PTL DEF Spec

\* In every reachable state, in the middle of any loop of the engine and whatever the game
\* code it called has destroyed, changed or requested, no table, saved room or snapshot holds
\* an instance that was freed: the deferral of frees to Runner_cleanupDestroyedInstances, and
\* the care with which takePersistentInstances and persistRoomState empty the lists, are
\* enough.  All that can go wrong is code that walks runner->instances while the former runs.
THEOREM OnlyWalksDangle == Spec => [](Lost \/ NoDanglingPointer)
<1>1. InductiveInv => Lost \/ NoDanglingPointer
  <2> SUFFICES ASSUME SafeInv, ~ Lost PROVE NoDanglingPointer
    BY DEF InductiveInv
  <2>1. byId \cup carried \cup SavedInstances \subseteq heap
    <3>1. carried \subseteq Home
      BY DEF Home
    <3> QED BY <3>1 DEF SafeInv, IdsInv, OwnInv
  <2>2. Taking \/ instances \subseteq heap
    BY DEF SafeInv, IdsInv, OwnInv, Home
  <2>3. \A o \in Objects : byObject[o] \cup byExact[o] \subseteq heap
    BY DEF SafeInv, ListsInv
  <2>4. \A k \in DOMAIN stack :
           /\ stack[k].self \in heap \cup {NoOne}
           /\ stack[k].kind = "pass2" \/ stack[k].todo \subseteq heap
    BY DEF SafeInv, StackSafe
  <2> QED BY <2>1, <2>2, <2>3, <2>4 DEF NoDanglingPointer
<1> QED BY <1>1, RunnerConsistent, PTL
-------------------------------------------------------------------------------
(* The lives of instances and the places that own them.  Each invariant below *)
(* is inductive together with the one above, and they are proved one after    *)
(* the other.                                                                 *)

-------------------------------------------------------------------------------
(* The inductive invariants                                                 *)

\* What is in the room is in every list it belongs to, except between the moment the lists
\* are emptied and the moment the next room fills them.
FilledInv == phase \notin {"restore", "populate"} =>
    \A i \in instances \cap heap :
        /\ \A o \in Lineage[inst[i].object] : o \in Objects => i \in byObject[o]
        /\ i \in byExact[inst[i].object]

\* The frame `f' has still to fire the Create event of instance `i'.
Awaits(f, i) ==
    /\ f.self = i
    /\ \/ f.kind = "create"
       \/ f.kind = "roomCreate" /\ f.event \in {"PreCreate", "PreCode", "Create"}

\* The frames of a stack, and the instances for which one of them awaits Create.
Frames(s) == {s[k] : k \in DOMAIN s}
Waiting(s) == {i \in Ids : \E f \in Frames(s) : Awaits(f, i)}
Once(s) == \A k, m \in DOMAIN s, i \in Ids : Awaits(s[k], i) /\ Awaits(s[m], i) => k = m

\* One frame at most owes an instance its Create event, and none once it has fired; the mark
\* `created' that pass 2 looks at is set in both cases.
BirthInv ==
    /\ Once(stack)
    /\ \A i \in Waiting(stack) : births[i] = 0 /\ inst[i].created
    /\ \A i \in Ids : births[i] <= 1 /\ (births[i] = 1 => inst[i].created)

\* The instances that Runner_destroyInstance is under way for.
Dying(s) == {i \in Ids : \E f \in Frames(s) : f.kind = "destroy" /\ f.self = i}

\* What is destroyed and still active is in the hands of Runner_destroyInstance.
DeathInv == \A i \in Ids : inst[i].destroyed /\ inst[i].active => i \in Dying(stack)

\* The events whose code runs while takePersistentInstances does: CleanUp of what it frees,
\* and what CleanUp code sets off by destroying and changing instances.
LeavingEvents == {"CleanUp", "Destroy", "Create"}

\* No instance is created while a room is left: the code would keep it in instancesById and
\* lose it from runner->instances.
NoBirthOnLeaving == \A e \in LeavingEvents : {"create", "copy"} \cap CodeOps[e] = {}

\* No code that runs then looks at the whole room.
NoWalkOnLeaving == \A e \in LeavingEvents : WholeRoomOps \cap CodeOps[e] = {}

LeavingInv == Taking => \A f \in Frames(stack) :
    /\ f.kind \notin {"create", "dispatch", "roomCreate"}
    /\ f.kind = "code" => f.event \in LeavingEvents
    /\ NoWalkOnLeaving => f.kind # "wild"
\* Between takePersistentInstances and the filling of the next room no code runs, and
\* runner->instances is empty: what is not saved is carried.
EmptiedInv == phase \in {"restore", "populate"} => instances = {} /\ stack = <<>>
KnownInv == byId \subseteq Home \cup SavedInstances
OwnedInv == LeavingInv /\ EmptiedInv /\ KnownInv

-------------------------------------------------------------------------------
(* What each step leaves alone                                              *)

\* Game code runs inside the frame that called it.  It sets flags, moves one instance to
\* another object, or registers a new one; the engine's place does not change.
LEMMA GameCodeEffect ==
    ASSUME TypeOK, GameCode
    PROVE  /\ Running("code")
           /\ UNCHANGED <<saved, room, phase, caller, target, carried, kept>>
           /\ \/ /\ UNCHANGED <<tables, births>>
                 /\ \A j \in Ids : inst'[j].object = inst[j].object /\ inst'[j].created = inst[j].created
              \/ \E i \in Ids, o \in Objects : ChangeObject(i, o)
              \/ /\ \E f : /\ Register(nextId, f) /\ f[nextId].created
                           /\ \A j \in Ids \ {nextId} : /\ f[j].object = inst[j].object
                                                        /\ f[j].created = inst[j].created
                 /\ nextId \in Ids /\ (Calls("create") \/ Calls("copy"))
<1> USE DEF heapVars, roomVars, engineVars, history, tables
<1> DEFINE Quiet == UNCHANGED <<saved, room, phase, caller, target, carried, kept>>
           Flags == /\ UNCHANGED <<tables, births>>
                    /\ \A j \in Ids : inst'[j].object = inst[j].object
                                      /\ inst'[j].created = inst[j].created
           Moved == \E i \in Ids, o \in Objects : ChangeObject(i, o)
           Born == /\ \E f : /\ Register(nextId, f) /\ f[nextId].created
                             /\ \A j \in Ids \ {nextId} : /\ f[j].object = inst[j].object
                                                          /\ f[j].created = inst[j].created
                   /\ nextId \in Ids /\ (Calls("create") \/ Calls("copy"))
<1>0. inst \in [Ids -> Instance] /\ (nextId <= MaxId => nextId \in Ids)
  BY DEF TypeOK, Ids
<1>1. ASSUME NEW o \in Objects, InstanceCreate(o) PROVE Running("code") /\ Quiet /\ Born
  <2> DEFINE f == [inst EXCEPT ![nextId] = [NewInstance(o) EXCEPT !.created = TRUE]]
  <2>1. Register(nextId, f) /\ nextId \in Ids /\ Calls("create") /\ Running("code") /\ Quiet
    BY <1>0, <1>1 DEF InstanceCreate, Calls
  <2>2. /\ f[nextId].created
        /\ \A j \in Ids \ {nextId} : f[j].object = inst[j].object /\ f[j].created = inst[j].created
    BY <1>0, <2>1 DEF NewInstance
  <2> HIDE DEF f
  <2> QED BY <2>1, <2>2
<1>2. ASSUME NEW i \in Ids, NEW b \in BOOLEAN, InstanceCopy(i, b)
      PROVE  Running("code") /\ Quiet /\ Born
  <2> DEFINE new == NewInstance(inst[i].object)
             f == [inst EXCEPT ![nextId] = [new EXCEPT !.created = TRUE],
                               ![i].active = new.active, ![i].persistent = new.persistent]
  <2>1. Register(nextId, f) /\ nextId \in Ids /\ Calls("copy") /\ Running("code") /\ Quiet
    BY <1>0, <1>2 DEF InstanceCopy, Calls
  <2>2. /\ f[nextId].created
        /\ \A j \in Ids \ {nextId} : f[j].object = inst[j].object /\ f[j].created = inst[j].created
    BY <1>0, <2>1 DEF NewInstance, Instance
  <2> HIDE DEF f
  <2> QED BY <2>1, <2>2
<1>3. ASSUME NEW i \in Ids, NEW b \in BOOLEAN, InstanceDestroy(i, b) \/ SetPersistent(i, b)
      PROVE  Running("code") /\ Quiet /\ Flags
  <2>1. \/ inst' = [inst EXCEPT ![i].destroyed = TRUE]
        \/ inst' = [inst EXCEPT ![i].persistent = b]
    BY <1>3 DEF InstanceDestroy, SetPersistent, MarkDestroyed
  <2>2. \A j \in Ids : inst'[j].object = inst[j].object /\ inst'[j].created = inst[j].created
    BY <1>0, <2>1 DEF Instance
  <2> QED BY <1>3, <2>2 DEF InstanceDestroy, SetPersistent, Calls
<1>4. ASSUME NEW o \in Objects, NEW b \in BOOLEAN, InstanceDestroyObject(o, b)
      PROVE  Running("code") /\ Quiet /\ Flags
  BY <1>4 DEF InstanceDestroyObject, Calls
<1>5. ASSUME NEW i \in Ids, NEW o \in Objects, NEW b \in BOOLEAN, InstanceChange(i, o, b)
      PROVE  Running("code") /\ Quiet /\ (Flags \/ Moved)
  <2>1. CASE b
    BY <1>5, <2>1 DEF InstanceChange, Calls
  <2>2. CASE ~ b
    <3>1. Running("code") /\ ChangeObject(i, o)
      BY <1>5, <2>2 DEF InstanceChange, Calls
    <3> QED BY <3>1 DEF ChangeObject
  <2> QED BY <2>1, <2>2
<1>6. ASSUME NEW sel, NEW b \in BOOLEAN,
             InstanceActivate(sel) \/ InstanceDeactivate(sel) \/ InstanceDeactivateAll(b)
      PROVE  Running("code") /\ Quiet /\ Flags
  <2>1. \A j \in Ids : inst'[j].object = inst[j].object /\ inst'[j].created = inst[j].created
    BY <1>0, <1>6 DEF InstanceActivate, InstanceDeactivate, InstanceDeactivateAll, SetActive, Instance
  <2> QED BY <1>6, <2>1
        DEF InstanceActivate, InstanceDeactivate, InstanceDeactivateAll, SetActive, Calls
<1>7. ASSUME NEW r \in Rooms, NEW b \in BOOLEAN, RoomGoto(r) \/ RoomSetPersistent(r, b)
      PROVE  Running("code") /\ Quiet /\ Flags
  BY <1>7 DEF RoomGoto, RoomSetPersistent, SetPendingRoom, Calls
<1>8. ASSUME GameRestart \/ GameEnd \/ CodeReturn \/ WalkFreed
      PROVE  Running("code") /\ Quiet /\ Flags
  BY <1>8 DEF GameRestart, GameEnd, CodeReturn, WalkFreed, SetPendingRoom, Calls
<1> HIDE DEF Quiet, Flags, Moved, Born
<1>9. Running("code") /\ Quiet /\ (Flags \/ Moved \/ Born)
  BY <1>1, <1>2, <1>3, <1>4, <1>5, <1>6, <1>7, <1>8 DEF GameCode
<1> QED BY <1>9 DEF Quiet, Flags, Moved, Born

\* The steps of loops and handlers set flags, or move one instance to another object.
LEMMA HandlerEffect ==
    ASSUME TypeOK, CreateStep \/ DestroyStep \/ DestroyEachStep \/ ChangeStep \/ DispatchStep
                   \/ RoomCreateStep
    PROVE  /\ stack # <<>>
           /\ UNCHANGED <<roomVars, engineVars, kept>>
           /\ \/ UNCHANGED tables /\ \A j \in Ids : inst'[j].object = inst[j].object
              \/ \E i \in Ids, o \in Objects : ChangeObject(i, o)
<1> USE DEF heapVars, roomVars, engineVars, history, tables
<1>0. inst \in [Ids -> Instance]
  BY DEF TypeOK
<1>1. CASE CreateStep \/ DispatchStep \/ RoomCreateStep
  BY <1>1 DEF CreateStep, DispatchStep, RoomCreateStep, Running
<1>2. CASE DestroyStep
  <2>1. Top.self \in Ids /\ (inst' = inst \/ inst' = [inst EXCEPT ![Top.self].active = FALSE])
    BY <1>2, RunningType DEF DestroyStep
  <2>2. \A j \in Ids : inst'[j].object = inst[j].object
    BY <1>0, <2>1 DEF Instance
  <2> QED BY <1>2, <2>2 DEF DestroyStep, Running
<1>3. CASE DestroyEachStep
  <2>1. Top.todo \subseteq Ids
    BY <1>3, RunningType DEF DestroyEachStep
  <2>2. inst' = inst \/ \E i \in Top.todo : inst' = [inst EXCEPT ![i].destroyed = TRUE]
    BY <1>3 DEF DestroyEachStep, MarkDestroyed
  <2>3. \A j \in Ids : inst'[j].object = inst[j].object
    BY <1>0, <2>1, <2>2 DEF Instance
  <2> QED BY <1>3, <2>3 DEF DestroyEachStep, Running
<1>4. CASE ChangeStep
  <2>1. Top.self \in Ids /\ Top.object \in Objects
    BY <1>4, RunningType DEF ChangeStep
  <2> QED BY <1>4, <2>1 DEF ChangeStep, Running, ChangeObject
<1> QED BY <1>1, <1>2, <1>3, <1>4

-------------------------------------------------------------------------------
(* Persistent instances                                                     *)

\* Ids leave the map of instances in four places only.
LEMMA IdsForgotten ==
    ASSUME TypeOK, [Next]_vars
    PROVE  \/ byId \subseteq byId'
           \/ TakeStep \/ pendingRoom = Restart
           \/ \E dead : Free(dead) /\ dead \subseteq Doomed
           \/ PersistRoomState /\ stack = <<>> /\ phase = "leave"
<1> USE DEF tables, heapVars, roomVars, engineVars, history
<1>1. CASE GameCode
  BY <1>1, GameCodeEffect DEF Register, ChangeObject
<1>2. CASE CreateStep \/ DestroyStep \/ DestroyEachStep \/ ChangeStep \/ DispatchStep
           \/ RoomCreateStep
  BY <1>2, HandlerEffect DEF ChangeObject
<1>3. CASE EnterRoom \/ FreeStep \/ TakeDone \/ RestoreRoom \/ PopulateRoom \/ Pass2Step
           \/ RoomCreationCode \/ MarkInitialized
  BY <1>3 DEF EnterRoom, FreeStep, TakeDone, RestoreRoom, PopulateRoom, Pass2Step, RoomCreationCode,
              MarkInitialized
<1>4. CASE LeaveRoom
  BY <1>4 DEF LeaveRoom, Idle
<1>5. CASE Boot \/ EnteredRoom \/ GameStarted \/ BootCheck \/ BootLeave \/ BeginStep \/ Exit
           \/ Draw \/ HandlePendingRoomChange \/ NextFrame
  BY <1>5 DEF Boot, EnteredRoom, GameStarted, BootCheck, BootLeave, BeginStep, Exit, Draw,
              HandlePendingRoomChange, NextFrame, TakePendingRoom, Reset, Dispatch
<1>6. CASE EndStep \/ EndRoomChange
  BY <1>6 DEF EndStep, EndRoomChange, CleanupDestroyed
<1>7. CASE UNCHANGED vars
  BY <1>7 DEF vars
<1> QED BY <1>1, <1>2, <1>3, <1>4, <1>5, <1>6, <1>7 DEF Next, Engine

\* A persistent instance of the room that nobody destroyed is carried through every change of
\* room, also one made from code that runs during the change; only a restart ends it.
THEOREM PersistentOnesSurvive == Spec => PersistentSurvives
<1> DEFINE Gone(i) == /\ i \in byId \ SavedInstances /\ inst[i].persistent
                      /\ ~ inst[i].destroyed /\ i \notin byId'
<1>1. ASSUME TypeOK, InductiveInv, [Next]_vars, NEW i, Gone(i)
      PROVE  pendingRoom = Restart
  <2>1. CASE TakeStep
    BY <1>1, <2>1 DEF TakeStep, Carries
  <2>2. CASE \E dead : Free(dead) /\ dead \subseteq Doomed
    BY <1>1, <2>2 DEF Free, Doomed
  <2>3. CASE PersistRoomState /\ stack = <<>> /\ phase = "leave"
    <3> DEFINE toSave == {j \in instances \ Staying : inst[j].active}
               dead == saved[room].instances \cup (instances \ (Staying \cup toSave))
    <3>1. Free(dead)
      BY <2>3 DEF PersistRoomState, Earlier
    <3>2. room \in Rooms
      BY <1>1, <2>3 DEF TypeOK
    <3>3. i \notin saved[room].instances
      BY <1>1, <3>2 DEF SavedInstances
    <3>4. i \in dead
      BY <1>1, <3>1 DEF Free
    <3>5. i \in instances /\ i \notin Staying
      BY <3>3, <3>4
    <3> QED BY <1>1, <3>5 DEF Staying
  <2> QED BY <1>1, <2>1, <2>2, <2>3, IdsForgotten
<1>2. TypeOK /\ InductiveInv /\ [Next]_vars =>
        [\A i \in byId \ SavedInstances : inst[i].persistent /\ ~ inst[i].destroyed /\ i \notin byId'
            => pendingRoom = Restart]_vars
  BY <1>1
<1> QED BY <1>2, RunnerTypeOK, RunnerConsistent, PTL DEF Spec, PersistentSurvives

-------------------------------------------------------------------------------
(* The object lists                                                         *)

\* The lists hold instance `i' wherever its object belongs.
Listed(i) == /\ \A o \in Lineage[inst[i].object] : o \in Objects => i \in byObject[o]
             /\ i \in byExact[inst[i].object]

\* The object of an instance is an object.
LEMMA ObjectType == TypeOK => \A i \in Ids : inst[i].object \in Objects
  BY DEF TypeOK, Instance

\* What enters the lists is listed, and what is listed stays so unless it leaves them.
LEMMA ListsGrow ==
    ASSUME TypeOK, TypeOK', NEW f, NEW add, NEW del,
           byObject' = ObjectLists(f, add, del), byExact' = ExactLists(f, add, del),
           NEW i \in Ids, inst'[i].object = f[i].object
    PROVE  /\ i \in add => Listed(i)'
           /\ i \notin del /\ f[i].object = inst[i].object /\ Listed(i) => Listed(i)'
<1>1. inst'[i].object \in Objects
  BY DEF TypeOK, Instance
<1> QED BY <1>1 DEF ObjectLists, ExactLists, Listed

\* Steps that leave tables and objects alone leave the lists filled.
LEMMA FilledKept ==
    ASSUME TypeOK, FilledInv, UNCHANGED <<byObject, byExact>>,
           \A j \in Ids : inst'[j].object = inst[j].object,
           instances' \cap heap' \subseteq instances \cap heap,
           phase' \notin {"restore", "populate"} => phase \notin {"restore", "populate"}
    PROVE  FilledInv'
<1>1. \A j \in instances' \cap heap' : inst'[j].object = inst[j].object
  BY DEF TypeOK
<1> QED BY <1>1 DEF FilledInv

\* instance_change leaves the lists filled.
LEMMA FilledByChange ==
    ASSUME TypeOK, TypeOK', FilledInv, NEW i \in Ids, NEW o \in Objects, ChangeObject(i, o)
    PROVE  FilledInv'
<1> USE DEF engineVars
<1>1. /\ UNCHANGED <<phase, instances, heap>> /\ instances \subseteq Ids
      /\ inst' = Changed(i, o)
      /\ byObject' = ObjectLists(Changed(i, o), {i}, {i})
      /\ byExact' = ExactLists(Changed(i, o), {i}, {i})
  BY DEF ChangeObject, TypeOK
<1>2. \A j \in Ids : j # i => inst'[j].object = inst[j].object
  BY <1>1 DEF Changed, TypeOK
<1>3. ASSUME NEW j \in Ids, phase \notin {"restore", "populate"}, j \in instances \cap heap
      PROVE  Listed(j)'
  <2>1. Listed(j)
    BY <1>3 DEF FilledInv, Listed
  <2>2. j = i => Listed(j)'
    BY <1>1, ListsGrow
  <2>3. j # i => Listed(j)'
    BY <1>1, <1>2, <2>1, ListsGrow
  <2> QED BY <2>2, <2>3
<1> QED BY <1>1, <1>3 DEF FilledInv, Listed

\* A new instance is listed with the others.
LEMMA FilledByRegister ==
    ASSUME TypeOK, TypeOK', FilledInv, nextId \in Ids, NEW f, Register(nextId, f),
           \A j \in Ids \ {nextId} : f[j].object = inst[j].object, UNCHANGED phase
    PROVE  FilledInv'
<1>1. /\ inst' = f /\ instances' = instances \cup {nextId} /\ heap' = heap \cup {nextId}
      /\ byObject' = ObjectLists(f, {nextId}, {}) /\ byExact' = ExactLists(f, {nextId}, {})
  BY DEF Register
<1>2. ASSUME NEW j \in Ids, phase \notin {"restore", "populate"}, j \in instances' \cap heap'
      PROVE  Listed(j)'
  <2>1. j = nextId => Listed(j)'
    BY <1>1, ListsGrow
  <2>2. j # nextId => Listed(j)'
    <3> SUFFICES ASSUME j # nextId PROVE Listed(j)'
      OBVIOUS
    <3>1. Listed(j)
      BY <1>1, <1>2 DEF FilledInv, Listed
    <3>2. f[j].object = inst[j].object /\ inst'[j].object = f[j].object
      BY <1>1
    <3> QED BY <1>1, <3>1, <3>2, ListsGrow
  <2> QED BY <2>1, <2>2
<1>3. instances' \subseteq Ids
  BY DEF TypeOK
<1> QED BY <1>2, <1>3 DEF FilledInv, Listed

\* The steps of a room change and of the frame loop that rebuild or shrink the lists.
LEMMA FilledByRooms ==
    ASSUME TypeOK, TypeOK', FilledInv, OwnInv,
           FreeStep \/ TakeDone \/ RestoreRoom \/ PopulateRoom \/ LeaveRoom
             \/ EndStep \/ EndRoomChange
    PROVE  FilledInv'
<1> USE DEF roomVars, engineVars, history, heapVars, tables
<1>0. inst \in [Ids -> Instance] /\ instances \subseteq Ids /\ instances' \subseteq Ids
      /\ carried \subseteq Ids
  BY DEF TypeOK
<1>1. CASE TakeDone
  BY <1>1 DEF TakeDone, FilledInv
<1>2. ASSUME NEW dead, heap' = heap \ dead, instances' \subseteq instances,
             \A j \in Ids \ dead : inst'[j] = inst[j],
             byObject' = ObjectLists(inst, {}, dead), byExact' = ExactLists(inst, {}, dead),
             phase \notin {"restore", "populate"}
      PROVE  FilledInv'
  <2>1. ASSUME NEW j \in Ids, j \in instances' \cap heap'
        PROVE  Listed(j)'
    <3>1. Listed(j) /\ j \notin dead /\ inst'[j].object = inst[j].object
      BY <1>2, <2>1 DEF FilledInv, Listed
    <3> QED BY <1>2, <3>1, ListsGrow
  <2> QED BY <1>0, <2>1 DEF FilledInv, Listed
<1>3. CASE FreeStep
  <2>1. CASE phase \in {"restore", "populate"}
    BY <1>3, <2>1 DEF FreeStep, FilledInv
  <2>2. CASE phase \notin {"restore", "populate"}
    <3>1. \A j \in Ids \ {Top.self} : inst'[j] = inst[j]
      BY <1>0, <1>3 DEF FreeStep
    <3> QED BY <1>2, <1>3, <2>2, <3>1 DEF FreeStep
  <2> QED BY <2>1, <2>2
<1>4. CASE EndStep \/ EndRoomChange
  <2>1. PICK from \in {"stepped", "changed"}, to \in {"draw", "frame"} : CleanupDestroyed(from, to)
    BY <1>4 DEF EndStep, EndRoomChange
  <2>2. phase \notin {"restore", "populate"}
    BY <2>1 DEF CleanupDestroyed, GoTo
  <2>3. /\ heap' = heap \ Doomed /\ instances' \subseteq instances
        /\ byObject' = ObjectLists(inst, {}, Doomed) /\ byExact' = ExactLists(inst, {}, Doomed)
        /\ \A j \in Ids \ Doomed : inst'[j] = inst[j]
    BY <2>1 DEF CleanupDestroyed, Free
  <2> QED BY <1>2, <2>2, <2>3
<1>5. CASE RestoreRoom
  <2> DEFINE arrivals == saved[room].instances \cup carried
  <2>1. /\ byObject' = ObjectLists(inst, arrivals, {}) /\ byExact' = ExactLists(inst, arrivals, {})
        /\ instances' = arrivals /\ inst' = inst
    BY <1>5 DEF RestoreRoom
  <2>2. \A j \in Ids : j \in arrivals => Listed(j)'
    BY <2>1, ListsGrow
  <2> QED BY <1>0, <2>1, <2>2 DEF FilledInv, Listed
<1>6. CASE PopulateRoom
  <2> DEFINE new == RoomObjects[room] \ byId
             f == [i \in Ids |-> IF i \in new THEN NewInstance(ObjectOf[i]) ELSE inst[i]]
  <2>1. /\ byObject' = ObjectLists(f, new \cup carried, {})
        /\ byExact' = ExactLists(f, new \cup carried, {})
        /\ instances' = new \cup carried /\ inst' = f
    BY <1>6 DEF PopulateRoom
  <2> HIDE DEF f, new
  <2>2. \A j \in Ids : j \in new \cup carried => Listed(j)'
    BY <2>1, ListsGrow
  <2> QED BY <1>0, <2>1, <2>2 DEF FilledInv, Listed
<1>7. CASE LeaveRoom
  <2>1. CASE ~ LeavesPersistently
    BY <1>7, <2>1, FilledKept DEF LeaveRoom
  <2>2. CASE LeavesPersistently
    <3> DEFINE toSave == {i \in instances \ Staying : inst[i].active}
               dead == saved[room].instances \cup (instances \ (Staying \cup toSave))
    <3>1. /\ Free(dead) /\ instances' = Staying /\ phase = "leave"
          /\ byObject' = [o \in Objects |-> {i \in Staying : o \in Lineage[inst[i].object]}]
          /\ byExact' = [o \in Objects |-> {i \in Staying : inst[i].object = o}]
      BY <1>7, <2>2 DEF LeaveRoom, PersistRoomState, Earlier
    <3>2. \A j \in heap' : j \notin dead
      BY <3>1 DEF Free
    <3> HIDE DEF dead
    <3>3. ASSUME NEW j \in instances' \cap heap' PROVE Listed(j)'
      <4>1. j \in Staying /\ j \in Ids /\ inst'[j] = inst[j] /\ inst[j].object \in Objects
        BY <1>0, <3>1, <3>2, ObjectType DEF Free
      <4> QED BY <3>1, <4>1 DEF Listed
    <3> QED BY <3>3 DEF FilledInv, Listed
  <2> QED BY <2>1, <2>2
<1> QED BY <1>1, <1>3, <1>4, <1>5, <1>6, <1>7

\* The other steps leave the lists and the objects of instances alone.
LEMMA FilledElsewhere ==
    ASSUME TypeOK, FilledInv,
           EnterRoom \/ TakeStep \/ Pass2Step \/ RoomCreationCode \/ MarkInitialized
             \/ Boot \/ EnteredRoom \/ GameStarted \/ BootCheck \/ BootLeave \/ BeginStep \/ Exit
             \/ Draw \/ HandlePendingRoomChange \/ NextFrame
    PROVE  FilledInv'
<1> USE DEF roomVars, engineVars, history, heapVars, tables
<1>1. CASE EnterRoom \/ TakeStep
  BY <1>1, FilledKept DEF EnterRoom, TakeStep
<1>2. CASE Pass2Step
  <2>1. Top.todo \subseteq Ids
    BY <1>2, RunningType DEF Pass2Step
  <2>2. inst' = inst \/ \E i \in Top.todo : inst' = [inst EXCEPT ![i].created = TRUE]
    BY <1>2 DEF Pass2Step
  <2>3. \A j \in Ids : inst'[j].object = inst[j].object
    BY <2>1, <2>2, FlagKept
  <2>4. /\ UNCHANGED <<byObject, byExact, instances, heap>>
        /\ phase = "pass2"
    BY <1>2 DEF Pass2Step
  <2> QED BY <2>3, <2>4, FilledKept
<1>3. CASE RoomCreationCode \/ MarkInitialized
  BY <1>3, FilledKept DEF RoomCreationCode, MarkInitialized
<1>4. ASSUME NEW p, Reset(p) PROVE FilledInv'
  BY <1>4 DEF Reset, FilledInv
<1>5. ASSUME UNCHANGED heapVars, phase \notin {"restore", "populate"} PROVE FilledInv'
  BY <1>5, FilledKept
<1>6. CASE Boot \/ EnteredRoom \/ GameStarted \/ BootCheck \/ BootLeave \/ BeginStep \/ Exit
             \/ Draw \/ HandlePendingRoomChange \/ NextFrame
  <2>1. \/ \E p : Reset(p)
        \/ UNCHANGED heapVars /\ phase \notin {"restore", "populate"}
    BY <1>6 DEF Boot, EnteredRoom, GameStarted, BootCheck, BootLeave, BeginStep, Exit,
                Draw, HandlePendingRoomChange, NextFrame, TakePendingRoom, Dispatch, GoTo
  <2> QED BY <1>4, <1>5, <2>1
<1> QED BY <1>1, <1>2, <1>3, <1>6

\* Whatever game code creates, changes and destroys, an instance of the room is in the lists
\* of its lineage and in no others, and in the bucket of its own object only, in the middle
\* of loops and of room changes too.
THEOREM ListsAgreeWithObjects == Spec => []ObjectListsInSync
<1>1. Init => FilledInv
  BY DEF Init, FilledInv
<1>2. ASSUME TypeOK, TypeOK', InductiveInv, FilledInv, [Next]_vars PROVE FilledInv'
  <2>1. CASE UNCHANGED vars
    BY <1>2, <2>1, FilledKept DEF vars, heapVars, tables, engineVars
  <2>2. CASE GameCode \/ CreateStep \/ DestroyStep \/ DestroyEachStep \/ ChangeStep \/ DispatchStep
               \/ RoomCreateStep
    <3>1. \/ /\ UNCHANGED <<tables, phase>> /\ \A j \in Ids : inst'[j].object = inst[j].object
          \/ \E i \in Ids, o \in Objects : ChangeObject(i, o)
          \/ /\ \E f : /\ Register(nextId, f)
                       /\ \A j \in Ids \ {nextId} : f[j].object = inst[j].object
             /\ nextId \in Ids /\ UNCHANGED phase
      BY <1>2, <2>2, GameCodeEffect, HandlerEffect DEF engineVars
    <3>2. CASE UNCHANGED <<tables, phase>> /\ \A j \in Ids : inst'[j].object = inst[j].object
      BY <1>2, <3>2, FilledKept DEF tables
    <3> QED BY <1>2, <3>1, <3>2, FilledByChange, FilledByRegister
  <2> QED BY <1>2, <2>1, <2>2, FilledByRooms, FilledElsewhere
          DEF Next, Engine, InductiveInv, SafeInv
<1>3. ASSUME TypeOK, InductiveInv, FilledInv PROVE ObjectListsInSync
  <2> SUFFICES ASSUME NEW i \in instances \cap heap, NEW o \in Objects,
                      phase \notin {"restore", "populate"}
               PROVE  /\ i \in byObject[o] <=> o \in Lineage[inst[i].object]
                      /\ i \in byExact[o] <=> o = inst[i].object
    BY DEF ObjectListsInSync
  <2> QED BY <1>3 DEF FilledInv, InductiveInv, SafeInv, ListsInv
<1> QED BY <1>1, <1>2, <1>3, RunnerTypeOK, RunnerConsistent, PTL DEF Spec

-------------------------------------------------------------------------------
(* Frames: what pushing and popping does to the sets above                  *)

\* Pushing a frame adds it.
LEMMA PushFrames ==
    ASSUME NEW s \in Seq(Frame), NEW f \in Frame
    PROVE  /\ <<f>> \o s \in Seq(Frame)
           /\ Frames(<<f>> \o s) = {f} \cup Frames(s)
           /\ Once(s) /\ (\A i \in Waiting(s) : ~ Awaits(f, i)) => Once(<<f>> \o s)
<1> DEFINE t == <<f>> \o s
<1>1. /\ t \in Seq(Frame) /\ Len(t) = Len(s) + 1 /\ t[1] = f /\ Len(s) \in Nat
      /\ DOMAIN t = 1 .. Len(t) /\ DOMAIN s = 1 .. Len(s)
      /\ \A k \in DOMAIN t : k # 1 => k - 1 \in DOMAIN s /\ t[k] = s[k - 1]
      /\ \A k \in DOMAIN s : k + 1 \in DOMAIN t /\ t[k + 1] = s[k]
  OBVIOUS
<1> HIDE DEF t
<1>2. Frames(t) = {f} \cup Frames(s)
  <2>1. ASSUME NEW x \in Frames(t) PROVE x \in {f} \cup Frames(s)
    BY <1>1, <2>1 DEF Frames
  <2>2. ASSUME NEW x \in {f} \cup Frames(s) PROVE x \in Frames(t)
    <3>1. 1 \in DOMAIN t
      BY <1>1
    <3> QED BY <1>1, <2>2, <3>1 DEF Frames
  <2> QED BY <2>1, <2>2
<1>3. ASSUME Once(s), \A i \in Waiting(s) : ~ Awaits(f, i) PROVE Once(t)
  <2> SUFFICES ASSUME NEW k \in DOMAIN t, NEW m \in DOMAIN t, NEW i \in Ids,
                      Awaits(t[k], i), Awaits(t[m], i)
               PROVE  k = m
    BY DEF Once
  <2>1. \A n \in DOMAIN s : Awaits(s[n], i) => ~ Awaits(f, i)
    BY <1>3 DEF Waiting, Frames
  <2>2. CASE k = 1 \/ m = 1
    BY <1>1, <2>1, <2>2
  <2>3. CASE k # 1 /\ m # 1
    <3>1. k - 1 = m - 1
      BY <1>1, <1>3, <2>3 DEF Once
    <3> QED BY <1>1, <3>1
  <2> QED BY <2>2, <2>3
<1> QED BY <1>1, <1>2, <1>3 DEF t

\* Popping a frame removes one occurrence of it.
LEMMA PopFrames ==
    ASSUME NEW s \in Seq(Frame), s # <<>>
    PROVE  /\ Head(s) \in Frame /\ Tail(s) \in Seq(Frame)
           /\ Frames(s) = {Head(s)} \cup Frames(Tail(s))
           /\ Once(s) => Once(Tail(s)) /\ \A i \in Waiting(Tail(s)) : ~ Awaits(Head(s), i)
<1> DEFINE t == Tail(s)
<1>1. /\ t \in Seq(Frame) /\ Len(t) = Len(s) - 1 /\ Len(s) \in Nat /\ Len(s) # 0 /\ Head(s) = s[1]
      /\ DOMAIN t = 1 .. Len(t) /\ DOMAIN s = 1 .. Len(s) /\ Head(s) \in Frame
      /\ \A k \in DOMAIN t : k \in Nat /\ k + 1 \in DOMAIN s /\ t[k] = s[k + 1]
  BY HeadTailProperties
<1> HIDE DEF t
<1>2. \A k \in DOMAIN s : k # 1 => k - 1 \in DOMAIN t /\ s[k] = t[k - 1]
  <2> SUFFICES ASSUME NEW k \in DOMAIN s, k # 1 PROVE k - 1 \in DOMAIN t /\ s[k] = t[k - 1]
    OBVIOUS
  <2>1. k - 1 \in DOMAIN t /\ (k - 1) + 1 = k
    BY <1>1
  <2> QED BY <1>1, <2>1
<1>3. Frames(s) = {Head(s)} \cup Frames(t)
  <2>1. ASSUME NEW x \in Frames(s) PROVE x \in {Head(s)} \cup Frames(t)
    BY <1>1, <1>2, <2>1 DEF Frames
  <2>2. ASSUME NEW x \in {Head(s)} \cup Frames(t) PROVE x \in Frames(s)
    <3>1. 1 \in DOMAIN s
      BY <1>1
    <3> QED BY <1>1, <2>2, <3>1 DEF Frames
  <2> QED BY <2>1, <2>2
<1>4. ASSUME Once(s) PROVE Once(t) /\ \A i \in Waiting(t) : ~ Awaits(Head(s), i)
  <2>1. ASSUME NEW k \in DOMAIN t, NEW m \in DOMAIN t, NEW i \in Ids,
               Awaits(t[k], i), Awaits(t[m], i)
        PROVE  k = m
    <3>1. k + 1 = m + 1
      BY <1>1, <1>4, <2>1 DEF Once
    <3> QED BY <1>1, <3>1
  <2>2. ASSUME NEW k \in DOMAIN t, NEW i \in Ids, Awaits(t[k], i) PROVE ~ Awaits(Head(s), i)
    <3>1. k + 1 # 1 /\ 1 \in DOMAIN s /\ k + 1 \in DOMAIN s /\ t[k] = s[k + 1]
      BY <1>1
    <3> QED BY <1>1, <1>4, <2>2, <3>1 DEF Once
  <2> QED BY <2>1, <2>2 DEF Once, Waiting, Frames
<1> QED BY <1>1, <1>3, <1>4 DEF t

\* Running code adds at most the frame of that code, which awaits nothing.
LEMMA RunFrames ==
    ASSUME NEW s \in Seq(Frame), NEW f, NEW i \in Ids, NEW e \in Events,
           NEW t \in {Execute(f, i, e, s), ExecuteCode(i, e, s)}
    PROVE  /\ t \in Seq(Frame)
           /\ Frames(s) \subseteq Frames(t) /\ Frames(t) \subseteq {CodeFrame(i, e)} \cup Frames(s)
           /\ Once(s) => Once(t)
<1>1. CodeFrame(i, e) \in Frame /\ CodeFrame(i, e).kind = "code"
  BY CodeFrameType DEF CodeFrame, FrameOf
<1>2. \A j : ~ Awaits(CodeFrame(i, e), j)
  BY <1>1 DEF Awaits
<1>3. t = s \/ t = <<CodeFrame(i, e)>> \o s
  BY DEF Execute, ExecuteCode
<1> QED BY <1>1, <1>2, <1>3, PushFrames

\* The fields of the frames that are built.
LEMMA FrameFields ==
    /\ \A i, e : CodeFrame(i, e).kind = "code" /\ CodeFrame(i, e).event = e /\ CodeFrame(i, e).self = i
    /\ \A kind, i, e : /\ SelfFrame(kind, i, e).kind = kind /\ SelfFrame(kind, i, e).self = i
                       /\ SelfFrame(kind, i, e).event = e
    /\ \A kind, ids, e : LoopFrame(kind, ids, e).kind = kind /\ LoopFrame(kind, ids, e).event = e
                         /\ LoopFrame(kind, ids, e).self = NoOne /\ LoopFrame(kind, ids, e).todo = ids
  BY DEF CodeFrame, SelfFrame, LoopFrame, FrameOf

\* Game code pushes frames above its own, or returns.  Only what it creates has frames that
\* await Create.
LEMMA GameCodeFrames ==
    ASSUME TypeOK, GameCode
    PROVE  \/ CodeReturn /\ Frames(stack) = {Top} \cup Frames(stack') /\ (Once(stack) => Once(stack'))
           \/ /\ Frames(stack) \subseteq Frames(stack')
              /\ \A f \in Frames(stack') \ Frames(stack) :
                    /\ f.kind \in {"code", "destroy", "destroyEach", "change", "wild"}
                    /\ f.kind = "code" => f.event = "Destroy"
                    /\ f.kind = "wild" => WalkFreed
              /\ Once(stack) => Once(stack')
              /\ UNCHANGED <<byId, births>>
              /\ \A j \in Ids : inst'[j].created = inst[j].created
           \/ /\ Calls("create") \/ Calls("copy")
              /\ Frames(stack) \subseteq Frames(stack')
              /\ \A f \in Frames(stack') \ Frames(stack) : \/ f.kind = "code"
                                                           \/ f.kind = "create" /\ f.self = nextId
              /\ Once(stack) /\ nextId \notin Waiting(stack) => Once(stack')
              /\ nextId \in Ids /\ \E f : Register(nextId, f)
<1> USE EventNames, FrameFields DEF heapVars, roomVars, engineVars, history, tables
<1> DEFINE Return == /\ CodeReturn /\ Frames(stack) = {Top} \cup Frames(stack')
                     /\ Once(stack) => Once(stack')
           Push == /\ Frames(stack) \subseteq Frames(stack')
                   /\ \A f \in Frames(stack') \ Frames(stack) :
                         /\ f.kind \in {"code", "destroy", "destroyEach", "change", "wild"}
                         /\ f.kind = "code" => f.event = "Destroy"
                         /\ f.kind = "wild" => WalkFreed
                   /\ Once(stack) => Once(stack')
                   /\ UNCHANGED <<byId, births>>
                   /\ \A j \in Ids : inst'[j].created = inst[j].created
           Born == /\ Calls("create") \/ Calls("copy")
                   /\ Frames(stack) \subseteq Frames(stack')
                   /\ \A f \in Frames(stack') \ Frames(stack) :
                         \/ f.kind = "code"
                         \/ f.kind = "create" /\ f.self = nextId
                   /\ Once(stack) /\ nextId \notin Waiting(stack) => Once(stack')
                   /\ nextId \in Ids /\ \E f : Register(nextId, f)
<1>0. stack \in Seq(Frame) /\ inst \in [Ids -> Instance] /\ (nextId <= MaxId => nextId \in Ids)
  BY DEF TypeOK, Ids
<1>1. ASSUME NEW f, nextId \in Ids, Register(nextId, f), Calls("create") \/ Calls("copy"),
             \/ stack' = stack
             \/ stack' = Execute(f, nextId, "PreCreate",
                                 <<SelfFrame("create", nextId, "Create")>> \o stack)
      PROVE  Born
  <2> DEFINE g == SelfFrame("create", nextId, "Create")
             s == <<g>> \o stack
  <2>1. g \in Frame /\ g.kind = "create" /\ g.self = nextId
    BY <1>1, SelfFrameType
  <2>2. /\ s \in Seq(Frame) /\ Frames(s) = {g} \cup Frames(stack)
        /\ Once(stack) /\ nextId \notin Waiting(stack) => Once(s)
    BY <1>0, <2>1, PushFrames DEF Awaits
  <2> HIDE DEF g, s
  <2>3. CASE stack' = Execute(f, nextId, "PreCreate", s)
    <3>1. /\ Frames(s) \subseteq Frames(stack')
          /\ Frames(stack') \subseteq {CodeFrame(nextId, "PreCreate")} \cup Frames(s)
          /\ Once(s) => Once(stack')
      BY <1>1, <2>2, <2>3, RunFrames
    <3> QED BY <1>1, <2>1, <2>2, <3>1
  <2>4. CASE stack' = stack
    BY <1>1, <2>4
  <2> QED BY <1>1, <2>3, <2>4 DEF g, s
<1>2. ASSUME NEW o \in Objects, InstanceCreate(o) PROVE Born
  <2>1. PICK f : Register(nextId, f) /\ stack' = Execute(f, nextId, "PreCreate",
                                           <<SelfFrame("create", nextId, "Create")>> \o stack)
    BY <1>2 DEF InstanceCreate
  <2>2. nextId \in Ids /\ Calls("create")
    BY <1>0, <1>2 DEF InstanceCreate
  <2> HIDE DEF Born
  <2> QED BY <1>1, <2>1, <2>2
<1>3. ASSUME NEW i \in Ids, NEW b \in BOOLEAN, InstanceCopy(i, b) PROVE Born
  <2>1. PICK f : /\ Register(nextId, f)
                 /\ \/ stack' = stack
                    \/ stack' = Execute(f, nextId, "PreCreate",
                                        <<SelfFrame("create", nextId, "Create")>> \o stack)
    BY <1>3 DEF InstanceCopy
  <2>2. nextId \in Ids /\ Calls("copy")
    BY <1>0, <1>3 DEF InstanceCopy
  <2> HIDE DEF Born
  <2> QED BY <1>1, <2>1, <2>2
<1>4. ASSUME NEW f \in Frame, f.kind \in {"destroy", "destroyEach", "change", "wild"},
             stack' = <<f>> \o stack
      PROVE  /\ Frames(stack') = {f} \cup Frames(stack)
             /\ Once(stack) => Once(stack')
  BY <1>0, <1>4, PushFrames DEF Awaits
<1>5. ASSUME NEW i \in Ids, NEW b \in BOOLEAN, InstanceDestroy(i, b) PROVE Push
  <2> DEFINE e == IF b THEN "Destroy" ELSE "CleanUp"
             f == SelfFrame("destroy", i, e)
  <2>1. inst' = [inst EXCEPT ![i].destroyed = TRUE] /\ stack' = <<f>> \o stack
    BY <1>5 DEF InstanceDestroy, MarkDestroyed
  <2>2. f \in Frame /\ f.kind = "destroy"
    BY SelfFrameType
  <2>3. \A j \in Ids : inst'[j].created = inst[j].created
    BY <1>0, <2>1 DEF Instance
  <2> HIDE DEF f
  <2> QED BY <1>4, <1>5, <2>1, <2>2, <2>3 DEF InstanceDestroy
<1>6. ASSUME NEW o \in Objects, NEW b \in BOOLEAN, InstanceDestroyObject(o, b) PROVE Push
  <2> DEFINE e == IF b THEN "Destroy" ELSE "CleanUp"
             f == LoopFrame("destroyEach", byObject[o], e)
  <2>1. stack' = <<f>> \o stack
    BY <1>6 DEF InstanceDestroyObject
  <2>2. f \in Frame /\ f.kind = "destroyEach"
    BY LoopFrameType DEF TypeOK
  <2> HIDE DEF f
  <2> QED BY <1>4, <1>6, <2>1, <2>2 DEF InstanceDestroyObject
<1>7. ASSUME NEW i \in Ids, NEW o \in Objects, NEW b \in BOOLEAN, InstanceChange(i, o, b)
      PROVE  Push
  <2>1. CASE b
    <3> DEFINE f == [SelfFrame("change", i, "CleanUp") EXCEPT !.object = o]
               s == <<f>> \o stack
    <3>1. f \in Frame /\ f.kind = "change"
      BY DEF SelfFrame, FrameOf, Frame, Kinds
    <3>2. stack' = Execute(inst, i, "Destroy", s)
      BY <1>7, <2>1 DEF InstanceChange
    <3> HIDE DEF f
    <3>3. /\ s \in Seq(Frame) /\ Frames(s) = {f} \cup Frames(stack)
          /\ Once(stack) => Once(s)
      BY <1>0, <3>1, PushFrames DEF Awaits
    <3> HIDE DEF s
    <3>4. /\ Frames(s) \subseteq Frames(stack')
          /\ Frames(stack') \subseteq {CodeFrame(i, "Destroy")} \cup Frames(s)
          /\ Once(s) => Once(stack')
      BY <3>2, <3>3, RunFrames
    <3> QED BY <1>7, <2>1, <3>1, <3>3, <3>4 DEF InstanceChange
  <2>2. CASE ~ b
    <3>1. ChangeObject(i, o) /\ stack' = stack
      BY <1>7, <2>2 DEF InstanceChange
    <3>2. \A j \in Ids : inst'[j].created = inst[j].created
      BY <1>0, <3>1 DEF ChangeObject, Changed, Instance
    <3> QED BY <3>1, <3>2 DEF ChangeObject
  <2> QED BY <2>1, <2>2
<1>8. ASSUME NEW i \in Ids, NEW b \in BOOLEAN, SetPersistent(i, b) PROVE Push
  <2>1. \A j \in Ids : inst'[j].created = inst[j].created
    BY <1>0, <1>8 DEF SetPersistent, Instance
  <2> QED BY <1>8, <2>1 DEF SetPersistent
<1>9. ASSUME NEW sel, NEW b \in BOOLEAN,
             InstanceActivate(sel) \/ InstanceDeactivate(sel) \/ InstanceDeactivateAll(b)
      PROVE  Push
  <2>1. \A j \in Ids : inst'[j].created = inst[j].created
    BY <1>0, <1>9 DEF InstanceActivate, InstanceDeactivate, InstanceDeactivateAll, SetActive, Instance
  <2> QED BY <1>9, <2>1 DEF InstanceActivate, InstanceDeactivate, InstanceDeactivateAll, SetActive
<1>10. ASSUME NEW r \in Rooms, NEW b \in BOOLEAN, RoomGoto(r) \/ RoomSetPersistent(r, b)
       PROVE  Push
  BY <1>10 DEF RoomGoto, RoomSetPersistent, SetPendingRoom
<1>11. ASSUME GameRestart \/ GameEnd PROVE Push
  BY <1>11 DEF GameRestart, GameEnd, SetPendingRoom
<1>14. ASSUME WalkFreed PROVE Push
  <2> DEFINE f == FrameOf("wild")
  <2>1. f \in Frame /\ f.kind = "wild" /\ stack' = <<f>> \o stack
    BY <1>14, WildFrameType DEF WalkFreed, FrameOf
  <2> HIDE DEF f
  <2> QED BY <1>4, <1>14, <2>1 DEF WalkFreed
<1>12. ASSUME CodeReturn PROVE Return
  BY <1>0, <1>12, PopFrames DEF CodeReturn, Running, Top, Below
<1> HIDE DEF Return, Push, Born
<1>13. Return \/ Push \/ Born
  BY <1>2, <1>3, <1>5, <1>6, <1>7, <1>8, <1>9, <1>10, <1>11, <1>12, <1>14
  DEF GameCode
<1> QED BY <1>13 DEF Return, Push, Born

\* A handler that goes on, with a frame in place of its own that awaits no more.
LEMMA ResumeFrames ==
    ASSUME TypeOK, stack # <<>>, NEW t \in Frame, \A i \in Ids : Awaits(t, i) => Awaits(Top, i)
    PROVE  /\ <<t>> \o Below \in Seq(Frame)
           /\ Frames(<<t>> \o Below) = {t} \cup Frames(Below)
           /\ Once(stack) => Once(<<t>> \o Below)
<1>1. stack \in Seq(Frame)
  BY DEF TypeOK
<1>2. /\ Below \in Seq(Frame)
      /\ Once(stack) => Once(Below) /\ \A i \in Waiting(Below) : ~ Awaits(Top, i)
  BY <1>1, PopFrames DEF Top, Below
<1>3. Waiting(Below) \subseteq Ids
  BY DEF Waiting
<1> QED BY <1>2, <1>3, PushFrames

\* A handler or loop leaves the frames below its own, goes on with its own or not, and runs
\* code or starts to destroy an instance; the frame it goes on with awaits no more than the
\* one it had, and nothing once Create has fired.
HandlerFramesKept ==
    /\ stack # <<>> /\ Frames(stack) = {Top} \cup Frames(Below)
    /\ Frames(Below) \subseteq Frames(stack')
    /\ \A f \in Frames(stack') \ Frames(Below) :
          \/ f.kind = "code" /\ (Top.kind \in {"destroy", "destroyEach", "change"} => f.event \in LeavingEvents)
          \/ f.kind = "destroy"
          \/ f.kind = Top.kind /\ f.self = Top.self
    /\ \A f \in Frames(stack') \ Frames(Below), i \in Ids :
          Awaits(f, i) => Awaits(Top, i) /\ births' = births
    /\ Once(stack) => Once(stack')
    /\ \/ births' = births
       \/ /\ Awaits(Top, Top.self) /\ Top.self \in Ids
          /\ births' = [births EXCEPT ![Top.self] = @ + 1]
    /\ \A j \in Ids : inst'[j].created = inst[j].created

\* The frame of a loop or handler after one more round.
LEMMA RoundFrames ==
    ASSUME TypeOK, stack # <<>>, NEW t \in Frame, t.kind = Top.kind, t.self = Top.self,
           \A i \in Ids : Awaits(t, i) => Awaits(Top, i) /\ births' = births,
           \/ stack' = <<t>> \o Below
           \/ \E i \in Ids, e \in Events :
                 /\ stack' = <<CodeFrame(i, e)>> \o (<<t>> \o Below)
                 /\ Top.kind \in {"destroy", "destroyEach", "change"} => e \in LeavingEvents,
           \/ births' = births
           \/ /\ Awaits(Top, Top.self) /\ Top.self \in Ids
              /\ births' = [births EXCEPT ![Top.self] = @ + 1],
           \A j \in Ids : inst'[j].created = inst[j].created
    PROVE  HandlerFramesKept
<1> DEFINE s == <<t>> \o Below
<1>1. /\ s \in Seq(Frame) /\ Frames(s) = {t} \cup Frames(Below)
      /\ Once(stack) => Once(s)
  BY ResumeFrames
<1>2. /\ stack \in Seq(Frame) /\ Frames(stack) = {Top} \cup Frames(Below)
  BY PopFrames DEF TypeOK, Top, Below
<1>3. CASE stack' = s
  <2> HIDE DEF s
  <2> QED BY <1>1, <1>2, <1>3 DEF HandlerFramesKept
<1>4. ASSUME NEW i \in Ids, NEW e \in Events, stack' = <<CodeFrame(i, e)>> \o s,
             Top.kind \in {"destroy", "destroyEach", "change"} => e \in LeavingEvents
      PROVE  HandlerFramesKept
  <2>1. /\ CodeFrame(i, e) \in Frame
        /\ CodeFrame(i, e).kind = "code" /\ CodeFrame(i, e).event = e
        /\ \A j : ~ Awaits(CodeFrame(i, e), j)
    BY CodeFrameType, FrameFields DEF Awaits
  <2> HIDE DEF s
  <2>2. /\ Frames(stack') = {CodeFrame(i, e)} \cup Frames(s)
        /\ Once(s) => Once(stack')
    BY <1>1, <1>4, <2>1, PushFrames
  <2>3. \A f \in Frames(stack') \ Frames(Below) : f = t \/ f = CodeFrame(i, e)
    BY <1>1, <2>2
  <2>4. \A f \in Frames(stack') \ Frames(Below) :
           \/ f.kind = "code" /\ (Top.kind \in {"destroy", "destroyEach", "change"} => f.event \in LeavingEvents)
           \/ f.kind = Top.kind /\ f.self = Top.self
    BY <1>4, <2>1, <2>3
  <2>5. \A f \in Frames(stack') \ Frames(Below), j \in Ids :
           Awaits(f, j) => Awaits(Top, j) /\ births' = births
    BY <2>1, <2>3
  <2>6. Frames(Below) \subseteq Frames(stack') /\ (Once(stack) => Once(stack'))
    BY <1>1, <2>2
  <2> QED BY <1>2, <2>4, <2>5, <2>6 DEF HandlerFramesKept
<1> HIDE DEF s
<1> QED BY <1>3, <1>4 DEF s

\* The same for one that ends, perhaps with code.
LEMMA EndFrames ==
    ASSUME TypeOK, stack # <<>>,
           \/ stack' = Below
           \/ \E i \in Ids, e \in Events :
                 /\ stack' = <<CodeFrame(i, e)>> \o Below
                 /\ Top.kind \in {"destroy", "destroyEach", "change"} => e \in LeavingEvents,
           \/ births' = births
           \/ /\ Awaits(Top, Top.self) /\ Top.self \in Ids
              /\ births' = [births EXCEPT ![Top.self] = @ + 1],
           \A j \in Ids : inst'[j].created = inst[j].created
    PROVE  HandlerFramesKept
<1>1. /\ stack \in Seq(Frame) /\ Frames(stack) = {Top} \cup Frames(Below)
      /\ Below \in Seq(Frame) /\ (Once(stack) => Once(Below))
  BY PopFrames DEF TypeOK, Top, Below
<1>2. CASE stack' = Below
  BY <1>1, <1>2 DEF HandlerFramesKept
<1>3. ASSUME NEW i \in Ids, NEW e \in Events, stack' = <<CodeFrame(i, e)>> \o Below,
             Top.kind \in {"destroy", "destroyEach", "change"} => e \in LeavingEvents
      PROVE  HandlerFramesKept
  <2>1. /\ CodeFrame(i, e) \in Frame
        /\ CodeFrame(i, e).kind = "code" /\ CodeFrame(i, e).event = e
        /\ \A j : ~ Awaits(CodeFrame(i, e), j)
    BY CodeFrameType, FrameFields DEF Awaits
  <2>2. /\ Frames(stack') = {CodeFrame(i, e)} \cup Frames(Below)
        /\ Once(Below) => Once(stack')
    BY <1>1, <1>3, <2>1, PushFrames
  <2> QED BY <1>1, <1>3, <2>1, <2>2 DEF HandlerFramesKept
<1> QED BY <1>2, <1>3

\* Every handler and loop that game code interrupts keeps to that.
LEMMA HandlerFrames ==
    ASSUME TypeOK, CreateStep \/ DestroyStep \/ DestroyEachStep \/ ChangeStep \/ DispatchStep
                   \/ RoomCreateStep
    PROVE  HandlerFramesKept
<1> USE EventNames DEF heapVars, roomVars, engineVars, history, tables
<1>0. inst \in [Ids -> Instance]
  BY DEF TypeOK
<1>1. CASE CreateStep
  <2>1. /\ stack # <<>> /\ Top.kind = "create" /\ Top.self \in Ids
        /\ stack' = Execute(inst, Top.self, "Create", Below)
        /\ births' = [births EXCEPT ![Top.self] = @ + 1] /\ inst' = inst
    BY <1>1, RunningType DEF CreateStep, Running, Top
  <2> QED BY <2>1, EndFrames DEF Awaits, Execute
<1>2. CASE DestroyStep
  <2>1. /\ stack # <<>> /\ Top \in Frame /\ Top.kind = "destroy" /\ Top.self \in Ids
        /\ births' = births
    BY <1>2, RunningType DEF DestroyStep, Running, Top
  <2>2. \A j \in Ids : inst'[j].created = inst[j].created
    BY <1>0, <1>2, <2>1 DEF DestroyStep, Instance
  <2>3. ASSUME NEW e \in LeavingEvents, NEW then \in Events \cup {NoEvent},
               stack' = Execute(inst, Top.self, e, <<[Top EXCEPT !.event = then]>> \o Below)
        PROVE  HandlerFramesKept
    <3> DEFINE t == [Top EXCEPT !.event = then]
    <3>1. t \in Frame /\ t.kind = "destroy" /\ t.self = Top.self /\ \A i : ~ Awaits(t, i)
      BY <2>1 DEF Frame, Awaits
    <3>2. stack' = Execute(inst, Top.self, e, <<t>> \o Below) /\ e \in Events
      BY <2>3 DEF LeavingEvents
    <3> HIDE DEF t
    <3> QED BY <2>1, <2>2, <3>1, <3>2, RoundFrames DEF Execute
  <2>4. CASE stack' = Below
    BY <2>1, <2>2, <2>4, EndFrames
  <2>5. CASE stack' = Execute(inst, Top.self, "Destroy", <<[Top EXCEPT !.event = "CleanUp"]>> \o Below)
    BY <2>3, <2>5 DEF LeavingEvents
  <2>6. CASE stack' = Execute(inst, Top.self, "CleanUp", <<[Top EXCEPT !.event = NoEvent]>> \o Below)
    BY <2>3, <2>6 DEF LeavingEvents
  <2> QED BY <1>2, <2>4, <2>5, <2>6 DEF DestroyStep
<1>3. CASE DestroyEachStep
  <2>1. /\ stack # <<>> /\ Top \in Frame /\ Top.kind = "destroyEach" /\ Top.todo \subseteq Ids
        /\ births' = births /\ Top.event \in Events \cup {NoEvent} /\ stack \in Seq(Frame)
    BY <1>3, RunningType DEF DestroyEachStep, Running, Top, TypeOK
  <2>2. CASE Top.todo = {}
    <3>1. stack' = Below /\ inst' = inst
      BY <1>3, <2>2 DEF DestroyEachStep
    <3> QED BY <2>1, <3>1, EndFrames
  <2>3. CASE Top.todo # {}
    <3>1. PICK i \in Top.todo :
             LET rest == <<[Top EXCEPT !.todo = @ \ {i}]>> \o Below IN
             IF inst[i].active THEN MarkDestroyed(i, Top.event, rest)
             ELSE stack' = rest /\ UNCHANGED inst
      BY <1>3, <2>3 DEF DestroyEachStep
    <3> DEFINE t == [Top EXCEPT !.todo = @ \ {i}]
               s == <<t>> \o Below
    <3>2. t \in Frame /\ t.kind = "destroyEach" /\ t.self = Top.self /\ \A j : ~ Awaits(t, j)
      BY <2>1 DEF Frame, Awaits
    <3>3. \/ stack' = s /\ inst' = inst
          \/ stack' = <<SelfFrame("destroy", i, Top.event)>> \o s
             /\ inst' = [inst EXCEPT ![i].destroyed = TRUE]
      BY <3>1 DEF MarkDestroyed
    <3> HIDE DEF t
    <3>4. \A j \in Ids : inst'[j].created = inst[j].created
      BY <1>0, <3>3 DEF Instance
    <3>5. CASE stack' = s
      BY <2>1, <3>2, <3>4, <3>5, RoundFrames
    <3>6. CASE stack' = <<SelfFrame("destroy", i, Top.event)>> \o s
      <4> DEFINE g == SelfFrame("destroy", i, Top.event)
      <4>1. g \in Frame /\ g.kind = "destroy" /\ \A j : ~ Awaits(g, j)
        BY <2>1, SelfFrameType, FrameFields DEF Awaits
      <4>2. s \in Seq(Frame) /\ Frames(s) = {t} \cup Frames(Below) /\ (Once(stack) => Once(s))
        BY <2>1, <3>2, ResumeFrames
      <4>3. Frames(stack) = {Top} \cup Frames(Below)
        BY <2>1, PopFrames DEF Top, Below
      <4> HIDE DEF g, s
      <4>4. Frames(stack') = {g} \cup Frames(s) /\ (Once(s) => Once(stack'))
        BY <3>6, <4>1, <4>2, PushFrames DEF g
      <4> QED BY <2>1, <3>2, <3>4, <4>1, <4>2, <4>3, <4>4 DEF HandlerFramesKept
    <3> QED BY <3>3, <3>5, <3>6
  <2> QED BY <2>2, <2>3
<1>4. CASE ChangeStep
  <2>1. /\ stack # <<>> /\ Top \in Frame /\ Top.kind = "change" /\ Top.self \in Ids
    BY <1>4, RunningType DEF ChangeStep, Running, Top
  <2>2. CASE Top.event = "CleanUp"
    <3> DEFINE t == [Top EXCEPT !.event = NoEvent]
    <3>1. t \in Frame /\ t.kind = "change" /\ t.self = Top.self /\ \A i : ~ Awaits(t, i)
      BY <2>1 DEF Frame, Awaits
    <3>2. stack' = Execute(inst, Top.self, "CleanUp", <<t>> \o Below) /\ inst' = inst
          /\ births' = births
      BY <1>4, <2>2 DEF ChangeStep, NoEvent
    <3> HIDE DEF t
    <3> QED BY <2>1, <3>1, <3>2, RoundFrames DEF LeavingEvents, Execute
  <2>3. CASE Top.event = NoEvent
    <3>1. /\ stack' = Execute(Changed(Top.self, Top.object), Top.self, "Create", Below)
          /\ inst' = Changed(Top.self, Top.object) /\ births' = births
      BY <1>4, <2>3 DEF ChangeStep, NoEvent, ChangeObject
    <3>2. \A j \in Ids : inst'[j].created = inst[j].created
      BY <1>0, <3>1 DEF Changed, Instance
    <3> QED BY <2>1, <3>1, <3>2, EndFrames DEF LeavingEvents, Execute
  <2> QED BY <1>4, <2>2, <2>3 DEF ChangeStep
<1>5. CASE DispatchStep
  <2>1. /\ stack # <<>> /\ Top \in Frame /\ Top.kind = "dispatch" /\ Top.todo \subseteq Ids
        /\ births' = births /\ inst' = inst /\ Top.event \in Events
    BY <1>5, RunningType DEF DispatchStep, Running, Top
  <2>2. CASE Top.todo = {}
    <3>1. stack' = Below
      BY <1>5, <2>2 DEF DispatchStep
    <3> QED BY <2>1, <3>1, EndFrames
  <2>3. CASE Top.todo # {}
    <3>1. PICK i \in Top.todo :
             LET rest == <<[Top EXCEPT !.todo = @ \ {i}]>> \o Below IN
             stack' = IF inst[i].active THEN Execute(inst, i, Top.event, rest) ELSE rest
      BY <1>5, <2>3 DEF DispatchStep
    <3> DEFINE t == [Top EXCEPT !.todo = @ \ {i}]
    <3>2. t \in Frame /\ t.kind = "dispatch" /\ t.self = Top.self /\ \A j : ~ Awaits(t, j)
      BY <2>1 DEF Frame, Awaits
    <3>3. stack' = <<t>> \o Below \/ stack' = Execute(inst, i, Top.event, <<t>> \o Below)
      BY <3>1
    <3> HIDE DEF t
    <3> QED BY <2>1, <3>2, <3>3, RoundFrames DEF Execute
  <2> QED BY <2>2, <2>3
<1>6. CASE RoomCreateStep
  <2>1. /\ stack # <<>> /\ Top \in Frame /\ Top.kind = "roomCreate" /\ Top.self \in Ids
        /\ inst' = inst
    BY <1>6, RunningType DEF RoomCreateStep, Running, Top
  <2>2. ASSUME NEW e \in Events, NEW then \in Events,
               \/ stack' = Execute(inst, Top.self, e, <<[Top EXCEPT !.event = then]>> \o Below)
               \/ stack' = ExecuteCode(Top.self, e, <<[Top EXCEPT !.event = then]>> \o Below),
               \/ births' = births /\ Top.event \in {"PreCreate", "PreCode"}
               \/ /\ births' = [births EXCEPT ![Top.self] = @ + 1]
                  /\ Top.event = "Create" /\ then = "CreationCode"
        PROVE  HandlerFramesKept
    <3> DEFINE t == [Top EXCEPT !.event = then]
    <3>1. t \in Frame /\ t.kind = "roomCreate" /\ t.self = Top.self /\ t.event = then
      BY <2>1 DEF Frame
    <3>2. \/ stack' = Execute(inst, Top.self, e, <<t>> \o Below)
          \/ stack' = ExecuteCode(Top.self, e, <<t>> \o Below)
      BY <2>2
    <3> HIDE DEF t
    <3>3. \A i \in Ids : Awaits(t, i) => Awaits(Top, i) /\ births' = births
      BY <2>1, <2>2, <3>1 DEF Awaits
    <3>4. \/ births' = births
          \/ Awaits(Top, Top.self) /\ births' = [births EXCEPT ![Top.self] = @ + 1]
      BY <2>1, <2>2 DEF Awaits
    <3> QED BY <2>1, <3>1, <3>2, <3>3, <3>4, RoundFrames DEF Execute, ExecuteCode
  <2>3. CASE Top.event = "PreCreate"
    <3>1. stack' = Execute(inst, Top.self, "PreCreate", <<[Top EXCEPT !.event = "PreCode"]>> \o Below)
          /\ births' = births
      BY <1>6, <2>3 DEF RoomCreateStep
    <3> QED BY <2>2, <2>3, <3>1
  <2>4. CASE Top.event = "PreCode"
    <3>1. stack' = ExecuteCode(Top.self, "PreCode", <<[Top EXCEPT !.event = "Create"]>> \o Below)
          /\ births' = births
      BY <1>6, <2>4 DEF RoomCreateStep
    <3> QED BY <2>2, <2>4, <3>1
  <2>5. CASE Top.event = "Create" /\ ~ inst[Top.self].destroyed
    <3>1. stack' = Execute(inst, Top.self, "Create", <<[Top EXCEPT !.event = "CreationCode"]>> \o Below)
          /\ births' = [births EXCEPT ![Top.self] = @ + 1]
      BY <1>6, <2>5 DEF RoomCreateStep
    <3> QED BY <2>2, <2>5, <3>1
  <2>6. CASE Top.event \notin {"PreCreate", "PreCode"} /\ inst[Top.self].destroyed
    <3>1. stack' = Below /\ births' = births
      BY <1>6, <2>6 DEF RoomCreateStep
    <3> QED BY <2>1, <3>1, EndFrames
  <2>7. CASE Top.event \notin {"PreCreate", "PreCode", "Create"} /\ ~ inst[Top.self].destroyed
    <3>1. /\ stack' \in {Below, ExecuteCode(Top.self, "CreationCode", Below)}
          /\ births' = births
      BY <1>6, <2>7 DEF RoomCreateStep
    <3> QED BY <2>1, <3>1, EndFrames DEF ExecuteCode
  <2> QED BY <2>3, <2>4, <2>5, <2>6, <2>7
<1> QED BY <1>1, <1>2, <1>3, <1>4, <1>5, <1>6

-------------------------------------------------------------------------------
(* Destroyed instances                                                      *)

\* instance_copy is not called: it makes its source active again, destroyed or not.
NoCopy == \A e \in Events : "copy" \notin CodeOps[e]

\* Destroyed, and active nevertheless.
Undead == {j \in Ids : inst[j].destroyed /\ inst[j].active}

\* A fresh instance is not destroyed.
LEMMA FreshAlive == ~ Blank.destroyed /\ \A o \in Objects : ~ NewInstance(o).destroyed
<1>1. \A o : ~ NewInstance(o).destroyed
  BY DEF NewInstance
<1> QED BY <1>1 DEF Blank

\* A step that adds no such instance, and pops no frame of Runner_destroyInstance.
LEMMA DeathKept ==
    ASSUME DeathInv, Undead' \subseteq Undead \cup Dying(stack'),
           Dying(stack) \subseteq Dying(stack')
    PROVE  DeathInv'
  BY DEF DeathInv, Undead

\* More frames, more instances under destruction.
LEMMA DyingGrows ==
    ASSUME NEW s, NEW t, Frames(s) \subseteq Frames(t)
    PROVE  Dying(s) \subseteq Dying(t)
  BY DEF Dying

\* What game code does to instances leaves none destroyed and active but those it has
\* begun to destroy.
LEMMA DeathByCode ==
    ASSUME TypeOK, DeathInv, NoCopy, GameCode
    PROVE  DeathInv'
<1> USE DEF heapVars, tables
<1>0. inst \in [Ids -> Instance] /\ stack \in Seq(Frame)
  BY DEF TypeOK
<1>1. Running("code") => Top.event \in Events
  BY TopType DEF TypeOK, Running, Top, Frame
<1>2. Dying(stack) \subseteq Dying(stack')
  <2>1. ASSUME CodeReturn, Frames(stack) = {Top} \cup Frames(stack')
        PROVE  Dying(stack) \subseteq Dying(stack')
    <3>1. Top.kind = "code"
      BY <2>1 DEF CodeReturn, Running, Top
    <3> QED BY <2>1, <3>1 DEF Dying
  <2> QED BY <2>1, GameCodeFrames, DyingGrows
<1>3. ASSUME NEW o \in Objects,
             InstanceCreate(o) \/ \E b \in BOOLEAN : InstanceDestroyObject(o, b)
      PROVE  Undead' \subseteq Undead
  <2>1. CASE InstanceCreate(o)
    <3>1. inst' = [inst EXCEPT ![nextId] = [NewInstance(o) EXCEPT !.created = TRUE]]
      BY <2>1 DEF InstanceCreate, Register
    <3>2. \A j \in Ids : inst'[j] = inst[j] \/ ~ inst'[j].destroyed
      BY <1>0, <3>1 DEF NewInstance
    <3> QED BY <3>2 DEF Undead
  <2>2. CASE \E b \in BOOLEAN : InstanceDestroyObject(o, b)
    BY <2>2 DEF InstanceDestroyObject, Undead
  <2> QED BY <1>3, <2>1, <2>2
<1>4. ASSUME NEW i \in Ids, NEW b \in BOOLEAN, InstanceDestroy(i, b)
      PROVE  Undead' \subseteq Undead \cup Dying(stack')
  <2> DEFINE g == SelfFrame("destroy", i, IF b THEN "Destroy" ELSE "CleanUp")
  <2>1. inst' = [inst EXCEPT ![i].destroyed = TRUE] /\ stack' = <<g>> \o stack
    BY <1>4 DEF InstanceDestroy, MarkDestroyed
  <2>2. g \in Frame /\ g.kind = "destroy" /\ g.self = i
    BY SelfFrameType, FrameFields, EventNames
  <2> HIDE DEF g
  <2>3. i \in Dying(stack')
    BY <1>0, <2>1, <2>2, PushFrames DEF Dying
  <2>4. \A j \in Ids : j = i \/ inst'[j] = inst[j]
    BY <1>0, <2>1
  <2> QED BY <2>3, <2>4 DEF Undead
<1>5. ASSUME NEW i \in Ids, NEW b \in BOOLEAN,
             SetPersistent(i, b) \/ \E o \in Objects : InstanceChange(i, o, b)
      PROVE  Undead' \subseteq Undead
  <2>1. \A j \in Ids : inst'[j].destroyed = inst[j].destroyed /\ inst'[j].active = inst[j].active
    <3>1. CASE SetPersistent(i, b)
      BY <1>0, <3>1 DEF SetPersistent, Instance
    <3>2. ASSUME NEW o \in Objects, InstanceChange(i, o, b)
          PROVE  \A j \in Ids : /\ inst'[j].destroyed = inst[j].destroyed
                                /\ inst'[j].active = inst[j].active
      <4>1. inst' = inst \/ inst' = Changed(i, o)
        BY <3>2 DEF InstanceChange, ChangeObject
      <4> QED BY <1>0, <4>1 DEF Changed, Instance
    <3> QED BY <1>5, <3>1, <3>2
  <2> QED BY <2>1 DEF Undead
<1>6. ASSUME NEW sel, InstanceActivate(sel) \/ InstanceDeactivate(sel)
      PROVE  Undead' \subseteq Undead
  <2>1. \A j \in Ids : \/ inst'[j] = inst[j]
                       \/ ~ inst[j].destroyed /\ inst'[j].destroyed = inst[j].destroyed
    BY <1>0, <1>6 DEF InstanceActivate, InstanceDeactivate, SetActive, Instance
  <2> QED BY <2>1 DEF Undead
<1>7. ASSUME NEW b \in BOOLEAN, InstanceDeactivateAll(b) PROVE Undead' \subseteq Undead
  <2>1. \A j \in Ids : inst'[j] = inst[j] \/ ~ inst'[j].active
    BY <1>0, <1>7 DEF InstanceDeactivateAll, SetActive, Instance
  <2> QED BY <2>1 DEF Undead
<1>8. ASSUME \/ \E r \in Rooms : RoomGoto(r) \/ \E b \in BOOLEAN : RoomSetPersistent(r, b)
             \/ GameRestart \/ GameEnd \/ CodeReturn \/ WalkFreed
      PROVE  Undead' \subseteq Undead
  BY <1>8 DEF RoomGoto, RoomSetPersistent, SetPendingRoom, GameRestart, GameEnd, CodeReturn, WalkFreed,
              Undead
<1>9. ASSUME NEW i \in Ids, NEW b \in BOOLEAN PROVE ~ InstanceCopy(i, b)
  BY <1>1 DEF InstanceCopy, Calls, NoCopy
<1>10. Undead' \subseteq Undead \cup Dying(stack')
  BY <1>3, <1>4, <1>5, <1>6, <1>7, <1>8, <1>9 DEF GameCode
<1> QED BY <1>2, <1>10, DeathKept

\* Handlers and loops keep the frame of an instance under destruction until it is inactive.
LEMMA DeathByHandlers ==
    ASSUME TypeOK, DeathInv,
           CreateStep \/ DestroyStep \/ DestroyEachStep \/ ChangeStep \/ DispatchStep \/ RoomCreateStep
    PROVE  DeathInv'
<1> USE EventNames DEF heapVars, tables
<1>0. /\ inst \in [Ids -> Instance] /\ stack \in Seq(Frame) /\ stack # <<>>
      /\ Frames(stack) = {Top} \cup Frames(Below) /\ Frames(Below) \subseteq Frames(stack')
      /\ Below \in Seq(Frame) /\ Top \in Frame
  BY HandlerFrames, TopType DEF HandlerFramesKept, TypeOK
<1>1. Dying(Below) \subseteq Dying(stack')
  BY <1>0, DyingGrows
<1>2. Top.kind # "destroy" => Dying(stack) \subseteq Dying(Below)
  BY <1>0 DEF Dying
<1>3. CASE CreateStep \/ DispatchStep \/ RoomCreateStep \/ ChangeStep
  <2>1. Top.kind # "destroy"
    BY <1>3 DEF CreateStep, DispatchStep, RoomCreateStep, ChangeStep, Running, Top
  <2>2. \A j \in Ids : inst'[j].destroyed = inst[j].destroyed /\ inst'[j].active = inst[j].active
    <3>1. inst' = inst \/ inst' = Changed(Top.self, Top.object)
      BY <1>3 DEF CreateStep, DispatchStep, RoomCreateStep, ChangeStep, ChangeObject
    <3> QED BY <1>0, <3>1 DEF Changed, Instance
  <2> QED BY <1>1, <1>2, <2>1, <2>2, DeathKept, SMTT(30) DEF Undead
<1>4. CASE DestroyEachStep
  <2>1. Top.kind = "destroyEach" /\ Top.todo \subseteq Ids /\ Top.event \in Events \cup {NoEvent}
    BY <1>4, RunningType DEF DestroyEachStep, Running, Top
  <2>2. CASE inst' = inst
    BY <1>1, <1>2, <2>1, <2>2, DeathKept DEF Undead
  <2>3. CASE inst' # inst
    <3>1. PICK i \in Top.todo :
             /\ inst' = [inst EXCEPT ![i].destroyed = TRUE]
             /\ stack' = <<SelfFrame("destroy", i, Top.event)>>
                            \o (<<[Top EXCEPT !.todo = @ \ {i}]>> \o Below)
      BY <1>4, <2>3 DEF DestroyEachStep, MarkDestroyed
    <3> DEFINE g == SelfFrame("destroy", i, Top.event)
               s == <<[Top EXCEPT !.todo = @ \ {i}]>> \o Below
    <3>2. g \in Frame /\ g.kind = "destroy" /\ g.self = i /\ s \in Seq(Frame)
      <4>1. [Top EXCEPT !.todo = @ \ {i}] \in Frame
        BY <1>0 DEF Frame
      <4>2. g \in Frame /\ g.kind = "destroy" /\ g.self = i
        BY <2>1, SelfFrameType, FrameFields
      <4> QED BY <1>0, <4>1, <4>2, PushType
    <3> HIDE DEF g, s
    <3>3. i \in Dying(stack')
      BY <2>1, <3>1, <3>2, PushFrames DEF Dying, g, s
    <3>4. \A j \in Ids : j = i \/ inst'[j] = inst[j]
      BY <1>0, <3>1
    <3> QED BY <1>1, <1>2, <2>1, <3>3, <3>4, DeathKept DEF Undead
  <2> QED BY <2>2, <2>3
<1>5. CASE DestroyStep
  <2>1. Top.kind = "destroy" /\ Top.self \in Ids
    BY <1>5, RunningType DEF DestroyStep, Running, Top
  <2>2. ASSUME NEW e \in Events, NEW then \in Events \cup {NoEvent}, inst' = inst,
               stack' = Execute(inst, Top.self, e, <<[Top EXCEPT !.event = then]>> \o Below)
        PROVE  DeathInv'
    <3> DEFINE t == [Top EXCEPT !.event = then]
               s == <<t>> \o Below
    <3>1. t \in Frame /\ t.kind = "destroy" /\ t.self = Top.self
      BY <1>0, <2>1 DEF Frame
    <3>2. s \in Seq(Frame) /\ Frames(s) = {t} \cup Frames(Below)
      BY <1>0, <3>1, PushFrames
    <3>3. stack' = Execute(inst, Top.self, e, s)
      BY <2>2
    <3> HIDE DEF s, t
    <3>4. Frames(s) \subseteq Frames(stack')
      BY <2>1, <3>2, <3>3, RunFrames
    <3>5. Dying(stack) \subseteq Dying(stack')
      <4>1. Dying(stack) \subseteq Dying(s)
        BY <1>0, <2>1, <3>1, <3>2 DEF Dying
      <4> QED BY <3>4, <4>1, DyingGrows
    <3> QED BY <2>2, <3>5, DeathKept DEF Undead
  <2>3. CASE inst' = inst
    <3>1. \/ stack' = Execute(inst, Top.self, "Destroy", <<[Top EXCEPT !.event = "CleanUp"]>> \o Below)
          \/ stack' = Execute(inst, Top.self, "CleanUp", <<[Top EXCEPT !.event = NoEvent]>> \o Below)
          \/ stack' = Below /\ inst' = [inst EXCEPT ![Top.self].active = FALSE]
      BY <1>5 DEF DestroyStep
    <3>2. CASE stack' = Execute(inst, Top.self, "Destroy", <<[Top EXCEPT !.event = "CleanUp"]>> \o Below)
      BY <2>2, <2>3, <3>2
    <3>3. CASE stack' = Execute(inst, Top.self, "CleanUp", <<[Top EXCEPT !.event = NoEvent]>> \o Below)
      BY <2>2, <2>3, <3>3
    <3>4. CASE stack' = Below /\ inst' = [inst EXCEPT ![Top.self].active = FALSE]
      <4>1. ~ inst'[Top.self].active
        BY <1>0, <2>1, <3>4 DEF Instance
      <4>2. \A j \in Dying(stack) : j = Top.self \/ j \in Dying(stack')
        BY <1>0, <3>4 DEF Dying
      <4> QED BY <2>3, <4>1, <4>2 DEF DeathInv
    <3> QED BY <3>1, <3>2, <3>3, <3>4
  <2>4. CASE inst' # inst
    <3>1. stack' = Below /\ inst' = [inst EXCEPT ![Top.self].active = FALSE]
      BY <1>5, <2>4 DEF DestroyStep
    <3>2. \A j \in Ids : IF j = Top.self THEN ~ inst'[j].active ELSE inst'[j] = inst[j]
      BY <1>0, <2>1, <3>1 DEF Instance
    <3>3. \A j \in Dying(stack) : j = Top.self \/ j \in Dying(stack')
      BY <1>0, <3>1 DEF Dying
    <3> QED BY <3>2, <3>3 DEF DeathInv
  <2> QED BY <2>3, <2>4
<1> QED BY <1>3, <1>4, <1>5

\* Between loops, and while instances are taken, nothing is under destruction.
LEMMA DeathElsewhere ==
    ASSUME TypeOK, InductiveInv, DeathInv,
           EnterRoom \/ TakeStep \/ FreeStep \/ TakeDone \/ RestoreRoom \/ PopulateRoom \/ Pass2Step
             \/ RoomCreationCode \/ MarkInitialized \/ LeaveRoom
             \/ Boot \/ EnteredRoom \/ GameStarted \/ BootCheck \/ BootLeave \/ BeginStep \/ Exit
             \/ EndStep \/ Draw \/ HandlePendingRoomChange \/ NextFrame \/ EndRoomChange
    PROVE  DeathInv'
<1> USE DEF heapVars, tables, GoTo
<1>0. inst \in [Ids -> Instance] /\ stack \in Seq(Frame)
  BY DEF TypeOK
<1>1. ASSUME Dying(stack) = {}, Undead' \subseteq Undead PROVE DeathInv'
  BY <1>1, DeathKept
<1>2. Idle => Dying(stack) = {}
  BY DEF Idle, Dying, Frames
<1>3. ASSUME NEW dead, Free(dead) PROVE Undead' \subseteq Undead
  <2>1. \A j \in Ids : inst'[j] = inst[j] \/ inst'[j] = Blank
    BY <1>0, <1>3 DEF Free
  <2> QED BY <2>1, FreshAlive DEF Undead
<1>4. CASE TakeStep \/ TakeDone
  <2>1. Running("take")
    BY <1>4 DEF TakeStep, TakeDone
  <2>2. Frames(stack) = {Top} \cup Frames(Below) /\ Below = <<>> /\ Top.kind = "take"
    BY <1>0, <2>1, TakeAlone, PopFrames DEF Running, Top, Below, InductiveInv
  <2>3. Dying(stack) = {}
    BY <2>2, SMTT(30) DEF Dying, Frames
  <2>4. inst' = inst
    BY <1>4 DEF TakeStep, TakeDone
  <2> QED BY <1>1, <2>3, <2>4 DEF Undead
<1>5. CASE FreeStep
  <2>1. Running("free")
    BY <1>5 DEF FreeStep
  <2>2. PICK f \in Frame : Below = <<f>> /\ f.kind = "take"
    BY <2>1, FreeInTake DEF InductiveInv
  <2>3. Frames(stack) = {Top} \cup Frames(Below) /\ Top.kind = "free"
    BY <1>0, <2>1, PopFrames DEF Running, Top, Below
  <2>4. Frames(Below) = {f}
    BY <2>2 DEF Frames
  <2>5. Dying(stack) = {}
    BY <2>2, <2>3, <2>4 DEF Dying
  <2>6. inst' = [inst EXCEPT ![Top.self] = Blank]
    BY <1>5 DEF FreeStep
  <2>7. \A j \in Ids : inst'[j] = inst[j] \/ inst'[j] = Blank
    BY <1>0, <2>6
  <2> QED BY <1>1, <2>5, <2>7, FreshAlive DEF Undead
<1>6. CASE Pass2Step
  <2>1. /\ Running("pass2") /\ stack # <<>> /\ Top.kind = "pass2" /\ Top.todo \subseteq Ids /\ Top \in Frame
        /\ Below \in Seq(Frame)
    BY <1>6, RunningType DEF Pass2Step, Running, Top
  <2>2. Frames(stack) = {Top} \cup Frames(Below)
    BY <1>0, <2>1, PopFrames DEF Top, Below
  <2>3. Dying(stack) \subseteq Dying(Below)
    BY <2>1, <2>2 DEF Dying
  <2>4. CASE stack' = Below /\ inst' = inst
    BY <2>3, <2>4, DeathKept DEF Undead
  <2>5. ASSUME NEW i \in Ids, inst' \in {inst, [inst EXCEPT ![i].created = TRUE]},
               LET rest == <<[Top EXCEPT !.todo = @ \ {i}]>> \o Below IN
               stack' = rest \/ stack' = <<SelfFrame("roomCreate", i, "PreCreate")>> \o rest
        PROVE  DeathInv'
    <3> DEFINE t == [Top EXCEPT !.todo = @ \ {i}]
               s == <<t>> \o Below
               g == SelfFrame("roomCreate", i, "PreCreate")
    <3>1. t \in Frame
      BY <2>1 DEF Frame
    <3>2. s \in Seq(Frame) /\ Frames(s) = {t} \cup Frames(Below)
      BY <2>1, <3>1, PushFrames
    <3>3. g \in Frame
      BY SelfFrameType, EventNames
    <3>4. stack' = s \/ stack' = <<g>> \o s
      BY <2>5
    <3> HIDE DEF t, g, s
    <3>5. Frames(Below) \subseteq Frames(stack')
      <4>1. Frames(<<g>> \o s) = {g} \cup Frames(s)
        BY <3>2, <3>3, PushFrames
      <4> QED BY <3>2, <3>4, <4>1
    <3>6. Dying(stack) \subseteq Dying(stack')
      BY <2>3, <3>5, DyingGrows
    <3>7. \A j \in Ids : inst'[j].destroyed = inst[j].destroyed /\ inst'[j].active = inst[j].active
      BY <1>0, <2>5 DEF Instance
    <3> QED BY <3>6, <3>7, DeathKept DEF Undead
  <2>6. ASSUME Top.todo # {}
        PROVE  \E i \in Top.todo :
                 /\ inst' \in {inst, [inst EXCEPT ![i].created = TRUE]}
                 /\ LET rest == <<[Top EXCEPT !.todo = @ \ {i}]>> \o Below IN
                    stack' = rest \/ stack' = <<SelfFrame("roomCreate", i, "PreCreate")>> \o rest
    BY <1>6, <2>6 DEF Pass2Step
  <2>7. Top.todo = {} => stack' = Below /\ inst' = inst
    BY <1>6 DEF Pass2Step
  <2> QED BY <2>1, <2>4, <2>5, <2>6, <2>7
<1>7. CASE PopulateRoom
  <2>1. Idle /\ inst' = [i \in Ids |-> IF i \in RoomObjects[room] \ byId THEN NewInstance(ObjectOf[i])
                                        ELSE inst[i]]
    BY <1>7 DEF PopulateRoom
  <2>2. RoomObjects[room] \subseteq StaticIds
    BY <1>7, ConstantsAssumption DEF PopulateRoom, TypeOK
  <2>3. \A j \in Ids : inst'[j] = inst[j] \/ \E o \in Objects : inst'[j] = NewInstance(o)
    BY <1>0, <2>1, <2>2, ConstantsAssumption
  <2> QED BY <1>1, <1>2, <2>1, <2>3, FreshAlive DEF Undead
<1>8. CASE LeaveRoom
  <2>1. Idle /\ (inst' = inst \/ \E dead : Free(dead))
    BY <1>8 DEF LeaveRoom, PersistRoomState, Earlier
  <2> QED BY <1>1, <1>2, <1>3, <2>1 DEF Undead
<1>9. CASE EndStep \/ EndRoomChange
  <2>1. Idle /\ \E dead : Free(dead)
    BY <1>9 DEF EndStep, EndRoomChange, CleanupDestroyed
  <2> QED BY <1>1, <1>2, <1>3, <2>1
<1>10. ASSUME NEW p, Reset(p) PROVE DeathInv'
  <2>1. \A j \in Ids : inst'[j] = Blank
    BY <1>10 DEF Reset
  <2> QED BY <2>1, FreshAlive DEF DeathInv
<1>11. CASE EnterRoom \/ RestoreRoom \/ RoomCreationCode \/ MarkInitialized
  <2>1. Idle /\ inst' = inst
    BY <1>11 DEF EnterRoom, RestoreRoom, RoomCreationCode, MarkInitialized
  <2> QED BY <1>1, <1>2, <2>1 DEF Undead
<1>12. CASE Boot \/ EnteredRoom \/ GameStarted \/ BootCheck \/ BootLeave \/ BeginStep \/ Exit
             \/ Draw \/ HandlePendingRoomChange \/ NextFrame
  <2>1. Reset("bootCheck") \/ Reset("drawn") \/ (Idle /\ inst' = inst)
    <3>1. CASE Boot \/ EnteredRoom \/ GameStarted \/ BootLeave \/ BeginStep \/ Exit \/ Draw \/ NextFrame
      BY <3>1 DEF Boot, EnteredRoom, GameStarted, BootLeave, BeginStep, Exit, Draw, NextFrame, Dispatch
    <3>2. CASE BootCheck \/ HandlePendingRoomChange
      <4>1. CASE Reset("bootCheck") \/ Reset("drawn")
        BY <4>1
      <4>2. CASE TakePendingRoom("bootCheck", "bootLeave") \/ TakePendingRoom("drawn", "leave")
        BY <4>2 DEF TakePendingRoom, Dispatch
      <4>3. CASE GoTo("bootCheck", "frame") /\ UNCHANGED heapVars
        BY <4>3
      <4> QED BY <3>2, <4>1, <4>2, <4>3 DEF BootCheck, HandlePendingRoomChange
    <3> QED BY <1>12, <3>1, <3>2
  <2> QED BY <1>1, <1>2, <1>10, <2>1 DEF Undead
<1> QED BY <1>4, <1>5, <1>6, <1>7, <1>8, <1>9, <1>11, <1>12

\* In a game that does not call instance_copy, whatever else its code does, a destroyed
\* instance is inactive from the moment Runner_destroyInstance returns: no activation, no
\* nested event and no change of room brings it back.
THEOREM DestroyedStayInactive ==
    ASSUME NoCopy PROVE Spec => []DestroyedInactive
<1>1. Init => DeathInv
  BY FreshAlive DEF Init, DeathInv
<1>2. ASSUME TypeOK, InductiveInv, DeathInv, [Next]_vars PROVE DeathInv'
  <2>1. CASE UNCHANGED vars
    BY <1>2, <2>1 DEF vars, heapVars, DeathInv
  <2> QED BY <1>2, <2>1, DeathByCode, DeathByHandlers, DeathElsewhere DEF Next, Engine
<1>3. ASSUME TypeOK, DeathInv PROVE DestroyedInactive
  <2> SUFFICES ASSUME NEW i \in heap, inst[i].destroyed, inst[i].active
               PROVE  \E k \in DOMAIN stack : stack[k].kind = "destroy" /\ stack[k].self = i
    BY DEF DestroyedInactive
  <2>1. i \in Dying(stack)
    BY <1>3 DEF TypeOK, DeathInv
  <2>2. PICK f \in Frames(stack) : f.kind = "destroy" /\ f.self = i
    BY <2>1 DEF Dying
  <2> QED BY <2>2 DEF Frames
<1> QED BY <1>1, <1>2, <1>3, RunnerTypeOK, RunnerConsistent, PTL DEF Spec

-------------------------------------------------------------------------------
(* Create events                                                            *)

\* A stack of at most one frame that awaits nothing.
LEMMA FewFrames ==
    /\ Waiting(<<>>) = {} /\ Once(<<>>)
    /\ \A f : f.kind \notin {"create", "roomCreate"} => Waiting(<<f>>) = {} /\ Once(<<f>>)
<1>1. Waiting(<<>>) = {} /\ Once(<<>>)
  BY DEF Waiting, Frames, Once
<1>2. ASSUME NEW f, f.kind \notin {"create", "roomCreate"} PROVE Waiting(<<f>>) = {} /\ Once(<<f>>)
  <2>1. DOMAIN <<f>> = {1} /\ <<f>>[1] = f
    OBVIOUS
  <2> QED BY <1>2, <2>1 DEF Waiting, Frames, Once, Awaits
<1> QED BY <1>1, <1>2

\* A step that fires no Create event and adds no frame that awaits one.
LEMMA BirthKept ==
    ASSUME BirthInv, Once(stack'), Waiting(stack') \subseteq Waiting(stack), births' = births,
           \A j \in Ids : inst'[j].created = inst[j].created
    PROVE  BirthInv'
<1>1. Waiting(stack') \subseteq Ids
  BY DEF Waiting
<1> QED BY <1>1 DEF BirthInv

\* A step of the engine that leaves no frame that awaits Create, and at most starts some lives
\* over.
LEMMA BirthAlone ==
    ASSUME BirthInv, Once(stack'), Waiting(stack') = {},
           \A j \in Ids : \/ births'[j] = 0
                          \/ births'[j] = births[j] /\ inst'[j].created = inst[j].created
    PROVE  BirthInv'
  BY DEF BirthInv

\* Only an allocated instance is waited for.
LEMMA WaitingAllocated ==
    ASSUME TypeOK, InductiveInv
    PROVE  Waiting(stack) \subseteq heap /\ nextId \notin Waiting(stack)
<1>1. ASSUME NEW i \in Waiting(stack) PROVE i \in heap
  <2>1. PICK f \in Frames(stack) : Awaits(f, i) /\ i \in Ids
    BY <1>1 DEF Waiting
  <2>2. f.self = i /\ f.self \in heap \cup {NoOne}
    BY <2>1 DEF Awaits, Frames, InductiveInv, SafeInv, StackSafe
  <2> QED BY <2>1, <2>2, IdsAreNumbers
<1>2. nextId \notin heap
  BY DEF InductiveInv, SafeInv, IdsInv, TypeOK
<1> QED BY <1>1, <1>2

\* Game code adds one life at most, which waits for its Create event or never gets one.
LEMMA BirthByCode ==
    ASSUME TypeOK, InductiveInv, BirthInv, GameCode
    PROVE  BirthInv'
<1> USE DEF tables, history
<1>1. ASSUME CodeReturn, Frames(stack) = {Top} \cup Frames(stack'), Once(stack) => Once(stack')
      PROVE  BirthInv'
  <2>1. Waiting(stack') \subseteq Waiting(stack)
    BY <1>1 DEF Waiting
  <2>2. births' = births /\ inst' = inst
    BY <1>1 DEF CodeReturn, heapVars
  <2> QED BY <1>1, <2>1, <2>2, BirthKept DEF BirthInv
<1>2. ASSUME \A f \in Frames(stack') \ Frames(stack) : 
                f.kind \in {"code", "destroy", "destroyEach", "change", "wild"},
             Once(stack) => Once(stack'), births' = births,
             \A j \in Ids : inst'[j].created = inst[j].created
      PROVE  BirthInv'
  <2>1. Waiting(stack') \subseteq Waiting(stack)
    BY <1>2 DEF Waiting, Awaits
  <2> QED BY <1>2, <2>1, BirthKept DEF BirthInv
<1>3. ASSUME NEW g, Register(nextId, g), nextId \in Ids,
             \A f \in Frames(stack') \ Frames(stack) : \/ f.kind = "code"
                                                       \/ f.kind = "create" /\ f.self = nextId,
             Once(stack) /\ nextId \notin Waiting(stack) => Once(stack')
      PROVE  BirthInv'
  <2>1. nextId \in Nat /\ nextId' = nextId + 1 /\ inst' = g /\ births \in [Ids -> Nat]
        /\ births' = [births EXCEPT ![nextId] = 0]
    BY <1>3 DEF Register, TypeOK
  <2>2. nextId' # nextId
    BY <2>1
  <2>3. inst'[nextId].created /\ \A j \in Ids \ {nextId} : inst'[j].created = inst[j].created
    <3>1. \A i, o : ~ ChangeObject(i, o)
      BY <2>2 DEF ChangeObject
    <3>2. \E f : /\ Register(nextId, f) /\ f[nextId].created
                 /\ \A j \in Ids \ {nextId} : f[j].created = inst[j].created
      BY <2>2, <3>1, GameCodeEffect
    <3> QED BY <3>2 DEF Register
  <2>4. Waiting(stack') \subseteq Waiting(stack) \cup {nextId} /\ nextId \notin Waiting(stack)
    BY <1>3, WaitingAllocated DEF Waiting, Awaits
  <2>5. Once(stack')
    BY <1>3, <2>4 DEF BirthInv
  <2>6. births'[nextId] = 0 /\ \A j \in Ids \ {nextId} : births'[j] = births[j]
    BY <1>3, <2>1
  <2>7. Waiting(stack') \subseteq Ids
    BY DEF Waiting
  <2> QED BY <2>3, <2>4, <2>5, <2>6, <2>7 DEF BirthInv
<1> QED BY <1>1, <1>2, <1>3, GameCodeFrames

\* A handler fires the Create event that its frame awaits, or goes on waiting.
LEMMA BirthByHandlers ==
    ASSUME TypeOK, BirthInv, HandlerFramesKept
    PROVE  BirthInv'
<1> USE DEF HandlerFramesKept
<1>0. /\ stack \in Seq(Frame) /\ births \in [Ids -> Nat] /\ Once(stack) /\ Once(stack')
      /\ Frames(stack) = {Top} \cup Frames(Below)
      /\ \A i \in Waiting(Below) : ~ Awaits(Top, i)
  BY PopFrames DEF TypeOK, BirthInv, Top, Below
<1>1. CASE births' = births
  <2>1. Waiting(stack') \subseteq Waiting(stack)
    BY <1>0 DEF Waiting
  <2> QED BY <1>0, <1>1, <2>1, BirthKept
<1>2. CASE births' # births
  <2>1. /\ Awaits(Top, Top.self) /\ Top.self \in Ids
        /\ births' = [births EXCEPT ![Top.self] = @ + 1]
    BY <1>2
  <2>2. Top.self \in Waiting(stack)
    BY <1>0, <2>1 DEF Waiting
  <2>3. births[Top.self] = 0 /\ inst[Top.self].created
    BY <2>2 DEF BirthInv
  <2>4. Waiting(stack') \subseteq Waiting(Below) /\ Waiting(Below) \subseteq Waiting(stack)
    BY <1>0, <1>2 DEF Waiting
  <2>5. Top.self \notin Waiting(stack')
    BY <1>0, <2>1, <2>4
  <2>6. /\ births'[Top.self] = 1
        /\ \A j \in Ids \ {Top.self} : births'[j] = births[j]
    BY <1>0, <2>1, <2>3
  <2>7. Waiting(stack') \subseteq Ids \ {Top.self}
    BY <2>5 DEF Waiting
  <2> QED BY <1>0, <2>3, <2>4, <2>6, <2>7 DEF BirthInv
<1> QED BY <1>1, <1>2

\* Pass 2 of initRoom runs the creation code of those only whose Create has not fired.
LEMMA BirthByPass2 ==
    ASSUME TypeOK, BirthInv, Pass2Step
    PROVE  BirthInv'
<1> USE EventNames DEF history
<1>0. /\ stack \in Seq(Frame) /\ births \in [Ids -> Nat] /\ inst \in [Ids -> Instance]
      /\ stack # <<>> /\ Top \in Frame /\ Top.kind = "pass2" /\ Top.todo \subseteq Ids
      /\ births' = births
  BY RunningType DEF TypeOK, Pass2Step, Running
<1>1. Frames(stack) = {Top} \cup Frames(Below) /\ Below \in Seq(Frame) /\ Once(stack) /\ Once(Below)
  BY <1>0, PopFrames DEF Top, Below, BirthInv
<1>2. Waiting(Below) \subseteq Waiting(stack)
  BY <1>1 DEF Waiting
<1>3. CASE Top.todo = {}
  <2>1. stack' = Below /\ inst' = inst
    BY <1>3 DEF Pass2Step
  <2> QED BY <1>0, <1>1, <1>2, <2>1, BirthKept
<1>4. CASE Top.todo # {}
  <2>1. PICK i \in Top.todo :
          LET rest == <<[Top EXCEPT !.todo = @ \ {i}]>> \o Below IN
          IF NeedsCreate(i)
          THEN /\ inst' = [inst EXCEPT ![i].created = TRUE]
               /\ stack' = IF inst[i].destroyed THEN rest
                           ELSE <<SelfFrame("roomCreate", i, "PreCreate")>> \o rest
          ELSE stack' = rest /\ UNCHANGED inst
    BY <1>4 DEF Pass2Step
  <2> DEFINE t == [Top EXCEPT !.todo = @ \ {i}]
             s == <<t>> \o Below
             g == SelfFrame("roomCreate", i, "PreCreate")
  <2>2. t \in Frame /\ \A j : ~ Awaits(t, j)
    BY <1>0 DEF Frame, Awaits
  <2>3. i \in Ids /\ g \in Frame /\ \A j : Awaits(g, j) => j = i
    BY <1>0, SelfFrameType, FrameFields DEF Awaits
  <2>4. \/ stack' = s /\ inst' = inst
        \/ NeedsCreate(i) /\ inst' = [inst EXCEPT ![i].created = TRUE] /\ stack' \in {s, <<g>> \o s}
    BY <2>1
  <2> HIDE DEF t, g
  <2>5. s \in Seq(Frame) /\ Once(s) /\ Waiting(s) \subseteq Waiting(stack)
    <3>1. s \in Seq(Frame) /\ Frames(s) = {t} \cup Frames(Below) /\ Once(s)
      BY <1>1, <2>2, PushFrames
    <3> HIDE DEF s
    <3>2. Waiting(s) \subseteq Waiting(Below)
      BY <2>2, <3>1 DEF Waiting
    <3> QED BY <1>2, <3>1, <3>2
  <2> HIDE DEF s
  <2>6. CASE stack' = s /\ inst' = inst
    BY <1>0, <2>5, <2>6, BirthKept
  <2>7. CASE NeedsCreate(i) /\ inst' = [inst EXCEPT ![i].created = TRUE] /\ stack' \in {s, <<g>> \o s}
    <3>1. ~ inst[i].created
      BY <2>7 DEF NeedsCreate
    <3>2. i \notin Waiting(stack) /\ births[i] = 0
      BY <1>0, <2>3, <3>1 DEF BirthInv
    <3>3. Once(stack') /\ Waiting(stack') \subseteq Waiting(stack) \cup {i}
      <4>1. Once(<<g>> \o s) /\ Frames(<<g>> \o s) = {g} \cup Frames(s)
        BY <2>3, <2>5, <3>2, PushFrames
      <4>2. Waiting(<<g>> \o s) \subseteq Waiting(s) \cup {i}
        BY <2>3, <4>1 DEF Waiting
      <4> QED BY <2>5, <2>7, <4>1, <4>2
    <3>4. inst'[i].created /\ \A j \in Ids \ {i} : inst'[j].created = inst[j].created
      BY <1>0, <2>3, <2>7 DEF Instance
    <3>5. Waiting(stack') \subseteq Ids
      BY DEF Waiting
    <3> QED BY <1>0, <3>2, <3>3, <3>4, <3>5 DEF BirthInv
  <2> QED BY <2>4, <2>6, <2>7
<1> QED BY <1>3, <1>4

\* The other steps leave no frame that awaits Create, and only start lives over.
LEMMA BirthElsewhere ==
    ASSUME TypeOK, InductiveInv, BirthInv,
           EnterRoom \/ TakeStep \/ FreeStep \/ TakeDone \/ RestoreRoom \/ PopulateRoom
             \/ RoomCreationCode \/ MarkInitialized \/ LeaveRoom
             \/ Boot \/ EnteredRoom \/ GameStarted \/ BootCheck \/ BootLeave \/ BeginStep \/ Exit
             \/ EndStep \/ Draw \/ HandlePendingRoomChange \/ NextFrame \/ EndRoomChange
    PROVE  BirthInv'
<1> USE FewFrames, FrameFields DEF heapVars, history, GoTo, Idle
<1>0. inst \in [Ids -> Instance] /\ births \in [Ids -> Nat] /\ stack \in Seq(Frame)
  BY DEF TypeOK
<1>1. ASSUME births' = births, inst' = inst, Waiting(stack') = {} /\ Once(stack') PROVE BirthInv'
  BY <1>1, BirthAlone
<1>2. CASE TakeStep
  <2>1. Running("take") /\ births' = births /\ inst' = inst
    BY <1>2 DEF TakeStep
  <2>2. Below = <<>> /\ Top \in Frame /\ Top.kind = "take"
    BY <2>1, TakeAlone DEF InductiveInv, Running, Top
  <2>3. PICK i \in Top.todo :
           LET rest == <<[Top EXCEPT !.todo = @ \ {i}]>> \o Below IN
           \/ stack' = rest
           \/ stack' = Execute(inst, i, "CleanUp", <<SelfFrame("free", i, NoEvent)>> \o rest)
    BY <1>2 DEF TakeStep
  <2> DEFINE t == [Top EXCEPT !.todo = @ \ {i}]
             s == <<t>> \o Below
             g == SelfFrame("free", i, NoEvent)
             u == <<g>> \o s
  <2>4. t \in Frame /\ (\A j : ~ Awaits(t, j)) /\ i \in Ids
    BY <2>2 DEF Frame, Awaits
  <2>5. g \in Frame /\ \A j : ~ Awaits(g, j)
    BY <2>4, SelfFrameType DEF Awaits
  <2>6. stack' = s \/ stack' = Execute(inst, i, "CleanUp", u)
    BY <2>3
  <2> HIDE DEF t, g
  <2>7. s \in Seq(Frame) /\ Once(s) /\ Waiting(s) = {}
    <3>1. Below \in Seq(Frame) /\ Frames(Below) = {} /\ Once(Below)
      BY <2>2 DEF Frames
    <3>2. s \in Seq(Frame) /\ Frames(s) = {t} \cup Frames(Below) /\ Once(s)
      BY <2>4, <3>1, PushFrames
    <3> HIDE DEF s
    <3> QED BY <2>4, <3>1, <3>2 DEF Waiting
  <2> HIDE DEF s
  <2>8. u \in Seq(Frame) /\ Once(u) /\ Waiting(u) = {}
    <3>1. u \in Seq(Frame) /\ Frames(u) = {g} \cup Frames(s) /\ Once(u)
      BY <2>5, <2>7, PushFrames
    <3> HIDE DEF u
    <3> QED BY <2>5, <2>7, <3>1 DEF Waiting
  <2> HIDE DEF u
  <2>9. stack' = Execute(inst, i, "CleanUp", u) => Once(stack') /\ Waiting(stack') = {}
    <3> SUFFICES ASSUME stack' = Execute(inst, i, "CleanUp", u)
                 PROVE  Once(stack') /\ Waiting(stack') = {}
      OBVIOUS
    <3>1. /\ Frames(stack') \subseteq {CodeFrame(i, "CleanUp")} \cup Frames(u)
          /\ Once(u) => Once(stack')
      BY <2>4, <2>8, RunFrames, EventNames
    <3> QED BY <2>8, <3>1 DEF Waiting, Awaits
  <2> QED BY <1>1, <2>1, <2>6, <2>7, <2>9
<1>3. CASE TakeDone
  <2>1. Running("take") /\ births' = births /\ inst' = inst /\ stack' = Below
    BY <1>3 DEF TakeDone
  <2>2. Below = <<>>
    BY <2>1, TakeAlone DEF InductiveInv
  <2> QED BY <1>1, <2>1, <2>2
<1>4. CASE FreeStep
  <2>1. /\ Running("free") /\ stack' = Below
        /\ births' = [births EXCEPT ![Top.self] = 0] /\ inst' = [inst EXCEPT ![Top.self] = Blank]
    BY <1>4 DEF FreeStep
  <2>2. PICK f \in Frame : Below = <<f>> /\ f.kind = "take"
    BY <2>1, FreeInTake DEF InductiveInv
  <2>3. Waiting(stack') = {} /\ Once(stack')
    BY <2>1, <2>2
  <2>4. \A j \in Ids : births'[j] = 0 \/ (births'[j] = births[j] /\ inst'[j] = inst[j])
    BY <1>0, <2>1
  <2> QED BY <2>3, <2>4, BirthAlone
<1>5. ASSUME NEW dead, Free(dead), stack' = <<>> PROVE BirthInv'
  <2>1. \A j \in Ids : births'[j] = 0 \/ (births'[j] = births[j] /\ inst'[j] = inst[j])
    BY <1>0, <1>5 DEF Free
  <2> QED BY <1>5, <2>1, BirthAlone
<1>6. CASE LeaveRoom
  <2>1. stack' = <<>> /\ ((\E dead : Free(dead)) \/ (births' = births /\ inst' = inst))
    BY <1>6 DEF LeaveRoom, PersistRoomState, Earlier
  <2> QED BY <1>1, <1>5, <2>1
<1>7. CASE EndStep \/ EndRoomChange
  <2>1. stack' = <<>> /\ \E dead : Free(dead)
    BY <1>7 DEF EndStep, EndRoomChange, CleanupDestroyed
  <2> QED BY <1>5, <2>1
<1>8. CASE PopulateRoom
  <2> DEFINE new == RoomObjects[room] \ byId
  <2>1. /\ inst' = [i \in Ids |-> IF i \in new THEN NewInstance(ObjectOf[i]) ELSE inst[i]]
        /\ births' = [i \in Ids |-> IF i \in new THEN 0 ELSE births[i]]
        /\ stack' = <<LoopFrame("pass2", RoomObjects[room], NoEvent)>>
    BY <1>8 DEF PopulateRoom
  <2>2. \A j \in Ids : births'[j] = 0 \/ (births'[j] = births[j] /\ inst'[j] = inst[j])
    BY <2>1
  <2> QED BY <2>1, <2>2, BirthAlone
<1>9. ASSUME NEW p, Reset(p) PROVE BirthInv'
  <2>1. stack' = <<>> /\ \A j \in Ids : births'[j] = 0
    BY <1>9 DEF Reset
  <2> QED BY <2>1, BirthAlone
<1>10. CASE EnterRoom \/ RestoreRoom \/ RoomCreationCode \/ MarkInitialized
  <2>1. /\ births' = births /\ inst' = inst
        /\ stack' \in {<<>>, <<CodeFrame(NoOne, "RoomCode")>>, <<LoopFrame("take", instances, NoEvent)>>}
    BY <1>10 DEF EnterRoom, RestoreRoom, RoomCreationCode, MarkInitialized
  <2> QED BY <1>1, <2>1
<1>11. ASSUME NEW from, NEW e, NEW to, Dispatch(from, e, to) PROVE BirthInv'
  <2>1. births' = births /\ inst' = inst /\ stack' = <<LoopFrame("dispatch", Dispatched(e), e)>>
    BY <1>11 DEF Dispatch
  <2> QED BY <1>1, <2>1
<1>12. ASSUME UNCHANGED <<births, inst, stack>>, stack = <<>> PROVE BirthInv'
  BY <1>1, <1>12
<1>13. CASE Boot \/ BootLeave \/ Exit \/ NextFrame
  BY <1>12, <1>13 DEF Boot, BootLeave, Exit, NextFrame
<1>14. CASE EnteredRoom \/ GameStarted \/ BeginStep \/ Draw
  BY <1>11, <1>14 DEF EnteredRoom, GameStarted, BeginStep, Draw
<1>15. CASE BootCheck
  <2>1. CASE Reset("bootCheck")
    BY <1>9, <2>1
  <2>2. CASE TakePendingRoom("bootCheck", "bootLeave")
    BY <1>11, <2>2 DEF TakePendingRoom
  <2> QED BY <1>12, <1>15, <2>1, <2>2 DEF BootCheck
<1>16. CASE HandlePendingRoomChange
  <2>1. CASE Reset("drawn")
    BY <1>9, <2>1
  <2>2. CASE TakePendingRoom("drawn", "leave")
    BY <1>11, <2>2 DEF TakePendingRoom
  <2> QED BY <1>16, <2>1, <2>2 DEF HandlePendingRoomChange
<1> QED BY <1>2, <1>3, <1>4, <1>6, <1>7, <1>8, <1>10, <1>13, <1>14, <1>15, <1>16

\* Between its allocation and its release an instance gets one Create event at most, not counting
\* those of instance_change for the object it turns into: pass 2 of
\* initRoom, which meets carried instances again, and dispatchInstanceCreationEvents, which
\* runs inside any other code, never both fire it, however deep the code is nested.
THEOREM CreatedOnce == Spec => []CreateAtMostOnce
<1>1. Init => BirthInv
  BY FewFrames DEF Init, BirthInv
<1>2. ASSUME TypeOK, InductiveInv, BirthInv, [Next]_vars PROVE BirthInv'
  <2>1. CASE UNCHANGED vars
    BY <1>2, <2>1, BirthKept DEF vars, heapVars, history, BirthInv
  <2> QED BY <1>2, <2>1, BirthByCode, HandlerFrames, BirthByHandlers, BirthByPass2, BirthElsewhere
          DEF Next, Engine
<1>3. BirthInv => CreateAtMostOnce
  BY DEF BirthInv, CreateAtMostOnce
<1> QED BY <1>1, <1>2, <1>3, RunnerTypeOK, RunnerConsistent, PTL DEF Spec

-------------------------------------------------------------------------------
(* Owners                                                                   *)

\* The frame of takePersistentInstances is the outermost one.
LEMMA OutermostTake ==
    ASSUME NEW s, NEW h, NEW b, NEW taking, StackSafe(s, h, b, taking),
           NEW f \in Frames(s), f.kind = "take"
    PROVE  s[Len(s)] = f
  BY DEF StackSafe, Frames

\* While instances are taken, that frame is there.
LEMMA TakeFrame ==
    ASSUME NEW s \in Seq(Frame), NEW h, NEW b, StackSafe(s, h, b, TRUE)
    PROVE  s[Len(s)] \in Frames(s) /\ s[Len(s)].kind = "take"
<1>1. s # <<>> /\ s[Len(s)].kind = "take"
  BY DEF StackSafe
<1>2. Len(s) \in DOMAIN s
  BY <1>1
<1> QED BY <1>1, <1>2 DEF Frames

\* What is under way to be carried stays, as long as its frame does.
LEMMA DoingKept ==
    ASSUME TypeOK, SafeInv, SafeInv', UNCHANGED phase, Taking,
           \A f \in Frames(stack) : f.kind = "take" => f \in Frames(stack')
    PROVE  stack'[Len(stack')] = stack[Len(stack)]
<1> DEFINE f == stack[Len(stack)]
<1>1. StackSafe(stack, heap, byId, TRUE) /\ stack \in Seq(Frame)
  BY DEF SafeInv, TypeOK
<1>2. f \in Frames(stack) /\ f.kind = "take"
  BY <1>1, TakeFrame
<1>3. StackSafe(stack', heap', byId', Taking')
  BY DEF SafeInv
<1>4. f \in Frames(stack')
  BY <1>2
<1> HIDE DEF f
<1>5. stack'[Len(stack')] = f
  BY <1>2, <1>3, <1>4, OutermostTake
<1> QED BY <1>5 DEF f

\* Game code keeps every instance in its place, or adds one to the room.
LEMMA OwnedByCode ==
    ASSUME TypeOK, SafeInv, SafeInv', OwnedInv, NoBirthOnLeaving, GameCode
    PROVE  OwnedInv'
<1> USE DEF tables, heapVars, roomVars, engineVars, history
<1>1. /\ stack # <<>> /\ Top.kind = "code" /\ UNCHANGED <<saved, phase, carried>>
  BY GameCodeEffect DEF Running, Top
<1>2. Frames(stack) = {Top} \cup Frames(Below)
  BY <1>1, PopFrames DEF TypeOK, Top, Below
<1>3. Taking => ~ Calls("create") /\ ~ Calls("copy")
  BY <1>1, <1>2 DEF OwnedInv, LeavingInv, NoBirthOnLeaving, Calls
<1>4. \A f \in Frames(stack) : f.kind = "take" => f \in Frames(stack')
  BY <1>1, GameCodeFrames
<1>5. Taking' <=> Taking
  BY <1>1 DEF Taking
<1>6. LeavingInv'
  <2> SUFFICES ASSUME Taking, NEW f \in Frames(stack')
               PROVE  /\ f.kind \notin {"create", "dispatch", "roomCreate"}
                      /\ f.kind = "code" => f.event \in LeavingEvents
                      /\ NoWalkOnLeaving => f.kind # "wild"
    BY <1>5 DEF LeavingInv
  <2>1. CASE f \in Frames(stack)
    BY <2>1 DEF OwnedInv, LeavingInv
  <2>2. CASE f \notin Frames(stack)
    <3>1. /\ f.kind \in {"code", "destroy", "destroyEach", "change", "wild"}
          /\ f.kind = "code" => f.event = "Destroy"
          /\ f.kind = "wild" => WalkFreed
      BY <1>3, <2>2, GameCodeFrames
    <3>2. NoWalkOnLeaving => ~ WalkFreed
      BY <1>1, <1>2 DEF OwnedInv, LeavingInv, NoWalkOnLeaving, WalkFreed, Calls
    <3> QED BY <3>1, <3>2 DEF LeavingEvents
  <2> QED BY <2>1, <2>2
<1>7. EmptiedInv'
  BY <1>1 DEF OwnedInv, EmptiedInv
<1>8. KnownInv'
  <2>1. \/ UNCHANGED <<byId, instances>>
        \/ /\ Calls("create") \/ Calls("copy")
           /\ byId' = byId \cup {nextId} /\ instances' = instances \cup {nextId}
    BY GameCodeEffect DEF Register, ChangeObject
  <2>2. CASE Taking
    <3>1. stack'[Len(stack')] = stack[Len(stack)]
      BY <1>1, <1>4, <2>2, DoingKept
    <3> QED BY <1>1, <1>3, <1>5, <2>1, <2>2, <3>1 DEF OwnedInv, KnownInv, Home, SavedInstances
  <2>3. CASE ~ Taking
    BY <1>1, <1>5, <2>1, <2>3 DEF OwnedInv, KnownInv, Home, SavedInstances
  <2> QED BY <2>2, <2>3
<1> QED BY <1>6, <1>7, <1>8 DEF OwnedInv

\* So do the handlers and loops that code interrupts.
LEMMA OwnedByHandlers ==
    ASSUME TypeOK, SafeInv, SafeInv', OwnedInv,
           CreateStep \/ DestroyStep \/ DestroyEachStep \/ ChangeStep \/ DispatchStep
             \/ RoomCreateStep
    PROVE  OwnedInv'
<1> USE DEF tables, heapVars, roomVars, engineVars, history
<1>1. /\ stack # <<>> /\ UNCHANGED <<saved, phase, carried, byId, instances>>
  BY HandlerEffect DEF ChangeObject
<1>2. Top.kind \in {"create", "destroy", "destroyEach", "change", "dispatch", "roomCreate"}
  BY DEF CreateStep, DestroyStep, DestroyEachStep, ChangeStep, DispatchStep, RoomCreateStep, Running, Top
<1>3. HandlerFramesKept
  BY HandlerFrames
<1>4. \A f \in Frames(stack) : f.kind = "take" => f \in Frames(stack')
  BY <1>2, <1>3 DEF HandlerFramesKept
<1>5. Taking' <=> Taking
  BY <1>1 DEF Taking
<1>6. LeavingInv'
  <2> SUFFICES ASSUME Taking, NEW f \in Frames(stack')
               PROVE  /\ f.kind \notin {"create", "dispatch", "roomCreate"}
                      /\ f.kind = "code" => f.event \in LeavingEvents
                      /\ NoWalkOnLeaving => f.kind # "wild"
    BY <1>5 DEF LeavingInv
  <2>1. Top \in Frames(stack) /\ Frames(Below) \subseteq Frames(stack)
    BY <1>3 DEF HandlerFramesKept
  <2>2. Top.kind \in {"destroy", "destroyEach", "change"}
    BY <1>2, <2>1 DEF OwnedInv, LeavingInv
  <2>3. CASE f \in Frames(Below)
    BY <2>1, <2>3 DEF OwnedInv, LeavingInv
  <2>4. CASE f \notin Frames(Below)
    BY <1>3, <2>2, <2>4 DEF HandlerFramesKept
  <2> QED BY <2>3, <2>4
<1>7. EmptiedInv'
  BY <1>1 DEF OwnedInv, EmptiedInv
<1>8. KnownInv'
  <2>1. CASE Taking
    <3>1. stack'[Len(stack')] = stack[Len(stack)]
      BY <1>1, <1>4, <2>1, DoingKept
    <3> QED BY <1>1, <1>5, <2>1, <3>1 DEF OwnedInv, KnownInv, Home, SavedInstances
  <2>2. CASE ~ Taking
    BY <1>1, <1>5, <2>2 DEF OwnedInv, KnownInv, Home, SavedInstances
  <2> QED BY <2>1, <2>2
<1> QED BY <1>6, <1>7, <1>8 DEF OwnedInv

\* takePersistentInstances carries an instance or forgets it, and frees only what it has
\* forgotten.
LEMMA OwnedByTaking ==
    ASSUME TypeOK, InductiveInv, SafeInv', OwnedInv, TakeStep \/ FreeStep \/ TakeDone
    PROVE  OwnedInv'
<1> USE DEF InductiveInv
<1>0. StackSafe(stack, heap, byId, Taking) /\ StackSafe(stack', heap', byId', Taking')
  BY DEF SafeInv
<1>1. CASE TakeStep
  <2>1. /\ Taking /\ Below = <<>> /\ Top \in Frame /\ Top.kind = "take"
        /\ stack[Len(stack)].todo = Top.todo
    BY <1>1, TakeAlone DEF TakeStep, Running, Top, Doing
  <2>2. UNCHANGED <<phase, saved>>
    BY <1>1 DEF TakeStep, roomVars
  <2>3. Taking'
    BY <2>1, <2>2 DEF Taking
  <2>4. PICK i \in Top.todo :
           LET rest == <<[Top EXCEPT !.todo = @ \ {i}]>> \o Below IN
           \/ /\ carried' = carried \cup {i} /\ stack' = rest /\ byId' = byId
           \/ /\ byId' = byId \ {i} /\ carried' = carried
              /\ stack' = Execute(inst, i, "CleanUp", <<SelfFrame("free", i, NoEvent)>> \o rest)
    BY <1>1 DEF TakeStep
  <2> DEFINE t == [Top EXCEPT !.todo = @ \ {i}]
             s == <<t>> \o Below
             g == SelfFrame("free", i, NoEvent)
             u == <<g>> \o s
  <2>5. t \in Frame /\ t.kind = "take" /\ t.todo = Top.todo \ {i} /\ i \in Ids
    BY <2>1 DEF Frame
  <2>6. g \in Frame /\ g.kind = "free"
    BY <2>5, SelfFrameType, FrameFields
  <2>7. \/ /\ carried' = carried \cup {i} /\ stack' = s /\ byId' = byId
        \/ /\ byId' = byId \ {i} /\ carried' = carried
           /\ stack' = Execute(inst, i, "CleanUp", u)
    BY <2>4
  <2> HIDE DEF t, g
  <2>8. s \in Seq(Frame) /\ Frames(s) = {t}
    <3>1. Below \in Seq(Frame) /\ Frames(Below) = {}
      BY <2>1 DEF Frames
    <3> QED BY <2>5, <3>1, PushFrames
  <2> HIDE DEF s
  <2>9. u \in Seq(Frame) /\ Frames(u) = {g, t}
    BY <2>6, <2>8, PushFrames
  <2> HIDE DEF u
  <2>10. /\ t \in Frames(stack')
         /\ \A f \in Frames(stack') : f \in {g, t} \/ f = CodeFrame(i, "CleanUp")
    <3>1. CASE stack' = s
      BY <2>8, <3>1
    <3>2. CASE stack' = Execute(inst, i, "CleanUp", u)
      <4>1. /\ Frames(u) \subseteq Frames(stack')
            /\ Frames(stack') \subseteq {CodeFrame(i, "CleanUp")} \cup Frames(u)
        BY <2>5, <2>9, <3>2, RunFrames, EventNames
      <4> QED BY <2>9, <4>1
    <3> QED BY <2>7, <3>1, <3>2
  <2>11. LeavingInv'
    BY <2>5, <2>6, <2>10, FrameFields DEF LeavingInv, LeavingEvents
  <2>12. stack'[Len(stack')] = t
    BY <1>0, <2>5, <2>10, OutermostTake
  <2>13. EmptiedInv'
    BY <2>3 DEF EmptiedInv, Taking
  <2>14. byId' \subseteq carried' \cup t.todo \cup SavedInstances
    BY <2>1, <2>5, <2>7 DEF OwnedInv, KnownInv, Home
  <2>15. KnownInv'
    BY <2>2, <2>3, <2>12, <2>14 DEF KnownInv, Home, SavedInstances
  <2> QED BY <2>11, <2>13, <2>15 DEF OwnedInv
<1>2. CASE FreeStep
  <2>1. /\ Running("free") /\ stack' = Below /\ UNCHANGED <<byId, phase, saved, carried>>
    BY <1>2 DEF FreeStep, roomVars, engineVars
  <2>2. Taking /\ Taking'
    BY <2>1, FreeInTake DEF Taking
  <2>3. PICK f \in Frame : Below = <<f>> /\ f.kind = "take" /\ f.todo = stack[Len(stack)].todo
    BY <2>1, FreeInTake DEF Doing
  <2>4. Frames(stack') = {f}
    BY <2>1, <2>3 DEF Frames
  <2>5. stack'[Len(stack')].todo = stack[Len(stack)].todo
    BY <1>0, <2>3, <2>4, OutermostTake
  <2>6. LeavingInv' /\ EmptiedInv'
    BY <2>2, <2>3, <2>4 DEF LeavingInv, EmptiedInv, Taking
  <2>7. KnownInv'
    BY <2>1, <2>2, <2>5 DEF OwnedInv, KnownInv, Home, SavedInstances
  <2> QED BY <2>6, <2>7 DEF OwnedInv
<1>3. CASE TakeDone
  <2>1. /\ Running("take") /\ Top.todo = {} /\ stack' = Below /\ instances' = {}
        /\ phase' \in {"restore", "populate"} /\ UNCHANGED <<byId, saved, carried>>
    BY <1>3 DEF TakeDone, roomVars
  <2>2. /\ Taking /\ Below = <<>> /\ stack[Len(stack)].todo = {}
    BY <2>1, TakeAlone DEF Doing
  <2>3. ~ Taking'
    BY <2>1 DEF Taking
  <2>4. KnownInv'
    BY <2>1, <2>2, <2>3 DEF OwnedInv, KnownInv, Home, SavedInstances
  <2> QED BY <2>1, <2>2, <2>3, <2>4 DEF OwnedInv, LeavingInv, EmptiedInv
<1> QED BY <1>1, <1>2, <1>3

\* Rooms are filled, saved and swept without losing an instance that stays known.
LEMMA OwnedByRooms ==
    ASSUME TypeOK, InductiveInv, OwnedInv,
           EnterRoom \/ RestoreRoom \/ PopulateRoom \/ LeaveRoom \/ EndStep \/ EndRoomChange
    PROVE  OwnedInv'
<1> USE DEF InductiveInv
<1>1. ASSUME ~ Taking, ~ Taking', phase' \notin {"restore", "populate"},
             byId' \subseteq carried' \cup instances' \cup SavedInstances'
      PROVE  OwnedInv'
  BY <1>1 DEF OwnedInv, LeavingInv, EmptiedInv, KnownInv, Home
<1>2. CASE EnterRoom
  <2>1. /\ phase = "enter" /\ phase' \in {"takeRestore", "takePopulate"}
        /\ stack' = <<LoopFrame("take", instances, NoEvent)>> /\ carried' = {}
        /\ UNCHANGED <<byId, saved>>
    BY <1>2 DEF EnterRoom, heapVars, tables
  <2>2. Taking' /\ ~ Taking
    BY <2>1 DEF Taking
  <2>3. carried = {}
    BY <2>1 DEF SafeInv, OwnInv
  <2>4. stack'[Len(stack')] = LoopFrame("take", instances, NoEvent)
    BY <2>1
  <2>5. KnownInv'
    BY <2>1, <2>2, <2>3, <2>4, FrameFields DEF OwnedInv, KnownInv, Home, SavedInstances
  <2>6. \A f \in Frames(stack') : f.kind = "take"
    BY <2>1, FrameFields DEF Frames
  <2> QED BY <2>1, <2>5, <2>6 DEF OwnedInv, LeavingInv, EmptiedInv
<1>3. CASE RestoreRoom
  <2>1. /\ phase = "restore" /\ phase' = "entered" /\ byId' = byId /\ carried' = {}
        /\ instances' = saved[room].instances \cup carried
        /\ saved' = [saved EXCEPT ![room].instances = {}]
    BY <1>3 DEF RestoreRoom
  <2>2. room \in Rooms /\ saved \in [Rooms -> SavedRoom]
    BY <2>1 DEF TypeOK
  <2>3. ~ Taking /\ ~ Taking'
    BY <2>1 DEF Taking
  <2>4. byId \subseteq carried \cup SavedInstances
    BY <2>1, <2>3 DEF OwnedInv, EmptiedInv, KnownInv, Home
  <2>5. SavedInstances \subseteq SavedInstances' \cup saved[room].instances
    <3>1. \A r \in Rooms \ {room} : saved'[r] = saved[r]
      BY <2>1, <2>2
    <3> QED BY <3>1 DEF SavedInstances
  <2> QED BY <1>1, <2>1, <2>3, <2>4, <2>5
<1>4. CASE PopulateRoom
  <2>1. /\ phase = "populate" /\ phase' = "pass2" /\ carried' = {} /\ saved' = saved
        /\ \E new : byId' = byId \cup new /\ instances' = new \cup carried
    BY <1>4 DEF PopulateRoom, roomVars
  <2>2. ~ Taking /\ ~ Taking'
    BY <2>1 DEF Taking
  <2>3. byId \subseteq carried \cup SavedInstances
    BY <2>1, <2>2 DEF OwnedInv, EmptiedInv, KnownInv, Home
  <2>4. SavedInstances' = SavedInstances
    BY <2>1 DEF SavedInstances
  <2> QED BY <1>1, <2>1, <2>2, <2>3, <2>4
<1>5. CASE LeaveRoom
  <2>1. phase = "leave" /\ phase' = "enter" /\ carried' = carried
    BY <1>5 DEF LeaveRoom
  <2>2. ~ Taking /\ ~ Taking'
    BY <2>1 DEF Taking
  <2>3. byId \subseteq carried \cup instances \cup SavedInstances
    BY <2>2 DEF OwnedInv, KnownInv, Home
  <2>4. CASE PersistRoomState
    <3> DEFINE toSave == {i \in instances \ Staying : inst[i].active}
               dead == saved[room].instances \cup (instances \ (Staying \cup toSave))
    <3>1. /\ byId' = byId \ dead /\ instances' = Staying
          /\ saved' = [saved EXCEPT ![room] = [initialized |-> TRUE, instances |-> toSave]]
      BY <2>4 DEF PersistRoomState, Earlier, Free
    <3>2. room \in Rooms /\ saved \in [Rooms -> SavedRoom]
      BY <2>1 DEF TypeOK
    <3> HIDE DEF toSave
    <3>3. saved'[room].instances = toSave /\ \A r \in Rooms \ {room} : saved'[r] = saved[r]
      BY <3>1, <3>2
    <3>4. SavedInstances \subseteq SavedInstances' \cup saved[room].instances
      BY <3>2, <3>3 DEF SavedInstances
    <3>5. toSave \subseteq SavedInstances'
      BY <3>2, <3>3 DEF SavedInstances
    <3> QED BY <1>1, <2>1, <2>2, <2>3, <3>1, <3>4, <3>5
  <2>5. CASE UNCHANGED <<heapVars, saved, births>>
    <3>1. SavedInstances' = SavedInstances
      BY <2>5 DEF SavedInstances
    <3> QED BY <1>1, <2>1, <2>2, <2>3, <2>5, <3>1 DEF heapVars, tables
  <2> QED BY <1>5, <2>4, <2>5 DEF LeaveRoom
<1>6. CASE EndStep \/ EndRoomChange
  <2>1. /\ phase \in {"stepped", "changed"} /\ phase' \in {"draw", "frame"}
        /\ byId' = byId \ Doomed /\ instances' = instances \ Doomed
        /\ UNCHANGED <<carried, saved>>
    BY <1>6 DEF EndStep, EndRoomChange, CleanupDestroyed, GoTo, Free, roomVars
  <2>2. ~ Taking /\ ~ Taking'
    BY <2>1 DEF Taking
  <2>3. byId \subseteq carried \cup instances \cup SavedInstances
    BY <2>2 DEF OwnedInv, KnownInv, Home
  <2>4. carried = {}
    BY <2>1 DEF SafeInv, OwnInv
  <2>5. SavedInstances' = SavedInstances
    BY <2>1 DEF SavedInstances
  <2> QED BY <1>1, <2>1, <2>2, <2>3, <2>4, <2>5
<1> QED BY <1>2, <1>3, <1>4, <1>5, <1>6

\* Nothing else moves instances.
LEMMA OwnedElsewhere ==
    ASSUME TypeOK, OwnedInv,
           Pass2Step \/ RoomCreationCode \/ MarkInitialized
             \/ Boot \/ EnteredRoom \/ GameStarted \/ BootCheck \/ BootLeave \/ BeginStep \/ Exit
             \/ Draw \/ HandlePendingRoomChange \/ NextFrame
    PROVE  OwnedInv'
<1> USE DEF heapVars, tables, roomVars, engineVars, GoTo
<1>1. ASSUME phase \notin {"takeRestore", "takePopulate", "restore", "populate"},
             phase' \notin {"takeRestore", "takePopulate", "restore", "populate"},
             UNCHANGED <<byId, instances, carried>>, SavedInstances' = SavedInstances
      PROVE  OwnedInv'
  <2>1. ~ Taking /\ ~ Taking'
    BY <1>1 DEF Taking
  <2> QED BY <1>1, <2>1 DEF OwnedInv, LeavingInv, EmptiedInv, KnownInv, Home
<1>2. ASSUME NEW p, Reset(p) PROVE OwnedInv'
  BY <1>2 DEF Reset, OwnedInv, LeavingInv, EmptiedInv, KnownInv, Taking
<1>3. ASSUME saved' = saved PROVE SavedInstances' = SavedInstances
  BY <1>3 DEF SavedInstances
<1>4. CASE Pass2Step \/ RoomCreationCode
  BY <1>1, <1>3, <1>4 DEF Pass2Step, RoomCreationCode
<1>5. CASE MarkInitialized
  <2>1. /\ phase = "initialized" /\ phase' = "entered" /\ UNCHANGED <<byId, instances, carried>>
        /\ saved' = [saved EXCEPT ![room].initialized = TRUE]
    BY <1>5 DEF MarkInitialized
  <2>2. saved \in [Rooms -> SavedRoom]
    BY DEF TypeOK
  <2>3. \A r \in Rooms : saved'[r].instances = saved[r].instances
    BY <2>1, <2>2 DEF SavedRoom
  <2>4. SavedInstances' = SavedInstances
    BY <2>3 DEF SavedInstances
  <2> QED BY <1>1, <2>1, <2>4
<1>6. CASE Boot \/ BootLeave \/ Exit \/ NextFrame
  BY <1>1, <1>3, <1>6 DEF Boot, BootLeave, Exit, NextFrame
<1>7. CASE EnteredRoom \/ GameStarted \/ BeginStep \/ Draw
  BY <1>1, <1>3, <1>7 DEF EnteredRoom, GameStarted, BeginStep, Draw, Dispatch
<1>8. ASSUME NEW from \in {"bootCheck", "drawn"}, NEW to \in {"bootLeave", "leave"},
             TakePendingRoom(from, to)
      PROVE  OwnedInv'
  BY <1>1, <1>3, <1>8 DEF TakePendingRoom, Dispatch
<1>9. CASE BootCheck
  <2>1. CASE GoTo("bootCheck", "frame") /\ UNCHANGED <<heapVars, roomVars>>
    BY <1>1, <1>3, <2>1
  <2> QED BY <1>2, <1>8, <1>9, <2>1 DEF BootCheck
<1>10. CASE HandlePendingRoomChange
  BY <1>2, <1>8, <1>10 DEF HandlePendingRoomChange
<1> QED BY <1>4, <1>5, <1>6, <1>7, <1>9, <1>10

\* OwnedInv is inductive if no code that runs while a room is left creates instances.
LEMMA OwnersKept ==
    ASSUME NoBirthOnLeaving PROVE Spec => []OwnedInv
<1>1. Init => OwnedInv
  BY DEF Init, OwnedInv, LeavingInv, EmptiedInv, KnownInv, Taking
<1>2. ASSUME TypeOK, InductiveInv, InductiveInv', OwnedInv, [Next]_vars PROVE OwnedInv'
  <2>1. CASE UNCHANGED vars
    <3>1. UNCHANGED <<byId, saved, carried, instances, stack, phase>>
      BY <2>1 DEF vars, heapVars, tables, roomVars, engineVars
    <3> QED BY <1>2, <3>1 DEF OwnedInv, LeavingInv, EmptiedInv, KnownInv, Home, SavedInstances, Taking,
                              Frames
  <2>2. SafeInv /\ SafeInv'
    BY <1>2 DEF InductiveInv
  <2> QED BY <1>2, <2>1, <2>2, OwnedByCode, OwnedByHandlers, OwnedByTaking, OwnedByRooms, OwnedElsewhere
          DEF Next, Engine
<1> QED BY <1>1, <1>2, RunnerTypeOK, RunnerConsistent, PTL DEF Spec

\* Every instance known by id is in exactly one place, the room (or the hands of
\* takePersistentInstances) or one saved room, if no code that runs while a room is left
\* creates instances.
THEOREM EveryInstanceIsOwned ==
    ASSUME NoBirthOnLeaving PROVE Spec => []EveryInstanceOwned
<1>1. ASSUME InductiveInv, OwnedInv PROVE EveryInstanceOwned
  BY <1>1 DEF InductiveInv, SafeInv, OwnInv, OwnedInv, KnownInv, EveryInstanceOwned
<1> QED BY <1>1, OwnersKept, RunnerConsistent, PTL

\* If, besides, none of that code looks at the whole room, no pointer to a freed instance is
\* ever followed or kept where it could be.  Both conditions are of the game: CleanUp code that
\* calls instance_activate_all and the like does read instances that are freed already.
THEOREM RunnerNoDanglingPointer ==
    ASSUME NoBirthOnLeaving, NoWalkOnLeaving PROVE Spec => []NoDanglingPointer
<1>1. ASSUME TypeOK, InductiveInv, OwnedInv PROVE ~ Lost
  <2> SUFFICES ASSUME Lost PROVE FALSE
    OBVIOUS
  <2>1. Top \in Frames(stack) /\ Top.kind = "wild"
    BY <1>1, PopFrames DEF TypeOK, Lost, Running, Top
  <2>2. Taking
    BY <1>1, <2>1 DEF InductiveInv, SafeInv, StackSafe, Frames
  <2> QED BY <1>1, <2>1, <2>2 DEF OwnedInv, LeavingInv
<1> QED BY <1>1, OnlyWalksDangle, OwnersKept, RunnerTypeOK, RunnerConsistent, PTL
===============================================================================
