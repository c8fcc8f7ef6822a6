----------------------------- MODULE TimersProofs -----------------------------
(* Theorems about Timers, for every number of entries, requests, maps and     *)
(* gamepads, and every depth of handlers.                                     *)
EXTENDS Timers, SequenceTheorems, TLAPS

-------------------------------------------------------------------------------
(* The inductive invariant                                                  *)

VideoKinds == {"videoStart", "videoEnd"}

\* The step calls one handler, at the bottom of the stack; above it are the events of a
\* video, each of which remembers the map of the handler it interrupted.
Nested(st) ==
    \A k \in 1 .. Len(st) :
        /\ st[k].kind \in VideoKinds <=> k < Len(st)
        /\ st[k].map = NoMap <=> st[k].kind \in {"callback", "work"}
        /\ k < Len(st) => st[k].prev = st[k + 1].map

\* A handler's map holds its answer, unless game code has destroyed it.
MapsHold(st, mp) ==
    \A k \in 1 .. Len(st) : st[k].map # NoMap =>
        st[k].map \in 0 .. Len(mp) - 1 /\ mp[st[k].map + 1] \in {st[k].kind, Empty}

MapOf(st) == IF st = <<>> THEN NoMap ELSE st[1].map

\* async_load names the map of the innermost handler.
StackOK == Nested(stack) /\ MapsHold(stack, maps) /\ asyncLoad = MapOf(stack)

\* What the step calls where.
StageOf(kind) == CASE kind = "callback" -> "timers"
                   [] kind = "work" -> "work"
                   [] kind = "pad" -> "pads"
                   [] kind = "dialog" -> "dialog"
                   [] kind = "save" -> "saves"
                   [] OTHER -> "none"
AtItsStage ==
    /\ stack # <<>> => stage = StageOf(stack[Len(stack)].kind)
    /\ held # "none" => at \in 1 .. Len(entries)
    /\ stage \in {"saves"} => at <= Len(pending) + 1
    /\ stage = "saves" /\ stack # <<>> => at <= Len(pending)
    /\ at >= 1

\* An entry that is to be called once has been called only while its callback runs.
Owed ==
    \A i \in 1 .. Len(entries) : i \notin damaged =>
        /\ ~entries[i].repeat => entries[i].fired <= 1
        /\ entries[i].refs = (IF entries[i].active THEN 1 ELSE 0)
        /\ entries[i].active /\ ~entries[i].repeat /\ entries[i].fired = 1
             => at = i /\ held # "none"

\* Requests that were answered before the array the step walks.
Before == IF stage = "saves" THEN Len(answered) + 1 - (IF stack # <<>> THEN at + 1 ELSE at)
          ELSE Len(answered)
\* The requests are numbered through: answered, walked, waiting.
Numbered ==
    /\ stage # "saves" => pending = <<>>
    /\ \A j \in 1 .. Len(answered) : answered[j] = j
    /\ \A j \in 1 .. Len(pending) : pending[j] = Before + j
    /\ \A j \in 1 .. Len(queue) : queue[j] = Before + Len(pending) + j
    /\ nextRequest = Before + Len(pending) + Len(queue) + 1

IInv ==
    /\ TypeOK /\ StackOK /\ AtItsStage /\ Owed /\ Numbered

-------------------------------------------------------------------------------
(* Stacks of handlers                                                       *)

Held(st) == \E k \in 1 .. Len(st) : st[k].kind = "callback"

\* The innermost handler, and what is under it.
LEMMA TailFacts ==
    ASSUME NEW st \in Seq(Frame), st # <<>>
    PROVE  /\ st[1] \in Frame /\ Len(st) \in Nat /\ Len(st) >= 1
           /\ Tail(st) \in Seq(Frame) /\ Len(Tail(st)) = Len(st) - 1
           /\ \A k \in 1 .. Len(st) - 1 : Tail(st)[k] = st[k + 1]
           /\ Tail(st) = <<>> <=> Len(st) = 1
<1>1. Len(st) \in Nat /\ Len(st) >= 1
  BY LenProperties, EmptySeq
<1>2. st[1] \in Frame
  BY <1>1, ElementOfSeq
<1>3. /\ Tail(st) \in Seq(Frame) /\ Len(Tail(st)) = Len(st) - 1
      /\ \A k \in 1 .. Len(st) - 1 : Tail(st)[k] = st[k + 1]
  BY HeadTailProperties
<1>4. Tail(st) = <<>> <=> Len(st) = 1
  <2>1. \A t \in Seq(Frame) : t = <<>> <=> Len(t) = 0
    BY EmptySeq
  <2> HIDE DEF Frame
  <2>2. Tail(st) = <<>> <=> Len(Tail(st)) = 0
    BY <1>3, <2>1, Zenon
  <2> QED BY <1>1, <1>3, <2>2
<1> QED BY <1>1, <1>2, <1>3, <1>4

\* A handler called inside the others.
LEMMA PushFacts ==
    ASSUME NEW st \in Seq(Frame), NEW f \in Frame
    PROVE  /\ <<f>> \o st \in Seq(Frame) /\ Len(<<f>> \o st) = Len(st) + 1
           /\ (<<f>> \o st)[1] = f
           /\ \A k \in 1 .. Len(st) : (<<f>> \o st)[k + 1] = st[k]
           /\ <<f>> \o st # <<>> /\ Len(st) \in Nat
  OBVIOUS

\* Only the bottom of the stack is a callback.
LEMMA HeldAtBottom ==
    ASSUME NEW st \in Seq(Frame), Nested(st)
    PROVE  Held(st) <=> st # <<>> /\ st[Len(st)].kind = "callback"
<1>1. ASSUME st # <<>>, st[Len(st)].kind = "callback" PROVE Held(st)
  BY <1>1, TailFacts DEF Held
<1>2. ASSUME Held(st) PROVE st # <<>> /\ st[Len(st)].kind = "callback"
  <2>1. PICK k \in 1 .. Len(st) : st[k].kind = "callback"
    BY <1>2 DEF Held
  <2>2. k = Len(st)
    BY <2>1 DEF Nested, VideoKinds
  <2> QED BY <2>1, <2>2
<1> QED BY <1>1, <1>2

\* An answer that is destroyed, or one more, leaves the others what they were.
LEMMA MapsCleaned ==
    ASSUME NEW st \in Seq(Frame), NEW mp \in Seq(Answers \cup {Empty}), NEW i \in 1 .. Len(mp),
           MapsHold(st, mp)
    PROVE  /\ MapsHold(st, [mp EXCEPT ![i] = Empty])
           /\ [mp EXCEPT ![i] = Empty] \in Seq(Answers \cup {Empty})
           /\ Len([mp EXCEPT ![i] = Empty]) = Len(mp)
<1> DEFINE m2 == [mp EXCEPT ![i] = Empty]
<1>1. m2 \in Seq(Answers \cup {Empty}) /\ Len(m2) = Len(mp)
      /\ \A j \in 1 .. Len(mp) : m2[j] = IF j = i THEN Empty ELSE mp[j]
  BY ExceptSeq
<1> HIDE DEF m2
<1>2. ASSUME NEW k \in 1 .. Len(st), st[k].map # NoMap
      PROVE  st[k].map \in 0 .. Len(m2) - 1 /\ m2[st[k].map + 1] \in {st[k].kind, Empty}
  <2>1. st[k].map \in 0 .. Len(mp) - 1 /\ mp[st[k].map + 1] \in {st[k].kind, Empty}
    BY <1>2 DEF MapsHold
  <2>2. st[k].map + 1 \in 1 .. Len(mp)
    BY <2>1
  <2> QED BY <1>1, <2>1, <2>2
<1>3. MapsHold(st, m2)
  BY <1>2 DEF MapsHold
<1> QED BY <1>1, <1>3 DEF m2

\* The map of a new answer leaves those of the open handlers in place.
LEMMA MapsAppended ==
    ASSUME NEW st \in Seq(Frame), NEW mp \in Seq(Answers \cup {Empty}), NEW x \in Answers,
           MapsHold(st, mp)
    PROVE  /\ MapsHold(st, Append(mp, x)) /\ Append(mp, x) \in Seq(Answers \cup {Empty})
           /\ Len(Append(mp, x)) = Len(mp) + 1 /\ Append(mp, x)[Len(mp) + 1] = x
           /\ Len(mp) \in Nat
<1> DEFINE m2 == Append(mp, x)
<1>1. m2 \in Seq(Answers \cup {Empty}) /\ Len(m2) = Len(mp) + 1 /\ m2[Len(mp) + 1] = x
      /\ (\A j \in 1 .. Len(mp) : m2[j] = mp[j]) /\ Len(mp) \in Nat
  OBVIOUS
<1> HIDE DEF m2
<1>2. ASSUME NEW k \in 1 .. Len(st), st[k].map # NoMap
      PROVE  st[k].map \in 0 .. Len(m2) - 1 /\ m2[st[k].map + 1] \in {st[k].kind, Empty}
  <2>1. st[k].map \in 0 .. Len(mp) - 1 /\ mp[st[k].map + 1] \in {st[k].kind, Empty}
    BY <1>2 DEF MapsHold
  <2>2. st[k].map + 1 \in 1 .. Len(mp)
    BY <2>1
  <2> QED BY <1>1, <2>1, <2>2
<1>3. MapsHold(st, m2)
  BY <1>2 DEF MapsHold
<1> QED BY <1>1, <1>3 DEF m2

\* The event of a video interrupts a handler.
LEMMA VideoPushed ==
    ASSUME NEW st \in Seq(Frame), NEW mp \in Seq(Answers \cup {Empty}), NEW f \in Frame,
           st # <<>>, Nested(st), MapsHold(st, mp),
           f.kind \in VideoKinds, f.map = Len(mp), f.prev = MapOf(st)
    PROVE  /\ Nested(<<f>> \o st) /\ MapsHold(<<f>> \o st, Append(mp, f.kind))
           /\ MapOf(<<f>> \o st) = Len(mp)
           /\ (<<f>> \o st)[Len(<<f>> \o st)] = st[Len(st)]
<1> DEFINE s2 == <<f>> \o st
           m2 == Append(mp, f.kind)
<1>1. /\ s2 \in Seq(Frame) /\ Len(s2) = Len(st) + 1 /\ s2[1] = f /\ s2 # <<>>
      /\ \A k \in 1 .. Len(st) : s2[k + 1] = st[k]
      /\ Len(st) \in Nat /\ Len(st) >= 1
  BY PushFacts, TailFacts
<1>2. /\ MapsHold(st, m2) /\ m2 \in Seq(Answers \cup {Empty})
      /\ Len(m2) = Len(mp) + 1 /\ m2[Len(mp) + 1] = f.kind /\ Len(mp) \in Nat
  BY MapsAppended DEF VideoKinds, Answers
<1> HIDE DEF s2, m2
<1>3. ASSUME NEW k \in 1 .. Len(s2)
      PROVE  /\ s2[k].kind \in VideoKinds <=> k < Len(s2)
             /\ s2[k].map = NoMap <=> s2[k].kind \in {"callback", "work"}
             /\ k < Len(s2) => s2[k].prev = s2[k + 1].map
             /\ s2[k].map # NoMap =>
                    s2[k].map \in 0 .. Len(m2) - 1 /\ m2[s2[k].map + 1] \in {s2[k].kind, Empty}
  <2>1. CASE k = 1
    <3>1. s2[2] = st[1] /\ MapOf(st) = st[1].map
      BY <1>1 DEF MapOf
    <3>2. f.map # NoMap
      BY <1>2 DEF NoMap
    <3> QED BY <2>1, <3>1, <3>2, <1>1, <1>2, SMTT(30) DEF VideoKinds
  <2>2. CASE k > 1
    <3>1. k - 1 \in 1 .. Len(st) /\ s2[k] = st[k - 1]
      BY <2>2, <1>1
    <3>2. k < Len(s2) => k \in 1 .. Len(st) /\ s2[k + 1] = st[k]
      BY <2>2, <1>1
    <3>3. /\ st[k - 1].kind \in VideoKinds <=> k - 1 < Len(st)
          /\ st[k - 1].map = NoMap <=> st[k - 1].kind \in {"callback", "work"}
          /\ k - 1 < Len(st) => st[k - 1].prev = st[(k - 1) + 1].map
      BY <3>1 DEF Nested
    <3>4. st[k - 1].map # NoMap => st[k - 1].map \in 0 .. Len(m2) - 1
                                   /\ m2[st[k - 1].map + 1] \in {st[k - 1].kind, Empty}
      BY <3>1, <1>2 DEF MapsHold
    <3>5. (k - 1) + 1 = k /\ (k - 1 < Len(st) <=> k < Len(s2))
      BY <1>1
    <3> QED BY <3>1, <3>2, <3>3, <3>4, <3>5
  <2> QED BY <2>1, <2>2, <1>1
<1>4. Nested(s2) /\ MapsHold(s2, m2)
  BY <1>3 DEF Nested, MapsHold
<1>5. MapOf(s2) = Len(mp) /\ s2[Len(s2)] = st[Len(st)]
  BY <1>1 DEF MapOf
<1> QED BY <1>4, <1>5 DEF s2, m2

\* When it is over, the handler that was interrupted goes on with its own map.
LEMMA VideoPopped ==
    ASSUME NEW st \in Seq(Frame), NEW mp \in Seq(Answers \cup {Empty}),
           st # <<>>, Nested(st), MapsHold(st, mp), st[1].kind \in VideoKinds
    PROVE  /\ Tail(st) # <<>> /\ Nested(Tail(st)) /\ MapsHold(Tail(st), mp)
           /\ MapOf(Tail(st)) = st[1].prev
           /\ Tail(st)[Len(Tail(st))] = st[Len(st)]
<1> DEFINE s2 == Tail(st)
<1>1. /\ s2 \in Seq(Frame) /\ Len(s2) = Len(st) - 1 /\ Len(st) \in Nat /\ Len(st) >= 1
      /\ \A k \in 1 .. Len(st) - 1 : s2[k] = st[k + 1]
      /\ s2 = <<>> <=> Len(st) = 1
  BY TailFacts
<1> HIDE DEF s2
<1>2. 1 < Len(st) /\ st[1].prev = st[2].map
  BY <1>1 DEF Nested
<1>3. ASSUME NEW k \in 1 .. Len(s2)
      PROVE  /\ s2[k].kind \in VideoKinds <=> k < Len(s2)
             /\ s2[k].map = NoMap <=> s2[k].kind \in {"callback", "work"}
             /\ k < Len(s2) => s2[k].prev = s2[k + 1].map
             /\ s2[k].map # NoMap =>
                    s2[k].map \in 0 .. Len(mp) - 1 /\ mp[s2[k].map + 1] \in {s2[k].kind, Empty}
  <2>1. k + 1 \in 1 .. Len(st) /\ s2[k] = st[k + 1] /\ (k + 1 < Len(st) <=> k < Len(s2))
    BY <1>1
  <2>2. k < Len(s2) => s2[k + 1] = st[(k + 1) + 1]
    BY <1>1
  <2>3. /\ st[k + 1].kind \in VideoKinds <=> k + 1 < Len(st)
        /\ st[k + 1].map = NoMap <=> st[k + 1].kind \in {"callback", "work"}
        /\ k + 1 < Len(st) => st[k + 1].prev = st[(k + 1) + 1].map
    BY <2>1 DEF Nested
  <2>4. st[k + 1].map # NoMap => st[k + 1].map \in 0 .. Len(mp) - 1
                                 /\ mp[st[k + 1].map + 1] \in {st[k + 1].kind, Empty}
    BY <2>1 DEF MapsHold
  <2> QED BY <2>1, <2>2, <2>3, <2>4
<1>4. Nested(s2) /\ MapsHold(s2, mp)
  BY <1>3 DEF Nested, MapsHold
<1>5. s2 # <<>> /\ MapOf(s2) = st[1].prev /\ s2[Len(s2)] = st[Len(st)]
  BY <1>1, <1>2 DEF MapOf
<1> QED BY <1>4, <1>5 DEF s2

\* The handler the step called is alone on the stack, and leaves it empty.
LEMMA StepPushed ==
    ASSUME NEW f \in Frame, NEW mp \in Seq(Answers \cup {Empty}),
           f.kind \notin VideoKinds,
           f.map = NoMap <=> f.kind \in {"callback", "work"},
           f.map # NoMap => f.map \in 0 .. Len(mp) - 1 /\ mp[f.map + 1] \in {f.kind, Empty}
    PROVE  /\ <<f>> \in Seq(Frame) /\ Nested(<<f>>) /\ MapsHold(<<f>>, mp)
           /\ MapOf(<<f>>) = f.map /\ <<f>>[Len(<<f>>)] = f /\ <<f>> # <<>>
           /\ <<f>> \o <<>> = <<f>>
<1>1. /\ <<f>> \in Seq(Frame) /\ Len(<<f>>) = 1 /\ <<f>>[1] = f /\ <<f>> # <<>>
      /\ <<f>> \o <<>> = <<f>>
  OBVIOUS
<1> QED BY <1>1 DEF Nested, MapsHold, MapOf

\* Under a handler that is not a video's there is nothing.
LEMMA StepPopped ==
    ASSUME NEW st \in Seq(Frame), st # <<>>, Nested(st), st[1].kind \notin VideoKinds
    PROVE  Tail(st) = <<>> /\ Len(st) = 1 /\ st[Len(st)] = st[1]
<1>1. Len(st) = 1
  BY TailFacts DEF Nested
<1> QED BY <1>1, TailFacts

\* No handler is open.
LEMMA EmptyStack ==
    ASSUME NEW mp PROVE Nested(<<>>) /\ MapsHold(<<>>, mp) /\ MapOf(<<>>) = NoMap /\ <<>> \in Seq(Frame)
  BY DEF Nested, MapsHold, MapOf

-------------------------------------------------------------------------------
(* Calling handlers and coming back                                         *)

MapIds(mp) == {NoMap} \cup 0 .. Len(mp) - 1

\* A stack in order names a map there is.
LEMMA MapOfType ==
    ASSUME NEW st \in Seq(Frame), NEW mp, MapsHold(st, mp)
    PROVE  MapOf(st) \in MapIds(mp)
<1>1. CASE st = <<>>
  BY <1>1 DEF MapOf, MapIds
<1>2. CASE st # <<>>
  <2>1. 1 \in 1 .. Len(st)
    BY <1>2, TailFacts
  <2> QED BY <1>2, <2>1 DEF MapOf, MapsHold, MapIds
<1> QED BY <1>1, <1>2

\* The step hands over an answer.
LEMMA StepDispatches ==
    ASSUME TypeOK, StackOK, stack = <<>>,
           NEW kind \in {"pad", "dialog", "save"}, Dispatch(kind)
    PROVE  /\ stack' \in Seq(Frame) /\ maps' \in Seq(Answers \cup {Empty})
           /\ asyncLoad' \in MapIds(maps') /\ StackOK' /\ ~ Held(stack')
           /\ stack' # <<>> /\ stack'[Len(stack')].kind = kind
<1> DEFINE f == [kind |-> kind, map |-> Len(maps), prev |-> asyncLoad, runs |-> ~Blocked]
           m2 == Append(maps, kind)
<1>1. /\ m2 \in Seq(Answers \cup {Empty}) /\ Len(m2) = Len(maps) + 1 /\ m2[Len(maps) + 1] = kind
      /\ Len(maps) \in Nat
  BY EmptyStack, MapsAppended DEF TypeOK, Answers
<1>2. f \in Frame /\ f.kind = kind /\ f.map = Len(maps)
  BY <1>1 DEF TypeOK, Frame, Answers, NoMap, Blocked
<1>3. stack' = <<f>> \o <<>> /\ maps' = m2 /\ asyncLoad' = Len(maps)
  BY DEF Dispatch
<1> HIDE DEF f, m2
<1>4. f.map # NoMap /\ f.map \in 0 .. Len(m2) - 1
  BY <1>1, <1>2 DEF NoMap
<1>5. /\ <<f>> \in Seq(Frame) /\ Nested(<<f>>) /\ MapsHold(<<f>>, m2)
      /\ MapOf(<<f>>) = f.map /\ <<f>>[Len(<<f>>)] = f /\ <<f>> # <<>> /\ <<f>> \o <<>> = <<f>>
  BY <1>1, <1>2, <1>4, StepPushed DEF VideoKinds
<1>6. ~ Held(<<f>>)
  BY <1>2, <1>5, HeldAtBottom
<1> QED BY <1>1, <1>2, <1>3, <1>4, <1>5, <1>6 DEF StackOK, MapIds

\* An event of a video, inside whatever handler runs.
LEMMA VideoDispatches ==
    ASSUME TypeOK, StackOK, stack # <<>>, NEW kind \in VideoKinds, Dispatch(kind)
    PROVE  /\ stack' \in Seq(Frame) /\ maps' \in Seq(Answers \cup {Empty})
           /\ asyncLoad' \in MapIds(maps') /\ StackOK' /\ (Held(stack') <=> Held(stack))
           /\ stack' # <<>> /\ stack'[Len(stack')] = stack[Len(stack)]
<1> DEFINE f == [kind |-> kind, map |-> Len(maps), prev |-> asyncLoad, runs |-> ~Blocked]
<1>1. /\ Append(maps, kind) \in Seq(Answers \cup {Empty})
      /\ Len(Append(maps, kind)) = Len(maps) + 1 /\ Len(maps) \in Nat
  BY MapsAppended DEF TypeOK, StackOK, Answers, VideoKinds
<1>2. f \in Frame /\ f.kind = kind /\ f.map = Len(maps) /\ f.prev = MapOf(stack)
  BY <1>1 DEF TypeOK, StackOK, Frame, Answers, NoMap, Blocked, VideoKinds
<1>3. stack' = <<f>> \o stack /\ maps' = Append(maps, f.kind) /\ asyncLoad' = Len(maps)
  BY DEF Dispatch
<1> HIDE DEF f
<1>4. stack \in Seq(Frame) /\ maps \in Seq(Answers \cup {Empty}) /\ Nested(stack) /\ MapsHold(stack, maps)
  BY DEF TypeOK, StackOK
<1>5. /\ Nested(<<f>> \o stack) /\ MapsHold(<<f>> \o stack, Append(maps, f.kind))
      /\ MapOf(<<f>> \o stack) = Len(maps)
      /\ (<<f>> \o stack)[Len(<<f>> \o stack)] = stack[Len(stack)]
  BY <1>2, <1>4, VideoPushed
<1>6. <<f>> \o stack \in Seq(Frame) /\ <<f>> \o stack # <<>>
  BY <1>2, <1>4, PushFacts
<1>7. Held(<<f>> \o stack) <=> Held(stack)
  BY <1>4, <1>5, <1>6, HeldAtBottom
<1> QED BY <1>1, <1>2, <1>3, <1>5, <1>6, <1>7 DEF StackOK, MapIds

\* The handler the step called is over: no map is named.
LEMMA StepOver ==
    ASSUME TypeOK, StackOK, NEW kind \in {"pad", "dialog", "save"}, Over(kind)
    PROVE  /\ stack # <<>> /\ stack[Len(stack)].kind = kind /\ ~ Held(stack)
           /\ stack' = <<>> /\ maps' \in Seq(Answers \cup {Empty})
           /\ asyncLoad' \in MapIds(maps') /\ StackOK' /\ ~ Held(stack')
<1>1. /\ stack \in Seq(Frame) /\ maps \in Seq(Answers \cup {Empty}) /\ stack # <<>>
      /\ Nested(stack) /\ MapsHold(stack, maps) /\ stack[1].kind = kind
  BY DEF TypeOK, StackOK, Over, Top
<1>2. Tail(stack) = <<>> /\ Len(stack) = 1
  BY <1>1, StepPopped DEF VideoKinds
<1>3. stack[1].map \in 0 .. Len(maps) - 1
  BY <1>1, <1>2 DEF Nested, MapsHold
<1>4. stack[1].map + 1 \in 1 .. Len(maps)
  BY <1>3
<1>5. Cleaned(stack[1].map) \in Seq(Answers \cup {Empty})
  BY <1>1, <1>4, MapsCleaned DEF Cleaned
<1>6. stack' = <<>> /\ maps' = Cleaned(stack[1].map) /\ asyncLoad' = NoMap
  BY <1>1, <1>2 DEF Over, Restored, Top
<1>7. StackOK'
  BY <1>6, EmptyStack DEF StackOK
<1>8. ~ Held(stack) /\ ~ Held(<<>>)
  BY <1>1, <1>2, HeldAtBottom, EmptyStack
<1> QED BY <1>1, <1>2, <1>5, <1>6, <1>7, <1>8 DEF MapIds

\* The event of a video is over: the handler it interrupted has its map again.
LEMMA VideoOver ==
    ASSUME TypeOK, StackOK, NEW kind \in VideoKinds, Over(kind)
    PROVE  /\ stack # <<>> /\ stack' \in Seq(Frame) /\ stack' # <<>>
           /\ stack'[Len(stack')] = stack[Len(stack)]
           /\ maps' \in Seq(Answers \cup {Empty}) /\ Len(maps') = Len(maps)
           /\ asyncLoad' \in MapIds(maps') /\ StackOK' /\ (Held(stack') <=> Held(stack))
<1>1. /\ stack \in Seq(Frame) /\ maps \in Seq(Answers \cup {Empty}) /\ stack # <<>>
      /\ Nested(stack) /\ MapsHold(stack, maps) /\ stack[1].kind = kind
  BY DEF TypeOK, StackOK, Over, Top
<1>2. /\ Tail(stack) # <<>> /\ Nested(Tail(stack)) /\ MapsHold(Tail(stack), maps)
      /\ MapOf(Tail(stack)) = stack[1].prev
      /\ Tail(stack)[Len(Tail(stack))] = stack[Len(stack)]
  BY <1>1, VideoPopped
<1>3. Tail(stack) \in Seq(Frame) /\ 1 \in 1 .. Len(stack)
  BY <1>1, TailFacts
<1>4. stack[1].map + 1 \in 1 .. Len(maps)
  <2>1. stack[1].map # NoMap
    BY <1>1, <1>3 DEF Nested, VideoKinds
  <2>2. stack[1].map \in 0 .. Len(maps) - 1
    BY <1>1, <1>3, <2>1 DEF MapsHold
  <2> QED BY <2>2
<1>5. /\ Cleaned(stack[1].map) \in Seq(Answers \cup {Empty})
      /\ Len(Cleaned(stack[1].map)) = Len(maps)
      /\ MapsHold(Tail(stack), Cleaned(stack[1].map))
  BY <1>1, <1>2, <1>3, <1>4, MapsCleaned DEF Cleaned
<1>6. stack' = Tail(stack) /\ maps' = Cleaned(stack[1].map) /\ asyncLoad' = stack[1].prev
  BY <1>1 DEF Over, Restored, Top, VideoKinds
<1>7. Held(Tail(stack)) <=> Held(stack)
  BY <1>1, <1>2, <1>3, HeldAtBottom
<1>8. MapOf(Tail(stack)) \in MapIds(Cleaned(stack[1].map))
  BY <1>3, <1>5, MapOfType
<1> QED BY <1>1, <1>2, <1>3, <1>5, <1>6, <1>7, <1>8 DEF StackOK

-------------------------------------------------------------------------------
(* Game code                                                                *)

\* The step points into the entries only while a callback runs.
LEMMA HeldFacts ==
    ASSUME TypeOK
    PROVE  /\ held = "none" <=> ~ Held(stack)
           /\ stack = <<>> => held = "none"
<1>1. held = "none" <=> \A k \in 1 .. Len(stack) : stack[k].kind # "callback"
  BY DEF TypeOK
<1>2. held = "none" <=> ~ Held(stack)
  BY <1>1 DEF Held
<1>3. stack = <<>> => ~ Held(stack)
  <2>1. Len(<<>>) = 0
    OBVIOUS
  <2> QED BY <2>1 DEF Held
<1> QED BY <1>2, <1>3

\* What touches neither entries nor requests nor handlers.
LEMMA QuietInv ==
    ASSUME IInv,
           UNCHANGED <<timers, queue, pending, nextRequest, answered, lost, answers, place, stack>>,
           group' \in Int, picker' \in BOOLEAN, pads' \in [1 .. Pads -> BOOLEAN], video' \in Video,
           pendingRoom' \in {"none", "room", "restart"}, persistent' \in BOOLEAN, ops' \in Nat
    PROVE  IInv'
<1> USE DEF IInv, timers, answers, place
<1>1. TypeOK'
  BY DEF TypeOK
<1>2. StackOK'
  BY DEF StackOK
<1>3. AtItsStage' /\ Owed' /\ Numbered'
  BY DEF AtItsStage, Owed, Numbered, Before
<1> QED BY <1>1, <1>2, <1>3

\* Game code that only notes what it asks for.
LEMMA QuietCodeInv ==
    ASSUME IInv,
           \/ GroupBegin \/ ShowPicker \/ OpenVideo \/ CloseVideo \/ RoomGoto \/ GameRestart
    PROVE  IInv'
<1> USE DEF Code, requests, others, rooms
<1>0. TypeOK
  BY DEF IInv
<1>1. /\ group \in Int /\ picker \in BOOLEAN /\ pads \in [1 .. Pads -> BOOLEAN] /\ video \in Video
      /\ pendingRoom \in {"none", "room", "restart"} /\ persistent \in BOOLEAN /\ ops \in Nat
      /\ [Closed EXCEPT !.isOpen = TRUE] \in Video /\ Closed \in Video
  BY <1>0 DEF TypeOK, Video, Closed
<1>2. CASE GroupBegin
  BY <1>1, <1>2, QuietInv DEF GroupBegin
<1>3. CASE ShowPicker
  BY <1>1, <1>3, QuietInv DEF ShowPicker
<1>4. CASE OpenVideo
  BY <1>1, <1>4, QuietInv DEF OpenVideo
<1>5. CASE CloseVideo
  BY <1>1, <1>5, QuietInv DEF CloseVideo
<1>6. CASE RoomGoto
  BY <1>1, <1>6, QuietInv DEF RoomGoto
<1>7. CASE GameRestart
  BY <1>1, <1>7, QuietInv DEF GameRestart
<1> QED BY <1>2, <1>3, <1>4, <1>5, <1>6, <1>7

\* A request takes the next number and waits behind the others.
LEMMA KickInv ==
    ASSUME IInv, Kick, group' \in Int, ops' \in Nat,
           UNCHANGED <<pending, answered, lost, timers, others, answers, rooms, place, stack>>
    PROVE  IInv'
<1> USE DEF IInv, timers, others, answers, rooms, place
<1>1. /\ queue \in Seq(Nat) /\ nextRequest \in Nat /\ Len(queue) \in Nat
      /\ queue' = Append(queue, nextRequest) /\ nextRequest' = nextRequest + 1
  BY DEF TypeOK, Kick
<1>2. /\ queue' \in Seq(Nat) /\ Len(queue') = Len(queue) + 1
      /\ queue'[Len(queue) + 1] = nextRequest
      /\ \A i \in 1 .. Len(queue) : queue'[i] = queue[i]
  BY <1>1, AppendProperties
<1>3. TypeOK'
  BY <1>1, <1>2 DEF TypeOK
<1>4. StackOK'
  BY DEF StackOK
<1>5. AtItsStage' /\ Owed'
  BY DEF AtItsStage, Owed
<1>6. Numbered'
  <2>1. Before' = Before /\ Before \in Int /\ Len(pending) \in Nat
    BY SMTT(30) DEF Before, TypeOK
  <2>2. ASSUME NEW j \in 1 .. Len(queue') PROVE queue'[j] = Before + Len(pending) + j
    <3>1. CASE j \in 1 .. Len(queue)
      BY <3>1, <1>2 DEF Numbered
    <3>2. CASE j = Len(queue) + 1
      BY <3>2, <1>1, <1>2, <2>1 DEF Numbered
    <3> QED BY <3>1, <3>2, <1>1, <1>2
  <2>3. nextRequest' = Before + Len(pending) + Len(queue') + 1
    BY <1>1, <1>2, <2>1 DEF Numbered
  <2> QED BY <2>1, <2>2, <2>3 DEF Numbered
<1> QED BY <1>3, <1>4, <1>5, <1>6

\* A request goes to the end of the queue with the next number.
LEMMA RequestInv ==
    ASSUME IInv, SaveAsync \/ GroupEnd
    PROVE  IInv'
<1>0. TypeOK
  BY DEF IInv
<1>1. /\ group \in Int /\ picker \in BOOLEAN /\ pads \in [1 .. Pads -> BOOLEAN] /\ video \in Video
      /\ pendingRoom \in {"none", "room", "restart"} /\ persistent \in BOOLEAN /\ ops \in Nat
  BY <1>0 DEF TypeOK
<1>2. /\ UNCHANGED <<pending, answered, lost, timers, others, answers, rooms, place, stack>>
      /\ group' \in Int /\ ops' \in Nat
  BY <1>1 DEF SaveAsync, GroupEnd, Code
<1>3. CASE Kick
  BY <1>2, <1>3, KickInv
<1>4. CASE UNCHANGED <<queue, nextRequest>>
  BY <1>1, <1>2, <1>4, QuietInv DEF others, rooms
<1> QED BY <1>3, <1>4 DEF SaveAsync, GroupEnd

\* call_later: a new entry is owed its call.
LEMMA CallLaterInv ==
    ASSUME IInv, CallLater
    PROVE  IInv'
<1> USE DEF IInv, requests, others, answers, rooms, place
<1>1. PICK period \in Periods, repeat \in BOOLEAN :
         entries' = Append(entries, [active |-> TRUE, repeat |-> repeat, period |-> period,
                                     elapsed |-> 0, refs |-> 1, fired |-> 0])
  BY DEF CallLater
<1> DEFINE e == [active |-> TRUE, repeat |-> repeat, period |-> period,
                 elapsed |-> 0, refs |-> 1, fired |-> 0]
<1>2. e \in Entry /\ entries \in Seq(Entry) /\ Len(entries) \in Nat
  BY TimersAssumption DEF Entry, TypeOK
<1>3. e.active /\ e.refs = 1 /\ e.fired = 0
  OBVIOUS
<1> HIDE DEF e
<1>4. /\ entries' \in Seq(Entry) /\ Len(entries') = Len(entries) + 1
      /\ entries'[Len(entries) + 1] = e
      /\ \A i \in 1 .. Len(entries) : entries'[i] = entries[i]
  <2>1. entries' = Append(entries, e)
    BY <1>1 DEF e
  <2> QED BY <2>1, <1>2, AppendProperties
<1>5. capacity' \in Nat /\ Len(entries') <= capacity'
  <2>1. capacity' = Grown(capacity, Len(entries) + 1) /\ capacity \in Nat
    BY DEF CallLater, TypeOK
  <2> QED BY <2>1, <1>2, <1>4, TimersAssumption DEF Grown
<1>6. /\ held' \in {"none", "live", "dangling"} /\ (held' = "none" <=> held = "none")
      /\ ops' \in Nat
      /\ UNCHANGED <<damaged, requests, others, answers, rooms, place, stack>>
  BY DEF CallLater, Code, TypeOK
<1>7. TypeOK'
  BY <1>4, <1>5, <1>6 DEF TypeOK
<1>8. StackOK' /\ Numbered'
  BY <1>6 DEF StackOK, Numbered, Before
<1>9. AtItsStage'
  BY <1>2, <1>4, <1>6 DEF AtItsStage
<1>10. Owed'
  <2> SUFFICES ASSUME NEW i \in 1 .. Len(entries'), i \notin damaged
               PROVE  /\ ~entries'[i].repeat => entries'[i].fired <= 1
                      /\ entries'[i].refs = (IF entries'[i].active THEN 1 ELSE 0)
                      /\ entries'[i].active /\ ~entries'[i].repeat /\ entries'[i].fired = 1
                           => at = i /\ held' # "none"
    BY <1>6 DEF Owed
  <2>1. CASE i = Len(entries) + 1
    BY <2>1, <1>3, <1>4
  <2>2. CASE i \in 1 .. Len(entries)
    BY <2>2, <1>4, <1>6 DEF Owed
  <2> QED BY <2>1, <2>2, <1>2, <1>4
<1> QED BY <1>7, <1>8, <1>9, <1>10

\* A change of one entry that is allowed where it is.
LEMMA EntryChanged ==
    ASSUME TypeOK, NEW i \in 1 .. Len(entries), NEW e \in Entry, entries' = [entries EXCEPT ![i] = e]
    PROVE  /\ entries' \in Seq(Entry) /\ Len(entries') = Len(entries) /\ Len(entries) \in Nat
           /\ entries'[i] = e /\ \A j \in 1 .. Len(entries) : j # i => entries'[j] = entries[j]
  BY ExceptSeq DEF TypeOK

\* The fields of an entry.
LEMMA EntryType ==
    ASSUME TypeOK, NEW i \in 1 .. Len(entries)
    PROVE  /\ entries[i] \in Entry /\ i \in DOMAIN entries
           /\ entries[i].active \in BOOLEAN /\ entries[i].repeat \in BOOLEAN
           /\ entries[i].fired \in 0 .. 2 /\ entries[i].elapsed \in Nat
<1>1. entries \in Seq(Entry)
  BY DEF TypeOK
<1>2. entries[i] \in Entry /\ i \in DOMAIN entries
  BY <1>1, ElementOfSeq, LenProperties
<1> QED BY <1>2 DEF Entry

\* call_cancel: what is cancelled is let go and owed nothing.
LEMMA CallCancelInv ==
    ASSUME IInv, CallCancel
    PROVE  IInv'
<1> USE DEF IInv, requests, others, answers, rooms, place
<1>1. PICK i \in 1 .. Len(entries) :
         entries[i].active /\ entries' = [entries EXCEPT ![i] = Cancelled(entries[i])]
  BY LenProperties DEF CallCancel, TypeOK
<1>2. Cancelled(entries[i]) \in Entry /\ Cancelled(entries[i]).refs = 0
      /\ ~ Cancelled(entries[i]).active /\ Cancelled(entries[i]).repeat = entries[i].repeat
      /\ Cancelled(entries[i]).fired = entries[i].fired
  BY EntryType DEF Cancelled, Entry
<1>3. /\ entries' \in Seq(Entry) /\ Len(entries') = Len(entries) /\ Len(entries) \in Nat
      /\ entries'[i] = Cancelled(entries[i])
      /\ \A j \in 1 .. Len(entries) : j # i => entries'[j] = entries[j]
  BY <1>1, <1>2, EntryChanged
<1>4. /\ ops' \in Nat
      /\ UNCHANGED <<capacity, held, damaged, requests, others, answers, rooms, place, stack>>
  BY DEF CallCancel, Code, TypeOK
<1>5. TypeOK'
  BY <1>3, <1>4 DEF TypeOK
<1>6. StackOK' /\ Numbered'
  BY <1>4 DEF StackOK, Numbered, Before
<1>7. AtItsStage'
  BY <1>3, <1>4 DEF AtItsStage
<1>8. Owed'
  <2> SUFFICES ASSUME NEW j \in 1 .. Len(entries), j \notin damaged
               PROVE  /\ ~entries'[j].repeat => entries'[j].fired <= 1
                      /\ entries'[j].refs = (IF entries'[j].active THEN 1 ELSE 0)
                      /\ entries'[j].active /\ ~entries'[j].repeat /\ entries'[j].fired = 1
                           => at = j /\ held # "none"
    BY <1>3, <1>4 DEF Owed
  <2>1. CASE j = i
    BY <2>1, <1>2, <1>3 DEF Owed
  <2>2. CASE j # i
    BY <2>2, <1>3 DEF Owed
  <2> QED BY <2>1, <2>2
<1> QED BY <1>5, <1>6, <1>7, <1>8

\* ds_map_destroy(async_load): the handler goes on without its answer.
LEMMA DestroyMapInv ==
    ASSUME IInv, DestroyMap
    PROVE  IInv'
<1> USE DEF IInv, timers, requests, others, rooms, place
<1>1. /\ stack \in Seq(Frame) /\ maps \in Seq(Answers \cup {Empty}) /\ Nested(stack)
      /\ MapsHold(stack, maps) /\ asyncLoad = MapOf(stack) /\ asyncLoad # NoMap
      /\ maps' = [maps EXCEPT ![asyncLoad + 1] = Empty]
  BY DEF TypeOK, StackOK, DestroyMap, Cleaned
<1>2. asyncLoad + 1 \in 1 .. Len(maps) /\ Len(maps) \in Nat
  BY <1>1, MapOfType DEF MapIds
<1>3. /\ MapsHold(stack, maps') /\ maps' \in Seq(Answers \cup {Empty}) /\ Len(maps') = Len(maps)
  BY <1>1, <1>2, MapsCleaned
<1>4. /\ UNCHANGED <<asyncLoad, timers, requests, others, rooms, place, stack>> /\ ops' \in Nat
  BY DEF DestroyMap, Code, TypeOK
<1>5. TypeOK'
  BY <1>3, <1>4 DEF TypeOK
<1>6. StackOK'
  BY <1>1, <1>3, <1>4 DEF StackOK
<1>7. AtItsStage' /\ Owed' /\ Numbered'
  BY <1>4 DEF AtItsStage, Owed, Numbered, Before
<1> QED BY <1>5, <1>6, <1>7

\* A video that ends is heard of inside the handler that asked.
LEMMA VideoInv ==
    ASSUME IInv, StartVideo \/ EndVideo
    PROVE  IInv'
<1> USE DEF IInv, timers, requests, rooms, place
<1>1. PICK kind \in VideoKinds : Dispatch(kind)
  BY DEF StartVideo, EndVideo, VideoKinds
<1>2. /\ stack # <<>> /\ video' \in Video /\ ops' \in Nat
      /\ UNCHANGED <<timers, requests, picker, pads, rooms, place>>
  <2>1. video \in Video /\ ops \in Nat
    BY DEF TypeOK
  <2>2. [video EXCEPT !.start = TRUE] \in Video /\ [video EXCEPT !.end = TRUE] \in Video
    BY <2>1 DEF Video
  <2>3. video' \in Video
    BY <2>2 DEF StartVideo, EndVideo
  <2>4. ops' \in Nat /\ stack # <<>>
    BY <2>1 DEF StartVideo, EndVideo, Code
  <2>5. UNCHANGED <<timers, requests, picker, pads, rooms, place>>
    BY DEF StartVideo, EndVideo
  <2> QED BY <2>3, <2>4, <2>5
<1>3. /\ stack' \in Seq(Frame) /\ maps' \in Seq(Answers \cup {Empty})
      /\ asyncLoad' \in MapIds(maps') /\ StackOK' /\ (Held(stack') <=> Held(stack))
      /\ stack' # <<>> /\ stack'[Len(stack')] = stack[Len(stack)]
  BY <1>1, <1>2, VideoDispatches
<1>4. TypeOK'
  BY <1>2, <1>3, HeldFacts DEF TypeOK, Held, MapIds
<1>5. AtItsStage' /\ Owed' /\ Numbered'
  BY <1>2, <1>3 DEF AtItsStage, Owed, Numbered, Before
<1> QED BY <1>3, <1>4, <1>5

\* The handler of a video's end returns, and the video counts as closed.
LEMMA VideoEndedInv ==
    ASSUME IInv, VideoEnded
    PROVE  IInv'
<1> USE DEF IInv, timers, requests, rooms, place
<1>1. /\ UNCHANGED <<timers, requests, picker, pads, rooms, place, ops>> /\ video' \in Video
      /\ Over("videoEnd")
  BY DEF VideoEnded, TypeOK, Video
<1>2. /\ stack # <<>> /\ stack' \in Seq(Frame) /\ stack' # <<>>
      /\ stack'[Len(stack')] = stack[Len(stack)]
      /\ maps' \in Seq(Answers \cup {Empty})
      /\ asyncLoad' \in MapIds(maps') /\ StackOK' /\ (Held(stack') <=> Held(stack))
  BY <1>1, VideoOver DEF VideoKinds
<1>3. TypeOK'
  BY <1>1, <1>2, HeldFacts DEF TypeOK, Held, MapIds
<1>4. AtItsStage' /\ Owed' /\ Numbered'
  BY <1>1, <1>2 DEF AtItsStage, Owed, Numbered, Before
<1> QED BY <1>2, <1>3, <1>4

\* Between the two events of a video its first map is destroyed and async_load is what it was.
LEMMA VideoStartedInv ==
    ASSUME IInv, VideoStarted
    PROVE  IInv'
<1> USE DEF IInv, timers, requests, rooms, place
<1>1. /\ stack \in Seq(Frame) /\ maps \in Seq(Answers \cup {Empty}) /\ stack # <<>>
      /\ Nested(stack) /\ MapsHold(stack, maps) /\ stack[1].kind \in VideoKinds
      /\ stack[1].kind = "videoStart"
      /\ UNCHANGED <<timers, requests, picker, pads, rooms, place, ops>> /\ video' \in Video
  BY DEF VideoStarted, TypeOK, StackOK, Top, VideoKinds, Video
<1> DEFINE m1 == Cleaned(stack[1].map)
           s1 == Tail(stack)
<1>2. /\ s1 # <<>> /\ Nested(s1) /\ MapsHold(s1, maps) /\ MapOf(s1) = stack[1].prev
      /\ s1[Len(s1)] = stack[Len(stack)]
  BY <1>1, VideoPopped
<1>3. s1 \in Seq(Frame) /\ 1 \in 1 .. Len(stack)
  BY <1>1, TailFacts
<1>4. stack[1].map + 1 \in 1 .. Len(maps)
  <2>1. stack[1].map # NoMap
    BY <1>1, <1>3 DEF Nested, VideoKinds
  <2>2. stack[1].map \in 0 .. Len(maps) - 1
    BY <1>1, <1>3, <2>1 DEF MapsHold
  <2> QED BY <2>2
<1>5. m1 \in Seq(Answers \cup {Empty}) /\ Len(m1) = Len(maps) /\ MapsHold(s1, m1)
  BY <1>1, <1>2, <1>3, <1>4, MapsCleaned DEF Cleaned
<1>6. (Held(s1) <=> Held(stack)) /\ MapOf(s1) \in MapIds(m1)
  BY <1>1, <1>2, <1>3, <1>5, HeldAtBottom, MapOfType
<1>7. /\ stack' \in Seq(Frame) /\ stack' # <<>> /\ stack'[Len(stack')] = stack[Len(stack)]
      /\ maps' \in Seq(Answers \cup {Empty}) /\ asyncLoad' \in MapIds(maps')
      /\ StackOK' /\ (Held(stack') <=> Held(stack))
  <2>1. CASE video.isOpen /\ ~video.end
    <3> DEFINE f == [kind |-> "videoEnd", map |-> Len(maps), prev |-> Restored(Top),
                     runs |-> ~Blocked]
    <3>1. Restored(Top) = stack[1].prev
      BY <1>1 DEF Restored, Top
    <3>2. /\ stack' = <<f>> \o s1 /\ maps' = Append(m1, "videoEnd") /\ asyncLoad' = Len(maps)
      BY <2>1 DEF VideoStarted, Top
    <3>3. /\ f \in Frame /\ f.kind = "videoEnd" /\ f.map = Len(m1) /\ f.prev = MapOf(s1)
      <4>1. stack[1] \in Frame /\ Len(maps) \in Nat
        BY <1>1, TailFacts, LenProperties
      <4> QED BY <4>1, <3>1, <1>2, <1>5 DEF Frame, Answers, Blocked
    <3> HIDE DEF f, m1, s1
    <3>4. /\ Nested(<<f>> \o s1) /\ MapsHold(<<f>> \o s1, Append(m1, f.kind))
          /\ MapOf(<<f>> \o s1) = Len(m1)
          /\ (<<f>> \o s1)[Len(<<f>> \o s1)] = s1[Len(s1)]
      BY <1>2, <1>3, <1>5, <3>3, VideoPushed DEF VideoKinds
    <3>5. <<f>> \o s1 \in Seq(Frame) /\ <<f>> \o s1 # <<>>
      BY <1>3, <3>3, PushFacts
    <3>6. Held(<<f>> \o s1) <=> Held(s1)
      BY <1>2, <1>3, <3>4, <3>5, HeldAtBottom
    <3>7. Append(m1, "videoEnd") \in Seq(Answers \cup {Empty})
          /\ Len(Append(m1, "videoEnd")) = Len(m1) + 1 /\ Len(m1) \in Nat
      BY <1>3, <1>5, MapsAppended DEF Answers
    <3> QED BY <1>2, <1>5, <1>6, <3>2, <3>3, <3>4, <3>5, <3>6, <3>7 DEF StackOK, MapIds
  <2>2. CASE ~ (video.isOpen /\ ~video.end)
    <3>1. stack' = s1 /\ maps' = m1 /\ asyncLoad' = stack[1].prev
      BY <2>2, <1>1 DEF VideoStarted, Top, Restored
    <3> QED BY <3>1, <1>2, <1>3, <1>5, <1>6 DEF StackOK
  <2> QED BY <2>1, <2>2
<1> HIDE DEF m1, s1
<1>8. TypeOK'
  BY <1>1, <1>7, HeldFacts DEF TypeOK, Held, MapIds
<1>9. AtItsStage' /\ Owed' /\ Numbered'
  BY <1>1, <1>7 DEF AtItsStage, Owed, Numbered, Before
<1> QED BY <1>7, <1>8, <1>9

-------------------------------------------------------------------------------
(* The step                                                                 *)

\* Where the step goes on with no handler running, nothing that handlers look at changes.
LEMMA StageInv ==
    ASSUME IInv, stack = <<>>, UNCHANGED <<timers, queue, pending, nextRequest, answered, lost, answers, stack>>,
           group' \in Int, picker' \in BOOLEAN, pads' \in [1 .. Pads -> BOOLEAN], video' \in Video,
           pendingRoom' \in {"none", "room", "restart"}, persistent' \in BOOLEAN, ops' \in Nat,
           stage' \in Stages, at' \in Nat \ {0}, stage # "saves", stage' # "saves"
    PROVE  IInv'
<1> USE DEF IInv, timers, answers
<1>1. TypeOK'
  BY DEF TypeOK
<1>2. StackOK'
  BY DEF StackOK
<1>3. held = "none"
  BY HeldFacts
<1>4. AtItsStage' /\ Owed' /\ Numbered'
  BY <1>3 DEF AtItsStage, Owed, Numbered, Before
<1> QED BY <1>1, <1>2, <1>4

\* The poll of the gamepads before a step.
LEMMA InputInv ==
    ASSUME IInv, Input
    PROVE  IInv'
<1>1. pads' \in [1 .. Pads -> BOOLEAN]
  BY DEF Input, IInv, TypeOK
<1> QED BY <1>1, StageInv DEF Input, AtStage, GoTo, Stages, requests, rooms, IInv, TypeOK

\* The room change between two steps, or none.
LEMMA EnterRoomInv ==
    ASSUME IInv, EnterRoom
    PROVE  IInv'
  BY StageInv DEF EnterRoom, AtStage, GoTo, Stages, requests, others, IInv, TypeOK

\* Time passes for an entry that is not due.
LEMMA TickEntryInv ==
    ASSUME IInv, TickEntry
    PROVE  IInv'
<1> USE DEF IInv, requests, others, answers, rooms
<1>1. /\ stage = "timers" /\ stack = <<>> /\ at \in 1 .. Len(entries) /\ at' = at + 1
      /\ UNCHANGED <<capacity, held, damaged, requests, others, answers, rooms, stage, stack, ops>>
  <2>1. at \in Nat /\ at >= 1 /\ Len(entries) \in Nat
    BY LenProperties DEF TypeOK, AtItsStage
  <2> QED BY <2>1 DEF TickEntry, AtStage
<1> DEFINE e == [entries[at] EXCEPT !.elapsed = IF entries[at].active THEN @ + 1 ELSE @]
<1>2. /\ e \in Entry /\ e.active = entries[at].active /\ e.repeat = entries[at].repeat
      /\ e.refs = entries[at].refs /\ e.fired = entries[at].fired
  BY <1>1, EntryType DEF Entry
<1>3. entries' = [entries EXCEPT ![at] = e]
  BY DEF TickEntry
<1> HIDE DEF e
<1>4. /\ entries' \in Seq(Entry) /\ Len(entries') = Len(entries) /\ Len(entries) \in Nat
      /\ entries'[at] = e
      /\ \A j \in 1 .. Len(entries) : j # at => entries'[j] = entries[j]
  BY <1>1, <1>2, <1>3, EntryChanged
<1>5. held = "none"
  BY <1>1, HeldFacts
<1>6. TypeOK'
  BY <1>1, <1>4 DEF TypeOK
<1>7. StackOK'
  BY <1>1 DEF StackOK
<1>8. AtItsStage' /\ Numbered'
  <2>1. at' >= 1
    BY <1>1, <1>4
  <2>2. AtItsStage'
    BY <1>1, <1>5, <2>1 DEF AtItsStage
  <2>3. Numbered'
    BY <1>1 DEF Numbered, Before
  <2> QED BY <2>2, <2>3
<1>9. Owed'
  BY <1>1, <1>2, <1>4, <1>5 DEF Owed
<1> QED BY <1>6, <1>7, <1>8, <1>9

\* An entry that is due is called; it has not been, unless it repeats.
LEMMA FireEntryInv ==
    ASSUME IInv, FireEntry
    PROVE  IInv'
<1> USE DEF IInv, requests, others, answers, rooms, place
<1>1. /\ stage = "timers" /\ stack = <<>> /\ at \in 1 .. Len(entries) /\ entries[at].active
      /\ held' = "live" /\ held = "none"
      /\ UNCHANGED <<capacity, damaged, requests, others, answers, rooms, place, ops>>
  <2>1. at \in Nat /\ at >= 1 /\ Len(entries) \in Nat
    BY LenProperties DEF TypeOK, AtItsStage
  <2> QED BY <2>1, HeldFacts DEF FireEntry, AtStage, Due
<1> DEFINE e == [entries[at] EXCEPT !.elapsed = 0, !.fired = IF @ = 2 THEN 2 ELSE @ + 1]
           f == [kind |-> "callback", map |-> NoMap, prev |-> NoMap, runs |-> TRUE]
<1>2. /\ e \in Entry /\ e.active = entries[at].active /\ e.repeat = entries[at].repeat
      /\ e.refs = entries[at].refs
      /\ e.fired = IF entries[at].fired = 2 THEN 2 ELSE entries[at].fired + 1
  <2>1. entries[at] \in Entry /\ entries[at].fired \in 0 .. 2
    BY <1>1, EntryType
  <2>2. (IF entries[at].fired = 2 THEN 2 ELSE entries[at].fired + 1) \in 0 .. 2
    BY <2>1
  <2> QED BY <2>1, <2>2 DEF Entry
<1>3. entries' = [entries EXCEPT ![at] = e] /\ stack' = <<f>>
  BY DEF FireEntry
<1>4. f \in Frame /\ f.kind = "callback" /\ f.map = NoMap
  BY DEF Frame, NoMap
<1> HIDE DEF e, f
<1>5. /\ entries' \in Seq(Entry) /\ Len(entries') = Len(entries) /\ Len(entries) \in Nat
      /\ entries'[at] = e
      /\ \A j \in 1 .. Len(entries) : j # at => entries'[j] = entries[j]
  BY <1>1, <1>2, <1>3, EntryChanged
<1>6. /\ <<f>> \in Seq(Frame) /\ Nested(<<f>>) /\ MapsHold(<<f>>, maps)
      /\ MapOf(<<f>>) = NoMap /\ <<f>>[Len(<<f>>)].kind = "callback" /\ <<f>> # <<>>
  BY <1>4, StepPushed DEF VideoKinds, TypeOK
<1>7. Held(<<f>>)
  BY <1>6, HeldAtBottom
<1>8. TypeOK'
  BY <1>1, <1>3, <1>5, <1>6, <1>7 DEF TypeOK, Held
<1>9. StackOK'
  BY <1>1, <1>3, <1>6 DEF StackOK, MapOf
<1>10. AtItsStage' /\ Numbered'
  BY <1>1, <1>3, <1>5, <1>6 DEF AtItsStage, Numbered, Before, StageOf
<1>11. Owed'
  <2> SUFFICES ASSUME NEW j \in 1 .. Len(entries), j \notin damaged
               PROVE  /\ ~entries'[j].repeat => entries'[j].fired <= 1
                      /\ entries'[j].refs = (IF entries'[j].active THEN 1 ELSE 0)
                      /\ entries'[j].active /\ ~entries'[j].repeat /\ entries'[j].fired = 1
                           => at = j
    BY <1>1, <1>5 DEF Owed
  <2>1. /\ ~entries[j].repeat => entries[j].fired <= 1
        /\ entries[j].refs = (IF entries[j].active THEN 1 ELSE 0)
        /\ ~ (entries[j].active /\ ~entries[j].repeat /\ entries[j].fired = 1)
        /\ entries[j].fired \in 0 .. 2
    BY <1>1, EntryType DEF Owed
  <2>2. CASE j = at
    <3>1. entries'[j] = e /\ e.active = entries[j].active /\ e.repeat = entries[j].repeat
          /\ e.refs = entries[j].refs
      BY <2>2, <1>2, <1>5
    <3>2. ~entries[j].repeat => entries[j].fired = 0
      BY <2>1, <2>2, <1>1
    <3>3. ~entries[j].repeat => e.fired = 1
      BY <3>2, <2>2, <1>2
    <3> QED BY <2>1, <2>2, <3>1, <3>3
  <2>3. CASE j # at
    BY <2>1, <2>3, <1>5
  <2> QED BY <2>2, <2>3
<1> QED BY <1>8, <1>9, <1>10, <1>11

\* A callback that is called once is let go when it returns, and its entry inactive.
LEMMA EndCallbackInv ==
    ASSUME IInv, EndCallback
    PROVE  IInv'
<1> USE DEF IInv, requests, others, answers, rooms
<1>1. /\ stack \in Seq(Frame) /\ stack # <<>> /\ stack[1].kind = "callback" /\ Nested(stack)
      /\ held' = "none" /\ at' = at + 1 /\ stack' = Tail(stack)
      /\ UNCHANGED <<capacity, requests, others, answers, rooms, stage, ops>>
  BY DEF EndCallback, TypeOK, StackOK, Top
<1>2. Tail(stack) = <<>> /\ Len(stack) = 1 /\ stack[Len(stack)].kind = "callback"
  BY <1>1, StepPopped DEF VideoKinds
<1>3. Held(stack) /\ held # "none" /\ at \in 1 .. Len(entries) /\ stage = "timers"
  BY <1>1, <1>2, HeldAtBottom, HeldFacts DEF AtItsStage, StageOf
<1>4. PICK e \in Entry :
         /\ entries' = [entries EXCEPT ![at] = e]
         /\ \/ e = Called(entries[at]) /\ UNCHANGED damaged
            \/ damaged' = damaged \cup {at}
  <2>1. entries[at] \in Entry /\ Called(entries[at]) \in Entry
        /\ \A r \in {0, entries[at].refs} : [entries[at] EXCEPT !.refs = r] \in Entry
    <3>1. entries[at] \in Entry
      BY <1>3, EntryType
    <3>2. Called(entries[at]) \in Entry
      BY <3>1 DEF Entry, Called
    <3> QED BY <3>1, <3>2 DEF Entry
  <2>2. CASE held = "live"
    BY <2>1, <2>2 DEF EndCallback
  <2>3. CASE held # "live"
    <3>1. PICK r \in {0, entries[at].refs} : entries' = [entries EXCEPT ![at].refs = r]
      BY <2>3 DEF EndCallback
    <3>2. [entries EXCEPT ![at].refs = r] = [entries EXCEPT ![at] = [entries[at] EXCEPT !.refs = r]]
      OBVIOUS
    <3> QED BY <2>1, <2>3, <3>1, <3>2 DEF EndCallback
  <2> QED BY <2>2, <2>3
<1>5. /\ entries' \in Seq(Entry) /\ Len(entries') = Len(entries) /\ Len(entries) \in Nat
      /\ entries'[at] = e
      /\ \A j \in 1 .. Len(entries) : j # at => entries'[j] = entries[j]
  BY <1>3, <1>4, EntryChanged
<1>6. damaged \subseteq damaged' /\ damaged' \subseteq Nat
  BY <1>3, <1>4 DEF TypeOK
<1>7. TypeOK'
  <2>1. <<>> \in Seq(Frame) /\ ~ Held(<<>>)
    BY EmptyStack, HeldAtBottom
  <2>2. at' \in Nat
    BY <1>1, <1>3, <1>5
  <2>3. stack' = <<>> /\ ~ Held(stack')
    BY <1>1, <1>2, <2>1
  <2> QED BY <1>1, <1>5, <1>6, <2>1, <2>2, <2>3 DEF TypeOK, Held
<1>8. StackOK'
  <2>1. asyncLoad = NoMap
    BY <1>1, <1>2, <1>3 DEF StackOK, MapOf, Nested
  <2> QED BY <2>1, <1>1, <1>2, EmptyStack DEF StackOK
<1>9. AtItsStage' /\ Numbered'
  BY <1>1, <1>2, <1>3 DEF AtItsStage, Numbered, Before
<1>10. Owed'
  <2> SUFFICES ASSUME NEW j \in 1 .. Len(entries), j \notin damaged'
               PROVE  /\ ~entries'[j].repeat => entries'[j].fired <= 1
                      /\ entries'[j].refs = (IF entries'[j].active THEN 1 ELSE 0)
                      /\ ~ (entries'[j].active /\ ~entries'[j].repeat /\ entries'[j].fired = 1)
    BY <1>1, <1>5 DEF Owed
  <2>1. /\ ~entries[j].repeat => entries[j].fired <= 1
        /\ entries[j].refs = (IF entries[j].active THEN 1 ELSE 0)
        /\ entries[j].active /\ ~entries[j].repeat /\ entries[j].fired = 1 => at = j
        /\ entries[j] \in Entry
    BY <1>6, EntryType DEF Owed
  <2>2. CASE j = at
    <3>1. e = Called(entries[at])
      BY <2>2, <1>4
    <3> QED BY <2>1, <2>2, <3>1, <1>5 DEF Called, Entry
  <2>3. CASE j # at
    BY <2>1, <2>3, <1>5
  <2> QED BY <2>2, <2>3
<1> QED BY <1>7, <1>8, <1>9, <1>10

\* The events of the step.
LEMMA TimersDoneInv ==
    ASSUME IInv, TimersDone
    PROVE  IInv'
<1> USE DEF IInv, timers, requests, others, answers, rooms
<1> DEFINE f == [kind |-> "work", map |-> NoMap, prev |-> NoMap, runs |-> ~Blocked]
<1>1. /\ stage = "timers" /\ stack = <<>> /\ held = "none" /\ stack' = <<f>>
      /\ stage' = "work" /\ at' = 1
      /\ UNCHANGED <<timers, requests, others, answers, rooms, ops>>
  BY HeldFacts DEF TimersDone, AtStage, GoTo
<1>2. f \in Frame /\ f.kind = "work" /\ f.map = NoMap
  BY DEF Frame, NoMap, Blocked
<1> HIDE DEF f
<1>3. /\ <<f>> \in Seq(Frame) /\ Nested(<<f>>) /\ MapsHold(<<f>>, maps)
      /\ MapOf(<<f>>) = NoMap /\ <<f>>[Len(<<f>>)].kind = "work" /\ <<f>> # <<>>
  BY <1>2, StepPushed DEF VideoKinds, TypeOK
<1>4. ~ Held(<<f>>)
  BY <1>3, HeldAtBottom
<1>5. TypeOK'
  BY <1>1, <1>3, <1>4 DEF TypeOK, Held, Stages
<1>6. StackOK'
  BY <1>1, <1>3 DEF StackOK, MapOf
<1>7. AtItsStage' /\ Owed' /\ Numbered'
  BY <1>1, <1>3 DEF AtItsStage, Owed, Numbered, Before, StageOf
<1> QED BY <1>5, <1>6, <1>7

\* The end of the step's own events.
LEMMA EndWorkInv ==
    ASSUME IInv, EndWork
    PROVE  IInv'
<1> USE DEF IInv, timers, requests, others, answers, rooms
<1>1. /\ stack \in Seq(Frame) /\ stack # <<>> /\ stack[1].kind = "work" /\ Nested(stack)
      /\ stack' = Tail(stack) /\ stage' = "pads" /\ at' = 1
      /\ UNCHANGED <<timers, requests, others, answers, rooms, ops>>
  BY DEF EndWork, TypeOK, StackOK, Top, GoTo
<1>2. Tail(stack) = <<>> /\ Len(stack) = 1 /\ stack[Len(stack)].kind = "work"
  BY <1>1, StepPopped DEF VideoKinds
<1>3. ~ Held(stack) /\ held = "none" /\ stage = "work"
  BY <1>1, <1>2, HeldAtBottom, HeldFacts DEF AtItsStage, StageOf
<1>4. TypeOK'
  <2>1. <<>> \in Seq(Frame) /\ ~ Held(<<>>)
    BY EmptyStack, HeldAtBottom
  <2>2. stack' = <<>> /\ ~ Held(stack')
    BY <1>1, <1>2, <2>1
  <2> QED BY <1>1, <1>3, <2>1, <2>2 DEF TypeOK, Held, Stages
<1>5. StackOK'
  <2>1. asyncLoad = NoMap
    BY <1>1, <1>2 DEF StackOK, MapOf, Nested
  <2> QED BY <2>1, <1>1, <1>2, EmptyStack DEF StackOK
<1>6. AtItsStage' /\ Owed' /\ Numbered'
  BY <1>1, <1>2, <1>3 DEF AtItsStage, Owed, Numbered, Before
<1> QED BY <1>4, <1>5, <1>6

\* The event of a gamepad whose connection changed is called ...
LEMMA PadEventInv ==
    ASSUME IInv, PadEvent
    PROVE  IInv'
<1> USE DEF IInv, timers, requests, others, rooms
<1>1. /\ stage = "pads" /\ stack = <<>> /\ held = "none" /\ at \in Nat /\ at >= 1
      /\ UNCHANGED <<timers, requests, others, rooms, stage, ops>>
  BY HeldFacts DEF PadEvent, AtStage, TypeOK, AtItsStage
<1>2. CASE Dispatch("pad") /\ at' = at
  <2>1. /\ stack' \in Seq(Frame) /\ maps' \in Seq(Answers \cup {Empty})
        /\ asyncLoad' \in MapIds(maps') /\ StackOK' /\ ~ Held(stack')
        /\ stack' # <<>> /\ stack'[Len(stack')].kind = "pad"
    BY <1>1, <1>2, StepDispatches
  <2>2. TypeOK'
    BY <1>1, <1>2, <2>1 DEF TypeOK, Held, MapIds
  <2>3. AtItsStage' /\ Owed' /\ Numbered'
    BY <1>1, <1>2, <2>1 DEF AtItsStage, Owed, Numbered, Before, StageOf
  <2> QED BY <2>1, <2>2, <2>3
<1>3. CASE at' = at + 1 /\ UNCHANGED <<answers, stack>>
  BY <1>1, <1>3, StageInv DEF TypeOK
<1> QED BY <1>2, <1>3 DEF PadEvent

\* ... and returns.
LEMMA EndPadEventInv ==
    ASSUME IInv, EndPadEvent
    PROVE  IInv'
<1> USE DEF IInv, timers, requests, others, rooms
<1>1. /\ at' = at + 1 /\ pads' \in [1 .. Pads -> BOOLEAN] /\ at \in Nat /\ at >= 1
      /\ UNCHANGED <<timers, requests, picker, video, rooms, stage, ops>>
  BY DEF EndPadEvent, TypeOK, AtItsStage
<1>2. /\ stack # <<>> /\ stack[Len(stack)].kind = "pad" /\ ~ Held(stack)
      /\ stack' = <<>> /\ maps' \in Seq(Answers \cup {Empty})
      /\ asyncLoad' \in MapIds(maps') /\ StackOK' /\ ~ Held(stack')
  BY StepOver DEF EndPadEvent
<1>3. held = "none" /\ stage = "pads"
  BY <1>2, HeldFacts DEF AtItsStage, StageOf
<1>4. TypeOK'
  BY <1>1, <1>2, <1>3, EmptyStack DEF TypeOK, Held, MapIds
<1>5. AtItsStage' /\ Owed' /\ Numbered'
  BY <1>1, <1>2, <1>3 DEF AtItsStage, Owed, Numbered, Before
<1> QED BY <1>2, <1>4, <1>5

\* The answer of the account picker is called ...
LEMMA DialogEventInv ==
    ASSUME IInv, DialogEvent
    PROVE  IInv'
<1> USE DEF IInv, timers, requests, rooms
<1>1. /\ stage = "pads" /\ stack = <<>> /\ held = "none" /\ stage' = "dialog" /\ at' = 1
      /\ picker' = FALSE
      /\ UNCHANGED <<timers, requests, pads, video, rooms, ops>>
  BY HeldFacts DEF DialogEvent, AtStage, GoTo
<1>2. CASE Dispatch("dialog")
  <2>1. /\ stack' \in Seq(Frame) /\ maps' \in Seq(Answers \cup {Empty})
        /\ asyncLoad' \in MapIds(maps') /\ StackOK' /\ ~ Held(stack')
        /\ stack' # <<>> /\ stack'[Len(stack')].kind = "dialog"
    BY <1>1, <1>2, StepDispatches
  <2>2. TypeOK'
    BY <1>1, <2>1 DEF TypeOK, Held, MapIds, Stages
  <2>3. AtItsStage' /\ Owed' /\ Numbered'
    BY <1>1, <2>1 DEF AtItsStage, Owed, Numbered, Before, StageOf
  <2> QED BY <2>1, <2>2, <2>3
<1>3. CASE UNCHANGED <<answers, stack>>
  <2>1. /\ group' \in Int /\ picker' \in BOOLEAN /\ pads' \in [1 .. Pads -> BOOLEAN]
        /\ video' \in Video /\ pendingRoom' \in {"none", "room", "restart"}
        /\ persistent' \in BOOLEAN /\ ops' \in Nat
    BY <1>1 DEF TypeOK
  <2>2. stage' \in Stages /\ at' \in Nat \ {0} /\ stage # "saves" /\ stage' # "saves"
    BY <1>1 DEF Stages
  <2> QED BY <1>1, <1>3, <2>1, <2>2, StageInv
<1> QED BY <1>2, <1>3 DEF DialogEvent

\* ... and returns.
LEMMA EndDialogEventInv ==
    ASSUME IInv, EndDialogEvent
    PROVE  IInv'
<1> USE DEF IInv, timers, requests, others, rooms, place
<1>1. UNCHANGED <<timers, requests, others, rooms, place, ops>>
  BY DEF EndDialogEvent
<1>2. /\ stack # <<>> /\ stack[Len(stack)].kind = "dialog" /\ ~ Held(stack)
      /\ stack' = <<>> /\ maps' \in Seq(Answers \cup {Empty})
      /\ asyncLoad' \in MapIds(maps') /\ StackOK' /\ ~ Held(stack')
  BY StepOver DEF EndDialogEvent
<1>3. held = "none" /\ stage = "dialog"
  BY <1>2, HeldFacts DEF AtItsStage, StageOf
<1>4. TypeOK'
  BY <1>1, <1>2, <1>3, EmptyStack DEF TypeOK, Held, MapIds
<1>5. AtItsStage' /\ Owed' /\ Numbered'
  BY <1>1, <1>2, <1>3 DEF AtItsStage, Owed, Numbered, Before
<1> QED BY <1>2, <1>4, <1>5

-------------------------------------------------------------------------------
(* The queue of requests                                                    *)

\* The step takes what waits; requests made from now on wait for the next step.
LEMMA TakeQueueInv ==
    ASSUME IInv, TakeQueue
    PROVE  IInv'
<1> USE DEF IInv, timers, others, answers, rooms
<1>1. /\ stage = "dialog" /\ stack = <<>> /\ held = "none" /\ stage' = "saves" /\ at' = 1
      /\ pending' = SubSeq(queue, 1, Len(queue))
      /\ queue' = SubSeq(queue, Len(queue) + 1, Len(queue))
      /\ UNCHANGED <<nextRequest, group, answered, lost, timers, others, answers, rooms, stack, ops>>
  BY HeldFacts DEF TakeQueue, AtStage, GoTo, Taken
<1>2. queue \in Seq(Nat) /\ Len(queue) \in Nat /\ answered \in Seq(Nat) /\ Len(answered) \in Nat
  BY DEF TypeOK
<1>3. pending' = queue
  BY <1>1, <1>2, SubSeqFull
<1>4. queue' = <<>>
  BY <1>1, <1>2, SubSeqEmpty
<1>5. TypeOK'
  BY <1>1, <1>2, <1>3, <1>4 DEF TypeOK, Stages
<1>6. StackOK'
  BY <1>1 DEF StackOK
<1>7. AtItsStage' /\ Owed'
  BY <1>1, <1>2, <1>3 DEF AtItsStage, Owed
<1>8. Numbered'
  <2>1. pending = <<>> /\ Len(pending) = 0 /\ Before = Len(answered)
    BY <1>1 DEF Numbered, Before
  <2>2. Before' = Len(answered)
    BY <1>1, <1>2 DEF Before
  <2>3. Len(queue') = 0
    BY <1>4
  <2> QED BY <1>1, <1>2, <1>3, <2>1, <2>2, <2>3 DEF Numbered
<1> QED BY <1>5, <1>6, <1>7, <1>8

\* A request is answered when its event is sent.
LEMMA SaveEventInv ==
    ASSUME IInv, SaveEvent
    PROVE  IInv'
<1> USE DEF IInv, timers, others, rooms, place
<1>1. /\ stage = "saves" /\ stack = <<>> /\ held = "none"
      /\ at <= Len(pending) /\ at >= 1 /\ at \in Nat /\ Len(pending) \in Nat
      /\ answered \in Seq(Nat) /\ Len(answered) \in Nat /\ pending \in Seq(Nat)
      /\ answered' = Append(answered, pending[at])
      /\ lost' \in {lost, lost \cup {pending[at]}}
      /\ UNCHANGED <<queue, pending, nextRequest, group, timers, others, rooms, place, ops>>
  BY HeldFacts DEF SaveEvent, AtStage, TypeOK, AtItsStage
<1>2. /\ stack' \in Seq(Frame) /\ maps' \in Seq(Answers \cup {Empty})
      /\ asyncLoad' \in MapIds(maps') /\ StackOK' /\ ~ Held(stack')
      /\ stack' # <<>> /\ stack'[Len(stack')].kind = "save"
  BY <1>1, StepDispatches DEF SaveEvent
<1>3. pending[at] \in Nat /\ at \in 1 .. Len(pending)
  BY <1>1, ElementOfSeq
<1>4. /\ answered' \in Seq(Nat) /\ Len(answered') = Len(answered) + 1
      /\ answered'[Len(answered) + 1] = pending[at]
      /\ \A j \in 1 .. Len(answered) : answered'[j] = answered[j]
  BY <1>1, <1>3, AppendProperties
<1>l. lost' \subseteq Nat
  BY <1>1, <1>3 DEF TypeOK
<1>5. TypeOK'
  BY <1>1, <1>2, <1>4, <1>l DEF TypeOK, Held, MapIds
<1>6. AtItsStage' /\ Owed'
  BY <1>1, <1>2 DEF AtItsStage, Owed, StageOf
<1>7. Numbered'
  <2>1. Before' = Before /\ Before = Len(answered) + 1 - at /\ Before \in Int
    BY <1>1, <1>2, <1>4 DEF Before
  <2>2. pending[at] = Len(answered) + 1
    BY <1>1, <1>3, <2>1 DEF Numbered
  <2>3. \A j \in 1 .. Len(answered') : answered'[j] = j
    BY <1>1, <1>4, <2>2 DEF Numbered
  <2> QED BY <1>1, <2>1, <2>3 DEF Numbered
<1> QED BY <1>2, <1>5, <1>6, <1>7

\* The handler of an answered request returns, and the next one is due.
LEMMA EndSaveEventInv ==
    ASSUME IInv, EndSaveEvent
    PROVE  IInv'
<1> USE DEF IInv, timers, requests, others, rooms
<1>1. /\ at' = at + 1 /\ at \in Nat /\ at >= 1 /\ Len(pending) \in Nat
      /\ UNCHANGED <<timers, requests, others, rooms, stage, ops>>
  BY DEF EndSaveEvent, TypeOK, AtItsStage
<1>2. /\ stack # <<>> /\ stack[Len(stack)].kind = "save" /\ ~ Held(stack)
      /\ stack' = <<>> /\ maps' \in Seq(Answers \cup {Empty})
      /\ asyncLoad' \in MapIds(maps') /\ StackOK' /\ ~ Held(stack')
  BY StepOver DEF EndSaveEvent
<1>3. held = "none" /\ stage = "saves"
  BY <1>2, HeldFacts DEF AtItsStage, StageOf
<1>4. TypeOK'
  BY <1>1, <1>2, <1>3, EmptyStack DEF TypeOK, Held, MapIds
<1>5. AtItsStage' /\ Owed'
  BY <1>1, <1>2, <1>3 DEF AtItsStage, Owed
<1>6. Numbered'
  <2>1. Before' = Before
    BY <1>1, <1>2, <1>3 DEF Before
  <2> QED BY <1>1, <1>3, <2>1 DEF Numbered
<1> QED BY <1>2, <1>4, <1>5, <1>6

\* When all that was taken is answered, what waits is next.
LEMMA EndSavesInv ==
    ASSUME IInv, EndSaves
    PROVE  IInv'
<1> USE DEF IInv, timers, others, answers, rooms
<1>1. /\ stage = "saves" /\ stack = <<>> /\ held = "none" /\ stage' = "room" /\ at' = 1
      /\ at > Len(pending) /\ at \in Nat /\ at <= Len(pending) + 1
      /\ Len(pending) \in Nat /\ Len(answered) \in Nat
      /\ pending' = <<>> /\ queue' = queue
      /\ UNCHANGED <<nextRequest, group, answered, lost, timers, others, answers, rooms, stack, ops>>
  BY HeldFacts DEF EndSaves, AtStage, GoTo, Left, TypeOK, AtItsStage
<1>2. TypeOK'
  BY <1>1 DEF TypeOK, Stages
<1>3. StackOK'
  BY <1>1 DEF StackOK
<1>4. AtItsStage' /\ Owed'
  BY <1>1 DEF AtItsStage, Owed
<1>5. Numbered'
  <2>1. Before' = Len(answered) /\ Before + Len(pending) = Len(answered) /\ Before \in Int
    BY <1>1 DEF Before
  <2>2. Len(pending') = 0
    BY <1>1
  <2>3. Len(queue) \in Nat
    BY DEF TypeOK
  <2>4. \A j \in 1 .. Len(queue) : queue[j] = Len(answered) + j
    BY <2>1, <1>1 DEF Numbered
  <2>5. nextRequest = Len(answered) + Len(queue) + 1
    BY <2>1, <2>3, <1>1 DEF Numbered
  <2>6. \A j \in 1 .. Len(answered) : answered[j] = j
    BY DEF Numbered
  <2> QED BY <1>1, <2>1, <2>2, <2>3, <2>4, <2>5, <2>6 DEF Numbered
<1> QED BY <1>2, <1>3, <1>4, <1>5

\* game_restart drops everything that was asked for.
LEMMA ResetInv ==
    ASSUME IInv, Reset
    PROVE  IInv'
<1> USE DEF IInv
<1>1. /\ stack = <<>> /\ stage' = "input" /\ at' = 1 /\ pendingRoom' = "none" /\ persistent' \in BOOLEAN
      /\ entries' = <<>> /\ capacity' = 0 /\ held' = "none" /\ damaged' = {}
      /\ queue' = <<>> /\ pending' = <<>> /\ nextRequest' = 1 /\ group' = -1 /\ answered' = <<>> /\ lost' = {}
      /\ picker' = FALSE /\ maps' = <<>> /\ asyncLoad' = NoMap
      /\ UNCHANGED <<pads, video, stack, ops>>
  BY DEF Reset, AtStage, GoTo
<1>2. Len(<<>>) = 0 /\ ~ Held(<<>>)
  BY EmptyStack, HeldAtBottom
<1>3. TypeOK'
  <2>1. pads' \in [1 .. Pads -> BOOLEAN] /\ video' \in Video /\ ops' \in Nat
    BY <1>1 DEF TypeOK
  <2>2. stack' \in Seq(Frame) /\ ~ Held(stack')
    BY <1>1, <1>2 DEF TypeOK
  <2>3. (\A k \in 1 .. Len(stack') : stack'[k].kind # "callback")
    BY <2>2 DEF Held
  <2>4. <<>> \in Seq(Entry) /\ <<>> \in Seq(Nat) /\ <<>> \in Seq(Answers \cup {Empty})
    OBVIOUS
  <2>5. "input" \in Stages /\ NoMap \in {NoMap} \cup 0 .. Len(maps') - 1 /\ -1 \in Int
    BY DEF Stages
  <2>6. Len(entries') <= capacity'
    BY <1>1, <1>2
  <2> QED BY <1>1, <2>1, <2>2, <2>3, <2>4, <2>5, <2>6 DEF TypeOK
<1>4. StackOK'
  BY <1>1, EmptyStack DEF StackOK
<1>5. AtItsStage' /\ Owed' /\ Numbered'
  BY <1>1, <1>2 DEF AtItsStage, Owed, Numbered, Before
<1> QED BY <1>3, <1>4, <1>5

\* No step has begun.
LEMMA InitInv == Init => IInv
<1> SUFFICES ASSUME Init PROVE IInv
  OBVIOUS
<1> USE DEF Init
<1>1. Len(<<>>) = 0 /\ ~ Held(<<>>)
  BY EmptyStack, HeldAtBottom
<1>2. TypeOK
  <2>1. pads \in [1 .. Pads -> BOOLEAN] /\ video \in Video
    BY DEF Video, Closed
  <2>2. stack \in Seq(Frame) /\ ~ Held(stack)
    BY <1>1
  <2>3. (\A k \in 1 .. Len(stack) : stack[k].kind # "callback")
    BY <2>2 DEF Held
  <2>4. <<>> \in Seq(Entry) /\ <<>> \in Seq(Nat) /\ <<>> \in Seq(Answers \cup {Empty})
    OBVIOUS
  <2>5. "input" \in Stages /\ NoMap \in {NoMap} \cup 0 .. Len(maps) - 1 /\ -1 \in Int
    BY DEF Stages
  <2>6. Len(entries) <= capacity
    BY <1>1
  <2> QED BY <1>1, <2>1, <2>2, <2>3, <2>4, <2>5, <2>6 DEF TypeOK
<1>3. StackOK
  BY EmptyStack DEF StackOK
<1>4. AtItsStage /\ Owed /\ Numbered
  BY <1>1 DEF AtItsStage, Owed, Numbered, Before
<1> QED BY <1>2, <1>3, <1>4 DEF IInv

-------------------------------------------------------------------------------
(* The theorems                                                             *)

\* Handlers, entries and requests stay in order, whatever game code does in the middle of a
\* step.
THEOREM StepConsistent == Spec => []IInv
<1>1. ASSUME IInv, [Next]_vars PROVE IInv'
  <2>1. CASE GameCode
    <3>1. CASE CallLater \/ CallCancel \/ DestroyMap
      BY <1>1, <3>1, CallLaterInv, CallCancelInv, DestroyMapInv
    <3>2. CASE SaveAsync \/ GroupEnd
      BY <1>1, <3>2, RequestInv
    <3>3. CASE GroupBegin \/ ShowPicker \/ OpenVideo \/ CloseVideo \/ RoomGoto \/ GameRestart
      BY <1>1, <3>3, QuietCodeInv
    <3>4. CASE StartVideo \/ EndVideo
      BY <1>1, <3>4, VideoInv
    <3> QED BY <2>1, <3>1, <3>2, <3>3, <3>4 DEF GameCode
  <2>2. CASE MainLoop
    <3>1. CASE VideoStarted \/ VideoEnded \/ Input \/ TickEntry \/ FireEntry \/ EndCallback \/ TimersDone
      BY <1>1, <3>1, VideoStartedInv, VideoEndedInv, InputInv, TickEntryInv, FireEntryInv,
         EndCallbackInv, TimersDoneInv
    <3>2. CASE EndWork \/ PadEvent \/ EndPadEvent \/ DialogEvent \/ EndDialogEvent \/ TakeQueue
      BY <1>1, <3>2, EndWorkInv, PadEventInv, EndPadEventInv, DialogEventInv, EndDialogEventInv,
         TakeQueueInv
    <3>3. CASE SaveEvent \/ EndSaveEvent \/ EndSaves \/ EnterRoom \/ Reset
      BY <1>1, <3>3, SaveEventInv, EndSaveEventInv, EndSavesInv, EnterRoomInv, ResetInv
    <3> QED BY <2>2, <3>1, <3>2, <3>3 DEF MainLoop
  <2>3. CASE UNCHANGED vars
    BY <1>1, <2>3, SMTT(30) DEF vars, timers, requests, others, answers, rooms, place, IInv, TypeOK, StackOK,
                      AtItsStage, Owed, Numbered, Before
  <2> QED BY <1>1, <2>1, <2>2, <2>3 DEF Next
<1> QED BY <1>1, InitInv, PTL DEF Spec

\* The variables keep their types; async_load is unset or the id of a map.
THEOREM TypeCorrect == Spec => []TypeOK
<1>1. IInv => TypeOK
  BY DEF IInv
<1> QED BY <1>1, StepConsistent, PTL

\* call_later keeps its promise for any number of entries, however callbacks arm and cancel,
\* for every entry that the step retires through a pointer that still points to it.
THEOREM EveryCallbackOnce == Spec => []CallbacksOnce
<1>1. ASSUME IInv PROVE CallbacksOnce
  <2> USE <1>1 DEF IInv
  <2>1. DOMAIN entries = 1 .. Len(entries)
    BY LenProperties DEF TypeOK
  <2>2. held # "none" => stack # <<>>
    BY HeldFacts
  <2> QED BY <2>1, <2>2 DEF CallbacksOnce, Owed
<1> QED BY <1>1, StepConsistent, PTL

\* Every request is taken up once and in the order made, for any number of requests.
THEOREM RequestsAnsweredInOrder == Spec => []AnsweredInOrder
<1>1. ASSUME IInv PROVE AnsweredInOrder
  <2> USE <1>1 DEF IInv
  <2> DEFINE walked == IF stack # <<>> THEN at + 1 ELSE at
             rest == IF stage = "saves" THEN SubSeq(pending, walked, Len(pending)) ELSE <<>>
             all == answered \o rest \o queue
             numbers == [r \in 1 .. nextRequest - 1 |-> r]
  <2>1. /\ answered \in Seq(Nat) /\ pending \in Seq(Nat) /\ queue \in Seq(Nat) /\ at \in Nat
        /\ Len(answered) \in Nat /\ Len(pending) \in Nat /\ Len(queue) \in Nat /\ nextRequest \in Nat
        /\ walked \in Nat
    BY DEF TypeOK
  <2>2. /\ rest \in Seq(Nat) /\ Len(rest) = Before + Len(pending) - Len(answered)
        /\ \A j \in 1 .. Len(rest) : rest[j] = Len(answered) + j
    <3>1. CASE stage = "saves"
      <4>1. Before = Len(answered) + 1 - walked /\ walked >= 1 /\ walked <= Len(pending) + 1
        BY <3>1, <2>1 DEF Before, AtItsStage
      <4>2. \A j \in walked .. Len(pending) : pending[j] \in Nat
        BY <4>1, <2>1, ElementOfSeq
      <4>3. /\ SubSeq(pending, walked, Len(pending)) \in Seq(Nat)
            /\ Len(SubSeq(pending, walked, Len(pending))) = Len(pending) - walked + 1
            /\ \A j \in 1 .. Len(pending) - walked + 1 :
                  SubSeq(pending, walked, Len(pending))[j] = pending[walked + j - 1]
        <5> HIDE DEF walked
        <5>1. walked \in Int /\ Len(pending) \in Int
          BY <2>1
        <5>2. /\ SubSeq(pending, walked, Len(pending)) \in Seq(Nat)
              /\ Len(SubSeq(pending, walked, Len(pending))) =
                    IF walked <= Len(pending) THEN Len(pending) - walked + 1 ELSE 0
              /\ \A j \in 1 .. Len(pending) - walked + 1 :
                    SubSeq(pending, walked, Len(pending))[j] = pending[walked + j - 1]
          BY <4>2, <5>1, SubSeqProperties
        <5> QED BY <4>1, <5>1, <5>2
      <4>4. rest = SubSeq(pending, walked, Len(pending))
        BY <3>1
      <4> HIDE DEF walked, rest
      <4>5. ASSUME NEW j \in 1 .. Len(pending) - walked + 1
            PROVE  pending[walked + j - 1] = Len(answered) + j
        <5>1. walked + j - 1 \in 1 .. Len(pending)
          BY <4>1, <2>1
        <5>2. pending[walked + j - 1] = Before + (walked + j - 1)
          BY <5>1 DEF Numbered
        <5> QED BY <5>2, <4>1, <2>1
      <4>6. Len(rest) = Len(pending) - walked + 1
        BY <4>3, <4>4
      <4>7. Len(rest) = Before + Len(pending) - Len(answered)
        BY <4>1, <4>6, <2>1
      <4>8. \A j \in 1 .. Len(rest) : rest[j] = Len(answered) + j
        BY <4>3, <4>4, <4>5, <4>6
      <4> QED BY <4>3, <4>4, <4>7, <4>8
    <3>2. CASE stage # "saves"
      BY <3>2, <2>1 DEF Numbered, Before
    <3> QED BY <3>1, <3>2
  <2>3. Before \in Int
    BY <2>1 DEF Before
  <2> HIDE DEF walked, rest
  <2>4. /\ answered \o rest \in Seq(Nat) /\ Len(answered \o rest) = Before + Len(pending)
        /\ \A j \in 1 .. Len(answered \o rest) : (answered \o rest)[j] = j
    <3>1. /\ answered \o rest \in Seq(Nat) /\ Len(answered \o rest) = Len(answered) + Len(rest)
          /\ \A j \in 1 .. Len(answered) + Len(rest) : (answered \o rest)[j] =
                IF j <= Len(answered) THEN answered[j] ELSE rest[j - Len(answered)]
          /\ Len(rest) \in Nat
      <4>1. Len(rest) \in Nat
        BY <2>2, LenProperties
      <4> QED BY <4>1, <2>1, <2>2, ConcatProperties
    <3>2. ASSUME NEW j \in 1 .. Len(answered) + Len(rest) PROVE (answered \o rest)[j] = j
      <4>1. CASE j <= Len(answered)
        BY <4>1, <3>1, <2>1 DEF Numbered
      <4>2. CASE j > Len(answered)
        <5>1. j - Len(answered) \in 1 .. Len(rest)
          BY <4>2, <3>1, <2>1
        <5> QED BY <5>1, <4>2, <3>1, <2>1, <2>2
      <4> QED BY <4>1, <4>2, <2>1, <3>1
    <3> QED BY <3>1, <3>2, <2>1, <2>2, <2>3
  <2>5. /\ all \in Seq(Nat) /\ Len(all) = nextRequest - 1
        /\ \A j \in 1 .. nextRequest - 1 : all[j] = j
    <3> DEFINE front == answered \o rest
    <3>1. front \in Seq(Nat) /\ Len(front) = Before + Len(pending) /\ Len(front) \in Nat
          /\ \A j \in 1 .. Len(front) : front[j] = j
      BY <2>4, LenProperties
    <3>2. all = front \o queue
      OBVIOUS
    <3> HIDE DEF front, all
    <3>3. /\ all \in Seq(Nat) /\ Len(all) = Len(front) + Len(queue)
          /\ \A j \in 1 .. Len(front) + Len(queue) : all[j] =
                IF j <= Len(front) THEN front[j] ELSE queue[j - Len(front)]
      BY <2>1, <3>1, <3>2, ConcatProperties
    <3>4. Len(all) = nextRequest - 1
      BY <2>1, <3>1, <3>3 DEF Numbered
    <3>5. ASSUME NEW j \in 1 .. Len(front) + Len(queue) PROVE all[j] = j
      <4>1. CASE j <= Len(front)
        BY <4>1, <3>1, <3>3
      <4>2. CASE j > Len(front)
        <5>1. j - Len(front) \in 1 .. Len(queue)
          BY <4>2, <3>1, <2>1
        <5>2. queue[j - Len(front)] = Len(front) + (j - Len(front))
          BY <5>1, <3>1 DEF Numbered
        <5> QED BY <5>2, <4>2, <3>1, <3>3
      <4> QED BY <4>1, <4>2, <3>1, <2>1
    <3> QED BY <3>3, <3>4, <3>5
  <2> HIDE DEF all
  <2>6. nextRequest - 1 \in Nat
    BY <2>5, LenProperties
  <2>7. numbers \in Seq(Nat) /\ Len(numbers) = nextRequest - 1
        /\ \A j \in 1 .. nextRequest - 1 : numbers[j] = j
    BY <2>6
  <2>8. all = numbers
    <3> HIDE DEF numbers
    <3> QED BY <2>5, <2>7, SeqEqual
  <2> QED BY <2>8 DEF AnsweredInOrder, all, rest, walked
<1> QED BY <1>1, StepConsistent, PTL

\* In a handler, async_load names the map of its event, at any depth of handlers.
THEOREM AsyncLoadNamesTheMap == Spec => []AsyncLoadIsTheEvents
<1>1. ASSUME IInv PROVE AsyncLoadIsTheEvents
  <2> USE <1>1 DEF IInv
  <2>1. CASE stack = <<>>
    BY <2>1 DEF AsyncLoadIsTheEvents, StackOK, MapOf
  <2>2. CASE stack # <<>>
    <3>1. 1 \in 1 .. Len(stack)
      BY <2>2, TailFacts DEF TypeOK
    <3> QED BY <2>2, <3>1 DEF AsyncLoadIsTheEvents, StackOK, MapOf, MapsHold, Top
  <2> QED BY <2>1, <2>2
<1> QED BY <1>1, StepConsistent, PTL
===============================================================================
