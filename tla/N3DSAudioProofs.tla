--------------------------- MODULE N3DSAudioProofs ---------------------------
(* Theorems about N3DSAudio, for every number of slots, channels and buffers, *)
(* every length of a stream and every set of sounds.                          *)
EXTENDS N3DSAudio, FiniteSetTheorems, WellFoundedInduction, SequenceTheorems, TLAPS

-------------------------------------------------------------------------------
(* The inductive invariant                                                  *)

Statuses == {"free", "busy", "done"}
SlotType ==
    [active: BOOLEAN, sound: Sounds \cup {"none"}, loop: BOOLEAN, stream: BOOLEAN, paused: BOOLEAN,
     finished: BOOLEAN, channels: Seq(Channels), status: [Lanes -> [Buffers -> Statuses]],
     chunk: [Buffers -> Silence .. NumChunks - 1], cursor: 0 .. NumChunks, generation: Nat,
     fill: Fill]
Entries == Slots \X Lanes \X Buffers
Heard == Silence .. NumChunks - 1

\* A slot has at most two channels, and two are not the same.
Paired(sl) ==
    /\ Len(sl.channels) <= 2
    /\ \A j, k \in LanesOf(sl) : sl.channels[j] = sl.channels[k] => j = k

\* Both lanes have a buffer free at the same time, and the buffer that is asked for,
\* being filled or full of an answer is free.
LanesAgree(sl) == \A b \in Buffers : sl.status[1][b] = "free" => sl.status[2][b] = "free"
FillIsFree(sl) == sl.fill.phase # "none" => sl.status[1][sl.fill.buffer] = "free"

\* The cursor is where the stream goes on after chunk c.
Reaches(sl, c) == sl.cursor = c + 1 \/ (c = NumChunks - 1 /\ sl.loop /\ sl.cursor = LoopStart)
\* An answer that waits is for the cursor.
FillIsNext(sl) ==
    sl.active /\ sl.stream /\ sl.fill.phase = "ready" /\ sl.fill.success =>
        /\ CanFill(sl, sl.cursor)
        /\ sl.fill.start = ChunkAt(sl.cursor) /\ sl.fill.next = After(sl, sl.cursor)

\* What a channel has to play is of its slot, busy there, and no buffer twice.
Owed(s, k, sl, q) ==
    /\ \A i \in 1 .. Len(q) : q[i][1] = s /\ q[i][2] = k /\ sl.status[k][q[i][3]] = "busy"
    /\ \A i, j \in 1 .. Len(q) : q[i][3] = q[j][3] => i = j
\* What it has played and has to play goes on without a gap up to the cursor.
InOrder(sl, q, last) ==
    /\ \A i \in 1 .. Len(q) - 1 : Follows(sl, sl.chunk[q[i][3]], sl.chunk[q[i + 1][3]])
    /\ q # <<>> => Reaches(sl, sl.chunk[q[Len(q)][3]])
    /\ last # Silence => IF q = <<>> THEN Reaches(sl, last) ELSE Follows(sl, last, sl.chunk[q[1][3]])

Lane(s, k, sl, q, last) ==
    /\ Owed(s, k, sl, q)
    /\ sl.active /\ sl.stream => InOrder(sl, q, last)

\* All that is true of a slot, with the queues q and the chunks h it was last heard at.
Good(s, sl, q, h) ==
    /\ sl \in SlotType /\ Paired(sl) /\ LanesAgree(sl) /\ FillIsFree(sl) /\ FillIsNext(sl)
    /\ sl.active <=> sl.channels # <<>>
    /\ \A k \in LanesOf(sl) : Lane(s, k, sl, q[sl.channels[k]], h[k])

Sounding ==
    /\ queue \in [Channels -> Seq(Entries)]
    /\ slot \in [Slots -> SlotType] /\ heard \in [Slots -> [Lanes -> Heard]]
    /\ inUse = UNION {ToSet(slot[s].channels) : s \in Slots}
    /\ \A s, t \in Slots : s # t => ToSet(slot[s].channels) \cap ToSet(slot[t].channels) = {}
    /\ \A c \in Channels : queue[c] # <<>> => c \in inUse
    /\ \A s \in Slots : Good(s, slot[s], queue, heard[s])

MainOps == {"none", "play", "stop", "seek", "destroyStream", "update"}
MainType ==
    [pc: {"idle", "locked", "asleep", "woken", "joining", "gone"}, op: MainOps,
     todo: SUBSET Slots, sound: Sounds \cup {"none"}, loop: BOOLEAN, slot: Slots,
     target: 0 .. NumChunks, buffer: 1 .. NumBuffers + 1, queued: BOOLEAN]
WorkerType ==
    [pc: {"wait", "pick", "fill", "scan", "load", "exit"}, slot: Slots, buffer: Buffers,
     generation: Nat, cursor: 0 .. NumChunks]
Counters ==
    /\ refs \in [Streams -> Nat] /\ attempted \subseteq Effects /\ pending \in 0 .. PrewarmCount
    /\ main \in MainType /\ (main.op = "play" => main.sound \in Sounds)
    /\ worker \in WorkerType

\* The answer that the worker reads is the one the slot waits for, at its cursor.
Filling ==
    worker.pc = "fill" =>
        LET sl == slot[worker.slot] IN
        /\ workerEnabled /\ sl.active /\ sl.stream
        /\ sl.fill.phase = "inProgress" /\ sl.fill.buffer = worker.buffer
        /\ sl.cursor = worker.cursor

Inv == Sounding /\ Counters /\ Filling

-------------------------------------------------------------------------------
(* Lemmas                                                                   *)

LEMMA LeastOf ==
    ASSUME NEW S \in SUBSET Nat, S # {}
    PROVE  Min(S) \in S
<1> DEFINE R == OpToRel(<, Nat)
<1>1. IsWellFoundedOn(R, Nat) BY NatLessThanWellFounded
<1>2. \A x, y \in Nat : <<x, y>> \in R <=> x < y BY DEF OpToRel
<1> HIDE DEF R
<1>3. PICK x \in S : \A y \in S : ~(<<y, x>> \in R) BY <1>1, WFMin
<1>4. \A y \in S : ~(y < x) BY <1>2, <1>3
<1>5. x \in Int /\ S \subseteq Int OBVIOUS
<1>6. \A y \in S : x <= y BY <1>4, <1>5, SMT
<1> QED BY <1>6 DEF Min

LEMMA LeastSlot == \A S \in SUBSET Slots : S # {} => Min(S) \in S
BY LeastOf, AudioAssumption DEF Slots

LEMMA SlotOne == 1 \in Slots /\ 1 \in Buffers
BY AudioAssumption DEF Slots, Buffers

\* The voices of a slot: each lane has its own channel, and there are at most two.
LEMMA Voices ==
    ASSUME NEW sl \in SlotType, Paired(sl)
    PROVE  /\ LanesOf(sl) \subseteq Lanes /\ sl.channels \in Seq(Channels)
           /\ \A k \in LanesOf(sl) : sl.channels[k] \in ToSet(sl.channels) /\ sl.channels[k] \in Channels
           /\ \A c \in ToSet(sl.channels) : \E k \in LanesOf(sl) : sl.channels[k] = c
           /\ \A k \in LanesOf(sl) : (CHOOSE j \in LanesOf(sl) : sl.channels[j] = sl.channels[k]) = k
           /\ sl.channels # <<>> <=> 1 \in LanesOf(sl)
<1>1. sl.channels \in Seq(Channels) BY DEF SlotType
<1>2. Len(sl.channels) \in {0, 1, 2}
  <2>1. Len(sl.channels) \in Nat BY <1>1
  <2>2. Len(sl.channels) <= 2 BY DEF Paired
  <2>3. \A n \in Nat : n <= 2 => n \in {0, 1, 2} OBVIOUS
  <2> QED BY <2>1, <2>2, <2>3
<1>3. LanesOf(sl) \subseteq Lanes
  <2>1. \A n \in {0, 1, 2} : 1 .. n \subseteq {1, 2} OBVIOUS
  <2> QED BY <1>2, <2>1 DEF LanesOf, Lanes
<1>4. \A k \in LanesOf(sl) : sl.channels[k] \in ToSet(sl.channels) /\ sl.channels[k] \in Channels
  BY <1>1 DEF LanesOf, ToSet
<1>5. \A c \in ToSet(sl.channels) : \E k \in LanesOf(sl) : sl.channels[k] = c
  BY <1>1 DEF LanesOf, ToSet
<1>6. ASSUME NEW k \in LanesOf(sl)
      PROVE  (CHOOSE j \in LanesOf(sl) : sl.channels[j] = sl.channels[k]) = k
  <2> DEFINE j == CHOOSE j \in LanesOf(sl) : sl.channels[j] = sl.channels[k]
  <2>1. j \in LanesOf(sl) /\ sl.channels[j] = sl.channels[k] OBVIOUS
  <2> QED BY <2>1 DEF Paired
<1>7. sl.channels # <<>> <=> 1 \in LanesOf(sl) BY <1>1, <1>2 DEF LanesOf
<1> QED BY <1>1, <1>3, <1>4, <1>5, <1>6, <1>7

Silent == [k \in Lanes |-> Silence]

LEMMA EmptyIsGood ==
    ASSUME NEW s, NEW q
    PROVE  EmptySlot \in SlotType /\ EmptySlot.channels = <<>> /\ Good(s, EmptySlot, q, Silent)
<1>1. NoFill \in Fill BY SlotOne, AudioAssumption DEF NoFill, Fill
<1>2. <<>> \in Seq(Channels) OBVIOUS
<1>3. [k \in Lanes |-> [b \in Buffers |-> "free"]] \in [Lanes -> [Buffers -> Statuses]] BY DEF Statuses
<1>4. [b \in Buffers |-> Silence] \in [Buffers -> Silence .. NumChunks - 1]
  BY AudioAssumption DEF Silence
<1>5. EmptySlot \in SlotType
  BY <1>1, <1>2, <1>3, <1>4, AudioAssumption DEF EmptySlot, SlotType
<1>6. EmptySlot.channels = <<>> BY DEF EmptySlot
<1>7. LanesOf(EmptySlot) = {} BY <1>6 DEF LanesOf
<1>8. Paired(EmptySlot) BY <1>6, <1>7 DEF Paired
<1>9. LanesAgree(EmptySlot) BY DEF LanesAgree, EmptySlot, Lanes
<1>10. FillIsFree(EmptySlot) /\ FillIsNext(EmptySlot)
  BY DEF FillIsFree, FillIsNext, EmptySlot, NoFill
<1>11. ~ EmptySlot.active BY DEF EmptySlot
<1> QED BY <1>5, <1>6, <1>7, <1>8, <1>9, <1>10, <1>11 DEF Good

\* A step that changes one slot, its channels and what it is heard at.
LEMMA OneSlotChanges ==
    ASSUME Sounding, NEW s \in Slots, NEW sl, NEW q, NEW h \in [Lanes -> Heard],
           q \in [Channels -> Seq(Entries)],
           Good(s, sl, q, h),
           \A t \in Slots \ {s} : ToSet(sl.channels) \cap ToSet(slot[t].channels) = {},
           \A c \in Channels \ (ToSet(slot[s].channels) \cup ToSet(sl.channels)) : q[c] = queue[c],
           \A c \in ToSet(slot[s].channels) \ ToSet(sl.channels) : q[c] = <<>>,
           slot' = [slot EXCEPT ![s] = sl], queue' = q, heard' = [heard EXCEPT ![s] = h],
           inUse' = (inUse \ ToSet(slot[s].channels)) \cup ToSet(sl.channels)
    PROVE  Sounding'
<1> USE DEF Sounding
<1>1. sl \in SlotType BY DEF Good
<1>2. slot' \in [Slots -> SlotType] /\ heard' \in [Slots -> [Lanes -> Heard]] BY <1>1
<1>3. slot'[s] = sl /\ heard'[s] = h OBVIOUS
<1>4. \A t \in Slots \ {s} : slot'[t] = slot[t] /\ heard'[t] = heard[t] OBVIOUS
<1>5. inUse' = UNION {ToSet(slot'[t].channels) : t \in Slots}
  <2>1. \A c : c \in inUse <=> \E t \in Slots : c \in ToSet(slot[t].channels) OBVIOUS
  <2>2. ASSUME NEW c PROVE c \in inUse' <=> \E t \in Slots : c \in ToSet(slot'[t].channels)
    <3>1. CASE c \in ToSet(sl.channels) BY <3>1, <1>3
    <3>2. CASE c \notin ToSet(sl.channels)
      <4>1. c \in inUse' <=> c \in inUse /\ c \notin ToSet(slot[s].channels) BY <3>2
      <4>2. c \in inUse' => \E t \in Slots \ {s} : c \in ToSet(slot[t].channels) BY <4>1, <2>1
      <4>3. ASSUME NEW t \in Slots, c \in ToSet(slot'[t].channels) PROVE c \in inUse'
        <5>1. t # s BY <4>3, <3>2, <1>3
        <5>2. c \in ToSet(slot[t].channels) BY <5>1, <4>3, <1>4
        <5> QED BY <5>1, <5>2, <4>1, <2>1
      <4> QED BY <4>2, <4>3, <1>4
    <3> QED BY <3>1, <3>2
  <2> QED BY <2>2
<1>6. \A t, u \in Slots : t # u => ToSet(slot'[t].channels) \cap ToSet(slot'[u].channels) = {}
  BY <1>3, <1>4
<1>7. ASSUME NEW c \in Channels, queue'[c] # <<>> PROVE c \in inUse'
  BY <1>7
<1>8. ASSUME NEW t \in Slots PROVE Good(t, slot'[t], queue', heard'[t])
  <2>1. CASE t = s BY <2>1, <1>3
  <2>2. CASE t # s
    <3>1. Good(t, slot[t], queue, heard[t]) OBVIOUS
    <3>2. slot[t] \in SlotType /\ Paired(slot[t]) BY <3>1 DEF Good
    <3>3. ASSUME NEW k \in LanesOf(slot[t])
          PROVE  queue'[slot[t].channels[k]] = queue[slot[t].channels[k]]
      <4>1. slot[t].channels[k] \in ToSet(slot[t].channels) /\ slot[t].channels[k] \in Channels
        BY <3>2, Voices
      <4>2. slot[t].channels[k] \notin ToSet(slot[s].channels) \cup ToSet(sl.channels)
        BY <4>1, <2>2
      <4> QED BY <4>1, <4>2
    <3>4. Good(t, slot[t], queue', heard[t]) BY <3>1, <3>3 DEF Good
    <3> QED BY <3>4, <2>2, <1>4
  <2> QED BY <2>1, <2>2
<1> QED BY <1>2, <1>5, <1>6, <1>7, <1>8

-------------------------------------------------------------------------------
(* Buffers that are filled                                                  *)

\* What is read at a cursor, and where the cursor goes, is in the file.
LEMMA InTheFile ==
    ASSUME NEW sl, NEW c \in 0 .. NumChunks
    PROVE  ChunkAt(c) \in 0 .. NumChunks - 1 /\ After(sl, c) \in 0 .. NumChunks
BY AudioAssumption DEF ChunkAt, After

\* The cursor after a chunk is one that the chunk reaches.
LEMMA AfterReaches ==
    ASSUME NEW sl, NEW c \in 0 .. NumChunks, NEW new, new.loop = sl.loop, new.cursor = After(sl, c)
    PROVE  Reaches(new, ChunkAt(c))
<1>1. ChunkAt(c) \in 0 .. NumChunks - 1 BY InTheFile
<1> QED BY <1>1, AudioAssumption DEF Reaches, After

\* What is read at the cursor follows the chunk that reaches it.
LEMMA ReachedFollows ==
    ASSUME NEW sl, NEW d \in Heard, Reaches(sl, d), CanFill(sl, sl.cursor)
    PROVE  Follows(sl, d, ChunkAt(sl.cursor))
BY AudioAssumption DEF Reaches, CanFill, Follows, ChunkAt, Heard, Silence

LEMMA ClearedQueue ==
    ASSUME NEW q \in [Channels -> Seq(Entries)], NEW sl
    PROVE  /\ Cleared(q, sl) \in [Channels -> Seq(Entries)]
           /\ \A c \in Channels : Cleared(q, sl)[c] = IF c \in ToSet(sl.channels) THEN <<>> ELSE q[c]
<1>1. <<>> \in Seq(Entries) OBVIOUS
<1> QED BY <1>1 DEF Cleared

\* The first n buffers of a lane.
FirstBuffers(s, k, n) == [b \in 1 .. n |-> <<s, k, b>>]

LEMMA QueuedBuffers ==
    ASSUME NEW s \in Slots, NEW sl \in SlotType, Paired(sl), NEW n \in 0 .. NumBuffers,
           NEW q \in [Channels -> Seq(Entries)]
    PROVE  /\ Queued(q, s, sl, n) \in [Channels -> Seq(Entries)]
           /\ \A k \in LanesOf(sl) : Queued(q, s, sl, n)[sl.channels[k]] = FirstBuffers(s, k, n)
           /\ \A c \in Channels \ ToSet(sl.channels) : Queued(q, s, sl, n)[c] = q[c]
<1> DEFINE Q == Queued(q, s, sl, n)
<1>1. n \in Nat /\ 1 .. n \subseteq Buffers BY AudioAssumption DEF Buffers
<1>2. ASSUME NEW k \in Lanes PROVE FirstBuffers(s, k, n) \in Seq(Entries)
  <2>1. \A b \in 1 .. n : <<s, k, b>> \in Entries BY <1>1 DEF Entries
  <2> QED BY <2>1, <1>1, IsASeq DEF FirstBuffers
<1>3. ASSUME NEW k \in LanesOf(sl) PROVE Q[sl.channels[k]] = FirstBuffers(s, k, n)
  <2>1. sl.channels[k] \in Channels BY Voices
  <2>2. (CHOOSE j \in LanesOf(sl) : sl.channels[j] = sl.channels[k]) = k BY Voices
  <2> QED BY <2>1, <2>2 DEF Queued, FirstBuffers
<1>4. ASSUME NEW c \in Channels \ ToSet(sl.channels) PROVE Q[c] = q[c]
  <2>1. ~ \E k \in LanesOf(sl) : sl.channels[k] = c BY Voices
  <2> QED BY <2>1 DEF Queued
<1>5. ASSUME NEW c \in Channels PROVE Q[c] \in Seq(Entries)
  <2>1. CASE c \in ToSet(sl.channels)
    <3>1. PICK k \in LanesOf(sl) : sl.channels[k] = c BY <2>1, Voices
    <3>2. k \in Lanes BY Voices
    <3> QED BY <3>1, <3>2, <1>2, <1>3
  <2>2. CASE c \notin ToSet(sl.channels) BY <2>2, <1>4
  <2> QED BY <2>1, <2>2
<1>6. Q = [c \in Channels |-> Q[c]] BY DEF Queued
<1>7. Q \in [Channels -> Seq(Entries)]
  <2> HIDE DEF Q
  <2> QED BY <1>5, <1>6
<1> QED BY <1>3, <1>4, <1>7

EntryOf(s, k, b) == <<s, k, b>>

LEMMA AddedBuffer ==
    ASSUME NEW s \in Slots, NEW sl \in SlotType, Paired(sl), NEW b \in Buffers,
           NEW q \in [Channels -> Seq(Entries)]
    PROVE  /\ Added(q, s, sl, b) \in [Channels -> Seq(Entries)]
           /\ \A k \in LanesOf(sl) :
                 Added(q, s, sl, b)[sl.channels[k]] = Append(q[sl.channels[k]], EntryOf(s, k, b))
           /\ \A c \in Channels \ ToSet(sl.channels) : Added(q, s, sl, b)[c] = q[c]
<1> DEFINE Q == Added(q, s, sl, b)
<1>1. ASSUME NEW k \in Lanes PROVE EntryOf(s, k, b) \in Entries BY DEF Entries, EntryOf
<1>3. ASSUME NEW k \in LanesOf(sl) PROVE Q[sl.channels[k]] = Append(q[sl.channels[k]], EntryOf(s, k, b))
  <2>1. sl.channels[k] \in Channels BY Voices
  <2>2. (CHOOSE j \in LanesOf(sl) : sl.channels[j] = sl.channels[k]) = k BY Voices
  <2> QED BY <2>1, <2>2 DEF Added, EntryOf
<1>4. ASSUME NEW c \in Channels \ ToSet(sl.channels) PROVE Q[c] = q[c]
  <2>1. ~ \E k \in LanesOf(sl) : sl.channels[k] = c BY Voices
  <2> QED BY <2>1 DEF Added
<1>5. ASSUME NEW c \in Channels PROVE Q[c] \in Seq(Entries)
  <2>1. CASE c \in ToSet(sl.channels)
    <3>1. PICK k \in LanesOf(sl) : sl.channels[k] = c BY <2>1, Voices
    <3>2. k \in Lanes BY Voices
    <3>3. q[c] \in Seq(Entries) /\ EntryOf(s, k, b) \in Entries BY <3>2, <1>1
    <3>4. Append(q[c], EntryOf(s, k, b)) \in Seq(Entries) BY <3>3, AppendProperties
    <3> QED BY <3>1, <3>4, <1>3
  <2>2. CASE c \notin ToSet(sl.channels) BY <2>2, <1>4
  <2> QED BY <2>1, <2>2
<1>6. Q = [c \in Channels |-> Q[c]] BY DEF Added
<1>7. Q \in [Channels -> Seq(Entries)]
  <2> HIDE DEF Q
  <2> QED BY <1>5, <1>6
<1> QED BY <1>3, <1>4, <1>7

-------------------------------------------------------------------------------
(* Slots that stay good                                                     *)

\* Nothing to play and nothing heard: any cursor will do.
LEMMA QuietLane ==
    ASSUME NEW s, NEW k, NEW sl
    PROVE  Lane(s, k, sl, <<>>, Silence)
BY DEF Lane, Owed, InOrder, Silence

\* A stream that is started or sought in.
LEMMA PrimedIsGood ==
    ASSUME NEW s \in Slots, NEW sl \in SlotType, Paired(sl), sl.active <=> sl.channels # <<>>,
           sl.fill.phase = "none",
           NEW n \in 0 .. NumBuffers, NEW at \in [0 .. n -> 0 .. NumChunks],
           \A b \in 1 .. n : CanFill(sl, at[b - 1]) /\ at[b] = After(sl, at[b - 1]),
           NEW q \in [Channels -> Seq(Entries)]
    PROVE  /\ Good(s, Primed(sl, n, at), Queued(q, s, sl, n), Silent)
           /\ Primed(sl, n, at).channels = sl.channels
<1>q. \A k \in LanesOf(sl) :
         Queued(q, s, sl, n)[sl.channels[k]] = FirstBuffers(s, k, n)
  BY QueuedBuffers
<1> DEFINE new == Primed(sl, n, at)
           Q == Queued(q, s, sl, n)
<1>0. NumBuffers \in Nat /\ NumChunks \in Nat /\ n \in Nat BY AudioAssumption
<1>1. /\ new.active = sl.active /\ new.stream = sl.stream /\ new.loop = sl.loop
      /\ new.channels = sl.channels /\ new.fill = sl.fill /\ new.cursor = at[n]
      /\ new.sound = sl.sound /\ new.paused = sl.paused /\ new.generation = sl.generation
      /\ new.finished = FALSE
      /\ new.chunk = [b \in Buffers |-> IF b <= n THEN ChunkAt(at[b - 1]) ELSE Silence]
      /\ new.status = [k \in Lanes |-> [b \in Buffers |->
                            IF k \in LanesOf(sl) /\ b <= n THEN "busy" ELSE "free"]]
  BY DEF Primed, SlotType
<1>2. \A b \in Buffers : b <= n => b - 1 \in 0 .. n /\ b \in 1 .. n
  BY <1>0 DEF Buffers
<1>3. \A b \in Buffers : b <= n => ChunkAt(at[b - 1]) \in 0 .. NumChunks - 1
  BY <1>2, InTheFile
<1>4. new.chunk \in [Buffers -> Heard]
  <2>1. 0 .. NumChunks - 1 \subseteq Heard /\ Silence \in Heard BY <1>0 DEF Heard, Silence
  <2> QED BY <1>1, <1>3, <2>1
<1>5. new.status \in [Lanes -> [Buffers -> Statuses]] BY <1>1 DEF Statuses
<1>6. at[n] \in 0 .. NumChunks BY <1>0, SMTT(30)
<1>7. new \in SlotType
  <2>1. new = [sl EXCEPT !.finished = FALSE, !.cursor = new.cursor, !.chunk = new.chunk,
                         !.status = new.status]
    BY <1>1 DEF Primed
  <2> HIDE DEF new
  <2> QED BY <2>1, <1>1, <1>4, <1>5, <1>6 DEF SlotType, Heard
<1>8. LanesOf(new) = LanesOf(sl) /\ Paired(new) BY <1>1 DEF LanesOf, Paired
<1>9. LanesAgree(new)
  <2>1. ASSUME NEW b \in Buffers, new.status[1][b] = "free" PROVE new.status[2][b] = "free"
    <3>1. CASE b <= n
      <4>1. 1 \notin LanesOf(sl) BY <1>1, <2>1, <3>1 DEF Lanes
      <4>2. 2 \notin LanesOf(sl)
        <5>1. Len(sl.channels) \in Nat BY DEF SlotType
        <5> QED BY <5>1, <4>1 DEF LanesOf
      <4> QED BY <4>2, <1>1 DEF Lanes
    <3>2. CASE ~ (b <= n) BY <3>2, <1>1 DEF Lanes
    <3> QED BY <3>1, <3>2
  <2> QED BY <2>1 DEF LanesAgree
<1>10. FillIsFree(new) /\ FillIsNext(new) BY <1>1 DEF FillIsFree, FillIsNext
<1>11. ASSUME NEW k \in LanesOf(sl) PROVE Lane(s, k, new, Q[sl.channels[k]], Silent[k])
  <2>1. k \in Lanes BY Voices
  <2>2. Q[sl.channels[k]] = FirstBuffers(s, k, n) BY <1>q
  <2> DEFINE r == FirstBuffers(s, k, n)
  <2>3. Len(r) = n /\ \A b \in 1 .. n : r[b][1] = s /\ r[b][2] = k /\ r[b][3] = b
    BY <1>0 DEF FirstBuffers
  <2>4. Owed(s, k, new, r)
    <3>1. ASSUME NEW b \in 1 .. n PROVE new.status[k][b] = "busy"
      <4>1. b \in Buffers /\ b <= n BY <1>0 DEF Buffers
      <4> QED BY <4>1, <2>1, <1>1
    <3> HIDE DEF r, new
    <3> QED BY <3>1, <2>3, SMTT(30) DEF Owed
  <2>5. ASSUME NEW b \in 1 .. n
        PROVE  /\ new.chunk[b] = ChunkAt(at[b - 1]) /\ at[b - 1] \in 0 .. NumChunks
               /\ ChunkAt(at[b - 1]) \in Heard
    <3>1. b \in Buffers /\ b <= n /\ b - 1 \in 0 .. n BY <1>0 DEF Buffers
    <3>2. ChunkAt(at[b - 1]) \in 0 .. NumChunks - 1 BY <3>1, <1>3
    <3> QED BY <3>1, <3>2, <1>1, <1>0 DEF Heard, Silence
  <2>6. ASSUME NEW b \in 1 .. n - 1 PROVE Follows(new, new.chunk[b], new.chunk[b + 1])
    <3>1. b \in 1 .. n /\ b + 1 \in 1 .. n /\ (b + 1) - 1 = b BY <1>0, SMTT(30)
    <3>2. new.chunk[b] = ChunkAt(at[b - 1]) /\ new.chunk[b + 1] = ChunkAt(at[b])
      BY <3>1, <2>5
    <3>3. CanFill(sl, at[b]) BY <3>1
    <3> DEFINE mid == [sl EXCEPT !.cursor = at[b]]
    <3>4. mid.cursor = at[b] /\ mid.loop = sl.loop BY DEF SlotType
    <3>5. at[b] = After(sl, at[b - 1]) /\ at[b - 1] \in 0 .. NumChunks /\ ChunkAt(at[b - 1]) \in Heard
      BY <3>1, <2>5
    <3> HIDE DEF mid
    <3>6. Reaches(mid, ChunkAt(at[b - 1])) BY <3>4, <3>5, AfterReaches
    <3>7. CanFill(mid, mid.cursor) BY <3>3, <3>4 DEF CanFill
    <3>8. Follows(mid, ChunkAt(at[b - 1]), ChunkAt(at[b])) BY <3>4, <3>5, <3>6, <3>7, ReachedFollows
    <3>9. new.loop = mid.loop BY <3>4, <1>1
    <3> QED BY <3>2, <3>8, <3>9 DEF Follows
  <2>e. r # <<>> => n # 0 BY <2>3 DEF FirstBuffers
  <2>7. r # <<>> => Reaches(new, new.chunk[n])
    <3>1. SUFFICES ASSUME n # 0 PROVE Reaches(new, new.chunk[n])
      BY <2>e
    <3>2. n \in 1 .. n BY <3>1, <1>0
    <3>3. new.chunk[n] = ChunkAt(at[n - 1]) /\ at[n - 1] \in 0 .. NumChunks BY <3>2, <2>5
    <3>4. new.cursor = After(sl, at[n - 1]) /\ new.loop = sl.loop BY <3>2, <1>1
    <3> QED BY <3>3, <3>4, AfterReaches
  <2>8. Silent[k] = Silence BY <2>1 DEF Silent
  <2>9. InOrder(new, r, Silence)
    <3>1. \A b \in 1 .. n - 1 : b \in 1 .. n /\ b + 1 \in 1 .. n BY <1>0
    <3>2. r # <<>> => n \in 1 .. n BY <1>0, <2>e
    <3> HIDE DEF r, new
    <3> QED BY <3>1, <3>2, <2>3, <2>6, <2>7 DEF InOrder
  <2> QED BY <2>2, <2>4, <2>8, <2>9 DEF Lane
<1> HIDE DEF new, Q
<1>12. Good(s, new, Q, Silent) BY <1>1, <1>7, <1>8, <1>9, <1>10, <1>11 DEF Good
<1> QED BY <1>12, <1>1 DEF new, Q

\* A slot whose buffers and cursor stay: only the fill or a flag changes.
LEMMA SameBuffers ==
    ASSUME NEW s, NEW sl, NEW new \in SlotType, NEW q, NEW h, Good(s, sl, q, h),
           new.active = sl.active, new.stream = sl.stream, new.loop = sl.loop,
           new.channels = sl.channels, new.status = sl.status, new.chunk = sl.chunk,
           new.cursor = sl.cursor, FillIsFree(new), FillIsNext(new)
    PROVE  Good(s, new, q, h)
<1>1. LanesOf(new) = LanesOf(sl) /\ Paired(new) BY DEF LanesOf, Paired, Good
<1>2. LanesAgree(new) BY DEF LanesAgree, Good
<1>3. ASSUME NEW k \in LanesOf(new) PROVE Lane(s, k, new, q[new.channels[k]], h[k])
  <2>1. Lane(s, k, sl, q[sl.channels[k]], h[k]) BY <1>1 DEF Good
  <2> DEFINE r == q[sl.channels[k]]
  <2>2. Owed(s, k, sl, r) => Owed(s, k, new, r) BY DEF Owed
  <2>3. \A c, d : /\ Follows(sl, c, d) => Follows(new, c, d)
                  /\ Reaches(sl, c) => Reaches(new, c)
    BY SMTT(30) DEF Follows, Reaches
  <2>4. InOrder(sl, r, h[k]) => InOrder(new, r, h[k]) BY <2>3 DEF InOrder
  <2> QED BY <2>1, <2>2, <2>4 DEF Lane
<1> QED BY <1>1, <1>2, <1>3 DEF Good

LEMMA ReclaimedSlot ==
    ASSUME NEW sl \in SlotType, NEW b
    PROVE  /\ Reclaimed(sl, b).channels = sl.channels /\ Reclaimed(sl, b).active = sl.active
           /\ Reclaimed(sl, b).stream = sl.stream /\ Reclaimed(sl, b).fill = sl.fill
           /\ Reclaimed(sl, b).cursor = sl.cursor
BY DEF Reclaimed, SlotType

\* A buffer that both channels have played is free; nothing else changes.
LEMMA ReclaimedIsGood ==
    ASSUME NEW s, NEW sl, NEW q \in [Channels -> Seq(Entries)], NEW h, Good(s, sl, q, h),
           NEW b \in Buffers
    PROVE  Good(s, Reclaimed(sl, b), q, h)
<1>0. sl \in SlotType /\ Paired(sl) BY DEF Good
<1> DEFINE st == [k \in Lanes |-> [sl.status[k] EXCEPT ![b] = "free"]]
           new == [sl EXCEPT !.status = st]
<1>1. CASE ~ Reusable(sl, b)
  <2>1. Reclaimed(sl, b) = sl BY <1>1 DEF Reclaimed
  <2> QED BY <2>1
<1>2. CASE Reusable(sl, b)
  <2>1. Reclaimed(sl, b) = new BY <1>2 DEF Reclaimed
  <2>2. st \in [Lanes -> [Buffers -> Statuses]] BY <1>0 DEF SlotType, Statuses
  <2>3. /\ new \in SlotType /\ new.status = st
        /\ new.active = sl.active /\ new.stream = sl.stream /\ new.loop = sl.loop
        /\ new.channels = sl.channels /\ new.chunk = sl.chunk /\ new.cursor = sl.cursor
        /\ new.fill = sl.fill
    BY <2>2, <1>0 DEF SlotType
  <2>4. \A k \in Lanes, x \in Buffers :
           st[k][x] = IF x = b THEN "free" ELSE sl.status[k][x]
    BY <1>0 DEF SlotType
  <2> HIDE DEF st, new
  <2>5. LanesOf(new) = LanesOf(sl) /\ Paired(new) BY <2>3 DEF LanesOf, Paired, Good
  <2>6. LanesAgree(new) BY <2>3, <2>4 DEF LanesAgree, Good, Lanes
  <2>7. FillIsFree(new) /\ FillIsNext(new)
    <3>1. FillIsFree(sl) /\ FillIsNext(sl) BY DEF Good
    <3>2. sl.fill.buffer \in Buffers BY <1>0 DEF SlotType, Fill
    <3> QED BY <3>1, <3>2, <2>3, <2>4 DEF FillIsFree, FillIsNext, CanFill, After, Lanes
  <2>8. ASSUME NEW k \in LanesOf(new) PROVE Lane(s, k, new, q[new.channels[k]], h[k])
    <3>1. Lane(s, k, sl, q[sl.channels[k]], h[k]) BY <2>5, <2>8 DEF Good
    <3>2. k \in Lanes /\ sl.channels[k] \in Channels BY <2>5, <1>0, Voices
    <3> DEFINE r == q[sl.channels[k]]
    <3>3. \A i \in 1 .. Len(r) : r[i][3] \in Buffers BY <3>2 DEF Entries
    <3>4. sl.status[k][b] = "done" BY <1>2, <2>5 DEF Reusable
    <3>5. \A i \in 1 .. Len(r) : new.status[k][r[i][3]] = "busy"
      BY <3>1, <3>2, <3>3, <3>4, <2>3, <2>4, SMTT(30) DEF Lane, Owed
    <3>6. Owed(s, k, new, r) BY <3>1, <3>5 DEF Lane, Owed
    <3>7. InOrder(sl, r, h[k]) => InOrder(new, r, h[k])
      BY <2>3, ZenonT(30) DEF InOrder, Reaches, Follows
    <3> QED BY <3>1, <3>6, <3>7, <2>3 DEF Lane
  <2> QED BY <2>1, <2>2, <2>3, <2>5, <2>6, <2>7, <2>8 DEF Good
<1> QED BY <1>1, <1>2

\* A free buffer is filled with what is at the cursor and queued on each channel.
FilledFrom(sl, new, b) ==
    /\ new \in SlotType /\ new.active = sl.active /\ new.stream = sl.stream
    /\ new.loop = sl.loop /\ new.channels = sl.channels /\ new.fill.phase = "none"
    /\ new.cursor = After(sl, sl.cursor)
    /\ \A x \in Buffers : new.chunk[x] = IF x = b THEN ChunkAt(sl.cursor) ELSE sl.chunk[x]
    /\ \A k \in Lanes, x \in Buffers :
          new.status[k][x] = IF k \in LanesOf(sl) /\ x = b THEN "busy" ELSE sl.status[k][x]

LEMMA FilledIsGood ==
    ASSUME NEW s \in Slots, NEW sl, NEW q \in [Channels -> Seq(Entries)], NEW h \in [Lanes -> Heard],
           Good(s, sl, q, h), sl.active, sl.stream, NEW b \in Buffers, sl.status[1][b] = "free",
           CanFill(sl, sl.cursor),
           NEW new, FilledFrom(sl, new, b)
    PROVE  Good(s, new, Added(q, s, new, b), h)
<1> USE DEF FilledFrom
<1>0. sl \in SlotType /\ Paired(sl) BY DEF Good
<1>1. LanesOf(new) = LanesOf(sl) /\ Paired(new) BY <1>0 DEF LanesOf, Paired
<1>2. sl.status \in [Lanes -> [Buffers -> Statuses]] /\ sl.chunk \in [Buffers -> Heard]
      /\ sl.cursor \in 0 .. NumChunks
  BY <1>0 DEF SlotType, Heard
<1>3. \A k \in LanesOf(sl) : \A x \in Buffers :
         new.status[k][x] = IF x = b THEN "busy" ELSE sl.status[k][x]
  BY Voices, <1>0
<1>4. \A x \in Buffers : new.chunk[x] = IF x = b THEN ChunkAt(sl.cursor) ELSE sl.chunk[x]
  OBVIOUS
<1>5. LanesAgree(new)
  <2>1. LanesAgree(sl) BY DEF Good
  <2>2. 1 \in LanesOf(sl) BY <1>0, Voices DEF Good
  <2>3. ASSUME NEW x \in Buffers, new.status[1][x] = "free" PROVE new.status[2][x] = "free"
    <3>1. x # b /\ sl.status[1][x] = "free" BY <2>2, <2>3, <1>3
    <3>2. sl.status[2][x] = "free" BY <2>1, <3>1 DEF LanesAgree
    <3> QED BY <3>1, <3>2 DEF Lanes
  <2> QED BY <2>3 DEF LanesAgree
<1>6. FillIsFree(new) /\ FillIsNext(new) BY DEF FillIsFree, FillIsNext
<1>8. \A k \in LanesOf(new) :
         Added(q, s, new, b)[new.channels[k]] = Append(q[new.channels[k]], EntryOf(s, k, b))
  <2>1. Paired(new) /\ new \in SlotType BY <1>1
  <2> QED BY ONLY <2>1, AddedBuffer, s \in Slots, b \in Buffers, q \in [Channels -> Seq(Entries)]
<1>7. ASSUME NEW k \in LanesOf(sl)
      PROVE  Lane(s, k, new, Added(q, s, new, b)[sl.channels[k]], h[k])
  <2>1. k \in Lanes /\ sl.channels[k] \in Channels BY <1>0, Voices
  <2> DEFINE r == q[sl.channels[k]]
             e == <<s, k, b>>
             rr == Added(q, s, new, b)[sl.channels[k]]
  <2>2. rr = Append(r, e) BY <1>1, <1>8 DEF EntryOf
  <2>3. r \in Seq(Entries) /\ e \in Entries /\ Len(r) \in Nat BY <2>1 DEF Entries
  <2>4. /\ Len(rr) = Len(r) + 1 /\ rr[Len(r) + 1] = e /\ rr # <<>>
        /\ \A i \in 1 .. Len(r) : rr[i] = r[i]
    <3> HIDE DEF r, rr, e
    <3> QED BY <2>2, <2>3, AppendProperties
  <2>5. e[1] = s /\ e[2] = k /\ e[3] = b OBVIOUS
  <2>6. \A i \in 1 .. Len(r) : r[i][3] \in Buffers BY <2>3 DEF Entries
  <2>7. Lane(s, k, sl, r, h[k]) BY DEF Good
  <2>8. sl.status[k][b] = "free"
    BY <1>2, <2>1 DEF Good, LanesAgree, Lanes
  <2> HIDE DEF r, rr, e
  <2>9. \A i \in 1 .. Len(r) : r[i][3] # b BY <2>7, <2>8 DEF Lane, Owed
  <2>10. Owed(s, k, new, rr)
    <3>1. \A i \in 1 .. Len(r) : r[i][1] = s /\ r[i][2] = k /\ new.status[k][r[i][3]] = "busy"
      BY <2>6, <2>7, <2>9, <1>3 DEF Lane, Owed
    <3>2. new.status[k][b] = "busy" BY <1>3
    <3>3. \A i, j \in 1 .. Len(r) : r[i][3] = r[j][3] => i = j BY <2>7 DEF Lane, Owed
    <3>4. \A i \in 1 .. Len(rr) : i \in 1 .. Len(r) \/ i = Len(r) + 1 BY <2>3, <2>4
    <3> DEFINE m == Len(r) + 1
    <3>5. \A i \in 1 .. Len(r) : rr[i] = r[i] BY <2>4
    <3>6. rr[m][1] = s /\ rr[m][2] = k /\ rr[m][3] = b BY <2>4, <2>5
    <3>7. \A i \in 1 .. Len(rr) : i \in 1 .. Len(r) \/ i = m BY <3>4
    <3> HIDE DEF m
    <3>8. \A i \in 1 .. Len(rr) : rr[i][1] = s /\ rr[i][2] = k /\ new.status[k][rr[i][3]] = "busy"
      BY <3>1, <3>2, <3>5, <3>6, <3>7
    <3>9. \A i, j \in 1 .. Len(rr) : rr[i][3] = rr[j][3] => i = j
      BY <3>3, <3>5, <3>6, <3>7, <2>9
    <3> QED BY <3>8, <3>9 DEF Owed
  <2>11. InOrder(sl, r, h[k]) BY <2>7 DEF Lane
  <2>12. h[k] \in Heard BY <2>1
  <2>13. \A i \in 1 .. Len(r) : new.chunk[r[i][3]] = sl.chunk[r[i][3]] /\ sl.chunk[r[i][3]] \in Heard
    BY <2>6, <2>9, <1>2, <1>4
  <2>14. new.chunk[b] = ChunkAt(sl.cursor) BY <1>4
  <2>15. \A c, d : Follows(sl, c, d) => Follows(new, c, d) BY DEF Follows
  <2>16. InOrder(new, rr, h[k])
    <3>1. Reaches(new, new.chunk[rr[Len(rr)][3]])
      <4>1. rr[Len(rr)][3] = b BY <2>4, <2>5
      <4> QED BY <4>1, <2>14, <1>2, AfterReaches
    <3>2. ASSUME NEW i \in 1 .. Len(rr) - 1
          PROVE  Follows(new, new.chunk[rr[i][3]], new.chunk[rr[i + 1][3]])
      <4>1. i \in 1 .. Len(r) BY <2>3, <2>4
      <4>2. CASE i < Len(r)
        <5>1. i \in 1 .. Len(r) - 1 /\ i + 1 \in 1 .. Len(r) BY <4>1, <4>2, <2>3
        <5>2. Follows(sl, sl.chunk[r[i][3]], sl.chunk[r[i + 1][3]]) BY <5>1, <2>11 DEF InOrder
        <5> QED BY <5>1, <5>2, <4>1, <2>4, <2>13, <2>15
      <4>3. CASE i = Len(r)
        <5>1. r # <<>> BY <4>1
        <5>2. Reaches(sl, sl.chunk[r[i][3]]) BY <5>1, <4>3, <2>11 DEF InOrder
        <5>3. Follows(sl, sl.chunk[r[i][3]], ChunkAt(sl.cursor)) BY <5>2, <4>1, <2>13, ReachedFollows
        <5> QED BY <5>3, <4>1, <4>3, <2>4, <2>5, <2>13, <2>14, <2>15
      <4> QED BY <4>1, <4>2, <4>3, <2>3
    <3>3. h[k] # Silence => Follows(new, h[k], new.chunk[rr[1][3]])
      <4>1. SUFFICES ASSUME h[k] # Silence PROVE Follows(new, h[k], new.chunk[rr[1][3]])
        OBVIOUS
      <4>2. CASE r = <<>>
        <5>1. Reaches(sl, h[k]) BY <4>1, <4>2, <2>11 DEF InOrder
        <5>2. Len(r) = 0 BY <4>2
        <5>3. rr[1] = e BY <5>2, <2>4
        <5>4. Follows(sl, h[k], ChunkAt(sl.cursor)) BY <5>1, <2>12, ReachedFollows
        <5> QED BY <5>3, <5>4, <2>5, <2>14, <2>15
      <4>3. CASE r # <<>>
        <5>1. 1 \in 1 .. Len(r) BY <4>3, <2>3
        <5>2. Follows(sl, h[k], sl.chunk[r[1][3]]) BY <4>1, <4>3, <2>11 DEF InOrder
        <5> QED BY <5>1, <5>2, <2>4, <2>13, <2>15
      <4> QED BY <4>2, <4>3
    <3> QED BY <3>1, <3>2, <3>3, <2>4 DEF InOrder
  <2> QED BY <2>10, <2>16 DEF Lane, rr
<1> QED BY <1>1, <1>5, <1>6, <1>7 DEF Good

-------------------------------------------------------------------------------
(* What is heard stays in order                                             *)

LEMMA SoundFacts ==
    ASSUME Sounding, NEW s \in Slots
    PROVE  /\ slot[s] \in SlotType /\ Paired(slot[s]) /\ Good(s, slot[s], queue, heard[s])
           /\ slot[s].channels \in Seq(Channels) /\ ToSet(slot[s].channels) \subseteq inUse
           /\ inUse \subseteq Channels /\ heard[s] \in [Lanes -> Heard]
<1>1. \A t \in Slots : slot[t] \in SlotType BY DEF Sounding
<1>2. \A t \in Slots : ToSet(slot[t].channels) \subseteq Channels BY <1>1 DEF SlotType, ToSet
<1>3. inUse \subseteq Channels BY <1>2 DEF Sounding
<1> QED BY <1>1, <1>3 DEF Sounding, Good, SlotType

LEMMA SilentHeard == Silent \in [Lanes -> Heard]
BY AudioAssumption DEF Silent, Heard, Silence

LEMMA NothingHeardChanges ==
    ASSUME Sounding, UNCHANGED <<slot, inUse, queue, heard>>
    PROVE  Sounding'
BY DEF Sounding

\* Only the fill or a flag of a slot changes.
LEMMA FlagsChange ==
    ASSUME Sounding, NEW s \in Slots, NEW new, Good(s, new, queue, heard[s]),
           new.channels = slot[s].channels,
           slot' = [slot EXCEPT ![s] = new], UNCHANGED <<inUse, queue, heard>>
    PROVE  Sounding'
<1>1. heard' = [heard EXCEPT ![s] = heard[s]] BY DEF Sounding
<1>2. inUse' = (inUse \ ToSet(slot[s].channels)) \cup ToSet(new.channels) BY SoundFacts
<1>3. queue' = queue /\ queue \in [Channels -> Seq(Entries)] BY DEF Sounding
<1>4. \A t \in Slots \ {s} : ToSet(new.channels) \cap ToSet(slot[t].channels) = {}
  BY DEF Sounding
<1>5. heard[s] \in [Lanes -> Heard] BY SoundFacts
<1> QED BY <1>1, <1>2, <1>3, <1>4, <1>5, OneSlotChanges

\* A slot is emptied.
LEMMA ReleaseSounds ==
    ASSUME Sounding, NEW s \in Slots, Release(s)
    PROVE  Sounding'
<1> DEFINE q == Cleared(queue, slot[s])
<1>0. queue \in [Channels -> Seq(Entries)] BY DEF Sounding
<1>1. ToSet(EmptySlot.channels) = {} BY EmptyIsGood DEF ToSet
<1>2. /\ q \in [Channels -> Seq(Entries)]
      /\ \A c \in Channels : q[c] = IF c \in ToSet(slot[s].channels) THEN <<>> ELSE queue[c]
  BY <1>0, ClearedQueue
<1>3. Good(s, EmptySlot, q, Silent) BY EmptyIsGood
<1>4. heard' = [heard EXCEPT ![s] = Silent] BY DEF Release, Deaf, Silent
<1>5. ToSet(slot[s].channels) \subseteq Channels BY SoundFacts
<1>6. slot' = [slot EXCEPT ![s] = EmptySlot] /\ queue' = q
      /\ inUse' = (inUse \ ToSet(slot[s].channels)) \cup ToSet(EmptySlot.channels)
  BY <1>1 DEF Release
<1> HIDE DEF q
<1> QED BY <1>1, <1>2, <1>3, <1>4, <1>5, <1>6, SilentHeard, OneSlotChanges

\* A stream is primed on the channels it has or has just got.
LEMMA PrimeSounds ==
    ASSUME Sounding, NEW s \in Slots, NEW sl \in SlotType, Paired(sl),
           sl.active <=> sl.channels # <<>>, sl.fill.phase = "none",
           \A t \in Slots \ {s} : ToSet(sl.channels) \cap ToSet(slot[t].channels) = {},
           PrimeStream(s, sl, Cleared(queue, slot[s])), heard' = Deaf(s),
           inUse' = (inUse \ ToSet(slot[s].channels)) \cup ToSet(sl.channels)
    PROVE  Sounding'
<1> DEFINE q == Cleared(queue, slot[s])
<1>0. queue \in [Channels -> Seq(Entries)] BY DEF Sounding
<1>2. /\ q \in [Channels -> Seq(Entries)]
      /\ \A c \in Channels : q[c] = IF c \in ToSet(slot[s].channels) THEN <<>> ELSE queue[c]
  BY <1>0, ClearedQueue
<1>p. PICK n \in 0 .. NumBuffers : \E at \in [0 .. n -> 0 .. NumChunks] :
        /\ \A b \in 1 .. n : CanFill(sl, at[b - 1]) /\ at[b] = After(sl, at[b - 1])
        /\ slot' = [slot EXCEPT ![s] = Primed(sl, n, at)]
        /\ queue' = Queued(q, s, sl, n)
  BY DEF PrimeStream
<1>3. PICK at \in [0 .. n -> 0 .. NumChunks] :
        /\ \A b \in 1 .. n : CanFill(sl, at[b - 1]) /\ at[b] = After(sl, at[b - 1])
        /\ slot' = [slot EXCEPT ![s] = Primed(sl, n, at)]
        /\ queue' = Queued(q, s, sl, n)
  BY <1>p
<1> DEFINE Q == Queued(q, s, sl, n)
           new == Primed(sl, n, at)
<1> HIDE DEF q
<1>4. Good(s, new, Q, Silent) /\ new.channels = sl.channels BY <1>2, <1>3, PrimedIsGood
<1>5. Q \in [Channels -> Seq(Entries)] BY <1>2, QueuedBuffers
<1>6. \A c \in Channels \ ToSet(sl.channels) : Q[c] = q[c] BY <1>2, QueuedBuffers
<1>7. slot' = [slot EXCEPT ![s] = new] /\ queue' = Q BY <1>3
<1> HIDE DEF Q, new
<1>8. heard' = [heard EXCEPT ![s] = Silent] BY DEF Deaf, Silent
<1>9. ToSet(slot[s].channels) \subseteq Channels BY SoundFacts
<1> QED BY <1>2, <1>4, <1>5, <1>6, <1>7, <1>8, <1>9, SilentHeard, OneSlotChanges

LEMMA CancelledSlot ==
    ASSUME NEW sl \in SlotType
    PROVE  /\ Cancelled(sl) \in SlotType /\ Cancelled(sl).fill = NoFill
           /\ Cancelled(sl).channels = sl.channels /\ Cancelled(sl).active = sl.active
           /\ Cancelled(sl).status = sl.status
<1>1. NoFill \in Fill BY SlotOne, AudioAssumption DEF NoFill, Fill
<1>2. sl.generation + 1 \in Nat BY DEF SlotType
<1> QED BY <1>1, <1>2 DEF SlotType, Cancelled

LEMMA SeekSounds ==
    ASSUME Sounding, Counters, Seek
    PROVE  Sounding'
<1> DEFINE s == main.slot
           sl == [Cancelled(slot[s]) EXCEPT !.cursor = main.target]
<1>1. s \in Slots /\ main.target \in 0 .. NumChunks BY DEF Counters, MainType
<1>2. slot[s] \in SlotType /\ Paired(slot[s]) /\ Good(s, slot[s], queue, heard[s])
  BY <1>1, SoundFacts
<1>3. NoFill.phase = "none" BY DEF NoFill
<1>4. /\ sl \in SlotType /\ sl.channels = slot[s].channels /\ sl.active = slot[s].active
      /\ sl.fill = NoFill
  BY <1>1, <1>2, CancelledSlot DEF SlotType
<1>5. PrimeStream(s, sl, Cleared(queue, slot[s])) /\ heard' = Deaf(s) /\ inUse' = inUse
  <2>1. Cleared(queue, sl) = Cleared(queue, slot[s]) BY <1>4 DEF Cleared
  <2> QED BY <2>1 DEF Seek
<1> HIDE DEF sl, s
<1>6. Paired(sl) BY <1>2, <1>4 DEF Paired, LanesOf
<1>7. sl.active <=> sl.channels # <<>> BY <1>2, <1>4 DEF Good
<1>8. \A t \in Slots \ {s} : ToSet(sl.channels) \cap ToSet(slot[t].channels) = {}
  BY <1>1, <1>4 DEF Sounding
<1>9. inUse' = (inUse \ ToSet(slot[s].channels)) \cup ToSet(sl.channels)
  BY <1>1, <1>4, <1>5, SoundFacts
<1> QED BY <1>1, <1>3, <1>4, <1>5, <1>6, <1>7, <1>8, <1>9, PrimeSounds

LEMMA SeekFailsSounds ==
    ASSUME Sounding, Counters, SeekFails
    PROVE  Sounding'
<1> DEFINE s == main.slot
           q == Cleared(queue, slot[s])
<1>1. s \in Slots /\ main.target \in 0 .. NumChunks BY DEF Counters, MainType
<1>2. slot[s] \in SlotType /\ Paired(slot[s]) /\ Good(s, slot[s], queue, heard[s])
  BY <1>1, SoundFacts
<1>3. PICK reached \in 0 .. main.target - 1 :
        slot' = [slot EXCEPT ![s] = [Cancelled(slot[s]) EXCEPT !.cursor = reached]]
  BY DEF SeekFails
<1> DEFINE new == [Cancelled(slot[s]) EXCEPT !.cursor = reached]
<1>4. NoFill.phase = "none" BY DEF NoFill
<1>5. reached \in 0 .. NumChunks BY <1>1, AudioAssumption
<1>6. /\ new \in SlotType /\ new.channels = slot[s].channels /\ new.active = slot[s].active
      /\ new.fill = NoFill /\ new.status = slot[s].status
  BY <1>2, <1>5, CancelledSlot DEF SlotType
<1>7. queue \in [Channels -> Seq(Entries)] BY DEF Sounding
<1>8. /\ q \in [Channels -> Seq(Entries)]
      /\ \A c \in Channels : q[c] = IF c \in ToSet(slot[s].channels) THEN <<>> ELSE queue[c]
  BY <1>7, ClearedQueue
<1>9. /\ slot' = [slot EXCEPT ![s] = new] /\ queue' = q /\ inUse' = inUse
      /\ heard' = [heard EXCEPT ![s] = Silent]
  BY <1>3 DEF SeekFails, Deaf, Silent
<1> HIDE DEF s, q, new
<1>10. LanesOf(new) = LanesOf(slot[s]) /\ Paired(new) BY <1>2, <1>6 DEF LanesOf, Paired
<1>11. \A k \in LanesOf(new) : q[new.channels[k]] = <<>> /\ Silent[k] = Silence
  BY <1>2, <1>6, <1>8, <1>10, Voices DEF Silent
<1>12. Good(s, new, q, Silent)
  <2>1. LanesAgree(new) BY <1>2, <1>6 DEF LanesAgree, Good
  <2>2. FillIsFree(new) /\ FillIsNext(new) BY <1>4, <1>6 DEF FillIsFree, FillIsNext
  <2>3. \A k \in LanesOf(new) : Lane(s, k, new, q[new.channels[k]], Silent[k])
    BY <1>11, QuietLane
  <2> QED BY <2>1, <2>2, <2>3, <1>2, <1>6, <1>10 DEF Good
<1>13. \A t \in Slots \ {s} : ToSet(new.channels) \cap ToSet(slot[t].channels) = {}
  BY <1>1, <1>6 DEF Sounding
<1>14. inUse' = (inUse \ ToSet(slot[s].channels)) \cup ToSet(new.channels)
  BY <1>1, <1>6, <1>9, SoundFacts
<1> QED BY <1>1, <1>6, <1>8, <1>9, <1>12, <1>13, <1>14, SilentHeard, OneSlotChanges

\* A sound that is started on channels that nobody else has.
LEMMA FreeChannels ==
    ASSUME NEW free \in SUBSET Channels, NEW n \in {1, 2}, Cardinality(free) >= n
    PROVE  /\ FirstChannels(free, n) \in Seq(Channels) /\ Len(FirstChannels(free, n)) = n
           /\ ToSet(FirstChannels(free, n)) \subseteq free
           /\ \A j, k \in 1 .. n : FirstChannels(free, n)[j] = FirstChannels(free, n)[k] => j = k
<1>1. IsFiniteSet(Channels) BY FS_Interval, AudioAssumption DEF Channels
<1>2. IsFiniteSet(free) /\ Cardinality(free) \in Nat BY <1>1, FS_Subset, FS_CardinalityType
<1>3. free # {} BY <1>2, FS_EmptySet
<1>4. Channels \subseteq Nat BY AudioAssumption DEF Channels
<1>5. Min(free) \in free BY <1>3, <1>4, LeastOf
<1>6. CASE n = 1
  <2>1. FirstChannels(free, n) = <<Min(free)>> BY <1>6 DEF FirstChannels
  <2> QED BY <2>1, <1>5, <1>6 DEF ToSet
<1>7. CASE n = 2
  <2> DEFINE rest == free \ {Min(free)}
  <2>1. Cardinality(rest) = Cardinality(free) - 1 BY <1>2, <1>5, FS_RemoveElement
  <2>2. Cardinality(rest) # 0 BY <2>1, <1>2, <1>7
  <2>3. rest # {} BY <2>2, FS_EmptySet
  <2>4. Min(rest) \in rest BY <2>3, <1>4, LeastOf
  <2>5. FirstChannels(free, n) = <<Min(free), Min(rest)>> BY <1>7 DEF FirstChannels
  <2> HIDE DEF rest
  <2>6. Min(rest) \in free /\ Min(rest) # Min(free) BY <2>4 DEF rest
  <2> DEFINE a == Min(free)
             b == Min(rest)
  <2>7. a \in free /\ b \in free /\ a # b BY <1>5, <2>6
  <2>8. FirstChannels(free, n) = <<a, b>> BY <2>5
  <2> HIDE DEF a, b
  <2> QED BY <2>7, <2>8, <1>7 DEF ToSet
<1> QED BY <1>6, <1>7

LEMMA FreeInstances ==
    ASSUME NEW stream \in BOOLEAN
    PROVE  FreeInstance(stream) \subseteq Slots
<1>1. StreamRange \subseteq Slots BY AudioAssumption DEF StreamRange, Slots
<1>2. ASSUME NEW R \in SUBSET Slots PROVE InRange(R) \subseteq Slots
  BY LeastSlot DEF InRange
<1>3. \A first \in SUBSET Slots : Slots \ first \in SUBSET Slots OBVIOUS
<1> QED BY <1>1, <1>2, <1>3 DEF FreeInstance

LEMMA StartFailsSounds ==
    ASSUME Sounding, NEW s \in Slots, StartFails(s), heard' = Deaf(s)
    PROVE  Sounding'
<1>1. inUse \subseteq Channels BY SoundFacts
<1>2. inUse' = inUse \ ToSet(slot[s].channels) BY <1>1 DEF StartFails, AfterFailure
<1>3. Release(s) BY <1>2 DEF StartFails, Release
<1> QED BY <1>3, ReleaseSounds

LEMMA StartSucceedsSounds ==
    ASSUME Sounding, NEW s \in Slots, main.sound \in Sounds, main.loop \in BOOLEAN,
           StartSucceeds(s), heard' = Deaf(s)
    PROVE  Sounding'
<1> DEFINE free == Channels \ (inUse \ ToSet(slot[s].channels))
           w == Width[main.sound]
           sl == Started(FirstChannels(free, w))
<1>1. inUse \subseteq Channels /\ ToSet(slot[s].channels) \subseteq inUse BY SoundFacts
<1>2. w \in {1, 2} BY AudioAssumption DEF Sounds
<1>3. Cardinality(free) >= w /\ free \in SUBSET Channels BY DEF StartSucceeds
<1>4. /\ inUse' = (Channels \ free) \cup ToSet(sl.channels)
      /\ IF sl.stream THEN PrimeStream(s, sl, Cleared(queue, slot[s]))
         ELSE /\ slot' = [slot EXCEPT ![s] = Busy(sl, 1)]
              /\ queue' = Queued(Cleared(queue, slot[s]), s, sl, 1)
  BY DEF StartSucceeds
<1>5. EmptySlot \in SlotType /\ EmptySlot.fill = NoFill /\ NoFill.phase = "none"
      /\ EmptySlot.status = [k \in Lanes |-> [b \in Buffers |-> "free"]]
  BY EmptyIsGood DEF EmptySlot, NoFill
<1>6. /\ FirstChannels(free, w) \in Seq(Channels) /\ Len(FirstChannels(free, w)) = w
      /\ ToSet(FirstChannels(free, w)) \subseteq free
      /\ \A j, k \in 1 .. w : FirstChannels(free, w)[j] = FirstChannels(free, w)[k] => j = k
  <2> HIDE DEF free, w
  <2> QED BY <1>2, <1>3, FreeChannels
<1> HIDE DEF free, w
<1>7. /\ sl \in SlotType /\ sl.channels = FirstChannels(free, w) /\ sl.active = TRUE
      /\ sl.fill = NoFill /\ sl.stream = (main.sound \in Streams) /\ sl.status = EmptySlot.status
  <2> DEFINE streams == main.sound \in Streams
  <2>1. streams \in BOOLEAN OBVIOUS
  <2>2. sl = [EmptySlot EXCEPT !.active = TRUE, !.sound = main.sound, !.loop = main.loop,
                !.stream = streams, !.channels = FirstChannels(free, w), !.generation = 1]
    BY DEF Started
  <2>3. EmptySlot.fill = NoFill BY <1>5
  <2> HIDE DEF streams, sl
  <2>4. sl.stream = streams BY <2>2, <1>5 DEF SlotType
  <2>5. /\ sl \in SlotType /\ sl.channels = FirstChannels(free, w) /\ sl.active = TRUE
        /\ sl.fill = NoFill /\ sl.status = EmptySlot.status
    BY <2>1, <2>2, <2>3, <1>5, <1>6 DEF SlotType
  <2> QED BY <2>4, <2>5 DEF streams
<1> HIDE DEF sl
<1>8. sl.channels # <<>> BY <1>2, <1>6, <1>7
<1>9. Paired(sl) BY <1>2, <1>6, <1>7 DEF Paired, LanesOf
<1>10. \A t \in Slots \ {s} : ToSet(sl.channels) \cap ToSet(slot[t].channels) = {}
  <2>1. \A t \in Slots \ {s} : ToSet(slot[t].channels) \subseteq inUse
    BY SoundFacts
  <2>2. \A t \in Slots \ {s} : ToSet(slot[t].channels) \cap ToSet(slot[s].channels) = {}
    BY DEF Sounding
  <2> QED BY <2>1, <2>2, <1>6, <1>7 DEF free
<1>11. inUse' = (inUse \ ToSet(slot[s].channels)) \cup ToSet(sl.channels)
  BY <1>1, <1>4 DEF free
<1>12. CASE sl.stream
  BY <1>4, <1>5, <1>7, <1>8, <1>9, <1>10, <1>11, <1>12, PrimeSounds
<1>13. CASE ~ sl.stream
  <2> DEFINE q == Cleared(queue, slot[s])
             Q == Queued(q, s, sl, 1)
             new == Busy(sl, 1)
  <2>0. queue \in [Channels -> Seq(Entries)] BY DEF Sounding
  <2>1. /\ q \in [Channels -> Seq(Entries)]
        /\ \A c \in Channels : q[c] = IF c \in ToSet(slot[s].channels) THEN <<>> ELSE queue[c]
    BY <2>0, ClearedQueue
  <2> HIDE DEF q
  <2>2. 1 \in 0 .. NumBuffers /\ 1 \in Buffers BY AudioAssumption DEF Buffers
  <2>3. /\ Q \in [Channels -> Seq(Entries)]
        /\ \A k \in LanesOf(sl) : Q[sl.channels[k]] = FirstBuffers(s, k, 1)
        /\ \A c \in Channels \ ToSet(sl.channels) : Q[c] = q[c]
    BY <2>1, <2>2, <1>7, <1>9, QueuedBuffers
  <2>4. slot' = [slot EXCEPT ![s] = new] /\ queue' = Q BY <1>4, <1>13 DEF q
  <2>5. /\ new.channels = sl.channels /\ new.active = TRUE /\ new.stream = FALSE
        /\ new.fill = NoFill /\ new = [sl EXCEPT !.status = new.status]
        /\ new.status = [k \in Lanes |-> IF k \in LanesOf(sl) THEN [sl.status[k] EXCEPT ![1] = "busy"]
                                         ELSE sl.status[k]]
    BY <1>7, <1>13 DEF Busy, SlotType
  <2>6. \A k \in Lanes, b \in Buffers :
           new.status[k][b] = IF k \in LanesOf(sl) /\ b = 1 THEN "busy" ELSE "free"
    BY <2>5, <1>5, <1>7
  <2>7. new.status \in [Lanes -> [Buffers -> Statuses]]
    <3>1. sl.status \in [Lanes -> [Buffers -> Statuses]] BY <1>7 DEF SlotType
    <3> QED BY <3>1, <2>5 DEF Statuses
  <2> HIDE DEF Q, new
  <2>8. new \in SlotType BY <2>5, <2>7, <1>7 DEF SlotType
  <2>9. LanesOf(new) = LanesOf(sl) /\ Paired(new) BY <2>5, <1>9 DEF LanesOf, Paired
  <2>10. LanesAgree(new)
    <3>1. 1 \in LanesOf(sl) BY <1>7, <1>8, <1>9, Voices
    <3> QED BY <3>1, <2>6 DEF LanesAgree, Lanes
  <2>11. FillIsFree(new) /\ FillIsNext(new) BY <2>5, <1>5 DEF FillIsFree, FillIsNext
  <2>12. ASSUME NEW k \in LanesOf(new) PROVE Lane(s, k, new, Q[new.channels[k]], Silent[k])
    <3>1. Q[new.channels[k]] = FirstBuffers(s, k, 1) BY <2>3, <2>5, <2>9
    <3>2. k \in Lanes BY <2>9, <1>7, <1>9, Voices
    <3>3. Owed(s, k, new, FirstBuffers(s, k, 1))
      <4>1. FirstBuffers(s, k, 1) = <<<<s, k, 1>>>> BY DEF FirstBuffers
      <4>2. new.status[k][1] = "busy" BY <2>2, <2>6, <2>9, <3>2
      <4> QED BY <4>1, <4>2 DEF Owed
    <3> QED BY <3>1, <3>3, <2>5 DEF Lane
  <2>13. Good(s, new, Q, Silent)
    BY <2>5, <2>8, <2>9, <2>10, <2>11, <2>12, <1>8 DEF Good
  <2>14. heard' = [heard EXCEPT ![s] = Silent] BY DEF Deaf, Silent
  <2>15. ToSet(slot[s].channels) \subseteq Channels BY <1>1
  <2>16. /\ \A t \in Slots \ {s} : ToSet(new.channels) \cap ToSet(slot[t].channels) = {}
         /\ inUse' = (inUse \ ToSet(slot[s].channels)) \cup ToSet(new.channels)
    BY <2>5, <1>10, <1>11
  <2>17. /\ \A c \in Channels \ (ToSet(slot[s].channels) \cup ToSet(new.channels)) : Q[c] = queue[c]
         /\ \A c \in ToSet(slot[s].channels) \ ToSet(new.channels) : Q[c] = <<>>
    BY <2>1, <2>3, <2>5, <2>15
  <2> QED BY <2>3, <2>4, <2>13, <2>14, <2>16, <2>17, SilentHeard, OneSlotChanges
<1> QED BY <1>12, <1>13

LEMMA PlaySoundSounds ==
    ASSUME Sounding, Counters, PlaySound
    PROVE  Sounding'
<1> DEFINE S == FreeInstance(main.sound \in Streams)
<1>0. (main.sound \in Streams) \in BOOLEAN OBVIOUS
<1>1. S \subseteq Slots BY <1>0, FreeInstances
<1>2. main.sound \in Sounds /\ main.loop \in BOOLEAN BY DEF Counters, MainType, PlaySound, Holds
<1>3. CASE S = {} BY <1>3, NothingHeardChanges DEF PlaySound
<1>4. CASE S # {}
  <2>1. PICK s \in S : (StartFails(s) \/ StartSucceeds(s)) /\ heard' = Deaf(s)
    BY <1>4 DEF PlaySound
  <2> QED BY <2>1, <1>1, <1>2, StartFailsSounds, StartSucceedsSounds
<1> QED BY <1>3, <1>4

\* A buffer is filled and added to the queues of its channels.
LEMMA FillingSounds ==
    ASSUME Sounding, NEW s \in Slots, NEW new \in SlotType, Paired(new), NEW b \in Buffers,
           new.channels = slot[s].channels, Good(s, new, Added(queue, s, new, b), heard[s]),
           slot' = [slot EXCEPT ![s] = new], queue' = Added(queue, s, new, b),
           UNCHANGED <<inUse, heard>>
    PROVE  Sounding'
<1> DEFINE q == Added(queue, s, new, b)
<1>1. queue \in [Channels -> Seq(Entries)] BY DEF Sounding
<1>2. /\ q \in [Channels -> Seq(Entries)]
      /\ \A c \in Channels \ ToSet(new.channels) : q[c] = queue[c]
  BY <1>1, AddedBuffer
<1>3. heard' = [heard EXCEPT ![s] = heard[s]] BY DEF Sounding
<1>4. inUse' = (inUse \ ToSet(slot[s].channels)) \cup ToSet(new.channels) BY SoundFacts
<1>5. \A t \in Slots \ {s} : ToSet(new.channels) \cap ToSet(slot[t].channels) = {}
  BY DEF Sounding
<1>6. heard[s] \in [Lanes -> Heard] BY SoundFacts
<1>7. /\ \A c \in Channels \ (ToSet(slot[s].channels) \cup ToSet(new.channels)) : q[c] = queue[c]
      /\ \A c \in ToSet(slot[s].channels) \ ToSet(new.channels) : q[c] = <<>>
  BY <1>2
<1>8. Good(s, new, q, heard[s]) /\ queue' = q OBVIOUS
<1> HIDE DEF q
<1> QED BY <1>2, <1>3, <1>4, <1>5, <1>6, <1>7, <1>8, OneSlotChanges

LEMMA NoFillFacts == NoFill \in Fill /\ NoFill.phase = "none"
BY SlotOne, AudioAssumption DEF NoFill, Fill

LEMMA UpdateBufferSounds ==
    ASSUME Sounding, Counters, UpdateBuffer
    PROVE  Sounding'
<1> DEFINE s == main.slot
           b == main.buffer
           freed == Reclaimed(slot[s], b)
           apply == freed.status[1][b] = "free" /\ freed.fill.phase = "ready" /\ freed.fill.buffer = b
           applied == IF apply THEN Applied(freed) ELSE freed
           wants == applied.status[1][b] = "free" /\ ~ applied.finished /\ applied.fill.phase = "none"
           refilled == wants /\ ~ workerEnabled /\ CanFill(applied, applied.cursor)
           after == IF wants /\ workerEnabled THEN Requested(applied, b)
                    ELSE IF refilled THEN FilledNow(applied, b) ELSE applied
<1>1. /\ Streaming(s) /\ b <= NumBuffers /\ UNCHANGED <<inUse, heard>>
      /\ slot' = [slot EXCEPT ![s] = after]
      /\ queue' = IF refilled \/ (apply /\ freed.fill.success) THEN Added(queue, s, after, b) ELSE queue
  BY ZenonT(30) DEF UpdateBuffer
<1>2. s \in Slots /\ b \in Buffers
  BY <1>1, AudioAssumption DEF Counters, MainType, Buffers
<1> HIDE DEF s, b
<1>3. /\ slot[s] \in SlotType /\ Paired(slot[s]) /\ Good(s, slot[s], queue, heard[s])
      /\ heard[s] \in [Lanes -> Heard] /\ queue \in [Channels -> Seq(Entries)]
  BY <1>2, SoundFacts DEF Sounding
<1>4. Good(s, freed, queue, heard[s]) BY <1>2, <1>3, ReclaimedIsGood
<1>5. /\ freed.channels = slot[s].channels
      /\ freed.active = slot[s].active /\ freed.stream = slot[s].stream
  BY <1>3, ReclaimedSlot
<1>6. /\ freed \in SlotType /\ freed.channels = slot[s].channels
      /\ freed.active = slot[s].active /\ freed.stream = slot[s].stream
  BY <1>4, <1>5 DEF Good
<1> HIDE DEF freed
<1>7. Paired(freed) /\ freed.active /\ freed.stream /\ FillIsFree(freed) /\ FillIsNext(freed)
      /\ LanesAgree(freed) /\ freed.fill \in Fill /\ freed.cursor \in 0 .. NumChunks
      /\ freed.status \in [Lanes -> [Buffers -> Statuses]] /\ freed.chunk \in [Buffers -> Heard]
  BY <1>1, <1>4, <1>6 DEF Good, Streaming, SlotType, Heard
\* The buffer is filled with what is at the cursor.
<1>8. ASSUME NEW new, new = Busy([freed EXCEPT !.cursor = After(freed, freed.cursor),
                                    !.chunk[b] = ChunkAt(freed.cursor), !.fill = new.fill], b),
             new.fill \in Fill, new.fill.phase = "none", freed.status[1][b] = "free",
             CanFill(freed, freed.cursor), slot' = [slot EXCEPT ![s] = new],
             queue' = Added(queue, s, new, b)
      PROVE  Sounding'
  <2> DEFINE mid == [freed EXCEPT !.cursor = After(freed, freed.cursor),
                                  !.chunk[b] = ChunkAt(freed.cursor), !.fill = new.fill]
  <2>1. ChunkAt(freed.cursor) \in Heard /\ After(freed, freed.cursor) \in 0 .. NumChunks
    BY <1>7, InTheFile, AudioAssumption DEF Heard, Silence
  <2>2. [freed.chunk EXCEPT ![b] = ChunkAt(freed.cursor)] \in [Buffers -> Heard]
    BY <2>1, <1>2, <1>7
  <2>3. /\ mid \in SlotType /\ mid.active = freed.active /\ mid.stream = freed.stream
        /\ mid.loop = freed.loop /\ mid.channels = freed.channels /\ mid.fill = new.fill
        /\ mid.cursor = After(freed, freed.cursor) /\ mid.status = freed.status
        /\ mid.chunk = [freed.chunk EXCEPT ![b] = ChunkAt(freed.cursor)]
    BY <1>6, <1>8, <2>1, <2>2 DEF SlotType, Heard
  <2>4. new = Busy(mid, b) BY <1>8
  <2> HIDE DEF mid
  <2>5. LanesOf(mid) = LanesOf(freed) BY <2>3 DEF LanesOf
  <2>6. /\ new = [mid EXCEPT !.status = new.status]
        /\ new.status = [k \in Lanes |-> IF k \in LanesOf(freed) THEN [freed.status[k] EXCEPT ![b] = "busy"]
                                         ELSE freed.status[k]]
        /\ new.active = mid.active /\ new.stream = mid.stream
        /\ new.loop = mid.loop /\ new.channels = mid.channels
        /\ new.cursor = mid.cursor /\ new.chunk = mid.chunk
    BY <2>3, <2>4, <2>5 DEF Busy, SlotType
  <2>9. \A k \in Lanes, x \in Buffers :
           new.status[k][x] = IF k \in LanesOf(freed) /\ x = b THEN "busy" ELSE freed.status[k][x]
    BY <2>6, <1>7
  <2>7. new.status \in [Lanes -> [Buffers -> Statuses]]
    <3>1. \A k \in Lanes : [freed.status[k] EXCEPT ![b] = "busy"] \in [Buffers -> Statuses]
      BY <1>7 DEF Statuses
    <3> QED BY <3>1, <2>6, <1>7
  <2>8. new \in SlotType
    BY <2>3, <2>6, <2>7 DEF SlotType
  <2>12. \A x \in Buffers : new.chunk[x] = IF x = b THEN ChunkAt(freed.cursor) ELSE freed.chunk[x]
    BY <2>3, <2>6, <1>7
  <2>10. Paired(new) BY <2>3, <2>6, <1>7 DEF Paired, LanesOf
  <2>11. Good(s, new, Added(queue, s, new, b), heard[s])
    <3>1. /\ new.active = freed.active /\ new.stream = freed.stream /\ new.loop = freed.loop
          /\ new.channels = freed.channels /\ new.cursor = After(freed, freed.cursor)
      BY <2>3, <2>6
    <3>2. FilledFrom(freed, new, b) BY <3>1, <1>8, <2>8, <2>9, <2>12 DEF FilledFrom
    <3> QED BY <3>2, <1>2, <1>3, <1>4, <1>7, <1>8, FilledIsGood
  <2>13. new.channels = slot[s].channels /\ UNCHANGED <<inUse, heard>> BY <1>1, <1>6, <2>3, <2>6
  <2> QED BY <1>2, <1>8, <2>8, <2>10, <2>11, <2>13, FillingSounds
<1>9. CASE apply /\ freed.fill.success
  <2>1. CanFill(freed, freed.cursor) /\ freed.fill.start = ChunkAt(freed.cursor)
        /\ freed.fill.next = After(freed, freed.cursor)
    BY <1>7, <1>9 DEF FillIsNext
  <2>2. applied = Busy([freed EXCEPT !.cursor = After(freed, freed.cursor),
                          !.chunk[b] = ChunkAt(freed.cursor), !.fill = NoFill], b)
    BY <1>9, <2>1 DEF Applied
  <2>3. applied.fill = NoFill BY <2>2, <1>6 DEF Busy, SlotType
  <2>4. applied.status[1][b] = "busy"
    <3>1. 1 \in LanesOf(freed) BY <1>4, <1>6, <1>7, Voices DEF Good
    <3> DEFINE mid == [freed EXCEPT !.cursor = After(freed, freed.cursor),
                          !.chunk[b] = ChunkAt(freed.cursor), !.fill = NoFill]
    <3>2. mid.status = freed.status /\ mid.channels = freed.channels BY <1>6 DEF SlotType
    <3>3. applied = Busy(mid, b) BY <2>2
    <3>4. applied.status = [k \in Lanes |-> IF k \in LanesOf(mid) THEN [mid.status[k] EXCEPT ![b] = "busy"]
                                            ELSE mid.status[k]]
      <4>1. mid = [f \in DOMAIN mid |-> mid[f]] /\ "status" \in DOMAIN mid BY <1>6 DEF SlotType
      <4> HIDE DEF mid
      <4> QED BY <3>3, <4>1 DEF Busy
    <3>5. 1 \in LanesOf(mid) BY <3>1, <3>2 DEF LanesOf
    <3> HIDE DEF mid, applied
    <3> QED BY <3>2, <3>4, <3>5, <1>2, <1>7 DEF Lanes
  <2>5. ~ wants BY <2>4
  <2>6. after = applied BY <2>5
  <2>7. slot' = [slot EXCEPT ![s] = applied] /\ queue' = Added(queue, s, applied, b)
    BY <1>1, <1>9, <2>6
  <2>8. freed.status[1][b] = "free" BY <1>9
  <2> HIDE DEF applied
  <2> QED BY <1>8, <2>1, <2>2, <2>3, <2>7, <2>8, NoFillFacts
<1>10. CASE apply /\ ~ freed.fill.success
  <2>1. applied = [freed EXCEPT !.finished = TRUE, !.fill = NoFill] BY <1>10 DEF Applied
  <2>2. /\ applied.active = freed.active /\ applied.stream = freed.stream
        /\ applied.loop = freed.loop /\ applied.channels = freed.channels
        /\ applied.status = freed.status /\ applied.chunk = freed.chunk
        /\ applied.cursor = freed.cursor /\ applied.fill = NoFill /\ applied.finished = TRUE
        /\ applied \in SlotType
    BY <2>1, <1>6, NoFillFacts DEF SlotType
  <2>3. ~ wants BY <2>2
  <2>4. after = applied BY <2>3
  <2>5. slot' = [slot EXCEPT ![s] = applied] /\ queue' = queue BY <1>1, <1>10, <2>3, <2>4
  <2> HIDE DEF applied
  <2>6. FillIsFree(applied) /\ FillIsNext(applied) BY <2>2, NoFillFacts DEF FillIsFree, FillIsNext
  <2>7. Good(s, applied, queue, heard[s]) BY <1>4, <2>2, <2>6, SameBuffers
  <2>8. applied.channels = slot[s].channels /\ UNCHANGED <<inUse, heard>> BY <1>1, <1>6, <2>2
  <2> QED BY <1>2, <2>5, <2>7, <2>8, FlagsChange
<1>11. CASE ~ apply
  <2>1. applied = freed BY <1>11
  <2>2. CASE wants /\ workerEnabled
    <3> DEFINE new == Requested(freed, b)
    <3>1. after = new BY <2>1, <2>2
    <3>2. ~ refilled BY <2>2
    <3>3. slot' = [slot EXCEPT ![s] = new] /\ queue' = queue BY <1>1, <1>11, <3>1, <3>2
    <3> DEFINE f == [NoFill EXCEPT !.phase = "requested", !.buffer = b]
    <3>4. f \in Fill /\ f.phase = "requested" /\ f.buffer = b
      BY NoFillFacts, <1>2 DEF Fill
    <3>5. new = [freed EXCEPT !.fill = f] BY DEF Requested
    <3> HIDE DEF f, new
    <3>6. /\ new.active = freed.active /\ new.stream = freed.stream
          /\ new.loop = freed.loop /\ new.channels = freed.channels
          /\ new.status = freed.status /\ new.chunk = freed.chunk
          /\ new.cursor = freed.cursor /\ new.fill = f
          /\ new \in SlotType
      BY <3>4, <3>5, <1>6 DEF SlotType
    <3>7. FillIsFree(new) /\ FillIsNext(new)
      BY <2>1, <2>2, <3>4, <3>6 DEF FillIsFree, FillIsNext
    <3>8. Good(s, new, queue, heard[s]) BY <1>4, <3>6, <3>7, SameBuffers
    <3>9. new.channels = slot[s].channels /\ UNCHANGED <<inUse, heard>> BY <1>1, <1>6, <3>6
    <3> QED BY <1>2, <3>3, <3>8, <3>9, FlagsChange
  <2>3. CASE refilled
    <3> DEFINE new == FilledNow(freed, b)
    <3>1. after = new /\ freed.status[1][b] = "free" /\ freed.fill.phase = "none"
          /\ CanFill(freed, freed.cursor)
      BY <2>1, <2>3
    <3>2. slot' = [slot EXCEPT ![s] = new] /\ queue' = Added(queue, s, new, b)
      BY <1>1, <2>3, <3>1
    <3> DEFINE mid == [freed EXCEPT !.cursor = After(freed, freed.cursor),
                                    !.chunk[b] = ChunkAt(freed.cursor)]
    <3>3. new = Busy(mid, b) BY DEF FilledNow
    <3>4. mid = [freed EXCEPT !.cursor = After(freed, freed.cursor),
                              !.chunk[b] = ChunkAt(freed.cursor), !.fill = freed.fill]
      BY <1>6 DEF SlotType
    <3>5. new.fill = freed.fill BY <1>6 DEF FilledNow, Busy, SlotType
    <3>6. new = Busy([freed EXCEPT !.cursor = After(freed, freed.cursor),
                                   !.chunk[b] = ChunkAt(freed.cursor), !.fill = new.fill], b)
      BY <3>3, <3>4, <3>5
    <3> HIDE DEF new
    <3> QED BY <1>7, <1>8, <3>1, <3>2, <3>5, <3>6
  <2>4. CASE ~ (wants /\ workerEnabled) /\ ~ refilled
    <3>1. after = freed BY <2>1, <2>4
    <3>2. slot' = [slot EXCEPT ![s] = freed] /\ queue' = queue BY <1>1, <1>11, <2>4, <3>1
    <3> QED BY <1>1, <1>2, <1>4, <1>6, <3>2, FlagsChange
  <2> QED BY <2>2, <2>3, <2>4
<1> QED BY <1>9, <1>10, <1>11

\* The DSP has played what is first in the queue of a channel.
LEMMA PlaysOutSounds ==
    ASSUME Sounding, NEW c \in Channels, PlaysOut(c)
    PROVE  Sounding'
<1>1. queue[c] # <<>> /\ c \in inUse BY DEF PlaysOut, Sounding
<1>2. PICK s \in Slots : c \in ToSet(slot[s].channels) BY <1>1 DEF Sounding
<1>3. /\ slot[s] \in SlotType /\ Paired(slot[s]) /\ Good(s, slot[s], queue, heard[s])
      /\ heard[s] \in [Lanes -> Heard] /\ queue \in [Channels -> Seq(Entries)]
  BY <1>2, SoundFacts DEF Sounding
<1>4. PICK k \in LanesOf(slot[s]) : slot[s].channels[k] = c BY <1>2, <1>3, Voices
<1> DEFINE sl == slot[s]
           r == queue[c]
           rr == Tail(queue[c])
           b == Head(queue[c])[3]
<1>5. k \in Lanes /\ r \in Seq(Entries) /\ r # <<>> BY <1>1, <1>3, <1>4, Voices
<1>6. Lane(s, k, sl, r, heard[s][k]) BY <1>3, <1>4 DEF Good
<1>7. Len(r) \in Nat \ {0} /\ r[1] \in Entries /\ Head(r) = r[1] BY <1>5
<1>8. r[1][1] = s /\ r[1][2] = k /\ sl.status[k][r[1][3]] = "busy" /\ r[1][3] \in Buffers
  BY <1>6, <1>7 DEF Lane, Owed, Entries
<1>9. Head(queue[c])[1] = s /\ Head(queue[c])[2] = k /\ b = r[1][3] /\ b \in Buffers
      /\ sl.status[k][b] = "busy"
  BY <1>7, <1>8
<1> DEFINE new == [sl EXCEPT !.status[k][b] = "done"]
           h == [heard[s] EXCEPT ![k] = sl.chunk[b]]
           q == [queue EXCEPT ![c] = rr]
<1>10. slot' = [slot EXCEPT ![s] = new] BY <1>9, <1>2, ZenonT(30) DEF PlaysOut, Sounding
<1>11. heard' = [heard EXCEPT ![s] = h] BY <1>9, <1>2, ZenonT(30) DEF PlaysOut, Sounding
<1>12. queue' = q /\ inUse' = inUse BY ZenonT(30) DEF PlaysOut
<1>13. rr \in Seq(Entries) /\ Len(rr) = Len(r) - 1 /\ \A i \in 1 .. Len(rr) : rr[i] = r[i + 1]
  BY <1>5, HeadTailProperties
<1> HIDE DEF r, rr, b
<1>14. q \in [Channels -> Seq(Entries)] BY <1>3, <1>13
<1>15. /\ sl.status \in [Lanes -> [Buffers -> Statuses]] /\ sl.chunk \in [Buffers -> Heard]
       /\ sl.channels \in Seq(Channels) /\ sl.fill \in Fill
  BY <1>3 DEF SlotType, Heard
<1>16. sl.chunk[b] \in Heard /\ h \in [Lanes -> Heard] BY <1>3, <1>9, <1>15
<1>17. [sl.status EXCEPT ![k][b] = "done"] \in [Lanes -> [Buffers -> Statuses]]
  BY <1>5, <1>9, <1>15 DEF Statuses
<1>18. /\ new \in SlotType /\ new.active = sl.active /\ new.stream = sl.stream /\ new.loop = sl.loop
       /\ new.channels = sl.channels /\ new.chunk = sl.chunk /\ new.cursor = sl.cursor
       /\ new.fill = sl.fill /\ new.status = [sl.status EXCEPT ![k][b] = "done"]
  BY <1>3, <1>17 DEF SlotType
<1>19. \A j \in Lanes, x \in Buffers :
          new.status[j][x] = IF j = k /\ x = b THEN "done" ELSE sl.status[j][x]
  BY <1>5, <1>9, <1>15, <1>18
<1>20. \A j \in Lanes : h[j] = IF j = k THEN sl.chunk[b] ELSE heard[s][j] BY <1>3
<1>21. \A d \in Channels : q[d] = IF d = c THEN rr ELSE queue[d] BY <1>3
<1> HIDE DEF new, h, q
<1>22. LanesOf(new) = LanesOf(sl) /\ Paired(new) BY <1>3, <1>18 DEF LanesOf, Paired
<1>23. LanesAgree(new)
  <2>1. LanesAgree(sl) BY <1>3 DEF Good
  <2> QED BY <2>1, <1>5, <1>9, <1>19 DEF LanesAgree, Lanes
<1>24. FillIsFree(new) /\ FillIsNext(new)
  <2>1. FillIsFree(sl) /\ FillIsNext(sl) /\ LanesAgree(sl) BY <1>3 DEF Good
  <2>2. sl.fill.buffer \in Buffers BY <1>15 DEF Fill
  <2>3. FillIsNext(new) BY <2>1, <1>18 DEF FillIsNext, CanFill, After
  <2>4. FillIsFree(new)
    <3>1. SUFFICES ASSUME sl.fill.phase # "none" PROVE new.status[1][sl.fill.buffer] = "free"
      BY <1>18 DEF FillIsFree
    <3>2. sl.status[1][sl.fill.buffer] = "free" BY <2>1, <3>1 DEF FillIsFree
    <3>3. ~ (1 = k /\ sl.fill.buffer = b) BY <3>2, <1>9
    <3> QED BY <3>2, <3>3, <2>2, <1>19 DEF Lanes
  <2> QED BY <2>3, <2>4
<1>25. \A e, d : /\ Follows(sl, e, d) <=> Follows(new, e, d)
                 /\ Reaches(sl, e) <=> Reaches(new, e)
  BY <1>18 DEF Follows, Reaches
<1>26. ASSUME NEW j \in LanesOf(new) PROVE Lane(s, j, new, q[new.channels[j]], h[j])
  <2>0. j \in Lanes /\ j \in LanesOf(sl) /\ sl.channels[j] \in Channels BY <1>3, <1>22, Voices
  <2>1. CASE j # k
    <3>1. sl.channels[j] # c BY <2>0, <2>1, <1>3, <1>4 DEF Paired
    <3>2. q[new.channels[j]] = queue[sl.channels[j]] /\ h[j] = heard[s][j]
      BY <2>0, <2>1, <3>1, <1>18, <1>20, <1>21
    <3> DEFINE x == queue[sl.channels[j]]
    <3>3. Lane(s, j, sl, x, heard[s][j]) BY <2>0, <1>3 DEF Good
    <3>4. \A i \in 1 .. Len(x) : x[i][3] \in Buffers BY <1>3, <2>0 DEF Entries
    <3> HIDE DEF x
    <3>5. Owed(s, j, new, x) BY <2>0, <2>1, <3>3, <3>4, <1>19 DEF Lane, Owed
    <3>6. InOrder(sl, x, heard[s][j]) => InOrder(new, x, heard[s][j])
      BY <1>18, <1>25 DEF InOrder
    <3> QED BY <3>2, <3>3, <3>5, <3>6, <1>18 DEF Lane, x
  <2>2. CASE j = k
    <3>1. q[new.channels[j]] = rr /\ h[j] = sl.chunk[b]
      BY <2>0, <2>2, <1>4, <1>18, <1>20, <1>21
    <3>2. \A i \in 1 .. Len(rr) : i + 1 \in 1 .. Len(r) /\ i + 1 # 1 BY <1>7, <1>13
    <3>3. \A i \in 1 .. Len(r) : r[i][3] \in Buffers BY <1>5 DEF Entries, r
    <3>4. \A i \in 1 .. Len(rr) : r[i + 1][3] # b
      BY <3>2, <1>6, <1>7, <1>9 DEF Lane, Owed
    <3>5. Owed(s, k, new, rr)
      <4>1. \A i \in 1 .. Len(rr) : rr[i][1] = s /\ rr[i][2] = k /\ new.status[k][rr[i][3]] = "busy"
        BY <3>2, <3>3, <3>4, <1>5, <1>6, <1>13, <1>19, SMTT(30) DEF Lane, Owed
      <4>2. ASSUME NEW i \in 1 .. Len(rr), NEW m \in 1 .. Len(rr), rr[i][3] = rr[m][3] PROVE i = m
        <5>1. \A x, y \in 1 .. Len(r) : r[x][3] = r[y][3] => x = y BY <1>6 DEF Lane, Owed
        <5>2. i + 1 \in 1 .. Len(r) /\ m + 1 \in 1 .. Len(r) BY <3>2
        <5>3. r[i + 1][3] = r[m + 1][3] BY <4>2, <1>13
        <5>4. i + 1 = m + 1 BY ONLY <5>1, <5>2, <5>3
        <5>5. i \in Int /\ m \in Int BY <1>7, <1>13
        <5> QED BY ONLY <5>4, <5>5
      <4> QED BY <4>1, <4>2 DEF Owed
    <3>6. ASSUME sl.active, sl.stream PROVE InOrder(new, rr, sl.chunk[b])
      <4>1. InOrder(sl, r, heard[s][k]) BY <3>6, <1>6 DEF Lane
      <4>2. r # <<>> BY <1>5 DEF r
      <4>3. ASSUME NEW i \in 1 .. Len(rr) - 1
            PROVE  Follows(new, new.chunk[rr[i][3]], new.chunk[rr[i + 1][3]])
        <5>1. i + 1 \in 1 .. Len(r) - 1 /\ i \in 1 .. Len(rr) /\ i + 1 \in 1 .. Len(rr)
          BY <1>7, <1>13
        <5>2. Follows(sl, sl.chunk[r[i + 1][3]], sl.chunk[r[(i + 1) + 1][3]])
          BY <5>1, <4>1 DEF InOrder
        <5> QED BY <5>1, <5>2, <1>13, <1>18, <1>25
      <4>4. CASE rr = <<>>
        <5>1. Len(r) = 1 BY <4>4, <1>7, <1>13
        <5>2. Reaches(sl, sl.chunk[b]) BY <5>1, <4>1, <4>2, <1>9 DEF InOrder
        <5> QED BY <5>2, <4>3, <4>4, <1>25 DEF InOrder
      <4>5. CASE rr # <<>>
        <5>1. Len(rr) \in 1 .. Len(rr) /\ 1 \in 1 .. Len(r) - 1 /\ Len(rr) + 1 = Len(r)
              /\ 1 \in 1 .. Len(rr)
          BY <4>5, <1>7, <1>13
        <5>2. rr[Len(rr)] = r[Len(r)] /\ rr[1] = r[1 + 1] BY <5>1, <1>13
        <5>3. Reaches(new, new.chunk[rr[Len(rr)][3]])
          BY <5>2, <4>1, <4>2, <1>18, <1>25 DEF InOrder
        <5>4. Follows(sl, sl.chunk[b], sl.chunk[r[1 + 1][3]])
          BY <5>1, <4>1, <1>9 DEF InOrder
        <5>5. Follows(new, sl.chunk[b], new.chunk[rr[1][3]])
          BY <5>2, <5>4, <1>18, <1>25
        <5> QED BY <5>3, <5>5, <4>3, <4>5 DEF InOrder
      <4> QED BY <4>4, <4>5
    <3> QED BY <3>1, <3>5, <3>6, <2>2, <1>18 DEF Lane
  <2> QED BY <2>1, <2>2
<1>27. Good(s, new, q, h)
  BY <1>3, <1>18, <1>22, <1>23, <1>24, <1>26 DEF Good
<1>28. \A t \in Slots \ {s} : ToSet(new.channels) \cap ToSet(slot[t].channels) = {}
  BY <1>18 DEF Sounding
<1>29. inUse' = (inUse \ ToSet(slot[s].channels)) \cup ToSet(new.channels)
  BY <1>12, <1>18, SoundFacts
<1>30. /\ \A d \in Channels \ (ToSet(slot[s].channels) \cup ToSet(new.channels)) : q[d] = queue[d]
       /\ \A d \in ToSet(slot[s].channels) \ ToSet(new.channels) : q[d] = <<>>
  BY <1>2, <1>18, <1>21
<1> QED BY <1>10, <1>11, <1>12, <1>14, <1>16, <1>27, <1>28, <1>29, <1>30, OneSlotChanges

LEMMA SetPausedSounds ==
    ASSUME Sounding, NEW s \in Slots, NEW p \in BOOLEAN, SetPaused(s, p)
    PROVE  Sounding'
<1> DEFINE new == [slot[s] EXCEPT !.paused = p]
<1>1. slot[s] \in SlotType /\ Good(s, slot[s], queue, heard[s]) BY SoundFacts
<1>2. slot' = [slot EXCEPT ![s] = new] /\ UNCHANGED <<inUse, queue, heard>>
  BY DEF SetPaused, AtOnce, Sounding
<1>3. /\ new \in SlotType /\ new.active = slot[s].active /\ new.stream = slot[s].stream
      /\ new.loop = slot[s].loop /\ new.channels = slot[s].channels /\ new.status = slot[s].status
      /\ new.chunk = slot[s].chunk /\ new.cursor = slot[s].cursor /\ new.fill = slot[s].fill
  BY <1>1 DEF SlotType
<1> HIDE DEF new
<1>4. FillIsFree(new) /\ FillIsNext(new)
  BY <1>1, <1>3 DEF Good, FillIsFree, FillIsNext, CanFill, After
<1>5. Good(s, new, queue, heard[s]) BY <1>1, <1>3, <1>4, SameBuffers
<1> QED BY <1>2, <1>3, <1>5, FlagsChange

\* The worker takes a request, or puts down its answer.
LEMMA FillChanges ==
    ASSUME Sounding, NEW s \in Slots, NEW f \in Fill, slot[s].fill.phase # "none",
           f.buffer = slot[s].fill.buffer,
           slot[s].active /\ slot[s].stream /\ f.phase = "ready" /\ f.success =>
              /\ CanFill(slot[s], slot[s].cursor)
              /\ f.start = ChunkAt(slot[s].cursor) /\ f.next = After(slot[s], slot[s].cursor),
           slot' = [slot EXCEPT ![s] = [slot[s] EXCEPT !.fill = f]],
           UNCHANGED <<inUse, queue, heard>>
    PROVE  Sounding'
<1> DEFINE new == [slot[s] EXCEPT !.fill = f]
<1>1. slot[s] \in SlotType /\ Good(s, slot[s], queue, heard[s]) BY SoundFacts
<1>2. /\ new \in SlotType /\ new.active = slot[s].active /\ new.stream = slot[s].stream
      /\ new.loop = slot[s].loop /\ new.channels = slot[s].channels /\ new.status = slot[s].status
      /\ new.chunk = slot[s].chunk /\ new.cursor = slot[s].cursor /\ new.fill = f
  BY <1>1 DEF SlotType
<1>3. slot' = [slot EXCEPT ![s] = new] OBVIOUS
<1> HIDE DEF new
<1>4. FillIsFree(new) BY <1>1, <1>2 DEF Good, FillIsFree
<1>5. FillIsNext(new) BY <1>2 DEF FillIsNext, CanFill, After
<1>6. Good(s, new, queue, heard[s]) BY <1>1, <1>2, <1>4, <1>5, SameBuffers
<1> QED BY <1>2, <1>3, <1>6, FlagsChange

LEMMA WantingSlots ==
    ASSUME Wanting # {}
    PROVE  Min(Wanting) \in Wanting /\ Wanting \subseteq Slots
BY LeastSlot DEF Wanting

LEMMA PickFillSounds ==
    ASSUME Sounding, PickFill
    PROVE  Sounding'
<1>1. UNCHANGED <<inUse, queue, heard>> BY DEF PickFill, WorkerOnly
<1>2. CASE UNCHANGED slot BY <1>1, <1>2, NothingHeardChanges
<1>3. CASE ~ UNCHANGED slot
  <2> DEFINE s == Min(Wanting)
             f == [slot[s].fill EXCEPT !.phase = "inProgress"]
  <2>1. Wanting # {} /\ slot' = [slot EXCEPT ![s].fill.phase = "inProgress"] BY <1>3 DEF PickFill
  <2>2. s \in Slots /\ slot[s].fill.phase = "requested" BY <2>1, WantingSlots DEF Wanting
  <2> HIDE DEF s
  <2>3. slot[s] \in SlotType BY <2>2, SoundFacts
  <2>4. slot[s].fill \in Fill BY <2>3 DEF SlotType
  <2>5. f \in Fill /\ f.phase = "inProgress" /\ f.buffer = slot[s].fill.buffer
    BY <2>4 DEF Fill
  <2>6. slot' = [slot EXCEPT ![s] = [slot[s] EXCEPT !.fill = f]]
    BY <2>1, <2>2, <2>3 DEF Sounding, SlotType
  <2> HIDE DEF f
  <2> QED BY <1>1, <2>2, <2>5, <2>6, FillChanges
<1> QED BY <1>2, <1>3

LEMMA EndFillSounds ==
    ASSUME Sounding, Counters, Filling, NEW ok \in BOOLEAN, EndFill(ok)
    PROVE  Sounding'
<1> DEFINE s == worker.slot
           sl == slot[s]
           f == [sl.fill EXCEPT !.phase = "ready", !.success = ok,
                    !.start = ChunkAt(worker.cursor), !.next = After(sl, worker.cursor)]
           current == /\ Streaming(s) /\ sl.fill.phase = "inProgress"
                      /\ sl.generation = worker.generation /\ sl.fill.buffer = worker.buffer
<1>1. /\ UNCHANGED <<inUse, queue, heard>> /\ worker.pc = "fill"
      /\ ok => CanFill(sl, worker.cursor)
      /\ slot' = IF current THEN [slot EXCEPT ![s] = [sl EXCEPT !.fill = f]] ELSE slot
  BY DEF EndFill, AtWorker, WorkerOnly
<1>2. s \in Slots /\ worker.cursor \in 0 .. NumChunks BY DEF Counters, WorkerType
<1>3. sl.cursor = worker.cursor BY <1>1 DEF Filling
<1>4. CASE ~ current BY <1>1, <1>4, NothingHeardChanges
<1>5. CASE current
  <2>1. slot' = [slot EXCEPT ![s] = [sl EXCEPT !.fill = f]] BY <1>1, <1>5
  <2>2. sl.fill \in Fill /\ sl.fill.phase = "inProgress" BY <1>2, <1>5, SoundFacts DEF SlotType
  <2>3. ChunkAt(worker.cursor) \in 0 .. NumChunks /\ After(sl, worker.cursor) \in 0 .. NumChunks
    BY <1>2, InTheFile, AudioAssumption
  <2>4. /\ f \in Fill /\ f.buffer = sl.fill.buffer /\ f.success = ok
        /\ f.start = ChunkAt(worker.cursor) /\ f.next = After(sl, worker.cursor)
    BY <2>2, <2>3 DEF Fill
  <2> HIDE DEF f
  <2>5. f.phase = "ready" /\ f.success =>
           /\ CanFill(sl, sl.cursor)
           /\ f.start = ChunkAt(sl.cursor) /\ f.next = After(sl, sl.cursor)
    BY <1>1, <1>3, <2>4
  <2> QED BY <1>1, <1>2, <2>1, <2>2, <2>4, <2>5, FillChanges
<1> QED BY <1>4, <1>5

LEMMA JoinSounds ==
    ASSUME Join
    PROVE  Sounding'
<1>1. /\ slot' = [s \in Slots |-> EmptySlot] /\ inUse' = {} /\ queue' = [c \in Channels |-> <<>>]
      /\ heard' = [s \in Slots |-> Silent]
  BY DEF Join, Silent
<1>2. ToSet(EmptySlot.channels) = {} /\ EmptySlot \in SlotType BY EmptyIsGood DEF ToSet
<1>3. queue' \in [Channels -> Seq(Entries)]
  <2>1. <<>> \in Seq(Entries) OBVIOUS
  <2> QED BY <1>1, <2>1
<1>4. \A s \in Slots : slot'[s] = EmptySlot /\ heard'[s] = Silent BY <1>1
<1>5. \A s \in Slots : Good(s, slot'[s], queue', heard'[s])
  BY <1>4, EmptyIsGood
<1>6. slot' \in [Slots -> SlotType] /\ heard' \in [Slots -> [Lanes -> Heard]]
  BY <1>1, <1>2, SilentHeard
<1>7. inUse' = UNION {ToSet(slot'[s].channels) : s \in Slots} BY <1>1, <1>2
<1>8. \A s, t \in Slots : ToSet(slot'[s].channels) \cap ToSet(slot'[t].channels) = {}
  BY <1>2, <1>4
<1>9. \A c \in Channels : queue'[c] = <<>> BY <1>1
<1> QED BY <1>3, <1>5, <1>6, <1>7, <1>8, <1>9 DEF Sounding

LEMMA InitSounds ==
    ASSUME Init
    PROVE  Sounding
<1>1. /\ slot = [s \in Slots |-> EmptySlot] /\ inUse = {} /\ queue = [c \in Channels |-> <<>>]
      /\ heard = [s \in Slots |-> Silent]
  BY DEF Init, Silent
<1>2. ToSet(EmptySlot.channels) = {} /\ EmptySlot \in SlotType BY EmptyIsGood DEF ToSet
<1>3. queue \in [Channels -> Seq(Entries)]
  <2>1. <<>> \in Seq(Entries) OBVIOUS
  <2> QED BY <1>1, <2>1
<1>4. \A s \in Slots : slot[s] = EmptySlot /\ heard[s] = Silent BY <1>1
<1>5. \A s \in Slots : Good(s, slot[s], queue, heard[s])
  BY <1>4, EmptyIsGood
<1>6. slot \in [Slots -> SlotType] /\ heard \in [Slots -> [Lanes -> Heard]]
  BY <1>1, <1>2, SilentHeard
<1>7. inUse = UNION {ToSet(slot[s].channels) : s \in Slots} BY <1>1, <1>2
<1>8. \A s, t \in Slots : ToSet(slot[s].channels) \cap ToSet(slot[t].channels) = {}
  BY <1>2, <1>4
<1>9. \A c \in Channels : queue[c] = <<>> BY <1>1
<1> QED BY <1>3, <1>5, <1>6, <1>7, <1>8, <1>9 DEF Sounding

\* Every step.
LEMMA SoundingStep ==
    ASSUME Inv, [Next]_vars
    PROVE  Sounding'
<1>0. Sounding /\ Counters /\ Filling BY DEF Inv
<1>1. ASSUME NEW f \in Sounds, NEW loop \in BOOLEAN, CallPlay(f, loop) PROVE Sounding'
  BY <1>0, <1>1, NothingHeardChanges DEF CallPlay, Call
<1>2. ASSUME NEW S, CallStop(S) PROVE Sounding'
  BY <1>0, <1>2, NothingHeardChanges DEF CallStop, Call
<1>3. ASSUME NEW s \in Slots, NEW t \in Targets, CallSeek(s, t) PROVE Sounding'
  BY <1>0, <1>3, NothingHeardChanges DEF CallSeek, Call
<1>4. ASSUME NEW f \in Streams, CallDestroyStream(f) \/ CreateStream(f) \/ DropReference(f)
      PROVE  Sounding'
  BY <1>0, <1>4, NothingHeardChanges DEF CallDestroyStream, Call, CreateStream, DropReference, AtOnce
<1>5. ASSUME NEW s \in Slots, NEW p \in BOOLEAN, SetPaused(s, p) PROVE Sounding'
  BY <1>0, <1>5, SetPausedSounds
<1>6. CASE PrewarmRoom \/ Destroy
  BY <1>0, <1>6, NothingHeardChanges DEF PrewarmRoom, AtOnce, Destroy
<1>7. CASE Calls BY <1>1, <1>2, <1>3, <1>4, <1>5, <1>6, <1>7 DEF Calls
<1>8. CASE BeginUpdate \/ WaitForFillIdle \/ Relock \/ StopReturns \/ DestroyStream
  BY <1>0, <1>8, NothingHeardChanges
  DEF BeginUpdate, WaitForFillIdle, Relock, StopReturns, DestroyStream
<1>9. main.slot \in Slots BY <1>0 DEF Counters, MainType
<1>10. CASE UpdateOther
  <2>1. CASE Finished(main.slot) BY <2>1, <1>0, <1>9, <1>10, ReleaseSounds DEF UpdateOther
  <2>2. CASE ~ Finished(main.slot) BY <2>2, <1>0, <1>10, NothingHeardChanges DEF UpdateOther
  <2> QED BY <2>1, <2>2
<1>11. CASE UpdateEnd
  <2>1. CASE Release(main.slot) BY <2>1, <1>0, <1>9, ReleaseSounds
  <2>2. CASE ~ Release(main.slot) BY <2>2, <1>0, <1>11, NothingHeardChanges DEF UpdateEnd
  <2> QED BY <2>1, <2>2
<1>12. CASE ReleaseInstance
  <2>1. FirstToDo \in Slots
    BY <1>0, <1>12, LeastSlot DEF ReleaseInstance, FirstToDo, Counters, MainType
  <2> QED BY <2>1, <1>0, <1>12, ReleaseSounds DEF ReleaseInstance
<1>13. CASE Going
  BY <1>0, <1>8, <1>10, <1>11, <1>12, <1>13, UpdateBufferSounds, SeekSounds, SeekFailsSounds,
     PlaySoundSounds, JoinSounds DEF Going
<1>14. CASE WaitEvent \/ PickSound \/ StoreSound
  BY <1>0, <1>14, NothingHeardChanges DEF WaitEvent, PickSound, StoreSound, WorkerOnly
<1>15. CASE Worker
  BY <1>0, <1>14, <1>15, PickFillSounds, EndFillSounds DEF Worker
<1>16. ASSUME NEW c \in Channels, PlaysOut(c) PROVE Sounding'
  BY <1>0, <1>16, PlaysOutSounds
<1>17. CASE Gone \/ UNCHANGED vars BY <1>0, <1>17, NothingHeardChanges DEF Gone, vars
<1> QED BY <1>7, <1>13, <1>15, <1>16, <1>17 DEF Next

-------------------------------------------------------------------------------
(* The threads                                                              *)

LEMMA ThreadTypes ==
    /\ AtRest \in MainType /\ AtRest.op = "none"
    /\ \A pc \in {"wait", "pick", "scan", "load", "exit"} : WorkerAt(pc) \in WorkerType /\ WorkerAt(pc).pc = pc
BY SlotOne, AudioAssumption DEF AtRest, MainType, MainOps, WorkerAt, WorkerType

LEMMA UpdateFromType ==
    ASSUME NEW s \in Nat, UpdateFrom(s)
    PROVE  main' \in MainType /\ main'.op # "play"
<1> DEFINE left == {t \in Slots : t >= s /\ slot[t].active}
<1>1. CASE left = {} BY <1>1, ThreadTypes DEF UpdateFrom, Return
<1>2. CASE left # {}
  <2>1. Min(left) \in Slots BY <1>2, LeastSlot
  <2>2. main' = [AtRest EXCEPT !.pc = "locked", !.op = "update", !.slot = Min(left)]
    BY <1>2 DEF UpdateFrom
  <2> QED BY <2>1, <2>2, ThreadTypes DEF MainType, MainOps
<1> QED BY <1>1, <1>2

LEMMA CallType ==
    ASSUME NEW op \in MainOps, NEW todo \in SUBSET Slots, NEW sound \in Sounds \cup {"none"},
           NEW loop \in BOOLEAN, NEW s \in Slots, NEW target \in 0 .. NumChunks,
           op = "play" => sound \in Sounds, Counters, Call(op, todo, sound, loop, s, target)
    PROVE  Counters'
<1>1. 1 \in 1 .. NumBuffers + 1 BY AudioAssumption
<1>2. main' \in MainType /\ (main'.op = "play" => main'.sound \in Sounds)
  BY <1>1 DEF Call, MainType
<1> QED BY <1>2 DEF Call, Counters, cache

LEMMA Greatest == \A a, b \in Nat : Max({a, b}) = IF a >= b THEN a ELSE b
<1>1. SUFFICES ASSUME NEW a \in Nat, NEW b \in Nat
               PROVE  Max({a, b}) = IF a >= b THEN a ELSE b
  OBVIOUS
<1> DEFINE m == IF a >= b THEN a ELSE b
<1>2. m \in {a, b} /\ \A y \in {a, b} : m >= y OBVIOUS
<1>3. \A x \in {a, b} : (\A y \in {a, b} : x >= y) => x = m OBVIOUS
<1> HIDE DEF m
<1>4. Max({a, b}) \in {a, b} /\ \A y \in {a, b} : Max({a, b}) >= y BY <1>2 DEF Max
<1>5. Max({a, b}) = m BY <1>3, <1>4
<1> QED BY <1>5 DEF m

LEMMA CountersStep ==
    ASSUME Inv, [Next]_vars
    PROVE  Counters'
<1>0. Counters /\ main \in MainType /\ worker \in WorkerType /\ pending \in 0 .. PrewarmCount
  BY DEF Inv, Counters
<1>1. \A sound : Playing(sound) \in SUBSET Slots BY DEF Playing
<1>2. ASSUME NEW f \in Sounds, NEW loop \in BOOLEAN, CallPlay(f, loop) PROVE Counters'
  <2> DEFINE todo == IF f \in Streams THEN Playing(f) ELSE {}
  <2>1. todo \in SUBSET Slots BY <1>1
  <2>2. Call("play", todo, f, loop, 1, 0) BY <1>2 DEF CallPlay
  <2> HIDE DEF todo
  <2> QED BY <2>1, <2>2, <1>0, SlotOne, CallType, AudioAssumption DEF MainOps
<1>3. ASSUME NEW S \in SUBSET Slots, CallStop(S) PROVE Counters'
  <2>1. Call("stop", S, "none", FALSE, 1, 0) BY <1>3 DEF CallStop
  <2>2. 0 \in 0 .. NumChunks /\ "stop" \in MainOps BY AudioAssumption DEF MainOps
  <2> QED BY <2>1, <2>2, <1>0, SlotOne, CallType
<1>4. ASSUME NEW s \in Slots, NEW t \in Targets, CallSeek(s, t) PROVE Counters'
  <2>1. {s} \in SUBSET Slots /\ t \in 0 .. NumChunks BY AudioAssumption
  <2> QED BY <2>1, <1>0, <1>4, CallType DEF MainOps, CallSeek
<1>5. ASSUME NEW f \in Streams, CallDestroyStream(f) PROVE Counters'
  <2>1. Call("destroyStream", Playing(f), f, FALSE, 1, 0) BY <1>5 DEF CallDestroyStream
  <2>2. 0 \in 0 .. NumChunks /\ "destroyStream" \in MainOps /\ f \in Sounds
    BY AudioAssumption DEF MainOps, Sounds
  <2> QED BY <2>1, <2>2, <1>0, <1>1, SlotOne, CallType
<1>6. ASSUME NEW f \in Streams, CreateStream(f) \/ DropReference(f) PROVE Counters'
  <2>1. refs \in [Streams -> Nat] BY <1>0 DEF Counters
  <2>2. refs' \in [Streams -> Nat] BY <1>6, <2>1 DEF CreateStream, DropReference
  <2> QED BY <2>2, <1>0, <1>6 DEF CreateStream, DropReference, AtOnce, Counters, cache
<1>7. ASSUME NEW s \in Slots, NEW p \in BOOLEAN, SetPaused(s, p) PROVE Counters'
  BY <1>0, <1>7 DEF SetPaused, AtOnce, Counters, cache
<1>8. CASE PrewarmRoom
  <2>1. pending' \in 0 .. PrewarmCount
    BY <1>0, <1>8, Greatest, AudioAssumption DEF PrewarmRoom
  <2> QED BY <2>1, <1>0, <1>8 DEF PrewarmRoom, AtOnce, Counters
<1>9. CASE Destroy
  <2>1. main' \in MainType /\ main'.op = main.op /\ main'.sound = main.sound
    BY <1>0, <1>9 DEF Destroy, MainType
  <2> QED BY <2>1, <1>0, <1>9 DEF Destroy, Counters, cache
<1>10. CASE Calls
  <2>1. \A s \in Slots : {s} \in SUBSET Slots OBVIOUS
  <2>2. {s \in Slots : slot[s].active} \in SUBSET Slots OBVIOUS
  <2> QED BY <2>1, <2>2, <1>1, <1>2, <1>3, <1>4, <1>5, <1>6, <1>7, <1>8, <1>9, <1>10 DEF Calls
<1>11. CASE BeginUpdate BY <1>0, <1>11, UpdateFromType DEF BeginUpdate, Counters, cache
<1>12. CASE UpdateOther \/ UpdateEnd
  <2>1. main.slot + 1 \in Nat BY <1>0, AudioAssumption DEF MainType, Slots
  <2>2. UpdateFrom(main.slot + 1) BY <1>12 DEF UpdateOther, UpdateEnd
  <2> QED BY <2>1, <2>2, <1>0, <1>12, UpdateFromType DEF UpdateOther, UpdateEnd, Counters, cache
<1>13. CASE UpdateBuffer
  <2>1. main.buffer <= NumBuffers /\ worker' = worker /\ UNCHANGED <<refs, attempted, pending>>
    BY <1>13 DEF UpdateBuffer, cache
  <2>2. main.buffer + 1 \in 1 .. NumBuffers + 1 BY <2>1, <1>0, AudioAssumption DEF MainType
  <2>3. \E x \in BOOLEAN : main' = [main EXCEPT !.buffer = main.buffer + 1, !.queued = x]
    <3>1. main.queued \in BOOLEAN BY <1>0 DEF MainType
    <3> QED BY <3>1, <1>13 DEF UpdateBuffer
  <2>4. main' \in MainType /\ main'.op = main.op /\ main'.sound = main.sound
    BY <2>2, <2>3, <1>0 DEF MainType
  <2> QED BY <2>1, <2>4, <1>0 DEF Counters
<1>14. CASE WaitForFillIdle \/ Relock \/ ReleaseInstance
  <2>1. main' \in MainType /\ main'.op = main.op /\ main'.sound = main.sound
    BY <1>0, <1>14 DEF WaitForFillIdle, Relock, ReleaseInstance, MainType
  <2> QED BY <2>1, <1>0, <1>14 DEF WaitForFillIdle, Relock, ReleaseInstance, Counters, cache
<1>15. CASE StopReturns \/ Seek \/ SeekFails \/ PlaySound
  <2>1. main' = AtRest BY <1>15 DEF StopReturns, Seek, SeekFails, PlaySound, Return
  <2> QED BY <2>1, <1>0, <1>15, ThreadTypes
        DEF StopReturns, Seek, SeekFails, PlaySound, Counters, cache
<1>16. CASE DestroyStream
  <2>1. main' = AtRest /\ refs' = [refs EXCEPT ![main.sound] = 0] BY <1>16 DEF DestroyStream, Return
  <2>2. refs' \in [Streams -> Nat] BY <2>1, <1>0 DEF Counters
  <2> QED BY <2>1, <2>2, <1>0, <1>16, ThreadTypes DEF DestroyStream, Counters, cache
<1>17. CASE Join
  <2>1. main' \in MainType /\ main'.op = main.op /\ main'.sound = main.sound
    BY <1>0, <1>17 DEF Join, MainType
  <2> QED BY <2>1, <1>0, <1>17 DEF Join, Counters, cache
<1>18. CASE Going
  BY <1>11, <1>12, <1>13, <1>14, <1>15, <1>16, <1>17, <1>18 DEF Going
<1>19. CASE WaitEvent
  BY <1>0, <1>19, ThreadTypes DEF WaitEvent, GoTo, WorkerOnly, Counters, cache
<1>20. CASE PickFill
  <2>1. worker' \in WorkerType
    <3>1. CASE GoTo("exit") \/ GoTo("scan") BY <3>1, ThreadTypes DEF GoTo
    <3>2. CASE ~ (GoTo("exit") \/ GoTo("scan"))
      <4> DEFINE s == Min(Wanting)
      <4>1. /\ Wanting # {}
            /\ worker' = [pc |-> "fill", slot |-> s, buffer |-> slot[s].fill.buffer,
                          generation |-> slot[s].generation, cursor |-> slot[s].cursor]
        BY <3>2, <1>20 DEF PickFill
      <4>2. s \in Slots BY <4>1, WantingSlots
      <4> HIDE DEF s
      <4>3. slot[s] \in SlotType BY <4>2, SoundFacts DEF Inv
      <4>4. slot[s].fill.buffer \in Buffers /\ slot[s].generation \in Nat
            /\ slot[s].cursor \in 0 .. NumChunks
        BY <4>3 DEF SlotType, Fill
      <4> QED BY <4>1, <4>2, <4>4 DEF WorkerType
    <3> QED BY <3>1, <3>2
  <2> QED BY <2>1, <1>0, <1>20 DEF PickFill, WorkerOnly, Counters, cache
<1>21. ASSUME NEW ok \in BOOLEAN, EndFill(ok) PROVE Counters'
  <2>1. worker' \in WorkerType
    <3>1. \E pc \in {"exit", "pick", "wait"} : worker' = WorkerAt(pc) BY <1>21 DEF EndFill, GoTo
    <3> QED BY <3>1, ThreadTypes, SMTT(30)
  <2>2. main' \in MainType /\ main'.op = main.op /\ main'.sound = main.sound
    BY <1>0, <1>21 DEF EndFill, Broadcast, MainType
  <2> QED BY <2>1, <2>2, <1>0, <1>21 DEF EndFill, WorkerOnly, Counters, cache
<1>22. CASE PickSound
  <2>1. worker' \in WorkerType /\ UNCHANGED <<main, refs>>
    BY <1>22, ThreadTypes DEF PickSound, GoTo, WorkerOnly
  <2>2. attempted' \subseteq Effects /\ pending' \in 0 .. PrewarmCount
    BY <1>0, <1>22, AudioAssumption DEF PickSound, Counters, cache
  <2> QED BY <2>1, <2>2, <1>0 DEF Counters
<1>23. CASE StoreSound
  <2>1. worker' \in WorkerType /\ UNCHANGED <<main, refs, attempted>>
    BY <1>23, ThreadTypes DEF StoreSound, GoTo, WorkerOnly
  <2>2. Max({0, pending - 1}) \in 0 .. PrewarmCount
    <3>1. CASE pending = 0
      <4>1. pending - 1 = -1 BY <3>1
      <4>2. \A x \in {0, -1} : (\A y \in {0, -1} : x >= y) <=> x = 0 OBVIOUS
      <4>3. Max({0, -1}) = 0 BY <4>2 DEF Max
      <4> QED BY <4>1, <4>3, AudioAssumption
    <3>2. CASE pending # 0
      <4>1. pending - 1 \in Nat /\ 0 \in Nat /\ pending - 1 \in 0 .. PrewarmCount
        BY <3>2, <1>0, AudioAssumption
      <4> QED BY <4>1, Greatest, AudioAssumption
    <3> QED BY <3>1, <3>2
  <2>3. pending' \in 0 .. PrewarmCount BY <2>2, <1>0, <1>23 DEF StoreSound
  <2> QED BY <2>1, <2>3, <1>0 DEF Counters
<1>24. ASSUME NEW c \in Channels, PlaysOut(c) PROVE Counters'
  BY <1>0, <1>24 DEF PlaysOut, Counters, cache
<1>25. CASE Gone \/ UNCHANGED vars BY <1>0, <1>25 DEF Gone, vars, Counters, cache
<1> QED
  BY <1>10, <1>18, <1>19, <1>20, <1>21, <1>22, <1>23, <1>24, <1>25 DEF Next, Worker

\* What the worker fills stays wanted.
LEMMA StaysFilling ==
    ASSUME Filling, UNCHANGED <<worker, workerEnabled>>,
           worker.pc = "fill" =>
              LET old == slot[worker.slot]
                  new == slot'[worker.slot] IN
              /\ new.active = old.active /\ new.stream = old.stream
              /\ new.fill.phase = old.fill.phase /\ new.fill.buffer = old.fill.buffer
              /\ new.cursor = old.cursor
    PROVE  Filling'
BY DEF Filling

\* A slot that the worker does not fill may change as it likes.
LEMMA OtherSlotChanges ==
    ASSUME Sounding, Filling, UNCHANGED <<worker, workerEnabled>>, NEW s \in Slots, NEW new,
           slot' = [slot EXCEPT ![s] = new], worker.pc = "fill" => worker.slot # s,
           worker \in WorkerType
    PROVE  Filling'
<1>1. worker.pc = "fill" => slot'[worker.slot] = slot[worker.slot] BY DEF Sounding, WorkerType
<1> QED BY <1>1, StaysFilling

LEMMA Quiet ==
    ASSUME Filling, UNCHANGED slot, UNCHANGED <<worker, workerEnabled>>
    PROVE  Filling'
BY DEF Filling

LEMMA StoppedFilling ==
    ASSUME worker'.pc # "fill"
    PROVE  Filling'
BY DEF Filling

LEMMA FillingStep ==
    ASSUME Inv, [Next]_vars
    PROVE  Filling'
<1>0. /\ Sounding /\ Counters /\ Filling /\ main.slot \in Slots /\ worker \in WorkerType
      /\ worker.slot \in Slots
  BY DEF Inv, Counters, MainType, WorkerType
<1>1. CASE Calls
  <2>1. ASSUME NEW s \in Slots, NEW p \in BOOLEAN, SetPaused(s, p) PROVE Filling'
    <3> DEFINE w == worker.slot
    <3>1. slot' = [slot EXCEPT ![s].paused = p] /\ UNCHANGED <<worker, workerEnabled>>
      BY <2>1 DEF SetPaused, AtOnce, threads
    <3>2. slot[w] \in SlotType BY <1>0, SoundFacts
    <3>3. /\ slot'[w].active = slot[w].active /\ slot'[w].stream = slot[w].stream
          /\ slot'[w].fill = slot[w].fill /\ slot'[w].cursor = slot[w].cursor
      BY <3>1, <3>2, <1>0 DEF Sounding, SlotType
    <3> QED BY <3>1, <3>3, <1>0, StaysFilling
  <2>2. CASE ~ \E s \in Slots, p \in BOOLEAN : SetPaused(s, p)
    <3>1. UNCHANGED slot /\ UNCHANGED <<worker, workerEnabled>>
      BY <1>1, <2>2 DEF Calls, CallPlay, CallStop, CallSeek, CallDestroyStream, Call, CreateStream,
                        DropReference, PrewarmRoom, AtOnce, Destroy, threads
    <3> QED BY <3>1, <1>0, Quiet
  <2> QED BY <2>1, <2>2
<1>2. CASE BeginUpdate \/ WaitForFillIdle \/ Relock \/ StopReturns \/ DestroyStream
  BY <1>0, <1>2, Quiet
  DEF BeginUpdate, WaitForFillIdle, Relock, StopReturns, DestroyStream, threads
<1>3. ASSUME NEW s \in Slots, NEW new, slot' = [slot EXCEPT ![s] = new], Cancels(s),
             UNCHANGED <<worker, workerEnabled>>
      PROVE  Filling'
  <2>1. worker.pc = "fill" => worker.slot # s BY <1>0, <1>3 DEF Cancels, Filling
  <2> QED BY <2>1, <1>0, <1>3, OtherSlotChanges
<1>4. ASSUME NEW s \in Slots, NEW new, slot' = [slot EXCEPT ![s] = new], ~ Streaming(s),
             UNCHANGED <<worker, workerEnabled>>
      PROVE  Filling'
  <2>1. worker.pc = "fill" => worker.slot # s BY <1>0, <1>4 DEF Streaming, Filling
  <2> QED BY <2>1, <1>0, <1>4, OtherSlotChanges
<1>5. CASE UpdateOther
  <2>1. UNCHANGED <<worker, workerEnabled>> /\ ~ Streaming(main.slot)
        /\ (UNCHANGED slot \/ slot' = [slot EXCEPT ![main.slot] = EmptySlot])
    BY <1>5 DEF UpdateOther, Release, threads
  <2> QED BY <2>1, <1>0, <1>4, Quiet
<1>6. CASE UpdateEnd
  <2>1. UNCHANGED <<worker, workerEnabled>>
        /\ (UNCHANGED slot \/ (slot' = [slot EXCEPT ![main.slot] = EmptySlot] /\ Cancels(main.slot)))
    BY <1>6 DEF UpdateEnd, Release, threads, Cancels
  <2> QED BY <2>1, <1>0, <1>3, Quiet
<1>7. CASE ReleaseInstance
  <2>1. FirstToDo \in Slots
    BY <1>0, <1>7, LeastSlot DEF ReleaseInstance, FirstToDo, Counters, MainType
  <2>2. UNCHANGED <<worker, workerEnabled>> /\ Cancels(FirstToDo)
        /\ slot' = [slot EXCEPT ![FirstToDo] = EmptySlot]
    BY <1>7 DEF ReleaseInstance, Release, threads
  <2> QED BY <2>1, <2>2, <1>3
<1>8. CASE Seek \/ SeekFails
  <2>1. UNCHANGED <<worker, workerEnabled>> /\ Cancels(main.slot)
        /\ \E new : slot' = [slot EXCEPT ![main.slot] = new]
    BY <1>8 DEF Seek, SeekFails, PrimeStream, threads
  <2> QED BY <2>1, <1>0, <1>3
<1>9. CASE PlaySound
  <2> DEFINE S == FreeInstance(main.sound \in Streams)
  <2>0. UNCHANGED <<worker, workerEnabled>> BY <1>9 DEF PlaySound, threads
  <2>1. CASE S = {} BY <2>0, <2>1, <1>0, <1>9, Quiet DEF PlaySound
  <2>2. CASE S # {}
    <3>1. PICK s \in S : StartFails(s) \/ StartSucceeds(s) BY <2>2, <1>9 DEF PlaySound
    <3>2. \E new : slot' = [slot EXCEPT ![s] = new]
      BY <3>1 DEF StartFails, StartSucceeds, PrimeStream
    <3>3. ASSUME NEW R \in SUBSET Slots, NEW t \in InRange(R) PROVE t \in Slots /\ ~ Streaming(t)
      <4>1. CASE {x \in R : ~ slot[x].active} # {}
        BY <4>1, LeastSlot DEF InRange, Streaming
      <4>2. CASE {x \in R : ~ slot[x].active} = {}
        BY <4>2, LeastSlot DEF InRange, Streaming, Finished
      <4> QED BY <4>1, <4>2
    <3>4. StreamRange \in SUBSET Slots BY AudioAssumption DEF StreamRange, Slots
    <3>5. s \in Slots /\ ~ Streaming(s)
      <4>1. \E R \in SUBSET Slots : s \in InRange(R)
        <5>1. \A first \in SUBSET Slots : Slots \ first \in SUBSET Slots OBVIOUS
        <5> QED BY <3>4, <5>1 DEF FreeInstance
      <4> QED BY <4>1, <3>3
    <3> QED BY <3>2, <3>5, <2>0, <1>4
  <2> QED BY <2>1, <2>2
<1>10. CASE Join
  <2>1. worker.pc # "fill" BY <1>0, <1>10 DEF Join, Filling
  <2> QED BY <2>1, <1>10, StoppedFilling DEF Join
<1>11. CASE UpdateBuffer
  <2> DEFINE s == main.slot
             b == main.buffer
             freed == Reclaimed(slot[s], b)
             apply == freed.status[1][b] = "free" /\ freed.fill.phase = "ready" /\ freed.fill.buffer = b
             applied == IF apply THEN Applied(freed) ELSE freed
             wants == applied.status[1][b] = "free" /\ ~ applied.finished /\ applied.fill.phase = "none"
             refilled == wants /\ ~ workerEnabled /\ CanFill(applied, applied.cursor)
             after == IF wants /\ workerEnabled THEN Requested(applied, b)
                      ELSE IF refilled THEN FilledNow(applied, b) ELSE applied
  <2>1. UNCHANGED <<worker, workerEnabled>> /\ slot' = [slot EXCEPT ![s] = after]
    BY <1>11, ZenonT(30) DEF UpdateBuffer, threads
  <2>2. CASE worker.pc = "fill" /\ worker.slot = s
    <3>1. slot[s].fill.phase = "inProgress" BY <2>2, <1>0 DEF Filling
    <3>2. slot[s] \in SlotType BY <1>0, SoundFacts
    <3>3. /\ freed.active = slot[s].active /\ freed.stream = slot[s].stream
          /\ freed.fill = slot[s].fill /\ freed.cursor = slot[s].cursor
      BY <3>2, ReclaimedSlot
    <3>4. ~ apply /\ applied = freed BY <3>1, <3>3
    <3>5. ~ wants BY <3>1, <3>3, <3>4
    <3>6. after = freed BY <3>4, <3>5
    <3>7. slot'[s] = freed BY <2>1, <3>6, <1>0 DEF Sounding
    <3> HIDE DEF freed
    <3> QED BY <2>1, <2>2, <3>3, <3>7, <1>0, StaysFilling
  <2>3. CASE ~ (worker.pc = "fill" /\ worker.slot = s)
    <3> HIDE DEF after
    <3> QED BY <2>1, <2>3, <1>0, OtherSlotChanges
  <2> QED BY <2>2, <2>3
<1>12. CASE Going
  BY <1>2, <1>5, <1>6, <1>7, <1>8, <1>9, <1>10, <1>11, <1>12 DEF Going
<1>13. CASE WaitEvent \/ (\E ok \in BOOLEAN : EndFill(ok)) \/ PickSound \/ StoreSound
  <2>1. worker'.pc # "fill" \/ (UNCHANGED slot /\ UNCHANGED <<worker, workerEnabled>>)
    <3>1. CASE WaitEvent BY <3>1, ThreadTypes DEF WaitEvent, GoTo
    <3>2. CASE \E ok \in BOOLEAN : EndFill(ok)
      <4>1. \E pc \in {"exit", "pick", "wait"} : worker' = WorkerAt(pc) BY <3>2 DEF EndFill, GoTo
      <4> QED BY <4>1, ThreadTypes, SMTT(30)
    <3>3. CASE PickSound \/ StoreSound BY <3>3, ThreadTypes DEF PickSound, StoreSound, GoTo
    <3> QED BY <3>1, <3>2, <3>3, <1>13
  <2> QED BY <2>1, <1>0, StoppedFilling, Quiet
<1>14. CASE PickFill
  <2>1. CASE GoTo("exit") \/ GoTo("scan") BY <2>1, ThreadTypes, StoppedFilling DEF GoTo
  <2>2. CASE ~ (GoTo("exit") \/ GoTo("scan"))
    <3> DEFINE s == Min(Wanting)
    <3>1. /\ Wanting # {} /\ slot' = [slot EXCEPT ![s].fill.phase = "inProgress"]
          /\ worker' = [pc |-> "fill", slot |-> s, buffer |-> slot[s].fill.buffer,
                        generation |-> slot[s].generation, cursor |-> slot[s].cursor]
          /\ workerEnabled /\ workerEnabled' = workerEnabled
      BY <2>2, <1>14 DEF PickFill, AtWorker, WorkerOnly, threads
    <3>2. s \in Slots /\ slot[s].active /\ slot[s].stream
      BY <3>1, WantingSlots DEF Wanting, Streaming
    <3> HIDE DEF s
    <3>3. slot[s] \in SlotType BY <3>2, <1>0, SoundFacts
    <3>4. /\ slot'[s].active = slot[s].active /\ slot'[s].stream = slot[s].stream
          /\ slot'[s].cursor = slot[s].cursor /\ slot'[s].fill.phase = "inProgress"
          /\ slot'[s].fill.buffer = slot[s].fill.buffer
      BY <3>1, <3>2, <3>3, <1>0 DEF Sounding, SlotType, Fill
    <3> QED BY <3>1, <3>2, <3>4 DEF Filling
  <2> QED BY <2>1, <2>2
<1>15. ASSUME NEW c \in Channels, PlaysOut(c) PROVE Filling'
  <2> DEFINE s == Head(queue[c])[1]
             k == Head(queue[c])[2]
             b == Head(queue[c])[3]
             w == worker.slot
  <2>1. slot' = [slot EXCEPT ![s].status[k][b] = "done"] /\ UNCHANGED <<worker, workerEnabled>>
    BY <1>15 DEF PlaysOut, threads
  <2> HIDE DEF s, k, b
  <2>2. slot[w] \in SlotType BY <1>0, SoundFacts
  <2>3. /\ slot'[w].active = slot[w].active /\ slot'[w].stream = slot[w].stream
        /\ slot'[w].fill = slot[w].fill /\ slot'[w].cursor = slot[w].cursor
    BY <2>1, <2>2, <1>0 DEF Sounding, SlotType
  <2> QED BY <2>1, <2>3, <1>0, StaysFilling
<1>16. CASE Gone \/ UNCHANGED vars BY <1>0, <1>16, Quiet DEF Gone, vars, threads
<1> QED BY <1>1, <1>12, <1>13, <1>14, <1>15, <1>16 DEF Next, Worker

-------------------------------------------------------------------------------
(* Theorems                                                                 *)

\* Every state the game, the worker and the DSP can bring about is a good one.
THEOREM InvHolds == Spec => []Inv
<1>1. Init => Inv
  <2>1. ASSUME Init PROVE Counters /\ Filling
    <3>1. refs \in [Streams -> Nat] /\ attempted = {} /\ pending = 0 BY <2>1 DEF Init
    <3>2. main = AtRest /\ worker = WorkerAt("wait") BY <2>1 DEF Init
    <3> QED BY <3>1, <3>2, ThreadTypes, AudioAssumption DEF Counters, Filling
  <2> QED BY <2>1, InitSounds DEF Inv
<1>2. Inv /\ [Next]_vars => Inv'
  BY SoundingStep, CountersStep, FillingStep DEF Inv
<1> QED BY <1>1, <1>2, PTL DEF Spec

LEMMA InvTypes == Inv => TypeOK
<1>1. SUFFICES ASSUME Inv PROVE TypeOK OBVIOUS
<1>2. Sounding /\ Counters BY <1>1 DEF Inv
<1>3. \A s \in Slots :
         /\ slot[s].sound \in Sounds \cup {"none"} /\ slot[s].fill \in Fill
         /\ slot[s].status \in [Lanes -> [Buffers -> {"free", "busy", "done"}]]
         /\ slot[s].chunk \in [Buffers -> Silence .. NumChunks - 1]
         /\ slot[s].cursor \in 0 .. NumChunks /\ slot[s].channels \in Seq(Channels)
  <2> TAKE s \in Slots
  <2>1. slot[s] \in SlotType BY <1>2, SoundFacts
  <2> QED BY <2>1 DEF SlotType, Statuses
<1>4. inUse \subseteq Channels
  <2>1. 1 \in Slots BY SlotOne
  <2> QED BY <2>1, <1>2, SoundFacts
<1>5. main.pc \in {"idle", "locked", "asleep", "woken", "joining", "gone"}
      /\ worker.pc \in {"wait", "pick", "fill", "scan", "load", "exit"}
  BY <1>2 DEF Counters, MainType, WorkerType
<1> QED BY <1>2, <1>3, <1>4, <1>5 DEF TypeOK, Sounding, Counters, Entries, Heard

\* Every variable has its type: no cursor, chunk or buffer leaves the file or the slot.
THEOREM TypeCorrect == Spec => []TypeOK
BY InvHolds, InvTypes, PTL

\* The channels in use are those of the active instances, each of one, whichever call
\* starts, stops or fails to start a sound.
THEOREM EachChannelHasItsOwner == Spec => []ChannelsOwned
<1>1. Inv => ChannelsOwned BY DEF Inv, Sounding, Good, ChannelsOwned
<1> QED BY <1>1, InvHolds, PTL

\* What is in the queue of a channel belongs to the slot that has the channel.
LEMMA QueueOwner ==
    ASSUME Sounding, NEW c \in Channels, NEW i \in DOMAIN queue[c]
    PROVE  \E s \in Slots : \E k \in LanesOf(slot[s]) :
              /\ slot[s].channels[k] = c /\ k \in Lanes
              /\ queue[c][i][1] = s /\ queue[c][i][2] = k /\ queue[c][i][3] \in Buffers
              /\ slot[s].status[k][queue[c][i][3]] = "busy"
<1>1. queue[c] \in Seq(Entries) BY DEF Sounding
<1>2. queue[c] # <<>> /\ i \in 1 .. Len(queue[c]) /\ queue[c][i] \in Entries BY <1>1
<1>3. PICK s \in Slots : c \in ToSet(slot[s].channels) BY <1>2 DEF Sounding
<1>4. PICK k \in LanesOf(slot[s]) : slot[s].channels[k] = c BY <1>3, SoundFacts, Voices
<1>5. Owed(s, k, slot[s], queue[c]) BY <1>3, <1>4, SoundFacts DEF Good, Lane
<1>6. k \in Lanes BY <1>3, SoundFacts, Voices
<1> QED BY <1>2, <1>4, <1>5, <1>6 DEF Owed, Entries

\* A buffer is the worker's, the DSP's or nobody's: what the worker fills without the lock
\* is in no queue, and its instance is not freed, reused or sought in meanwhile.
THEOREM BuffersHaveOneUser == Spec => []BufferHasOneUser
<1>1. ASSUME Inv PROVE BufferHasOneUser
  <2>1. Sounding /\ Counters /\ Filling BY <1>1 DEF Inv
  <2>2. DspReadsLive
    <3>1. SUFFICES ASSUME NEW c \in Channels, NEW i \in DOMAIN queue[c]
                   PROVE  LET s == queue[c][i][1]
                              k == queue[c][i][2] IN
                          /\ k \in LanesOf(slot[s]) /\ slot[s].channels[k] = c
                          /\ slot[s].status[k][queue[c][i][3]] = "busy"
      BY DEF DspReadsLive
    <3> QED BY <2>1, QueueOwner, SMTT(30)
  <2>3. WorkerOwnsBuffer
    <3>1. SUFFICES ASSUME worker.pc = "fill" PROVE WorkerOwnsBuffer BY DEF WorkerOwnsBuffer
    <3> DEFINE s == worker.slot
               sl == slot[s]
    <3>2. s \in Slots /\ worker.buffer \in Buffers BY <2>1 DEF Counters, WorkerType
    <3>3. /\ Streaming(s) /\ sl.fill.phase = "inProgress" /\ sl.fill.buffer = worker.buffer
      BY <2>1, <3>1 DEF Filling, Streaming
    <3>4. FillIsFree(sl) /\ LanesAgree(sl) BY <2>1, <3>2, SoundFacts DEF Good
    <3>5. \A k \in Lanes : sl.status[k][worker.buffer] = "free"
      BY <3>2, <3>3, <3>4 DEF FillIsFree, LanesAgree, Lanes
    <3>6. ASSUME NEW c \in Channels, NEW i \in DOMAIN queue[c], queue[c][i][1] = s
          PROVE  queue[c][i][3] # worker.buffer
      BY <2>1, <3>5, <3>6, QueueOwner
    <3> QED BY <3>3, <3>6 DEF WorkerOwnsBuffer
  <2> QED BY <2>2, <2>3 DEF BufferHasOneUser
<1> QED BY <1>1, InvHolds, PTL

\* A score in three parts, of which the first and the last have at most one chunk.
LEMMA Chained ==
    ASSUME NEW sl, NEW past \in Seq(Int), NEW mid \in Seq(Int), NEW next \in Seq(Int),
           Len(past) \in {0, 1}, Len(next) \in {0, 1},
           past # <<>> /\ mid # <<>> => Follows(sl, past[1], mid[1]),
           \A j \in 1 .. Len(mid) - 1 : Follows(sl, mid[j], mid[j + 1]),
           mid # <<>> /\ next # <<>> => Follows(sl, mid[Len(mid)], next[1]),
           past # <<>> /\ mid = <<>> /\ next # <<>> => Follows(sl, past[1], next[1]),
           NEW score, score = (past \o mid) \o next
    PROVE  \A i \in 1 .. Len(score) - 1 : Follows(sl, score[i], score[i + 1])
<1> DEFINE a == Len(past)
           m == Len(mid)
           n == Len(next)
<1>1. a \in {0, 1} /\ m \in Nat /\ n \in {0, 1} OBVIOUS
<1>2. /\ past = <<>> <=> a = 0
      /\ mid = <<>> <=> m = 0
      /\ next = <<>> <=> n = 0
  BY EmptySeq
<1>3. /\ Len(score) = a + m + n
      /\ \A j \in 1 .. a : score[j] = past[j]
      /\ \A j \in 1 .. m : score[a + j] = mid[j]
      /\ \A j \in 1 .. n : score[a + m + j] = next[j]
  <2> DEFINE pm == past \o mid
  <2>1. /\ pm \in Seq(Int) /\ Len(pm) = a + m
        /\ \A j \in 1 .. a : pm[j] = past[j]
        /\ \A j \in 1 .. m : pm[a + j] = mid[j]
    BY <1>1
  <2>2. \A j \in 1 .. a : j \in 1 .. a + m BY <1>1
  <2>3. \A j \in 1 .. m : a + j \in 1 .. a + m BY <1>1
  <2> HIDE DEF pm
  <2>4. /\ Len(pm \o next) = Len(pm) + n
        /\ \A j \in 1 .. Len(pm) : (pm \o next)[j] = pm[j]
        /\ \A j \in 1 .. n : (pm \o next)[Len(pm) + j] = next[j]
    <3>1. /\ Len(pm \o next) = Len(pm) + Len(next)
          /\ \A i \in 1 .. Len(pm) + Len(next) : (pm \o next)[i] =
                IF i <= Len(pm) THEN pm[i] ELSE next[i - Len(pm)]
      <4>1. pm \in Seq(Int) /\ next \in Seq(Int) BY <2>1
      <4> QED BY ONLY <4>1, ConcatProperties
    <3>2. Len(pm) \in Nat BY <2>1, <1>1
    <3>3. ASSUME NEW j \in 1 .. Len(pm) PROVE (pm \o next)[j] = pm[j]
      <4>1. j \in 1 .. Len(pm) + Len(next) /\ j <= Len(pm) BY <3>2, <1>1
      <4> QED BY <4>1, <3>1
    <3>4. ASSUME NEW j \in 1 .. n PROVE (pm \o next)[Len(pm) + j] = next[j]
      <4> DEFINE i == Len(pm) + j
      <4>1. i \in 1 .. Len(pm) + Len(next) /\ ~ (i <= Len(pm)) /\ i - Len(pm) = j
        BY <3>2, <1>1
      <4> HIDE DEF i
      <4>2. (pm \o next)[i] = next[j] BY <4>1, <3>1
      <4> QED BY <4>2 DEF i
    <3> QED BY <3>1, <3>3, <3>4
  <2>5. score = pm \o next BY DEF pm
  <2> HIDE DEF a, m, n
  <2> QED BY <2>1, <2>2, <2>3, <2>4, <2>5
<1>5. /\ a # 0 /\ m # 0 => Follows(sl, past[1], mid[1])
      /\ \A j \in 1 .. m - 1 : Follows(sl, mid[j], mid[j + 1])
      /\ m # 0 /\ n # 0 => Follows(sl, mid[m], next[1])
      /\ a # 0 /\ m = 0 /\ n # 0 => Follows(sl, past[1], next[1])
  BY <1>2
<1> HIDE DEF a, m, n
<1>6. SUFFICES ASSUME NEW i \in 1 .. a + m + n - 1
               PROVE  Follows(sl, score[i], score[i + 1])
  <2>1. Len(score) - 1 = a + m + n - 1 BY <1>1, <1>3
  <2> QED BY <2>1, Zenon
<1>7. CASE i <= a /\ m # 0
  <2>1. a = 1 /\ i = 1 /\ 1 \in 1 .. a /\ 1 \in 1 .. m /\ i + 1 = a + 1 BY <1>1, <1>7
  <2>2. score[i] = past[1] /\ score[i + 1] = mid[1] BY <2>1, <1>3
  <2> QED BY <2>1, <2>2, <1>5, <1>7
<1>8. CASE i <= a /\ m = 0
  <2>1. a = 1 /\ i = 1 /\ 1 \in 1 .. a /\ n # 0 /\ 1 \in 1 .. n /\ i + 1 = a + m + 1
    BY <1>1, <1>8
  <2>2. score[i] = past[1] /\ score[i + 1] = next[1] BY <2>1, <1>3
  <2> QED BY <2>1, <2>2, <1>5, <1>8
<1>9. CASE i > a /\ i < a + m
  <2> DEFINE j == i - a
  <2>1. j \in 1 .. m - 1 /\ j \in 1 .. m /\ j + 1 \in 1 .. m /\ a + j = i /\ a + (j + 1) = i + 1
    BY <1>1, <1>9
  <2> HIDE DEF j
  <2>2. score[i] = mid[j] /\ score[i + 1] = mid[j + 1] BY <2>1, <1>3
  <2> QED BY <2>1, <2>2, <1>5
<1>10. CASE i > a /\ i >= a + m
  <2>1. n # 0 /\ m # 0 /\ i = a + m /\ m \in 1 .. m /\ 1 \in 1 .. n /\ i + 1 = a + m + 1
    BY <1>1, <1>10
  <2>2. score[i] = mid[m] /\ score[i + 1] = next[1] BY <2>1, <1>3
  <2> QED BY <2>1, <2>2, <1>5
<1>11. (i <= a \/ i > a) /\ (i < a + m \/ i >= a + m) BY <1>1
<1> QED BY <1>7, <1>8, <1>9, <1>10, <1>11

\* Each channel of a stream plays its chunks in their order, none twice and none left out,
\* whenever buffers become free, answers come and the game seeks or stops.
THEOREM StreamsPlayInOrder == Spec => []PlaysInOrder
<1>1. ASSUME Inv PROVE PlaysInOrder
  <2>1. Sounding BY <1>1 DEF Inv
  <2>2. SUFFICES ASSUME NEW s \in Slots, Streaming(s), NEW k \in LanesOf(slot[s]),
                        NEW i \in 1 .. Len(Score(s, k)) - 1
                 PROVE  Follows(slot[s], Score(s, k)[i], Score(s, k)[i + 1])
    BY DEF PlaysInOrder
  <2> DEFINE sl == slot[s]
             q == queue[sl.channels[k]]
             h == heard[s][k]
             past == IF h = Silence THEN <<>> ELSE <<h>>
             mid == [j \in 1 .. Len(q) |-> sl.chunk[q[j][3]]]
             next == IF sl.fill.phase = "ready" /\ sl.fill.success THEN <<sl.fill.start>> ELSE <<>>
             score == past \o mid \o next
  <2>3. /\ sl \in SlotType /\ Paired(sl) /\ Good(s, sl, queue, heard[s]) /\ heard[s] \in [Lanes -> Heard]
        /\ sl.active /\ sl.stream
    BY <2>1, <2>2, SoundFacts DEF Streaming
  <2>4. k \in Lanes /\ sl.channels[k] \in Channels BY <2>3, Voices
  <2>5. q \in Seq(Entries) /\ h \in Heard BY <2>1, <2>3, <2>4 DEF Sounding
  <2>6. InOrder(sl, q, h) /\ FillIsNext(sl) BY <2>3 DEF Good, Lane
  <2>7. Score(s, k) = score BY DEF Score
  <2>8. Len(q) \in Nat /\ \A j \in 1 .. Len(q) : sl.chunk[q[j][3]] \in Heard
    <3>1. \A j \in 1 .. Len(q) : q[j][3] \in Buffers BY <2>5 DEF Entries
    <3>2. sl.chunk \in [Buffers -> Heard] BY <2>3 DEF SlotType, Heard
    <3>3. Len(q) \in Nat BY <2>5
    <3> HIDE DEF q, sl
    <3> QED BY <3>1, <3>2, <3>3
  <2>9. sl.fill.start \in 0 .. NumChunks BY <2>3 DEF SlotType, Fill
  <2> HIDE DEF q, h, sl
  <2>10. past \in Seq(Int) /\ mid \in Seq(Int) /\ next \in Seq(Int)
    <3>1. Heard \subseteq Int /\ 0 .. NumChunks \subseteq Int
      BY AudioAssumption DEF Heard, Silence
    <3>2. \A j \in 1 .. Len(q) : sl.chunk[q[j][3]] \in Int BY <2>8, <3>1
    <3>3. mid \in Seq(Int) BY <2>8, <3>2, IsASeq
    <3>4. past \in Seq(Int) /\ next \in Seq(Int) BY <3>1, <2>5, <2>9
    <3> QED BY <3>3, <3>4
  <2>11. Len(mid) = Len(q) /\ \A j \in 1 .. Len(q) : mid[j] = sl.chunk[q[j][3]] BY <2>8
  <2>12. q = <<>> <=> Len(q) = 0 BY <2>5
  <2>13. \A j \in 1 .. Len(mid) - 1 : Follows(sl, mid[j], mid[j + 1])
    BY <2>6, <2>8, <2>11 DEF InOrder
  <2>14. past # <<>> => Len(past) = 1 /\ past[1] = h /\ h # Silence OBVIOUS
  <2>15. past = <<>> => Len(past) = 0 OBVIOUS
  <2>16. next # <<>> => /\ Len(next) = 1 /\ CanFill(sl, sl.cursor)
                        /\ next[1] = ChunkAt(sl.cursor)
    BY <2>3, <2>6 DEF FillIsNext, sl
  <2>17. next = <<>> => Len(next) = 0 OBVIOUS
  <2>18. past # <<>> /\ mid # <<>> => Follows(sl, past[1], mid[1])
    BY <2>6, <2>8, <2>11, <2>12, <2>14 DEF InOrder
  <2>19. mid # <<>> /\ next # <<>> => Follows(sl, mid[Len(mid)], next[1])
    <3>1. SUFFICES ASSUME mid # <<>>, next # <<>> PROVE Follows(sl, mid[Len(mid)], next[1])
      OBVIOUS
    <3>2. Len(q) \in 1 .. Len(q) /\ q # <<>> BY <3>1, <2>8, <2>11, <2>12
    <3>3. Reaches(sl, mid[Len(mid)]) /\ mid[Len(mid)] \in Heard
      BY <3>2, <2>6, <2>8, <2>11 DEF InOrder
    <3> QED BY <3>1, <3>3, <2>16, ReachedFollows
  <2>20. past # <<>> /\ mid = <<>> /\ next # <<>> => Follows(sl, past[1], next[1])
    <3>1. SUFFICES ASSUME past # <<>>, mid = <<>>, next # <<>> PROVE Follows(sl, past[1], next[1])
      OBVIOUS
    <3>2. q = <<>> BY <3>1, <2>11, <2>12
    <3>3. Reaches(sl, past[1]) /\ past[1] \in Heard BY <3>1, <3>2, <2>5, <2>6, <2>14 DEF InOrder
    <3> QED BY <3>1, <3>3, <2>16, ReachedFollows
  <2> HIDE DEF past, mid, next
  <2> HIDE DEF score
  <2>21. score = (past \o mid) \o next BY DEF score
  <2>22. \A j \in 1 .. Len(score) - 1 : Follows(sl, score[j], score[j + 1])
    <3>1. Len(past) \in {0, 1} /\ Len(next) \in {0, 1} BY <2>14, <2>15, <2>16, <2>17
    <3> QED BY <3>1, <2>10, <2>13, <2>18, <2>19, <2>20, <2>21, Chained
  <2> QED BY <2>7, <2>22 DEF sl
<1> QED BY <1>1, InvHolds, PTL

==============================================================================
