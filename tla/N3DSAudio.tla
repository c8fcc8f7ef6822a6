------------------------------ MODULE N3DSAudio ------------------------------
(***************************************************************************)
(* The audio system of the 3DS (src/src/n3ds/n3ds_audio_system.c): the     *)
(* thread of the game, which calls it; the worker thread, which reads the  *)
(* next part of a stream or warms the cache of sounds; and the DSP, which  *)
(* plays queued buffers and marks them done.                               *)
(*                                                                         *)
(* The two threads share one lock.  A section that holds it to its end is  *)
(* one action; where the game holds it over several steps (main.pc is      *)
(* "locked") only the DSP moves.  The game gives it up in                  *)
(* waitForAsyncFillIdleLocked only, asleep on a condition variable.        *)
(*                                                                         *)
(* A stream is NumChunks chunks long, one to a buffer.  A stereo stream    *)
(* plays each buffer on two channels.                                      *)
(***************************************************************************)
EXTENDS Integers, Sequences, FiniteSets, FiniteSetsExt, SequencesExt

CONSTANTS
    NumSlots,       \* N3DS_MAX_SOUND_INSTANCES
    NumReserved,    \* N3DS_RESERVED_STREAM_INSTANCES, the last ones
    NumChannels,    \* N3DS_MAX_NDSP_CHANNELS
    NumBuffers,     \* N3DS_STREAM_BUFFER_COUNT
    Streams,        \* files that are streamed
    Effects,        \* sounds that are played from one buffer
    Width,          \* [Streams \cup Effects -> {1, 2}], channels of a sound
    NumChunks,      \* length of a stream
    LoopStart,      \* chunk at which a stream that loops starts again
    FileLoops,      \* bcwav.loop
    Targets,        \* where game code seeks
    PrewarmCount,   \* roomPrewarmSoundCount
    MaxOps          \* bound on the calls other than update

Slots == 1 .. NumSlots
Channels == 1 .. NumChannels
Buffers == 1 .. NumBuffers
Sounds == Streams \cup Effects
Lanes == {1, 2}         \* channelId and secondaryChannelId
Silence == -1

ASSUME AudioAssumption ==
    /\ NumSlots \in Nat \ {0} /\ NumReserved \in 0 .. NumSlots
    /\ NumChannels \in Nat /\ NumBuffers \in Nat \ {0}
    /\ Streams \cap Effects = {} /\ Width \in [Sounds -> {1, 2}]
    /\ NumChunks \in Nat \ {0} /\ LoopStart \in 0 .. NumChunks - 1 /\ FileLoops \in BOOLEAN
    /\ Targets \subseteq 0 .. NumChunks /\ PrewarmCount \in Nat /\ MaxOps \in Nat

VARIABLES
    slot,           \* audio->instances
    inUse,          \* audio->ndspChannelInUse
    queue,          \* what the DSP has to play, by channel: <<slot, lane, buffer>>
    refs,           \* refCount of the stream entries
    attempted,      \* sounds the cache has tried
    pending,        \* pendingPrewarmSoundCount
    signalled,      \* workerEvent, which is sticky
    workerEnabled, workerStop,
    main,           \* the thread of the game
    worker,         \* the worker thread
    ops,            \* calls made
    heard           \* history: last chunk each lane of a slot has played, or Silence

vars == <<slot, inUse, queue, refs, attempted, pending, signalled, workerEnabled, workerStop,
          main, worker, ops, heard>>
cache == <<attempted, pending>>
threads == <<workerEnabled, workerStop>>

\* requested, inProgress and ready take four of their eight combinations.
NoFill == [phase |-> "none", buffer |-> 1, success |-> FALSE, start |-> 0, next |-> 0]
EmptySlot ==
    [active |-> FALSE, sound |-> "none", loop |-> FALSE, stream |-> FALSE, paused |-> FALSE,
     finished |-> FALSE, channels |-> <<>>, status |-> [k \in Lanes |-> [b \in Buffers |-> "free"]],
     chunk |-> [b \in Buffers |-> Silence], cursor |-> 0, generation |-> 0, fill |-> NoFill]

Fill == [phase: {"none", "requested", "inProgress", "ready"}, buffer: Buffers, success: BOOLEAN,
         start: 0 .. NumChunks, next: 0 .. NumChunks]
TypeOK ==
    /\ \A s \in Slots :
          /\ slot[s].sound \in Sounds \cup {"none"} /\ slot[s].fill \in Fill
          /\ slot[s].status \in [Lanes -> [Buffers -> {"free", "busy", "done"}]]
          /\ slot[s].chunk \in [Buffers -> Silence .. NumChunks - 1]
          /\ slot[s].cursor \in 0 .. NumChunks /\ slot[s].channels \in Seq(Channels)
    /\ inUse \subseteq Channels /\ queue \in [Channels -> Seq(Slots \X Lanes \X Buffers)]
    /\ refs \in [Streams -> Nat] /\ attempted \subseteq Effects /\ pending \in 0 .. PrewarmCount
    /\ main.pc \in {"idle", "locked", "asleep", "woken", "joining", "gone"}
    /\ worker.pc \in {"wait", "pick", "fill", "scan", "load", "exit"}
    /\ heard \in [Slots -> [Lanes -> Silence .. NumChunks - 1]]

-------------------------------------------------------------------------------
(* Buffers and channels                                                    *)

LanesOf(sl) == 1 .. Len(sl.channels)

\* fillNativeStreamWaveBuf(Async): the chunk that is read at a cursor, and the cursor after.
CanFill(sl, cursor) == cursor < NumChunks \/ sl.loop
\* Seeded fault: reading goes on where the file has ended.
ChunkAtUnlooped(cursor) == cursor
ChunkAt(cursor) == IF cursor < NumChunks THEN cursor ELSE LoopStart
After(sl, cursor) ==
    IF sl.loop /\ FileLoops /\ ChunkAt(cursor) + 1 = NumChunks THEN LoopStart
    ELSE ChunkAt(cursor) + 1

\* ndspChnWaveBufAdd on each channel of the slot.
Added(q, s, sl, b) ==
    [c \in Channels |-> IF \E k \in LanesOf(sl) : sl.channels[k] = c
                        THEN Append(q[c], <<s, CHOOSE k \in LanesOf(sl) : sl.channels[k] = c, b>>)
                        ELSE q[c]]
Busy(sl, b) ==
    [sl EXCEPT !.status = [k \in Lanes |-> IF k \in LanesOf(sl) THEN [@[k] EXCEPT ![b] = "busy"] ELSE @[k]]]

\* The n first buffers are queued in turn.
Queued(q, s, sl, n) ==
    [c \in Channels |-> IF \E k \in LanesOf(sl) : sl.channels[k] = c
                        THEN LET k == CHOOSE j \in LanesOf(sl) : sl.channels[j] = c IN
                             [b \in 1 .. n |-> <<s, k, b>>]
                        ELSE q[c]]
\* at[b] is the cursor after buffer b.
Primed(sl, n, at) ==
    [sl EXCEPT !.finished = FALSE, !.cursor = at[n],
               !.chunk = [b \in Buffers |-> IF b <= n THEN ChunkAt(at[b - 1]) ELSE Silence],
               !.status = [k \in Lanes |-> [b \in Buffers |->
                              IF k \in LanesOf(sl) /\ b <= n THEN "busy" ELSE "free"]]]
\* primeStream: n buffers are filled in turn, until one cannot be.
PrimeStream(s, sl, q) ==
    \E n \in 0 .. NumBuffers : \E at \in [0 .. n -> 0 .. NumChunks] :
        /\ at[0] = sl.cursor
        /\ \A b \in 1 .. n : CanFill(sl, at[b - 1]) /\ at[b] = After(sl, at[b - 1])
        /\ n < NumBuffers => ~ CanFill(sl, at[n])
        /\ slot' = [slot EXCEPT ![s] = Primed(sl, n, at)]
        /\ queue' = Queued(q, s, sl, n)

\* resetChannelPlayback.
\* Seeded fault: the buffers of the channel are not cleared.
ClearedLater(q, sl) == q
Cleared(q, sl) == [c \in Channels |-> IF c \in ToSet(sl.channels) THEN <<>> ELSE q[c]]

Streaming(s) == slot[s].active /\ slot[s].stream
Deaf(s) == [heard EXCEPT ![s] = [k \in Lanes |-> Silence]]
Release(s) ==
    /\ slot' = [slot EXCEPT ![s] = EmptySlot]
    /\ inUse' = inUse \ ToSet(slot[s].channels)
    /\ queue' = Cleared(queue, slot[s])
    /\ heard' = Deaf(s)

-------------------------------------------------------------------------------
(* The calls of the game                                                   *)

Idle == main.pc = "idle"
Holds(op) == main.pc = "locked" /\ main.op = op
LockFree == main.pc # "locked"
AtRest == [pc |-> "idle", op |-> "none", todo |-> {}, sound |-> "none", loop |-> FALSE,
           slot |-> 1, target |-> 0, buffer |-> 1, queued |-> FALSE]
Return == main' = AtRest
Call(op, todo, sound, loop, s, target) ==
    /\ Idle /\ ops < MaxOps /\ ops' = ops + 1
    /\ main' = [pc |-> "locked", op |-> op, todo |-> todo, sound |-> sound, loop |-> loop,
                slot |-> s, target |-> target, buffer |-> 1, queued |-> FALSE]
    /\ UNCHANGED <<slot, inUse, queue, refs, cache, signalled, threads, worker, heard>>
AtOnce ==
    /\ Idle /\ ops < MaxOps /\ ops' = ops + 1
    /\ UNCHANGED <<inUse, queue, threads, main, worker, heard>>

Playing(sound) == {s \in Slots : slot[s].active /\ slot[s].sound = sound}
CallPlay(sound, loop) ==
    /\ sound \in Streams => refs[sound] > 0
    /\ Call("play", IF sound \in Streams THEN Playing(sound) ELSE {}, sound, loop, 1, 0)
\* stopSound of an instance or of a sound, and stopAll.
CallStop(S) == S # {} /\ Call("stop", S, "none", FALSE, 1, 0)
CallSeek(s, target) == Streaming(s) /\ Call("seek", {s}, "none", FALSE, s, target)
CallDestroyStream(f) == refs[f] = 1 /\ Call("destroyStream", Playing(f), f, FALSE, 1, 0)

CreateStream(f) ==
    /\ AtOnce /\ refs[f] < 2 /\ refs' = [refs EXCEPT ![f] = @ + 1]
    /\ UNCHANGED <<slot, cache, signalled>>
DropReference(f) ==
    /\ AtOnce /\ refs[f] > 1 /\ refs' = [refs EXCEPT ![f] = @ - 1]
    /\ UNCHANGED <<slot, cache, signalled>>
SetPaused(s, paused) ==
    /\ AtOnce /\ slot[s].active /\ slot[s].paused # paused
    /\ slot' = [slot EXCEPT ![s].paused = paused]
    /\ UNCHANGED <<refs, cache, signalled>>

ActiveStream == \E s \in Slots : Streaming(s) /\ ~ slot[s].finished
\* requestCachePrewarmLocked.  (Without a worker the cache is filled at once.)
PrewarmRoom ==
    /\ AtOnce /\ workerEnabled
    /\ pending' = Max({pending, PrewarmCount})
    /\ signalled' = (signalled \/ ~ ActiveStream)
    /\ UNCHANGED <<slot, refs, attempted>>

\* The fill of a slot can be cancelled; until then the game sleeps.
\* Seeded fault: nobody waits for the worker.
CancelsAtOnce(s) == TRUE
Cancels(s) == ~ workerEnabled \/ slot[s].fill.phase # "inProgress"
FirstToDo == Min(main.todo)
WaitForFillIdle ==
    /\ main.pc = "locked" /\ main.todo # {} /\ ~ Cancels(FirstToDo)
    /\ main' = [main EXCEPT !.pc = "asleep"]
    /\ UNCHANGED <<slot, inUse, queue, refs, cache, signalled, threads, worker, ops, heard>>
Relock ==
    /\ main.pc = "woken" /\ main' = [main EXCEPT !.pc = "locked"]
    /\ UNCHANGED <<slot, inUse, queue, refs, cache, signalled, threads, worker, ops, heard>>

ReleaseInstance ==
    /\ main.pc = "locked" /\ main.op # "seek" /\ main.todo # {} /\ Cancels(FirstToDo)
    /\ Release(FirstToDo)
    /\ main' = [main EXCEPT !.todo = @ \ {FirstToDo}]
    /\ UNCHANGED <<refs, cache, signalled, threads, worker, ops>>

StopReturns ==
    /\ Holds("stop") /\ main.todo = {} /\ Return
    /\ UNCHANGED <<slot, inUse, queue, refs, cache, signalled, threads, worker, ops, heard>>
DestroyStream ==
    /\ Holds("destroyStream") /\ main.todo = {} /\ Return
    /\ refs' = [refs EXCEPT ![main.sound] = 0]
    /\ UNCHANGED <<slot, inUse, queue, cache, signalled, threads, worker, ops, heard>>

\* cancelAsyncFillLocked.
\* Seeded fault: an answer that is ready outlives the seek.
CancelledUnlessReady(sl) == IF sl.fill.phase = "ready" THEN sl ELSE [sl EXCEPT !.fill = NoFill]
Cancelled(sl) == [sl EXCEPT !.generation = @ + 1, !.fill = NoFill]
Seek ==
    LET s == main.slot
        sl == [Cancelled(slot[s]) EXCEPT !.cursor = main.target] IN
    /\ Holds("seek") /\ Cancels(s)
    /\ PrimeStream(s, sl, Cleared(queue, sl))
    /\ heard' = Deaf(s)
    /\ Return
    /\ UNCHANGED <<inUse, refs, cache, signalled, threads, worker, ops>>

\* The file cannot be read up to the target: nothing is primed, and buffers that the channels
\* had to play keep their status although they were cleared.
SeekFails ==
    LET s == main.slot IN
    /\ Holds("seek") /\ Cancels(s)
    /\ main.target # 0 /\ ~ (FileLoops /\ main.target = LoopStart)
    /\ \E reached \in 0 .. main.target - 1 :
          slot' = [slot EXCEPT ![s] = [Cancelled(slot[s]) EXCEPT !.cursor = reached]]
    /\ queue' = Cleared(queue, slot[s])
    /\ heard' = Deaf(s)
    /\ Return
    /\ UNCHANGED <<inUse, refs, cache, signalled, threads, worker, ops>>

\* findFreeInstance: the range that is preferred, then the other; in each one that is free,
\* then one whose sound has ended.
Finished(s) ==
    /\ slot[s].active /\ ~ slot[s].stream /\ ~ slot[s].loop /\ ~ slot[s].paused
    /\ \A k \in LanesOf(slot[s]) : slot[s].status[k][1] = "done"
StreamRange == (NumSlots - NumReserved + 1) .. NumSlots
InRange(R) ==
    LET free == {s \in R : ~ slot[s].active}
        done == {s \in R : Finished(s)} IN
    IF free # {} THEN {Min(free)} ELSE IF done # {} THEN {Min(done)} ELSE {}
FreeInstance(stream) ==
    LET first == IF stream THEN StreamRange ELSE Slots \ StreamRange IN
    IF InRange(first) # {} THEN InRange(first) ELSE InRange(Slots \ first)

FirstChannels(free, n) ==
    IF n = 1 THEN <<Min(free)>> ELSE <<Min(free), Min(free \ {Min(free)})>>
Started(channels) ==
    [EmptySlot EXCEPT !.active = TRUE, !.sound = main.sound, !.loop = main.loop,
        !.stream = main.sound \in Streams, !.channels = channels, !.generation = 1]

\* Seeded fault: a channel got before the second was refused is not given back.
KeptByFailure(free) == inUse \cup (IF Cardinality(free) = 1 THEN free ELSE {})
AfterFailure(free) == Channels \ free

\* The file does not open, memory is short or there is no second channel: everything got so
\* far is given back.
StartFails(s) ==
    LET free == Channels \ (inUse \ ToSet(slot[s].channels)) IN
    /\ slot' = [slot EXCEPT ![s] = EmptySlot]
    /\ inUse' = AfterFailure(free)
    /\ queue' = Cleared(queue, slot[s])
StartSucceeds(s) ==
    LET free == Channels \ (inUse \ ToSet(slot[s].channels))
        sl == Started(FirstChannels(free, Width[main.sound])) IN
    /\ Cardinality(free) >= Width[main.sound]
    /\ inUse' = (Channels \ free) \cup ToSet(sl.channels)
    /\ IF sl.stream THEN PrimeStream(s, sl, Cleared(queue, slot[s]))
       ELSE /\ slot' = [slot EXCEPT ![s] = Busy(sl, 1)]
            /\ queue' = Queued(Cleared(queue, slot[s]), s, sl, 1)
PlaySound ==
    /\ Holds("play") /\ main.todo = {} /\ Return
    /\ LET S == FreeInstance(main.sound \in Streams) IN
       IF S = {} THEN UNCHANGED <<slot, inUse, queue, heard>>
       ELSE \E s \in S : (StartFails(s) \/ StartSucceeds(s)) /\ heard' = Deaf(s)
    /\ UNCHANGED <<refs, cache, signalled, threads, worker, ops>>

\* N3DSAudio_destroy: stop the worker, join it, release everything.
Destroy ==
    /\ Idle /\ main' = [main EXCEPT !.pc = "joining"]
    /\ workerStop' = TRUE /\ signalled' = TRUE
    /\ UNCHANGED <<slot, inUse, queue, refs, cache, workerEnabled, worker, ops, heard>>
Join ==
    /\ main.pc = "joining" /\ (workerEnabled => worker.pc = "exit")
    /\ main' = [main EXCEPT !.pc = "gone"] /\ workerEnabled' = FALSE
    /\ slot' = [s \in Slots |-> EmptySlot] /\ inUse' = {} /\ queue' = [c \in Channels |-> <<>>]
    /\ heard' = [s \in Slots |-> [k \in Lanes |-> Silence]]
    /\ UNCHANGED <<refs, cache, signalled, workerStop, worker, ops>>
Gone == main.pc = "gone" /\ UNCHANGED vars

-------------------------------------------------------------------------------
(* N3DSAudio_update, once a frame                                          *)

UpdateFrom(s) ==
    LET left == {t \in Slots : t >= s /\ slot[t].active} IN
    IF left = {} THEN Return
    ELSE main' = [AtRest EXCEPT !.pc = "locked", !.op = "update", !.slot = Min(left)]
\* (The counts of the prewarming in the background are zero: nothing is asked for.)
BeginUpdate ==
    /\ Idle /\ UpdateFrom(1)
    /\ UNCHANGED <<slot, inUse, queue, refs, cache, signalled, threads, worker, ops, heard>>
UpdateOther ==
    LET s == main.slot IN
    /\ Holds("update") /\ ~ Streaming(s) /\ UpdateFrom(s + 1)
    /\ IF Finished(s) THEN Release(s) ELSE UNCHANGED <<slot, inUse, queue, heard>>
    /\ UNCHANGED <<refs, cache, signalled, threads, worker, ops>>

\* A buffer that both channels have played becomes free.
Reusable(sl, b) == \A k \in LanesOf(sl) : sl.status[k][b] = "done"
Reclaimed(sl, b) ==
    IF Reusable(sl, b) THEN [sl EXCEPT !.status = [k \in Lanes |-> [@[k] EXCEPT ![b] = "free"]]] ELSE sl

\* applyAsyncFillLocked.
Applied(sl) ==
    LET b == sl.fill.buffer IN
    IF sl.fill.success
    THEN Busy([sl EXCEPT !.cursor = sl.fill.next, !.chunk[b] = sl.fill.start, !.fill = NoFill], b)
    ELSE [sl EXCEPT !.finished = TRUE, !.fill = NoFill]
Requested(sl, b) == [sl EXCEPT !.fill = [NoFill EXCEPT !.phase = "requested", !.buffer = b]]
FilledNow(sl, b) ==
    Busy([sl EXCEPT !.cursor = After(sl, @), !.chunk[b] = ChunkAt(sl.cursor)], b)

\* Seeded fault: the request does not wake the worker.
NoSignal == signalled
Signal == TRUE
UpdateBuffer ==
    LET s == main.slot
        b == main.buffer
        freed == Reclaimed(slot[s], b)
        apply == freed.status[1][b] = "free" /\ freed.fill.phase = "ready" /\ freed.fill.buffer = b
        applied == IF apply THEN Applied(freed) ELSE freed
        wants == applied.status[1][b] = "free" /\ ~ applied.finished /\ applied.fill.phase = "none"
        refilled == wants /\ ~ workerEnabled /\ CanFill(applied, applied.cursor)
        after == IF wants /\ workerEnabled THEN Requested(applied, b)
                 ELSE IF refilled THEN FilledNow(applied, b) ELSE applied IN
    /\ Holds("update") /\ Streaming(s) /\ b <= NumBuffers
    /\ slot' = [slot EXCEPT ![s] = after]
    /\ queue' = IF refilled \/ (apply /\ freed.fill.success) THEN Added(queue, s, after, b) ELSE queue
    /\ signalled' = IF wants /\ workerEnabled THEN Signal ELSE signalled
    /\ main' = [main EXCEPT !.buffer = b + 1,
                   !.queued = @ \/ \E k \in LanesOf(after) : after.status[k][b] # "free"]
    /\ UNCHANGED <<inUse, refs, cache, threads, worker, ops, heard>>
UpdateEnd ==
    LET s == main.slot IN
    /\ Holds("update") /\ Streaming(s) /\ main.buffer > NumBuffers /\ UpdateFrom(s + 1)
    /\ IF ~ main.queued /\ slot[s].fill.phase = "none" THEN Release(s)
       ELSE UNCHANGED <<slot, inUse, queue, heard>>
    /\ UNCHANGED <<refs, cache, signalled, threads, worker, ops>>

-------------------------------------------------------------------------------
(* The DSP                                                                 *)

PlaysOut(c) ==
    LET s == Head(queue[c])[1]
        k == Head(queue[c])[2]
        b == Head(queue[c])[3] IN
    /\ queue[c] # <<>> /\ ~ slot[s].paused
    /\ slot[s].stream \/ ~ slot[s].loop
    /\ slot' = [slot EXCEPT ![s].status[k][b] = "done"]
    /\ queue' = [queue EXCEPT ![c] = Tail(@)]
    /\ heard' = [heard EXCEPT ![s][k] = slot[s].chunk[b]]
    /\ UNCHANGED <<inUse, refs, cache, signalled, threads, main, worker, ops>>

-------------------------------------------------------------------------------
(* streamWorkerMain                                                        *)

AtWorker(pc) == workerEnabled /\ worker.pc = pc
WorkerAt(pc) == [pc |-> pc, slot |-> 1, buffer |-> 1, generation |-> 0, cursor |-> 0]
GoTo(pc) == worker' = WorkerAt(pc)
WorkerOnly == UNCHANGED <<inUse, queue, refs, signalled, threads, ops, heard>>

WaitEvent ==
    /\ AtWorker("wait") /\ signalled /\ GoTo("pick")
    /\ UNCHANGED <<slot, cache, main>> /\ WorkerOnly

Wanting == {s \in Slots : Streaming(s) /\ slot[s].fill.phase = "requested"}
PickFill ==
    /\ AtWorker("pick") /\ LockFree
    /\ IF workerStop THEN GoTo("exit") /\ UNCHANGED slot
       ELSE IF Wanting = {} THEN GoTo("scan") /\ UNCHANGED slot
       ELSE LET s == Min(Wanting) IN
            /\ slot' = [slot EXCEPT ![s].fill.phase = "inProgress"]
            /\ worker' = [pc |-> "fill", slot |-> s, buffer |-> slot[s].fill.buffer,
                          generation |-> slot[s].generation, cursor |-> slot[s].cursor]
    /\ UNCHANGED <<cache, main>> /\ WorkerOnly

\* Seeded fault: nobody is told that the fill has ended.
SleepOn == main
Broadcast == IF main.pc = "asleep" THEN [main EXCEPT !.pc = "woken"] ELSE main

\* The buffer is written without the lock, until the answer is put down; reading may fail.
EndFill(success) ==
    LET s == worker.slot
        sl == slot[s]
        answered == [sl EXCEPT !.fill = [@ EXCEPT !.phase = "ready", !.success = success,
                        !.start = ChunkAt(worker.cursor), !.next = After(sl, worker.cursor)]]
        current == /\ Streaming(s) /\ sl.fill.phase = "inProgress"
                   /\ sl.generation = worker.generation /\ sl.fill.buffer = worker.buffer
        then == IF current THEN [slot EXCEPT ![s] = answered] ELSE slot
        more == \E t \in Slots : then[t].active /\ then[t].stream
                                 /\ then[t].fill.phase \in {"requested", "inProgress"} IN
    /\ AtWorker("fill") /\ LockFree
    /\ success => CanFill(sl, worker.cursor)
    /\ slot' = then
    /\ main' = Broadcast
    /\ GoTo(IF workerStop THEN "exit" ELSE IF more THEN "pick" ELSE "wait")
    /\ UNCHANGED cache /\ WorkerOnly

\* runCachePrewarmJob: not while music plays; one sound after the other until enough are in.
PickSound ==
    /\ AtWorker("scan") /\ LockFree
    /\ IF workerStop \/ pending = 0 \/ ActiveStream
       THEN GoTo("wait") /\ UNCHANGED cache
       ELSE IF attempted = Effects
       THEN GoTo("wait") /\ pending' = 0 /\ UNCHANGED attempted
       ELSE \E e \in Effects \ attempted :
               attempted' = attempted \cup {e} /\ GoTo("load") /\ UNCHANGED pending
    /\ UNCHANGED <<slot, main>> /\ WorkerOnly
StoreSound ==
    /\ AtWorker("load") /\ LockFree /\ GoTo("pick")
    /\ pending' \in {pending, Max({0, pending - 1})}
    /\ UNCHANGED <<slot, attempted, main>> /\ WorkerOnly

-------------------------------------------------------------------------------

Calls ==
    \/ \E f \in Sounds, loop \in BOOLEAN : CallPlay(f, loop)
    \/ \E s \in Slots : slot[s].active /\ (CallStop({s}) \/ CallStop(Playing(slot[s].sound)))
    \/ CallStop({s \in Slots : slot[s].active})
    \/ \E s \in Slots, t \in Targets : CallSeek(s, t)
    \/ \E f \in Streams : CallDestroyStream(f) \/ CreateStream(f) \/ DropReference(f)
    \/ \E s \in Slots, p \in BOOLEAN : SetPaused(s, p)
    \/ PrewarmRoom
    \/ Destroy
Going ==
    \/ BeginUpdate \/ UpdateOther \/ UpdateBuffer \/ UpdateEnd
    \/ WaitForFillIdle \/ Relock \/ ReleaseInstance \/ StopReturns \/ DestroyStream \/ Seek
    \/ SeekFails \/ PlaySound \/ Join
Worker == WaitEvent \/ PickFill \/ (\E ok \in BOOLEAN : EndFill(ok)) \/ PickSound \/ StoreSound
Next == Calls \/ Going \/ Worker \/ (\E c \in Channels : PlaysOut(c)) \/ Gone

Init ==
    /\ slot = [s \in Slots |-> EmptySlot] /\ inUse = {} /\ queue = [c \in Channels |-> <<>>]
    /\ refs = [f \in Streams |-> 1] /\ attempted = {} /\ pending = 0
    /\ signalled = FALSE /\ workerEnabled \in BOOLEAN /\ workerStop = FALSE
    /\ main = AtRest /\ worker = WorkerAt("wait")
    /\ ops = 0 /\ heard = [s \in Slots |-> [k \in Lanes |-> Silence]]

Spec == Init /\ [][Next]_vars
\* The game goes on calling update and leaves the lock alone between frames, so that the
\* worker gets it; the DSP plays.
FairSpec ==
    /\ Spec /\ WF_vars(Going) /\ SF_vars(Worker)
    /\ \A c \in Channels : WF_vars(PlaysOut(c))

-------------------------------------------------------------------------------
(* Properties                                                              *)

\* While the worker writes a buffer, without the lock, the instance it belongs to is neither
\* freed nor reused nor sought in, and no channel has the buffer to play.
WorkerOwnsBuffer ==
    worker.pc = "fill" =>
        /\ Streaming(worker.slot) /\ slot[worker.slot].fill.phase = "inProgress"
        /\ slot[worker.slot].fill.buffer = worker.buffer
        /\ \A c \in Channels : \A i \in DOMAIN queue[c] :
              queue[c][i][1] = worker.slot => queue[c][i][3] # worker.buffer

\* Each channel of a stream plays its chunks in their order, none twice and none left out,
\* from where it was started or sought to and round its loop, however the answers of the
\* worker, the buffers that become free and the calls of the game fall.
Follows(sl, c, d) == d = c + 1 \/ (c = NumChunks - 1 /\ sl.loop /\ d = LoopStart)
Score(s, k) ==
    LET sl == slot[s]
        q == queue[sl.channels[k]]
        past == IF heard[s][k] = Silence THEN <<>> ELSE <<heard[s][k]>> IN
    past \o [i \in 1 .. Len(q) |-> sl.chunk[q[i][3]]]
         \o (IF sl.fill.phase = "ready" /\ sl.fill.success THEN <<sl.fill.start>> ELSE <<>>)
PlaysInOrder ==
    \A s \in Slots : Streaming(s) => \A k \in LanesOf(slot[s]) :
        LET score == Score(s, k) IN
        \A i \in 1 .. Len(score) - 1 : Follows(slot[s], score[i], score[i + 1])

\* The channels marked as in use are those of the active instances, each of one; a start
\* that fails halfway keeps none.
ChannelsOwned ==
    /\ inUse = UNION {ToSet(slot[s].channels) : s \in Slots}
    /\ \A s, t \in Slots : s # t => ToSet(slot[s].channels) \cap ToSet(slot[t].channels) = {}
    /\ \A s \in Slots : slot[s].active <=> slot[s].channels # <<>>

\* The DSP has nothing to play from an instance that is free or has another channel.
DspReadsLive ==
    \A c \in Channels : \A i \in DOMAIN queue[c] :
        LET s == queue[c][i][1]
            k == queue[c][i][2] IN
        k \in LanesOf(slot[s]) /\ slot[s].channels[k] = c /\ slot[s].status[k][queue[c][i][3]] = "busy"

\* A buffer is the worker's, the DSP's or nobody's, whoever stops, seeks or reuses the stream.
BufferHasOneUser == WorkerOwnsBuffer /\ DspReadsLive

\* Every call comes back, also those that wait for the worker and the one that joins it.
CallsReturn == ~ Idle ~> (Idle \/ main.pc = "gone")

\* A stream that does not loop comes to its end and gives its instance back, unless a seek
\* that failed left it with a buffer that nobody will play.
Stranded(s) ==
    \E k \in LanesOf(slot[s]), b \in Buffers :
        slot[s].status[k][b] = "busy" /\ <<s, k, b>> \notin ToSet(queue[slot[s].channels[k]])
StreamEnds ==
    \A s \in Slots : (Streaming(s) /\ ~ slot[s].loop)
                         ~> (~ Streaming(s) \/ slot[s].loop \/ slot[s].paused \/ Stranded(s))

===============================================================================
