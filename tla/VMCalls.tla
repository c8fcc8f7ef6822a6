-------------------------------- MODULE VMCalls --------------------------------
(***************************************************************************)
(* Calls, with-blocks and exceptions of the bytecode interpreter:          *)
(* executeLoop, VM_callCodeIndex, VM_executeCode and the PushEnv, PopEnv,  *)
(* Call and CallV instructions of src/src/vm.c, executeCode of             *)
(* src/src/runner.c, and the builtins @@try_hook@@, @@try_unhook@@,        *)
(* @@finish_finally@@ and @@throw@@ of src/src/vm_builtins.c.              *)
(*                                                                         *)
(* A frame is one C call of executeLoop: an event's code or a script's.    *)
(* Its code is what GameMaker's compiler makes of a program of nested      *)
(* blocks, and its position in the code is the list of blocks it is in:    *)
(*                                                                         *)
(*         try_hook(catch: C, success: S)    block "try"                   *)
(*         ...; b S                                                        *)
(*      C: pop e; try_unhook                 block "caught", then "catch"  *)
(*         ...; finish_catch; b F                                          *)
(*      S: try_unhook                        block "landed"                *)
(*      F: ...; finish_finally               block "finally"               *)
(*                                                                         *)
(* What a block records of the context it was entered in, the interpreter  *)
(* does not know: it is what the language promises of self, other and of   *)
(* the operands that are on the stack.                                     *)
(***************************************************************************)
EXTENDS Integers, Sequences, FiniteSets, SequencesExt

CONSTANTS
    Instances,
    NoInstance,
    NoException, Thrown,
    HandlerStackSize, \* VM_EXCEPTION_HANDLER_FRAME_STACK_SIZE
    Selves, Others,   \* the instances that run events, that methods are bound to
    WithLists,        \* the lists of active instances a target can stand for
    MaxDepth,         \* bound: frames and the blocks that their code is in
    MaxOperands,      \* bound: operands pushed, over all frames
    MaxAbandoned      \* bound: with-blocks left by exceptions before no block or frame begins

ASSUME VMCallsAssumption ==
    /\ NoInstance \notin Instances /\ Thrown # NoException
    /\ HandlerStackSize \in Nat /\ MaxDepth \in Nat
    /\ MaxOperands \in Nat /\ MaxAbandoned \in Nat
    /\ Selves \subseteq Instances /\ Others \subseteq Instances
    /\ WithLists \subseteq Seq(Instances) \ {<<>>}

VARIABLES
    frames,            \* the calls of executeLoop, and where their code is
    currentInstance,
    otherInstance,
    envStack,
    callDepth,
    handlers,          \* exceptionHandlerFrameStack, up to its top
    stack,             \* the frame each value of the stack belongs to
    exception,
    parkedException,
    halted,            \* why the program cannot be followed further, if so
    abandoned,         \* history: with-blocks left by an exception
    muddled            \* history: a finally left, or run, with another's exception

registers == <<currentInstance, otherInstance>>
exceptions == <<exception, parkedException>>
vars == <<frames, registers, envStack, callDepth, handlers, stack, exceptions,
          halted, abandoned, muddled>>

-----------------------------------------------------------------------------
(* Code and its blocks. *)

cur == frames[Len(frames)]
IsWith(b) == b.kind \in {"with", "skipped"}

(* self and other in the n-th block of a frame, or outside of its blocks.  *)
SelfIn(f, n) == IF n = 0 THEN f.self ELSE f.blocks[n].self
OtherIn(f, n) == IF n = 0 THEN f.other ELSE f.blocks[n].other
Self(f) == SelfIn(f, Len(f.blocks))
Other(f) == OtherIn(f, Len(f.blocks))

Block(kind) ==
    [kind |-> kind, self |-> Self(cur), other |-> Other(cur),
     operands |-> cur.operands, hasCatch |-> FALSE, parked |-> FALSE]
InBlock(kind) == cur.blocks # <<>> /\ Last(cur.blocks).kind = kind
Floor == IF cur.blocks = <<>> THEN 0 ELSE Last(cur.blocks).operands
EndOfStatement == cur.operands = Floor

MayRun == halted = "no" /\ frames # <<>> /\ exception = NoException
AtStatement ==
    /\ MayRun
    /\ cur.blocks # <<>> => Last(cur.blocks).kind \notin {"skipped", "caught", "landed"}
SetBlocks(blocks) == frames' = [frames EXCEPT ![Len(frames)].blocks = blocks]
Depth == FoldSeq(LAMBDA f, n : n + 1 + Len(f.blocks), 0, frames)
Pushed == FoldSeq(LAMBDA f, n : n + f.operands, 0, frames)
MayNest == Depth < MaxDepth /\ abandoned < MaxAbandoned
EnterBlock(b) == MayNest /\ SetBlocks(Append(cur.blocks, b))
BecomeBlock(b) == SetBlocks(Append(Front(cur.blocks), b))
LeaveBlock == SetBlocks(Front(cur.blocks))

UnwindVMStack(top) == SubSeq(stack, 1, top)

-----------------------------------------------------------------------------
(* The stack of values. *)

Push ==
    /\ AtStatement /\ Pushed < MaxOperands
    /\ stack' = Append(stack, Len(frames))
    /\ frames' = [frames EXCEPT ![Len(frames)].operands = @ + 1]
    /\ UNCHANGED <<registers, envStack, callDepth, handlers, exceptions, halted, abandoned, muddled>>

Pop ==
    /\ AtStatement /\ cur.operands > Floor
    /\ stack' = Front(stack)
    /\ frames' = [frames EXCEPT ![Len(frames)].operands = @ - 1]
    /\ UNCHANGED <<registers, envStack, callDepth, handlers, exceptions, halted, abandoned, muddled>>

-----------------------------------------------------------------------------
(* Events, scripts and methods.  Arguments and results are left out. *)

Frame(kind, self, other) ==
    [kind |-> kind, self |-> self, other |-> other, blocks |-> <<>>, operands |-> 0,
     savedInstance |-> currentInstance, savedOther |-> otherInstance, savedStack |-> stack]
EnterFrame(kind, self, other) ==
    /\ MayNest
    /\ frames' = Append(frames, Frame(kind, self, other))

AtEvent == halted = "no" /\ frames = <<>>

(* The event loop, or a builtin of the running code, runs an event. *)
ExecuteCode(instance) ==
    /\ IF frames = <<>> THEN AtEvent ELSE AtStatement
    /\ EnterFrame("event", instance, otherInstance)
    /\ currentInstance' = instance
    /\ stack' = <<>>
    /\ UNCHANGED <<otherInstance, envStack, callDepth, handlers, exceptions, halted, abandoned, muddled>>

ExecuteCollisionEvent(self, other) ==
    /\ AtEvent
    /\ EnterFrame("collision", self, other)
    /\ currentInstance' = self /\ otherInstance' = other
    /\ stack' = <<>>
    /\ UNCHANGED <<envStack, callDepth, handlers, exceptions, halted, abandoned, muddled>>

CallScript ==
    /\ AtStatement
    /\ EnterFrame("script", currentInstance, otherInstance)
    /\ callDepth' = callDepth + 1
    /\ UNCHANGED <<registers, envStack, handlers, stack, exceptions, halted, abandoned, muddled>>

(* CallV, script_execute, new, or a callback that the event loop runs. *)
CallMethod(target) ==
    /\ IF frames = <<>> THEN AtEvent ELSE AtStatement
    /\ EnterFrame("method", target, otherInstance)
    /\ currentInstance' = target
    /\ callDepth' = callDepth + 1
    /\ UNCHANGED <<otherInstance, envStack, handlers, stack, exceptions, halted, abandoned, muddled>>

(* executeLoop returns, and so does what called it. *)
IsCall(f) == f.kind \in {"script", "method"}
(* Seeded fault: CallV forgets savedSelf. *)
EventInstance(f) == IF IsCall(f) THEN currentInstance ELSE f.savedInstance
ReturnInstance(f) == IF f.kind = "script" THEN currentInstance ELSE f.savedInstance
ReturnOther(f) == IF f.kind = "collision" THEN f.savedOther ELSE otherInstance
(* Seeded fault: VM_callCodeIndex leaves what the callee had pushed. *)
CalleeStack(f) == IF IsCall(f) THEN stack ELSE f.savedStack
ReturnStack(f) == IF IsCall(f) THEN UnwindVMStack(Len(f.savedStack)) ELSE f.savedStack
(* Seeded fault: callDepth is not counted down. *)
LeaveDeeper ==
    /\ frames' = Front(frames)
    /\ currentInstance' = ReturnInstance(cur) /\ otherInstance' = ReturnOther(cur)
    /\ stack' = ReturnStack(cur)
    /\ UNCHANGED callDepth
LeaveFrame ==
    /\ frames' = Front(frames)
    /\ currentInstance' = ReturnInstance(cur)
    /\ otherInstance' = ReturnOther(cur)
    /\ stack' = ReturnStack(cur)
    /\ callDepth' = IF IsCall(cur) THEN callDepth - 1 ELSE callDepth

Return ==
    /\ AtStatement /\ cur.blocks = <<>>
    /\ LeaveFrame
    /\ UNCHANGED <<envStack, handlers, exceptions, halted, abandoned, muddled>>

-----------------------------------------------------------------------------
(* with-blocks. *)

EnvFrame(list) ==
    [savedInstance |-> currentInstance, savedOtherInstance |-> otherInstance, instanceList |-> list]
WithBlock(kind, self) ==
    [Block(kind) EXCEPT !.self = self, !.other = currentInstance]

PushEnv(kind, self, list) ==
    /\ AtStatement
    /\ EnterBlock(WithBlock(kind, self))
    /\ envStack' = Append(envStack, EnvFrame(list))
    /\ otherInstance' = currentInstance
    /\ currentInstance' = self
    /\ UNCHANGED <<callDepth, handlers, stack, exceptions, halted, abandoned, muddled>>

PushEnvSelf == PushEnv("with", currentInstance, <<>>)
PushEnvOther ==
    PushEnv("with", IF envStack # <<>> THEN Last(envStack).savedInstance
                    ELSE IF otherInstance # NoInstance THEN otherInstance
                    ELSE currentInstance, <<>>)
PushEnvList(list) == PushEnv("with", Head(list), Tail(list))
PushEnvNobody == PushEnv("skipped", currentInstance, <<>>)

(* The next instance of the list that is still active, the k-th. *)
PopEnvNext(k) ==
    /\ AtStatement /\ InBlock("with") /\ EndOfStatement
    /\ LET list == Last(envStack).instanceList IN
        /\ k \in DOMAIN list
        /\ currentInstance' = list[k]
        /\ envStack' = [envStack EXCEPT ![Len(envStack)].instanceList = SubSeq(list, k + 1, Len(list))]
        /\ BecomeBlock([Last(cur.blocks) EXCEPT !.self = list[k]])
    /\ UNCHANGED <<otherInstance, callDepth, handlers, stack, exceptions, halted, abandoned, muddled>>

(* No instance is left that is active, or the code leaves the block early. *)
RestoreEnvContext ==
    /\ currentInstance' = Last(envStack).savedInstance
    /\ otherInstance' = Last(envStack).savedOtherInstance
PopEnvLeave ==
    /\ MayRun /\ (InBlock("with") \/ InBlock("skipped")) /\ EndOfStatement
    /\ RestoreEnvContext
    /\ envStack' = Front(envStack)
    /\ LeaveBlock
    /\ UNCHANGED <<callDepth, handlers, stack, exceptions, halted, abandoned, muddled>>

-----------------------------------------------------------------------------
(* Exceptions.  block and frame say where a handler's code is: the code    *)
(* has only its address, boundToCallDepth and stackTop.                    *)

TryHook(hasCatch) ==
    /\ AtStatement
    /\ IF Len(handlers) = HandlerStackSize
       THEN halted' = "aborted" /\ UNCHANGED <<frames, handlers>>
       ELSE /\ EnterBlock([Block("try") EXCEPT !.hasCatch = hasCatch])
            /\ handlers' = Append(handlers, [boundToCallDepth |-> callDepth, stackTop |-> Len(stack),
                                             frame |-> Len(frames), block |-> Len(cur.blocks) + 1])
            /\ UNCHANGED halted
    /\ UNCHANGED <<registers, envStack, callDepth, stack, exceptions, abandoned, muddled>>

(* The body is done: b S, try_unhook. *)
TryDone ==
    /\ MayRun /\ InBlock("try") /\ EndOfStatement
    /\ handlers' = Front(handlers)
    /\ BecomeBlock([Last(cur.blocks) EXCEPT !.kind = "finally", !.hasCatch = FALSE])
    /\ UNCHANGED <<registers, envStack, callDepth, stack, exceptions, halted, abandoned, muddled>>

(* At C: pop e, try_unhook. *)
CatchBegin ==
    /\ MayRun /\ InBlock("caught")
    /\ stack' = Front(stack)
    /\ handlers' = Front(handlers)
    /\ BecomeBlock([Last(cur.blocks) EXCEPT !.kind = "catch"])
    /\ UNCHANGED <<registers, envStack, callDepth, exceptions, halted, abandoned, muddled>>

CatchDone ==
    /\ MayRun /\ InBlock("catch") /\ EndOfStatement
    /\ BecomeBlock([Last(cur.blocks) EXCEPT !.kind = "finally", !.hasCatch = FALSE])
    /\ UNCHANGED <<registers, envStack, callDepth, handlers, stack, exceptions, halted, abandoned, muddled>>

(* Seeded fault: executeLoop has popped the handler, @@try_unhook@@ pops another. *)
FinallyBeginTwice ==
    /\ MayRun /\ InBlock("landed")
    /\ handlers' = SubSeq(handlers, 1, Len(handlers) - 2)
    /\ BecomeBlock([Last(cur.blocks) EXCEPT !.kind = "finally", !.parked = TRUE])
    /\ UNCHANGED <<registers, envStack, callDepth, stack, exceptions, halted, abandoned, muddled>>

(* At S with an exception parked: try_unhook. *)
FinallyBegin ==
    /\ MayRun /\ InBlock("landed")
    /\ handlers' = Front(handlers)
    /\ BecomeBlock([Last(cur.blocks) EXCEPT !.kind = "finally", !.parked = TRUE])
    /\ UNCHANGED <<registers, envStack, callDepth, stack, exceptions, halted, abandoned, muddled>>

(* Seeded fault: the exception stays parked. *)
FinishFinallyParked ==
    /\ MayRun /\ InBlock("finally") /\ EndOfStatement
    /\ exception' = parkedException
    /\ LeaveBlock
    /\ UNCHANGED <<registers, envStack, callDepth, handlers, stack, parkedException, halted, abandoned, muddled>>

FinishFinally ==
    /\ MayRun /\ InBlock("finally") /\ EndOfStatement
    /\ exception' = parkedException
    /\ parkedException' = NoException
    /\ muddled' = (muddled \/ Last(cur.blocks).parked # (parkedException # NoException))
    /\ LeaveBlock
    /\ UNCHANGED <<registers, envStack, callDepth, handlers, stack, halted, abandoned>>

(* throw, or a call of something that is no function. *)
Throw ==
    /\ AtStatement
    /\ exception' = Thrown
    /\ UNCHANGED <<frames, registers, envStack, callDepth, handlers, stack, parkedException,
                   halted, abandoned, muddled>>

(* throw as the last instruction of an event: the loop ends before its     *)
(* next look at exception.                                                 *)
ThrowLast ==
    /\ AtStatement /\ cur.blocks = <<>> /\ ~IsCall(cur)
    /\ exception' = Thrown
    /\ LeaveFrame
    /\ UNCHANGED <<envStack, handlers, parkedException, halted, abandoned, muddled>>

-----------------------------------------------------------------------------
(* What executeLoop does with an exception before the next instruction. *)

Pending == halted = "no" /\ frames # <<>> /\ exception # NoException
LeftParked(blocks) == \E i \in DOMAIN blocks : blocks[i].parked
Abandon(blocks, overwritten) ==
    /\ abandoned' = abandoned + Cardinality({k \in DOMAIN blocks : IsWith(blocks[k])})
    /\ muddled' = (muddled \/ LeftParked(blocks) \/ overwritten)

(* Seeded fault: an exception that nobody handles stays pending. *)
SwallowKeeping ==
    /\ Pending /\ handlers = <<>>
    /\ Abandon(cur.blocks, FALSE)
    /\ LeaveFrame
    /\ UNCHANGED <<envStack, handlers, exceptions, halted>>

Swallow ==
    /\ Pending /\ handlers = <<>>
    /\ exception' = NoException
    /\ Abandon(cur.blocks, FALSE)
    /\ LeaveFrame
    /\ UNCHANGED <<envStack, handlers, parkedException, halted>>

BoundHere == Last(handlers).boundToCallDepth = callDepth
Propagate ==
    /\ Pending /\ handlers # <<>> /\ ~BoundHere
    /\ Abandon(cur.blocks, FALSE)
    /\ LeaveFrame
    /\ UNCHANGED <<envStack, handlers, exceptions, halted>>

JumpToHandler ==
    LET h == Last(handlers)
        try == cur.blocks[h.block]
        unwound == UnwindVMStack(h.stackTop)
        landing == [try EXCEPT !.kind = IF try.hasCatch THEN "caught" ELSE "landed"]
    IN
    /\ Pending /\ handlers # <<>> /\ BoundHere
    /\ h.frame = Len(frames)
    /\ Abandon(SubSeq(cur.blocks, h.block + 1, Len(cur.blocks)),
                ~try.hasCatch /\ parkedException # NoException)
    /\ frames' = [frames EXCEPT ![Len(frames)] =
                    [cur EXCEPT !.blocks = Append(SubSeq(cur.blocks, 1, h.block - 1), landing),
                                !.operands = try.operands]]
    /\ stack' = IF try.hasCatch THEN Append(unwound, Len(frames)) ELSE unwound
    /\ parkedException' = IF try.hasCatch THEN parkedException ELSE exception
    /\ exception' = NoException
    /\ UNCHANGED <<registers, envStack, callDepth, handlers, halted>>

(* The handler is of another code, that has the same call depth: the jump  *)
(* goes to its address in this one.  What happens there is not followed.   *)
JumpAstray ==
    /\ Pending /\ handlers # <<>> /\ BoundHere
    /\ Last(handlers).frame # Len(frames)
    /\ halted' = "astray"
    /\ exception' = NoException
    /\ UNCHANGED <<frames, registers, envStack, callDepth, handlers, stack, parkedException,
                   abandoned, muddled>>

-----------------------------------------------------------------------------
(* Runner_reset, when the game restarts: VM_reset frees the exceptions     *)
(* but keeps its pointers to them, and it is called twice.                 *)
Reset ==
    /\ halted = "no" /\ frames = <<>>
    /\ callDepth' = 0 /\ envStack' = <<>> /\ stack' = <<>>
    /\ currentInstance' = NoInstance /\ otherInstance' = NoInstance
    /\ halted' = IF exception # NoException \/ parkedException # NoException THEN "double free" ELSE "no"
    /\ abandoned' = 0
    /\ UNCHANGED <<frames, handlers, exceptions, muddled>>

Init ==
    /\ frames = <<>> /\ envStack = <<>> /\ handlers = <<>> /\ stack = <<>>
    /\ currentInstance = NoInstance /\ otherInstance = NoInstance
    /\ callDepth = 0
    /\ exception = NoException /\ parkedException = NoException
    /\ halted = "no" /\ abandoned = 0 /\ muddled = FALSE

(* What the event loop starts, what code does, and what executeLoop does   *)
(* with a pending exception.                                               *)
Loop ==
    \/ frames = <<>> /\ \E i \in Selves : ExecuteCode(i)
    \/ frames = <<>> /\ \E i \in Others : CallMethod(i)
    \/ \E i \in Selves, j \in Others : ExecuteCollisionEvent(i, j)
    \/ Reset
Code ==
    \/ Push \/ Pop
    \/ frames # <<>> /\ \E i \in Selves : ExecuteCode(i)
    \/ frames # <<>> /\ \E i \in Others : CallMethod(i)
    \/ CallScript \/ Return
    \/ PushEnvSelf \/ PushEnvOther \/ PushEnvNobody
    \/ \E list \in WithLists : PushEnvList(list)
    \/ (envStack # <<>> /\ \E k \in DOMAIN Last(envStack).instanceList : PopEnvNext(k))
    \/ PopEnvLeave
    \/ \E hasCatch \in BOOLEAN : TryHook(hasCatch)
    \/ TryDone \/ CatchBegin \/ CatchDone \/ FinallyBegin \/ FinishFinally
    \/ Throw \/ ThrowLast
Dispatch == Swallow \/ Propagate \/ JumpToHandler \/ JumpAstray

Next == Loop \/ Code \/ Dispatch
(* The event loop goes on, and executeLoop with it. *)
Fairness == WF_vars(Next)
Spec == Init /\ [][Next]_vars /\ Fairness

-----------------------------------------------------------------------------
(* Properties. *)

Anyone == Instances \cup {NoInstance}
BlockRecord ==
    [kind: {"with", "skipped", "try", "caught", "catch", "landed", "finally"},
     self: Anyone, other: Anyone, operands: Nat, hasCatch: BOOLEAN, parked: BOOLEAN]
FrameRecord ==
    [kind: {"event", "collision", "script", "method"}, self: Anyone, other: Anyone,
     blocks: Seq(BlockRecord), operands: Nat,
     savedInstance: Anyone, savedOther: Anyone, savedStack: Seq(Nat)]
EnvRecord == [savedInstance: Anyone, savedOtherInstance: Anyone, instanceList: Seq(Instances)]
HandlerRecord == [boundToCallDepth: Nat, stackTop: Nat, frame: Nat, block: Nat]

(* Every variable has its type: callDepth counts the scripts that run, and *)
(* what is on the stack belongs to code that runs.                         *)
TypeOK ==
    /\ frames \in Seq(FrameRecord)
    /\ currentInstance \in Anyone /\ otherInstance \in Anyone
    /\ envStack \in Seq(EnvRecord) /\ handlers \in Seq(HandlerRecord)
    /\ callDepth = Cardinality({i \in DOMAIN frames : IsCall(frames[i])})
    /\ stack \in Seq(DOMAIN frames)
    /\ exception \in {NoException, Thrown} /\ parkedException \in {NoException, Thrown}
    /\ halted \in {"no", "aborted", "astray", "double free"}
    /\ abandoned \in Nat /\ muddled \in BOOLEAN

(* The handlers are those of the try blocks that code is in, outermost     *)
(* first, each with the call depth of its frame: whatever                  *)
(* returns, propagates or is swallowed, no handler outlives its block      *)
(* (executeLoop leaves handlers to @@try_unhook@@) and none is missed.     *)
Armed(b) == b.kind \in {"try", "caught", "landed"}
TriesOf(i) == {[frame |-> i, block |-> k] : k \in {k \in DOMAIN frames[i].blocks : Armed(frames[i].blocks[k])}}
DepthOf(i) == Cardinality({j \in 1 .. i : IsCall(frames[j])})
HandlersMatchTries ==
    /\ {[frame |-> handlers[n].frame, block |-> handlers[n].block] : n \in DOMAIN handlers}
        = UNION {TriesOf(i) : i \in DOMAIN frames}
    /\ \A n \in DOMAIN handlers : handlers[n].boundToCallDepth = DepthOf(handlers[n].frame)
    /\ \A m, n \in DOMAIN handlers : m < n =>
        \/ handlers[m].frame < handlers[n].frame
        \/ handlers[m].frame = handlers[n].frame /\ handlers[m].block < handlers[n].block

(* Unless an exception has left a with-block, self and other are those of  *)
(* the block that code is in, and every with-block that is open, in this   *)
(* frame or in one that called it, has one environment frame with the      *)
(* self and other to go back to.                                           *)
OpenIn(i) == {<<i, k>> : k \in {k \in DOMAIN frames[i].blocks : IsWith(frames[i].blocks[k])}}
Open == UNION {OpenIn(i) : i \in DOMAIN frames}
EnvOf(i, k) == Cardinality({p \in Open : p[1] < i \/ (p[1] = i /\ p[2] <= k)})
ContextFollowsCode ==
    abandoned = 0 =>
        /\ Len(envStack) = Cardinality(Open)
        /\ \A i \in DOMAIN frames : \A k \in DOMAIN frames[i].blocks :
              IsWith(frames[i].blocks[k]) =>
                /\ envStack[EnvOf(i, k)].savedInstance = SelfIn(frames[i], k - 1)
                /\ envStack[EnvOf(i, k)].savedOtherInstance = OtherIn(frames[i], k - 1)
        /\ registers = IF frames = <<>> THEN <<NoInstance, NoInstance>>
                       ELSE <<Self(cur), Other(cur)>>

(* The operands that a code has pushed are on the stack when it goes on,   *)
(* above those of the code that called it and nothing else: after a nested *)
(* event, which has the stack for itself, a script that returned with      *)
(* operands left, or an exception caught in the middle of an expression.   *)
Caught(f) == f.blocks # <<>> /\ Last(f.blocks).kind = "caught"
Held(f) == f.operands + (IF Caught(f) THEN 1 ELSE 0)
LeftBy(i) == IF i = Len(frames) THEN stack ELSE frames[i + 1].savedStack
Under(i) == IF i > 1 /\ IsCall(frames[i]) THEN LeftBy(i - 1) ELSE <<>>
OperandsKept ==
    /\ frames = <<>> => stack = <<>>
    /\ \A i \in DOMAIN frames : LeftBy(i) = Under(i) \o [n \in 1 .. Held(frames[i]) |-> i]

(* An exception is parked exactly while the finally block of its own try   *)
(* runs.  There is one place for it (vm_builtins.c:15072), so that this is *)
(* said only as long as finally blocks do not meet: no exception leaves    *)
(* one that runs for another or is parked over another, and none that is   *)
(* inside one ends while that one's exception is parked.                   *)
RunsForParked(b) == b.kind = "landed" \/ b.parked
ParkedForItsFinally ==
    ~muddled => (parkedException # NoException
                    <=> \E i \in DOMAIN frames : \E k \in DOMAIN frames[i].blocks :
                            RunsForParked(frames[i].blocks[k]))

(* A thrown exception is caught, parked or swallowed; none is pending for  *)
(* ever, not even one whose event is over.                                 *)
ExceptionsSettle == exception # NoException ~> (exception = NoException \/ halted # "no")
===============================================================================
