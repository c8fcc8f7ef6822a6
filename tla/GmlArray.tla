------------------------------ MODULE GmlArray ------------------------------
(* Arrays of game code: counted references, copy on write, and the operands   *)
(* of the value stack that look at arrays without owning them (gml_array.c,   *)
(* rvalue.h, vm.c). An action is one instruction. An event runs and may call  *)
(* one script at a time. Strings, structs and methods are left out: a value   *)
(* is an array or one of two numbers.                                         *)
EXTENDS Integers, Sequences, FiniteSets, FiniteSetsExt, SequencesExt

CONSTANTS
    Globals,      \* global and instance variables
    Local,        \* the address of the script's local variable
    Arg,          \* the argument of the script
    Tokens,       \* what BREAK_SETOWNER may name
    NoOwner,      \* the owner nullptr
    Zero, One,    \* two numbers; arrays are filled with Zero
    Shapes,       \* what globals and arrays may hold when the event starts
    MaxArrays,    \* bound: arrays, freed ones that are looked at too, when an instruction starts
    MaxLength,    \* bound: cells of an array
    Indices,      \* bound: the indices used, the first being 1
    MaxStack,     \* bound: operands when one starts
    MaxSteps      \* bound: instructions

\* An instruction allocates at most two arrays and clones before it frees.
Ids == 1 .. MaxArrays + 2
Numbers == {Zero, One}
Variables == Globals \union {Local, Arg}
Writable == Globals \union {Local}

\* How many variables and cells hold an array, in a shape.
HoldersIn(shape, id) ==
    Cardinality({g \in Globals : shape.globals[g] = id})
    + Cardinality({cell \in (DOMAIN shape.data) \X (1 .. MaxLength) :
                       /\ cell[2] <= Len(shape.data[cell[1]])
                       /\ shape.data[cell[1]][cell[2]] = id})

ASSUME BoundsAssumption ==
    /\ {MaxArrays, MaxLength, MaxStack, MaxSteps} \subseteq Nat \ {0}
    /\ Indices \subseteq 1 .. MaxLength
    /\ IsFiniteSet(Globals) /\ Local \notin Globals /\ Arg \notin Globals /\ Local # Arg
    /\ Numbers \intersect Ids = {}

\* Nothing but what globals hold, directly or not, is left when an event starts.
ASSUME ShapesAssumption ==
    \A shape \in Shapes :
        /\ shape.data \in Seq(Seq(Numbers \union Ids)) /\ Len(shape.data) <= MaxArrays
        /\ shape.globals \in [Globals -> Numbers \union DOMAIN shape.data]
        /\ \A id \in DOMAIN shape.data :
              /\ Len(shape.data[id]) <= MaxLength
              /\ \A k \in DOMAIN shape.data[id] : shape.data[id][k] \in Ids =>
                     shape.data[id][k] \in DOMAIN shape.data
              /\ HoldersIn(shape, id) > 0

VARIABLES
    modern,              \* the data file's wadVersion >= 17
    heap,                \* the GMLArrays
    slots,               \* what each variable holds; it owns the array it holds
    stack,               \* the operands, those of the caller first
    frame,               \* the call under way
    currentArrayOwner,
    status,              \* "run", "aborted" by a require, "dangling": a freed array was used
    steps

vars == <<modern, heap, slots, stack, frame, currentArrayOwner, status, steps>>

Owners == {NoOwner} \union IF modern THEN Tokens ELSE Writable

Freed == [refCount |-> 0, owner |-> NoOwner, data |-> <<>>]
NoFrame == [open |-> FALSE, base |-> 0, args |-> <<>>]

\* Values on the stack own a reference or are views; "read" and "write" are the
\* array references of a chain a[i][j], with the token they were made under.
Operand(v, kind) == [v |-> v, kind |-> kind, at |-> currentArrayOwner]
Operands == [v : Numbers \union Ids, kind : {"own", "view", "read", "write"},
             at : Tokens \union {NoOwner}]

\* Counts are not negative, owners are tokens or variables according to the version,
\* and operands are of the four kinds (the types of gml_array.h and rvalue.h).
TypeOK ==
    /\ modern \in BOOLEAN
    /\ \A id \in Ids : /\ heap[id].refCount \in Nat
                       /\ heap[id].owner \in Owners
                       /\ ToSet(heap[id].data) \subseteq Numbers \union Ids
    /\ slots \in [Variables -> Numbers \union Ids]
    /\ ToSet(stack) \subseteq Operands /\ ToSet(frame.args) \subseteq Operands
    /\ frame.base \in 0 .. MaxStack + 1
    /\ currentArrayOwner \in Tokens \union {NoOwner}
    /\ status \in {"run", "aborted", "dangling"}
    /\ steps \in 0 .. MaxSteps

\* An event starts with the globals that earlier events left.
Init ==
    /\ modern \in BOOLEAN
    /\ \E shape \in Shapes :
        /\ \E owner \in {NoOwner} \union IF modern THEN Tokens ELSE Writable :
               heap = [id \in Ids |->
                   IF id \in DOMAIN shape.data
                   THEN [refCount |-> HoldersIn(shape, id), owner |-> owner,
                         data |-> shape.data[id]]
                   ELSE Freed]
        /\ slots = [s \in Variables |-> IF s \in Globals THEN shape.globals[s] ELSE Zero]
    /\ stack = <<>>
    /\ frame = NoFrame
    /\ currentArrayOwner \in {NoOwner} \union IF modern THEN Tokens ELSE {}
    /\ status = "run"
    /\ steps = 0

-----------------------------------------------------------------------------
(* References.                                                                *)

Live(v) == v \in Ids => heap[v].refCount > 0

\* GMLArray_incRef, as RValue_makeIndependent calls it.
Retain(h, v) == IF v \in Ids THEN [h EXCEPT ![v].refCount = @ + 1] ELSE h

\* How many cells of the arrays A hold a value.
CellsWith(h, A, v) ==
    Cardinality({c \in A \X (1 .. MaxLength) : /\ c[2] <= Len(h[c[1]].data)
                                              /\ h[c[1]].data[c[2]] = v})

\* GMLArray_decRef frees the cells of an array with its last reference, and so on: freed is
\* what only freed arrays still held.
FreedWith(h, v) ==
    LET closed == {F \in {G \union {v} : G \in SUBSET (Ids \ {v})} :
                     \A x \in Ids \ F : CellsWith(h, F, x) \in {0} \union 1 .. h[x].refCount - 1}
    IN {x \in Ids : \A F \in closed : x \in F}

\* RValue_free of an owning value.
Release(h, v) ==
    IF v \notin Ids THEN h
    ELSE IF h[v].refCount > 1 THEN [h EXCEPT ![v].refCount = @ - 1]
    ELSE LET F == FreedWith(h, v) IN
         [x \in Ids |-> IF x \in F THEN Freed
                        ELSE [h[x] EXCEPT !.refCount = @ - CellsWith(h, F, x)]]

\* RValue_free: a view frees nothing.
Drop(h, op) == IF op.kind = "own" THEN Release(h, op.v) ELSE h

DropAll(h, ops) ==
    LET after[k \in 0 .. Len(ops)] == IF k = 0 THEN h ELSE Drop(after[k - 1], ops[k])
    IN after[Len(ops)]

\* RValue_stealOwnershipOrCopy.
Steal(h, op) == IF op.kind = "own" THEN h ELSE Retain(h, op.v)

\* An array is named by its allocation: a freed one is not named again while an
\* operand still looks at it.
Named(h) ==
    {id \in Ids : \/ h[id].refCount > 0
                  \/ \E op \in ToSet(stack) \union ToSet(frame.args) : op.v = id}

NextId(h) == CHOOSE id \in Ids : id \notin Named(h)

\* GMLArray_growTo.
Grown(data, n) ==
    IF Len(data) >= n THEN data
    ELSE [k \in 1 .. n |-> IF k <= Len(data) THEN data[k] ELSE Zero]
Grow(h, a, n) == [h EXCEPT ![a].data = Grown(@, n)]

\* An array with an owner and cells it owns, and the reference to it.
Create(h, owner, data) ==
    LET id == NextId(h) IN
    [h |-> [h EXCEPT ![id] = [refCount |-> 1, owner |-> owner, data |-> data]], ref |-> id]

\* Seeded fault: the clone takes the cells without counting them.
ForkWithoutCells(h, a, owner) ==
    LET c == Create(h, owner, h[a].data) IN [c EXCEPT !.h = Release(@, a)]

\* The clone holds what its cells hold.
RetainCells(h, a) ==
    [x \in Ids |-> [h[x] EXCEPT !.refCount = @ + CellsWith(h, {a}, x)]]

\* GMLArray_clone followed by GMLArray_decRef of the original: the cells are shared.
Fork(h, a, owner) ==
    LET c == Create(RetainCells(h, a), owner, h[a].data)
    IN [c EXCEPT !.h = Release(@, a)]

\* Seeded fault: an array that anybody owns is written in place.
CowForkUnowned(h, a) ==
    IF h[a].owner # NoOwner THEN [h |-> h, ref |-> a] ELSE Fork(h, a, currentArrayOwner)

\* cowForkSlotForModificationIfNeeded.
CowFork(h, a) ==
    IF h[a].owner = currentArrayOwner THEN [h |-> h, ref |-> a]
    ELSE Fork(h, a, currentArrayOwner)

\* Seeded fault: a step that writes does not fork.
ResolveInPlace(h, v, owner, forWrite) ==
    IF v \notin Ids THEN Create(h, owner, <<>>) ELSE [h |-> h, ref |-> v]

\* What a step of a chain finds in a slot: an array, made if there was none.
Resolve(h, v, owner, forWrite) ==
    IF v \notin Ids THEN Create(h, owner, <<>>)
    ELSE IF forWrite THEN CowFork(h, v)
    ELSE [h |-> h, ref |-> v]

\* RValue_free of the cell that is about to be overwritten, the array being long enough.
Vacate(h, a, i) ==
    LET data == Grown(h[a].data, i)
    IN Release([h EXCEPT ![a].data = [data EXCEPT ![i] = Zero]], data[i])

\* A reference the caller owns goes into a cell of an array that somebody owns.
PutCell(h, a, i, v) == [Vacate(h, a, i) EXCEPT ![a].data[i] = v]

-----------------------------------------------------------------------------
(* Values. The operands of an instruction are where the compiler puts them: a *)
(* value, and over it the array reference of a chain that writes it, or the   *)
(* array it is an argument next to; over the reference, the call of an index. *)

Base == IF frame.open THEN frame.base ELSE 0
Depth == Len(stack) - Base
Top(n) == stack[Len(stack) - n]
Below(n) == SubSeq(stack, 1, Len(stack) - n)
IsValue(op) == op.kind \in {"own", "view"}
IsRef(op) == op.kind \in {"read", "write"}
OneValue == Depth = 1 /\ IsValue(Top(0))

Bounded ==
    /\ steps < MaxSteps
    /\ Len(stack) <= MaxStack
    /\ Cardinality(Named(heap)) <= MaxArrays

\* Every instruction: within the bounds, and what it pops still exists.
Running(pops) ==
    /\ status = "run"
    /\ Bounded /\ steps' = steps + 1
    /\ Depth >= pops
    /\ \A n \in 0 .. pops - 1 : Live(Top(n).v)
    /\ UNCHANGED modern

InScope(s) == s \in Globals \/ frame.open

Push(op) ==
    /\ stack' = Append(stack, op)
    /\ UNCHANGED <<heap, slots, frame, currentArrayOwner, status>>

\* Push of a number, of a variable, of an element of an array: views. Where the
\* latter hold a number they are as the first.
PushNumber == Running(0) /\ Depth = 0 /\ Push(Operand(One, "view"))

PushVariable(s) ==
    /\ Running(0) /\ InScope(s)
    /\ slots[s] \in Ids
    /\ Depth > 0 => OneValue
    /\ Push(Operand(slots[s], "view"))

Element(v, i) ==
    IF v \in Ids /\ i <= Len(heap[v].data) THEN heap[v].data[i] ELSE Zero

PushElement(s, i) ==
    /\ Running(0) /\ InScope(s) /\ Depth = 0
    /\ Element(slots[s], i) \in Ids
    /\ Push(Operand(Element(slots[s], i), "view"))

\* Popz of the result of a call.
Popz ==
    /\ Running(1) /\ Top(0).kind = "own"
    /\ stack' = Below(1)
    /\ heap' = Drop(heap, Top(0))
    /\ UNCHANGED <<slots, frame, currentArrayOwner, status>>

\* @@NewGMLArray@@ of one value, which nobody owns yet.
NewGMLArray ==
    /\ Running(1) /\ OneValue
    /\ LET c == Create(Retain(heap, Top(0).v), NoOwner, <<Top(0).v>>)
       IN /\ heap' = Drop(c.h, Top(0))
          /\ stack' = Append(Below(1), Operand(c.ref, "own"))
    /\ UNCHANGED <<slots, frame, currentArrayOwner, status>>

\* Pop into a variable: the new value is owned before the old one is freed.
PopVariable(s) ==
    /\ Running(1) /\ InScope(s) /\ OneValue
    /\ heap' = Release(Steal(heap, Top(0)), slots[s])
    /\ slots' = [slots EXCEPT ![s] = Top(0).v]
    /\ stack' = Below(1)
    /\ UNCHANGED <<frame, currentArrayOwner, status>>

-----------------------------------------------------------------------------
(* Writing into arrays.                                                       *)

\* Seeded fault: the variable is the owner in any version.
IntendedOwnerSlot(s) == s

IntendedOwner(s) == IF modern THEN currentArrayOwner ELSE s

\* The array VM_arraySetWithCoW writes to, once the value is held.
ArrayToWrite(h, s) ==
    LET a == slots[s] IN
    IF a \notin Ids THEN Create(h, IntendedOwner(s), <<>>)
    ELSE IF modern THEN CowFork(h, a)
    ELSE IF h[a].refCount > 1 /\ h[a].owner # s THEN Fork(h, a, s)
    ELSE IF h[a].owner = NoOwner THEN [h |-> [h EXCEPT ![a].owner = s], ref |-> a]
    ELSE [h |-> h, ref |-> a]

\* Pop of VARTYPE_ARRAY: s[i] = value.
PopElement(s, i) ==
    /\ Running(1) /\ InScope(s) /\ OneValue
    /\ stack' = Below(1)
    /\ LET w == ArrayToWrite(Retain(heap, Top(0).v), s)
       IN /\ heap' = Drop(PutCell(w.h, w.ref, i, Top(0).v), Top(0))
          /\ slots' = [slots EXCEPT ![s] = w.ref]
    /\ UNCHANGED <<frame, currentArrayOwner, status>>

RefStarts(kind) == IF kind = "write" THEN OneValue ELSE Depth = 0

\* Push of VARTYPE_ARRAYPUSHAF or ARRAYPOPAF: the array in s[i], made if need be.
PushArrayRef(s, i, kind) ==
    /\ modern /\ Running(0) /\ RefStarts(kind)
    /\ LET top == Resolve(heap, slots[s], currentArrayOwner, kind = "write")
           h == Grow(top.h, top.ref, i)
           sub == Resolve(h, h[top.ref].data[i], h[top.ref].owner, kind = "write")
       IN /\ heap' = [sub.h EXCEPT ![top.ref].data[i] = sub.ref]
          /\ slots' = [slots EXCEPT ![s] = top.ref]
          /\ stack' = Append(stack, Operand(sub.ref, kind))
    /\ UNCHANGED <<frame, currentArrayOwner, status>>

\* PushLoc of either: pushTopLevelArrayRef.
PushTopLevelArrayRef(kind) ==
    /\ modern /\ Running(0) /\ InScope(Local) /\ RefStarts(kind)
    /\ LET top == Resolve(heap, slots[Local], currentArrayOwner, kind = "write")
       IN /\ heap' = top.h
          /\ slots' = [slots EXCEPT ![Local] = top.ref]
          /\ stack' = Append(stack, Operand(top.ref, kind))
    /\ UNCHANGED <<frame, currentArrayOwner, status>>

\* BREAK_PUSHAC: one index further down a chain; always as if for writing.
BreakPushAC(i) ==
    /\ Running(1) /\ IsRef(Top(0))
    /\ LET h == Grow(heap, Top(0).v, i)
           sub == Resolve(h, h[Top(0).v].data[i], currentArrayOwner, TRUE)
       IN /\ heap' = [sub.h EXCEPT ![Top(0).v].data[i] = sub.ref]
          /\ stack' = Append(Below(1), Operand(sub.ref, Top(0).kind))
    /\ UNCHANGED <<slots, frame, currentArrayOwner, status>>

\* BREAK_PUSHAF: the end of a chain that reads.
BreakPushAF(i) ==
    /\ Running(1) /\ IsRef(Top(0))
    /\ stack' = Append(Below(1), Operand(Element(Top(0).v, i), "view"))
    /\ UNCHANGED <<heap, slots, frame, currentArrayOwner, status>>

MayWrite(a) == heap[a].refCount = 1 \/ heap[a].owner = currentArrayOwner

\* BREAK_POPAF: the end of a chain that writes. It cannot fork, and checks that
\* it need not.
BreakPopAF(i) ==
    /\ Running(2) /\ Top(0).kind = "write" /\ IsValue(Top(1))
    /\ MayWrite(Top(0).v)
    /\ LET a == Top(0).v
           h == Vacate(Retain(heap, Top(1).v), a, i)
       IN IF h[a].refCount > 0
          THEN /\ heap' = Drop([h EXCEPT ![a].data[i] = Top(1).v], Top(1))
               /\ stack' = Below(2)
               /\ UNCHANGED status
          ELSE status' = "dangling" /\ UNCHANGED <<heap, stack>>
    /\ UNCHANGED <<slots, frame, currentArrayOwner>>

BreakPopAFAborts ==
    /\ Running(2) /\ Top(0).kind = "write" /\ IsValue(Top(1))
    /\ ~MayWrite(Top(0).v)
    /\ status' = "aborted"
    /\ UNCHANGED <<heap, slots, stack, frame, currentArrayOwner>>

\* BREAK_SETOWNER, at the start of a statement.
BreakSetOwner(token) ==
    /\ modern /\ Running(0) /\ Depth = 0
    /\ currentArrayOwner' = token
    /\ UNCHANGED <<heap, slots, stack, frame, status>>

\* array_set(array, i, value): in place, whoever shares the array. It frees the
\* old value before it holds the new one.
ArraySet(i) ==
    /\ Running(2) /\ Depth = 2 /\ IsValue(Top(0)) /\ IsValue(Top(1)) /\ Top(0).v \in Ids
    /\ LET a == Top(0).v
           value == Top(1).v
           h == Vacate(heap, a, i)
       IN IF h[a].refCount > 0 /\ (value \in Ids => h[value].refCount > 0)
          THEN /\ heap' = DropAll([Retain(h, value) EXCEPT ![a].data[i] = value],
                                  <<Top(0), Top(1)>>)
               /\ stack' = Append(Below(2), Operand(Zero, "own"))
               /\ UNCHANGED status
          ELSE status' = "dangling" /\ UNCHANGED <<heap, stack>>
    /\ UNCHANGED <<slots, frame, currentArrayOwner>>

-----------------------------------------------------------------------------
(* Calls.                                                                     *)

\* VM_callCodeIndex: the script gets references of its own to its arguments, and
\* new locals, at an address an earlier script may have had.
Call(n) ==
    /\ Running(n) /\ ~frame.open
    /\ IF n = 1 THEN OneValue ELSE Depth > 0 => Top(0).kind = "write"
    /\ LET args == SubSeq(stack, Len(stack) - n + 1, Len(stack)) IN
       /\ frame' = [open |-> TRUE, base |-> Len(stack) - n, args |-> args]
       /\ stack' = Below(n)
       /\ heap' = IF n = 1 THEN Retain(heap, Top(0).v) ELSE heap
       /\ slots' = [slots EXCEPT ![Arg] = IF n = 1 THEN Top(0).v ELSE Zero]
    /\ UNCHANGED <<currentArrayOwner, status>>

\* The result is held before locals and arguments are freed; then the caller frees
\* the arguments it passed. The owner token stays the callee's.
Leave(result, operands) ==
    /\ LET left == Release(Release(Steal(heap, result), slots[Local]), slots[Arg])
       IN heap' = DropAll(DropAll(left, operands), frame.args)
    /\ slots' = [slots EXCEPT ![Local] = Zero, ![Arg] = Zero]
    /\ stack' = Append(SubSeq(stack, 1, frame.base), [result EXCEPT !.kind = "own"])
    /\ frame' = NoFrame
    /\ UNCHANGED <<currentArrayOwner, status>>

\* Ret, which may leave operands behind.
Return ==
    /\ Running(1) /\ frame.open /\ IsValue(Top(0))
    /\ Leave(Top(0), SubSeq(stack, frame.base + 1, Len(stack) - 1))

\* Exit.
Exit ==
    /\ Running(0) /\ frame.open /\ Depth = 0
    /\ Leave(Operand(Zero, "view"), <<>>)

\* An instruction follows a view of an array that was freed: undefined behaviour.
FollowDangling ==
    /\ status = "run" /\ Bounded
    /\ \E n \in 0 .. Min({Depth, 2}) - 1 : ~Live(Top(n).v)
    /\ status' = "dangling"
    /\ UNCHANGED <<modern, heap, slots, stack, frame, currentArrayOwner, steps>>

-----------------------------------------------------------------------------
Next ==
    \/ PushNumber \/ Popz \/ NewGMLArray
    \/ \E s \in Variables : PushVariable(s) \/ PopVariable(s)
    \/ \E s \in Writable, i \in Indices : PushElement(s, i) \/ PopElement(s, i)
    \/ \E s \in Globals, i \in Indices, kind \in {"read", "write"} : PushArrayRef(s, i, kind)
    \/ \E kind \in {"read", "write"} : PushTopLevelArrayRef(kind)
    \/ \E i \in Indices : BreakPushAC(i) \/ BreakPushAF(i) \/ BreakPopAF(i) \/ ArraySet(i)
    \/ BreakPopAFAborts
    \/ \E token \in Tokens : BreakSetOwner(token)
    \/ \E n \in 0 .. 1 : Call(n)
    \/ Return \/ Exit
    \/ FollowDangling

Spec == Init /\ [][Next]_vars

-----------------------------------------------------------------------------
(* Properties.                                                                *)

\* How many of the operands own an array.
Owning(ops, id) == Cardinality({k \in DOMAIN ops : ops[k].kind = "own" /\ ops[k].v = id})

OwnersOf(id) ==
    Cardinality({s \in Variables : slots[s] = id}) + CellsWith(heap, Ids, id)
    + Owning(stack, id) + Owning(frame.args, id)

\* As long as no freed array was used, the count of every array is the number of
\* variables, arguments, cells and owning operands that hold it: what is held is
\* never freed, and what nobody holds is (GMLArray_incRef, decRef and all who call them).
CountsOwners ==
    status # "dangling" => \A id \in Ids : heap[id].refCount = OwnersOf(id)

\* The arrays seen through a value, in as many steps as there are arrays.
Reach(v) ==
    LET step(A) == A \union UNION {ToSet(heap[a].data) \cap Ids : a \in A}
        reach[n \in 0 .. MaxArrays] ==
            IF n = 0 THEN {v} \cap Ids ELSE step(reach[n - 1])
    IN reach[MaxArrays]

\* What a variable sees stays, unless the writer owns some of it.
SeenStays(s, writer) ==
    LET seen == Reach(slots[s])
    IN (\A a \in seen : heap[a].owner # writer)
           => /\ slots'[s] = slots[s]
              /\ \A a \in seen : heap'[a].data = heap[a].data

\* Copy on write: assigning to an element of one variable, or through a chain of
\* indices, changes nothing that another variable sees through arrays the writer
\* does not own (BC16: the variable; BC17: the token of the statement).
OthersKeepWhatTheySee ==
    [][heap' # heap =>
        /\ \A s \in Writable : \A t \in Variables \ {s} :
               SeenStays(t, IntendedOwner(s)) \/ \A i \in Indices : ~ PopElement(s, i)
        /\ \A s \in Globals : \A t \in Variables \ {s} :
               SeenStays(t, currentArrayOwner) \/ \A i \in Indices : ~ PushArrayRef(s, i, "write")
        /\ \A i \in Indices : BreakPopAF(i) =>
               \A t \in Variables : SeenStays(t, Top(0).at)]_vars

\* In a statement whose owner token nobody changes, BREAK_POPAF finds what it
\* asserts: the array was forked on the way, or is the statement's own.
ChainsAreForked ==
    status = "run" =>
        \A op \in ToSet(stack) :
            op.kind = "write" /\ op.at = currentArrayOwner /\ Live(op.v) => MayWrite(op.v)
=============================================================================
