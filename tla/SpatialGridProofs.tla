--------------------------- MODULE SpatialGridProofs ---------------------------
(* Theorems about SpatialGrid, for every set of rooms, boxes and instances.   *)
EXTENDS SpatialGrid, TLAPS

\* Code that runs while a room is left does not query the grid: a query would enter
\* instances of the old room in the new grid (README).
NoQueryOnLeaving == "query" \notin CleanUpOps

-------------------------------------------------------------------------------
(* The inductive invariant                                                  *)

\* The instances of the room; while it is left, those not yet looked at and those carried.
Home == IF phase = "play" THEN instances ELSE todo \cup carried

\* Ids are not given twice.
IdsFresh == FirstDynamic <= nextId /\ \A i \in heap : i < nextId

\* What instancesById knows is in one place, the room or one saved room, and is not the
\* instance whose CleanUp code runs.
OnePlace ==
    /\ known = Home \cup SavedInstances
    /\ Home \cap SavedInstances = {}
    /\ \A r, s \in Rooms : r # s => saved[r] \cap saved[s] = {}
    /\ phase # "play" => todo \cap carried = {}
    /\ phase = "play" => todo = {} /\ carried = {}
    /\ victim # NoOne <=> phase = "cleanUp"
    /\ victim \notin known

\* The grid of the next room stays empty until the instances have arrived.
EmptyWhileLeaving == phase # "play" => \A c \in Cells, i \in Ids : grid[c][i] = 0

\* Entries, and marks that will become entries, are of the room.
EntriesOfRoom == \A c \in Cells, i \in Ids : grid[c][i] > 0 => i \in Home \cup lost
MarksOfRoom == dirtyIds \cap known \subseteq Home \cup lost

\* An instance of the room is marked and awake, or entered where it is.
Placed(i) ==
    /\ inst[i].collisionCells = CellsOf(inst[i].box)
    /\ \A c \in CellsOf(inst[i].box) : grid[c][i] > 0
MarkedOrPlaced ==
    phase = "play" => \A i \in instances \ lost : ~ inst[i].destroyed =>
        IF inst[i].spatialGridDirty THEN inst[i].active /\ i \in dirtyIds ELSE Placed(i)

\* A flag that is set on the way to another room is in its list, ...
CarriedMarked ==
    \A i \in carried \ lost : Live(inst, i) /\ inst[i].spatialGridDirty => i \in dirtyIds
\* ... and none is set in a saved one.
SavedUnmarked == \A i \in SavedInstances \ lost : ~ inst[i].spatialGridDirty

IInv ==
    /\ TypeOK /\ IdsFresh /\ OnePlace /\ EmptyWhileLeaving
    /\ EntriesRemembered /\ EntriesOfRoom /\ MarksOfRoom
    /\ MarkedOrPlaced /\ CarriedMarked /\ SavedUnmarked

-------------------------------------------------------------------------------
(* Boxes and cells                                                          *)

\* Division by the size of a cell, and the conversion to an integer, keep the order.
LEMMA DivMonotonic ==
    ASSUME NEW x \in Nat, NEW y \in Nat, x <= y
    PROVE  x \div CellSize \in Nat /\ x \div CellSize <= y \div CellSize
  BY GridAssumption

\* The quotient of a coordinate, which cuts towards zero, keeps the order.
LEMMA QuotientMonotonic ==
    ASSUME NEW x \in Int, NEW y \in Int, x <= y
    PROVE  /\ Quotient(x) \in Int /\ Quotient(y) \in Int
           /\ Quotient(x) <= Quotient(y)
<1>1. CASE x >= 0
  BY <1>1, DivMonotonic DEF Quotient
<1>2. CASE x < 0 /\ y >= 0
  <2>1. -x \in Nat /\ (-x) \div CellSize \in Nat /\ y \div CellSize \in Nat
    BY <1>2, DivMonotonic
  <2> QED BY <1>2, <2>1 DEF Quotient
<1>3. CASE y < 0
  <2>1. /\ -x \in Nat /\ -y \in Nat /\ -y <= -x
    BY <1>3
  <2>2. (-y) \div CellSize <= (-x) \div CellSize /\ (-y) \div CellSize \in Nat /\ (-x) \div CellSize \in Nat
    BY <2>1, DivMonotonic
  <2> QED BY <1>3, <2>2 DEF Quotient
<1> QED BY <1>1, <1>2, <1>3

\* The conversion to int16_t yields a number, and the quotient itself where that fits.
LEMMA TruncateFacts ==
    ASSUME NEW x \in Int
    PROVE  /\ Truncate(x) \in Int
           /\ - HalfRange <= Quotient(x) /\ Quotient(x) < HalfRange => Truncate(x) = Quotient(x)
<1> DEFINE q == Quotient(x)
           n == 2 * HalfRange
           m == q + HalfRange
<1>1. q \in Int /\ HalfRange \in Nat \ {0} /\ n \in Nat \ {0} /\ m \in Int
  BY QuotientMonotonic, GridAssumption
<1>2. Truncate(x) = (m % n) - HalfRange
  BY DEF Truncate
<1>3. m >= 0 /\ m < n <=> - HalfRange <= q /\ q < HalfRange
  <2> HIDE DEF q
  <2> QED BY <1>1
<1>4. m - HalfRange = q
  <2> HIDE DEF q
  <2> QED BY <1>1
<1> HIDE DEF q, n, m
<1>5. m % n \in Int /\ (m >= 0 /\ m < n => m % n = m)
  BY <1>1
<1> QED BY <1>1, <1>2, <1>3, <1>4, <1>5 DEF q

\* Boxes that overlap share a cell, in the room or around it.
LEMMA OverlapSharesCell ==
    ASSUME NEW a \in Boxes, NEW b \in AskedBoxes, Near(a), Near(b), Overlap(a, b)
    PROVE  CellRange(a) \cap CellRange(b) # {}
<1> DEFINE lo(x) == Clamp(Truncate(x[1]))
           hi(x) == Clamp(Truncate(x[2]))
<1>1. a[1] \in Int /\ a[2] \in Int /\ b[1] \in Int /\ b[2] \in Int /\ a[1] <= a[2] /\ b[1] <= b[2]
  BY GridAssumption
<1>2. /\ Quotient(a[1]) <= Quotient(a[2]) /\ Quotient(b[1]) <= Quotient(b[2])
      /\ Quotient(a[1]) <= Quotient(b[2]) /\ Quotient(b[1]) <= Quotient(a[2])
  BY <1>1, QuotientMonotonic DEF Overlap
<1>3. /\ Truncate(a[1]) = Quotient(a[1]) /\ Truncate(a[2]) = Quotient(a[2])
      /\ Truncate(b[1]) = Quotient(b[1]) /\ Truncate(b[2]) = Quotient(b[2])
      /\ Truncate(a[1]) \in Int /\ Truncate(a[2]) \in Int
      /\ Truncate(b[1]) \in Int /\ Truncate(b[2]) \in Int
  BY <1>1, TruncateFacts DEF Near
<1>4. /\ lo(a) \in Int /\ hi(a) \in Int /\ lo(b) \in Int /\ hi(b) \in Int
      /\ lo(a) <= hi(a) /\ lo(b) <= hi(b) /\ lo(a) <= hi(b) /\ lo(b) <= hi(a)
  BY <1>2, <1>3, GridAssumption DEF Clamp
<1>5. PICK c \in Int : lo(a) <= c /\ c <= hi(a) /\ lo(b) <= c /\ c <= hi(b)
  <2>1. CASE lo(a) <= lo(b)
    BY <2>1, <1>4
  <2>2. CASE lo(b) <= lo(a)
    BY <2>2, <1>4
  <2> QED BY <2>1, <2>2, <1>4
<1>6. c \in CellRange(a) /\ c \in CellRange(b)
  BY <1>4, <1>5 DEF CellRange
<1> QED BY <1>6

\* The cells of a box, near or far, are cells of the grid.
LEMMA CellRangeType ==
    ASSUME NEW b \in Boxes \cup AskedBoxes
    PROVE  CellRange(b) \subseteq Cells
<1>1. b[1] \in Int /\ b[2] \in Int
  BY GridAssumption
<1>2. Truncate(b[1]) \in Int /\ Truncate(b[2]) \in Int
  BY <1>1, TruncateFacts
<1>3. /\ Clamp(Truncate(b[1])) \in Int /\ Clamp(Truncate(b[1])) >= 0
      /\ Clamp(Truncate(b[2])) \in Int /\ Clamp(Truncate(b[2])) <= GridWidth - 1
  BY <1>2, GridAssumption DEF Clamp
<1> QED BY <1>3, GridAssumption DEF CellRange, Cells

\* An instance is entered in cells of the grid.
LEMMA CellsOfType ==
    ASSUME NEW b \in Boxes \cup {NoBox}
    PROVE  CellsOf(b) \subseteq Cells
  BY CellRangeType DEF CellsOf

-------------------------------------------------------------------------------
(* Marking and repairing, field by field                                    *)

\* Ids are numbers; no instance is none of them.
LEMMA IdsAreNumbers == Ids \subseteq Nat /\ NoOne \notin Ids
<1>1. StaticIds \subseteq Nat
  BY GridAssumption
<1>2. FirstDynamic .. MaxId \subseteq Nat
  BY GridAssumption
<1> QED BY <1>1, <1>2, GridAssumption DEF Ids

\* Instances as they are made.
LEMMA NewInstanceType ==
    /\ \A b \in Boxes \cup {NoBox} : NewInstance(b) \in Instance
    /\ Blank \in Instance
  BY GridAssumption DEF NewInstance, Blank, Instance

\* An instance is in a saved room or in none.
LEMMA SavedMember == \A i : i \in SavedInstances <=> \E r \in Rooms : i \in saved[r]
  BY DEF SavedInstances

\* Taking entries out makes none, and takes the only one where there is one.
LEMMA RemovedFacts ==
    ASSUME NEW g \in [Cells -> [Ids -> Nat]], NEW S
    PROVE  /\ Removed(g, S) \in [Cells -> [Ids -> Nat]]
           /\ \A c \in Cells, i \in Ids :
                /\ Removed(g, S)[c][i] <= g[c][i]
                /\ i \notin S => Removed(g, S)[c][i] = g[c][i]
                /\ i \in S /\ c \in inst[i].collisionCells /\ g[c][i] <= 1
                     => Removed(g, S)[c][i] = 0
  BY DEF Removed

\* What marking does to fields, list and grid, pointwise.
MarkedFields(f, S, ids) ==
    /\ inst' \in [Ids -> Instance]
    /\ \A i \in Ids :
         /\ inst'[i].active = f[i].active /\ inst'[i].destroyed = f[i].destroyed
         /\ inst'[i].persistent = f[i].persistent /\ inst'[i].box = f[i].box
         /\ inst'[i].collisionCells = f[i].collisionCells
         /\ inst'[i].spatialGridDirty = (f[i].spatialGridDirty \/ (i \in S /\ Live(f, i)))
         /\ ~ (i \in S /\ Live(f, i)) => inst'[i] = f[i]
    /\ dirtyIds' \in SUBSET Ids
    /\ \A i \in Ids : i \in dirtyIds' <=>
         i \in ids \/ (i \in S /\ Live(f, i) /\ ~ f[i].spatialGridDirty)
MarkedGrid(f, S, g) ==
    /\ grid' \in [Cells -> [Ids -> Nat]]
    /\ \A c \in Cells, i \in Ids :
         /\ grid'[c][i] <= g[c][i]
         /\ ~ (i \in S /\ ~ Live(f, i)) => grid'[c][i] = g[c][i]
         /\ i \in S /\ ~ Live(f, i) /\ c \in inst[i].collisionCells /\ g[c][i] <= 1
              => grid'[c][i] = 0

\* markInstanceAsDirty on the instances of `S': which fields and which cells it may change.
LEMMA MarkFacts ==
    ASSUME NEW f \in [Ids -> Instance], NEW S \in SUBSET Ids, NEW ids \in SUBSET Ids,
           NEW g \in [Cells -> [Ids -> Nat]], Mark(f, S, ids, g)
    PROVE  MarkedFields(f, S, ids) /\ MarkedGrid(f, S, g)
<1>1. ASSUME NEW i \in Ids
      PROVE  /\ inst'[i] \in Instance
             /\ inst'[i].active = f[i].active /\ inst'[i].destroyed = f[i].destroyed
             /\ inst'[i].persistent = f[i].persistent /\ inst'[i].box = f[i].box
             /\ inst'[i].collisionCells = f[i].collisionCells
             /\ inst'[i].spatialGridDirty = (f[i].spatialGridDirty \/ (i \in S /\ Live(f, i)))
             /\ ~ (i \in S /\ Live(f, i)) => inst'[i] = f[i]
  <2>1. f[i] \in Instance
    OBVIOUS
  <2>2. inst'[i] = IF i \in S /\ Live(f, i) THEN [f[i] EXCEPT !.spatialGridDirty = TRUE] ELSE f[i]
    BY DEF Mark
  <2>3. CASE i \in S /\ Live(f, i)
    BY <2>1, <2>2, <2>3 DEF Instance
  <2>4. CASE ~ (i \in S /\ Live(f, i))
    BY <2>1, <2>2, <2>4 DEF Instance
  <2> QED BY <2>3, <2>4
<1>2. inst' \in [Ids -> Instance]
  BY <1>1 DEF Mark
<1>3. /\ dirtyIds' \in SUBSET Ids
      /\ \A i \in Ids : i \in dirtyIds' <=>
           i \in ids \/ (i \in S /\ Live(f, i) /\ ~ f[i].spatialGridDirty)
  BY DEF Mark
<1>4. grid' = Removed(g, {i \in S : ~ Live(f, i)})
  BY DEF Mark
<1>5. /\ grid' \in [Cells -> [Ids -> Nat]]
      /\ \A c \in Cells, i \in Ids :
           /\ grid'[c][i] <= g[c][i]
           /\ ~ (i \in S /\ ~ Live(f, i)) => grid'[c][i] = g[c][i]
           /\ i \in S /\ ~ Live(f, i) /\ c \in inst[i].collisionCells /\ g[c][i] <= 1
                => grid'[c][i] = 0
  BY <1>4, RemovedFacts
<1> QED BY <1>1, <1>2, <1>3, <1>5 DEF MarkedFields, MarkedGrid

\* The ids a query repairs.
Due == {i \in dirtyIds : i \in known /\ Live(inst, i) /\ inst[i].spatialGridDirty}

\* What a repair does: who is due is in the cells of its box and in no others, the rest stay.
LEMMA SyncFacts ==
    ASSUME TypeOK, EntriesRemembered, Sync
    PROVE  /\ inst' \in [Ids -> Instance]
           /\ grid' \in [Cells -> [Ids -> Nat]]
           /\ dirtyIds' = {}
           /\ \A i \in Ids :
                /\ inst'[i].active = inst[i].active /\ inst'[i].destroyed = inst[i].destroyed
                /\ inst'[i].box = inst[i].box
           /\ \A i \in Due :
                /\ ~ inst'[i].spatialGridDirty
                /\ inst'[i].collisionCells = CellsOf(inst[i].box)
                /\ \A c \in Cells : grid'[c][i] = IF c \in CellsOf(inst[i].box) THEN 1 ELSE 0
           /\ \A i \in Ids \ Due : inst'[i] = inst[i] /\ \A c \in Cells : grid'[c][i] = grid[c][i]
<1> DEFINE left == Removed(grid, Due)
<1> USE DEF TypeOK
<1>1. /\ inst' = [i \in Ids |-> IF i \in Due
                              THEN [inst[i] EXCEPT !.spatialGridDirty = FALSE,
                                                   !.collisionCells = CellsOf(inst[i].box)]
                              ELSE inst[i]]
      /\ grid' = [c \in Cells |-> [i \in Ids |->
                  IF i \in Due /\ c \in CellsOf(inst[i].box) THEN left[c][i] + 1 ELSE left[c][i]]]
      /\ dirtyIds' = {}
  BY DEF Sync, Due
<1>2. /\ left \in [Cells -> [Ids -> Nat]]
      /\ \A c \in Cells, i \in Ids :
                /\ i \notin Due => left[c][i] = grid[c][i]
                /\ i \in Due /\ c \in inst[i].collisionCells /\ grid[c][i] <= 1
                     => left[c][i] = 0
                /\ left[c][i] <= grid[c][i]
  BY RemovedFacts
<1> HIDE DEF left
<1>3. ASSUME NEW i \in Ids
      PROVE  /\ inst'[i] \in Instance
             /\ inst'[i].active = inst[i].active /\ inst'[i].destroyed = inst[i].destroyed
             /\ inst'[i].box = inst[i].box
             /\ i \in Due => /\ ~ inst'[i].spatialGridDirty
                             /\ inst'[i].collisionCells = CellsOf(inst[i].box)
             /\ i \notin Due => inst'[i] = inst[i]
  <2>1. inst[i] \in Instance /\ CellsOf(inst[i].box) \subseteq Cells
    BY CellsOfType DEF Instance
  <2>2. CASE i \in Due
    BY <1>1, <2>1, <2>2 DEF Instance
  <2>3. CASE i \notin Due
    BY <1>1, <2>1, <2>3
  <2> QED BY <2>2, <2>3
<1>4. ASSUME NEW i \in Ids, NEW c \in Cells
      PROVE  /\ i \in Due => left[c][i] = 0
             /\ i \notin Due => grid'[c][i] = grid[c][i]
             /\ i \in Due => grid'[c][i] = IF c \in CellsOf(inst[i].box) THEN 1 ELSE 0
  <2>1. grid[c][i] <= 1 /\ (c \notin inst[i].collisionCells => grid[c][i] <= 0)
    BY DEF EntriesRemembered
  <2>2. left[c][i] \in Nat /\ grid[c][i] \in Nat /\ left[c][i] <= grid[c][i]
    BY <1>2
  <2>3. i \in Due => left[c][i] = 0
    BY <1>2, <2>1, <2>2
  <2>4. grid'[c][i] = IF i \in Due /\ c \in CellsOf(inst[i].box) THEN left[c][i] + 1 ELSE left[c][i]
    BY <1>1
  <2> QED BY <1>2, <2>3, <2>4
<1>5. inst' \in [Ids -> Instance]
  BY <1>1, <1>3
<1>6. grid' \in [Cells -> [Ids -> Nat]]
  <2>1. ASSUME NEW c \in Cells PROVE grid'[c] \in [Ids -> Nat]
    <3>1. ASSUME NEW i \in Ids
          PROVE  (IF i \in Due /\ c \in CellsOf(inst[i].box) THEN left[c][i] + 1 ELSE left[c][i]) \in Nat
      BY <1>2
    <3> QED BY <1>1, <3>1
  <2> QED BY <1>1, <2>1
<1>7. Due \subseteq Ids
  BY DEF Due
<1> QED BY <1>1, <1>3, <1>4, <1>5, <1>6, <1>7

-------------------------------------------------------------------------------
(* Each action preserves the invariant                                      *)

\* The grid is consistent when the game starts.
LEMMA InitInv == Init => IInv
<1> SUFFICES ASSUME Init PROVE IInv
  OBVIOUS
<1> USE GridAssumption DEF Init
<1>1. TypeOK
  BY NewInstanceType DEF TypeOK, EmptyGrid
<1>2. SavedInstances = {}
  BY DEF SavedInstances
<1>3. IdsFresh /\ OnePlace /\ EmptyWhileLeaving
  BY <1>2 DEF IdsFresh, OnePlace, EmptyWhileLeaving, Home, EmptyGrid
<1>4. EntriesRemembered /\ EntriesOfRoom /\ MarksOfRoom /\ MarkedOrPlaced /\ CarriedMarked /\ SavedUnmarked
  BY <1>2 DEF EntriesRemembered, EntriesOfRoom, MarksOfRoom, MarkedOrPlaced, CarriedMarked,
              SavedUnmarked, EmptyGrid
<1> QED BY <1>1, <1>3, <1>4 DEF IInv

\* A move marks the instance, unless it is marked or asleep already.
LEMMA MoveInv ==
    ASSUME IInv, NEW i \in Ids, NEW b \in Boxes \cup {NoBox}, Move(i, b)
    PROVE  IInv'
<1> DEFINE f == [inst EXCEPT ![i].box = b]
<1> USE DEF IInv
<1>1. /\ f \in [Ids -> Instance]
      /\ \A j \in Ids : /\ f[j].active = inst[j].active /\ f[j].destroyed = inst[j].destroyed
                        /\ f[j].collisionCells = inst[j].collisionCells
                        /\ f[j].spatialGridDirty = inst[j].spatialGridDirty
                        /\ j # i => f[j].box = inst[j].box
  BY DEF TypeOK, Instance
<1>2. Mark(f, {i}, dirtyIds, grid)
  BY DEF Move
<1> HIDE DEF f
<1>3. /\ inst' \in [Ids -> Instance]
      /\ \A j \in Ids :
           /\ inst'[j].active = inst[j].active /\ inst'[j].destroyed = inst[j].destroyed
           /\ inst'[j].collisionCells = inst[j].collisionCells
           /\ j # i => inst'[j].box = inst[j].box
           /\ inst'[j].spatialGridDirty = (inst[j].spatialGridDirty \/ (j = i /\ Live(inst, j)))
      /\ dirtyIds' \in SUBSET Ids
      /\ \A j \in Ids : j \in dirtyIds' <=>
           j \in dirtyIds \/ (j = i /\ Live(inst, j) /\ ~ inst[j].spatialGridDirty)
      /\ grid' \in [Cells -> [Ids -> Nat]]
      /\ \A c \in Cells, j \in Ids :
           /\ grid'[c][j] <= grid[c][j]
           /\ ~ (j = i /\ ~ Live(inst, j)) => grid'[c][j] = grid[c][j]
  <2>1. \A j \in Ids : Live(f, j) <=> Live(inst, j)
    BY <1>1 DEF Live
  <2>2. {i} \in SUBSET Ids /\ dirtyIds \in SUBSET Ids /\ grid \in [Cells -> [Ids -> Nat]]
    BY DEF TypeOK
  <2>3. PICK f0 \in [Ids -> Instance], d0 \in SUBSET Ids, g0 \in [Cells -> [Ids -> Nat]] :
           f0 = f /\ d0 = dirtyIds /\ g0 = grid
    BY <1>1, <2>2
  <2>4. Mark(f0, {i}, d0, g0)
    BY <1>2, <2>3 DEF Mark
  <2>5. MarkedFields(f0, {i}, d0) /\ MarkedGrid(f0, {i}, g0)
    BY <2>2, <2>4, MarkFacts
  <2> QED BY <1>1, <2>1, <2>3, <2>5 DEF MarkedFields, MarkedGrid, Live
<1>4. /\ UNCHANGED <<heap, known, instances, nextId, roomVars, takeVars>>
      /\ UNCHANGED <<Home, SavedInstances>>
      /\ lost' = lost \cup {j \in {i} : ~ Live(inst, j) \/ j \in SavedInstances}
      /\ i \in known \cup ({victim} \ {NoOne})
  BY DEF Move, roomVars, takeVars, Home, SavedInstances, Reachable
<1> HIDE DEF Home
<1>5. TypeOK'
  BY <1>3, <1>4 DEF TypeOK, roomVars, takeVars
<1>6. IdsFresh' /\ OnePlace'
  BY <1>4 DEF IdsFresh, OnePlace, roomVars, takeVars
<1>7. EmptyWhileLeaving'
  <2> SUFFICES ASSUME phase' # "play", NEW c \in Cells, NEW j \in Ids PROVE grid'[c][j] = 0
    BY DEF EmptyWhileLeaving
  <2>1. grid[c][j] = 0 /\ grid'[c][j] <= grid[c][j] /\ grid'[c][j] \in Nat
    BY <1>3, <1>4 DEF EmptyWhileLeaving, takeVars
  <2> QED BY <2>1
<1>8. EntriesRemembered'
  <2> SUFFICES ASSUME NEW c \in Cells, NEW j \in Ids
               PROVE  grid'[c][j] <= IF j \in heap /\ c \in inst[j].collisionCells THEN 1 ELSE 0
    BY <1>3, <1>4 DEF EntriesRemembered
  <2>1. grid'[c][j] <= grid[c][j] /\ grid'[c][j] \in Nat /\ grid[c][j] \in Nat
    BY <1>3 DEF TypeOK
  <2>2. grid[c][j] <= IF j \in heap /\ c \in inst[j].collisionCells THEN 1 ELSE 0
    BY DEF EntriesRemembered
  <2> QED BY <2>1, <2>2
<1>9. EntriesOfRoom'
  <2> SUFFICES ASSUME NEW c \in Cells, NEW j \in Ids, grid'[c][j] > 0 PROVE j \in Home \cup lost
    BY <1>4 DEF EntriesOfRoom
  <2>1. grid[c][j] > 0
    BY <1>3 DEF TypeOK
  <2> QED BY <2>1 DEF EntriesOfRoom
<1>10. MarksOfRoom'
  <2> SUFFICES ASSUME NEW j \in Ids, j \in dirtyIds', j \in known PROVE j \in Home \cup lost'
    BY <1>3, <1>4 DEF MarksOfRoom
  <2>1. CASE j \in dirtyIds
    BY <2>1, <1>4 DEF MarksOfRoom
  <2>2. CASE j = i
    BY <2>2, <1>4 DEF OnePlace
  <2> QED BY <2>1, <2>2, <1>3
<1>11. MarkedOrPlaced'
  <2> SUFFICES ASSUME phase = "play", NEW j \in instances, j \notin lost', ~ inst'[j].destroyed
               PROVE  IF inst'[j].spatialGridDirty THEN inst'[j].active /\ j \in dirtyIds'
                      ELSE Placed(j)'
    BY <1>4 DEF MarkedOrPlaced, takeVars
  <2>1. j \in Ids /\ j \notin lost /\ ~ inst[j].destroyed
    BY <1>3, <1>4 DEF TypeOK
  <2>2. CASE j = i
    <3>1. Live(inst, j)
      BY <2>2, <1>4
    <3>2. inst[j].spatialGridDirty => j \in dirtyIds
      BY <2>1 DEF MarkedOrPlaced
    <3> QED BY <3>1, <3>2, <2>1, <2>2, <1>3 DEF Live
  <2>3. CASE j # i
    BY <2>1, <2>3, <1>3 DEF MarkedOrPlaced, Placed, TypeOK, Instance
  <2> QED BY <2>2, <2>3
<1>12. CarriedMarked'
  BY <1>3, <1>4 DEF CarriedMarked, takeVars, TypeOK, Live
<1>13. SavedUnmarked'
  <2> SUFFICES ASSUME NEW j \in SavedInstances, j \notin lost' PROVE ~ inst'[j].spatialGridDirty
    BY <1>4 DEF SavedUnmarked
  <2>1. j \in Ids /\ j # i /\ j \notin lost
    BY <1>4, SavedMember DEF TypeOK
  <2> QED BY <2>1, <1>3 DEF SavedUnmarked
<1> QED BY <1>5, <1>6, <1>7, <1>8, <1>9, <1>10, <1>11, <1>12, <1>13

\* Steps that set flags of instances and touch neither boxes, cells nor marks: an instance
\* may fall asleep only if it is unmarked or given up, and none is brought back to life.
LEMMA FlagsInv ==
    ASSUME IInv,
           inst' \in [Ids -> Instance],
           \A j \in Ids : /\ inst'[j].box = inst[j].box
                          /\ inst'[j].collisionCells = inst[j].collisionCells
                          /\ inst'[j].spatialGridDirty = inst[j].spatialGridDirty
                          /\ inst[j].destroyed => inst'[j].destroyed
                          /\ \/ inst'[j].active = inst[j].active
                             \/ inst'[j].destroyed
                             \/ ~ inst[j].spatialGridDirty
                             \/ j \in lost',
           lost \subseteq lost', lost' \subseteq Ids,
           UNCHANGED <<heap, known, instances, nextId, roomVars, grid, dirtyIds, takeVars>>
    PROVE  IInv'
<1> USE DEF IInv, roomVars, takeVars
<1>1. UNCHANGED <<Home, SavedInstances>>
  BY DEF Home, SavedInstances
<1>2. TypeOK'
  BY DEF TypeOK
<1>3. IdsFresh' /\ OnePlace' /\ EmptyWhileLeaving' /\ EntriesOfRoom' /\ MarksOfRoom'
  BY <1>1 DEF IdsFresh, OnePlace, EmptyWhileLeaving, EntriesOfRoom, MarksOfRoom
<1>4. EntriesRemembered'
  BY DEF EntriesRemembered
<1>5. MarkedOrPlaced'
  <2> SUFFICES ASSUME phase = "play", NEW j \in instances, j \notin lost', ~ inst'[j].destroyed
               PROVE  IF inst'[j].spatialGridDirty THEN inst'[j].active /\ j \in dirtyIds
                      ELSE Placed(j)'
    BY DEF MarkedOrPlaced
  <2>1. j \in Ids /\ j \notin lost /\ ~ inst[j].destroyed
    BY DEF TypeOK
  <2>2. IF inst[j].spatialGridDirty THEN inst[j].active /\ j \in dirtyIds ELSE Placed(j)
    BY <2>1 DEF MarkedOrPlaced
  <2> QED BY <2>1, <2>2 DEF Placed
<1>6. CarriedMarked'
  BY DEF CarriedMarked, Live, TypeOK
<1>7. SavedUnmarked'
  <2>1. SavedInstances \subseteq Ids
    BY SavedMember DEF TypeOK
  <2> QED BY <1>1, <2>1 DEF SavedUnmarked
<1> QED BY <1>2, <1>3, <1>4, <1>5, <1>6, <1>7

\* The first half of Runner_destroyInstance.
LEMMA BeginDestroyInv ==
    ASSUME IInv, NEW i \in Ids, BeginDestroy(i)
    PROVE  IInv'
<1>1. /\ inst' \in [Ids -> Instance]
      /\ \A j \in Ids : /\ inst'[j].box = inst[j].box
                        /\ inst'[j].collisionCells = inst[j].collisionCells
                        /\ inst'[j].spatialGridDirty = inst[j].spatialGridDirty
                        /\ inst[j].destroyed => inst'[j].destroyed
                        /\ inst'[j].active = inst[j].active
  <2>1. inst' = [inst EXCEPT ![i].destroyed = TRUE] /\ inst \in [Ids -> Instance]
    BY DEF IInv, TypeOK, BeginDestroy
  <2> QED BY <2>1 DEF Instance
<1> QED BY <1>1, FlagsInv DEF BeginDestroy, IInv, TypeOK

\* Its second half, after the Destroy and CleanUp events.
LEMMA EndDestroyInv ==
    ASSUME IInv, NEW i \in Ids, EndDestroy(i)
    PROVE  IInv'
<1>1. /\ inst' \in [Ids -> Instance]
      /\ \A j \in Ids : /\ inst'[j].box = inst[j].box
                        /\ inst'[j].collisionCells = inst[j].collisionCells
                        /\ inst'[j].spatialGridDirty = inst[j].spatialGridDirty
                        /\ inst[j].destroyed => inst'[j].destroyed
                        /\ inst'[j].active = inst[j].active \/ inst'[j].destroyed
  BY DEF IInv, TypeOK, EndDestroy, Instance
<1> QED BY <1>1, FlagsInv DEF EndDestroy, IInv, TypeOK

\* Activation and deactivation.
LEMMA SetActiveInv ==
    ASSUME IInv, NEW i \in Ids, NEW b \in BOOLEAN, SetActive(i, b)
    PROVE  IInv'
<1>1. /\ inst' \in [Ids -> Instance]
      /\ \A j \in Ids : /\ inst'[j].box = inst[j].box
                        /\ inst'[j].collisionCells = inst[j].collisionCells
                        /\ inst'[j].spatialGridDirty = inst[j].spatialGridDirty
                        /\ inst'[j].destroyed = inst[j].destroyed
                        /\ j # i => inst'[j].active = inst[j].active
  BY DEF IInv, TypeOK, SetActive, Instance
<1>2. lost' = lost \cup {j \in {i} : inst[j].spatialGridDirty}
  BY DEF SetActive
<1>3. \A j \in Ids : \/ inst'[j].active = inst[j].active
                     \/ ~ inst[j].spatialGridDirty
                     \/ j \in lost'
  BY <1>1, <1>2
<1> QED BY <1>1, <1>2, <1>3, FlagsInv DEF SetActive, IInv, TypeOK

\* Persistence says where an instance goes later and nothing about the grid.
LEMMA SetPersistentInv ==
    ASSUME IInv, NEW i \in Ids, NEW b \in BOOLEAN, SetPersistent(i, b)
    PROVE  IInv'
<1>1. /\ inst' \in [Ids -> Instance]
      /\ \A j \in Ids : /\ inst'[j].box = inst[j].box
                        /\ inst'[j].collisionCells = inst[j].collisionCells
                        /\ inst'[j].spatialGridDirty = inst[j].spatialGridDirty
                        /\ inst'[j].destroyed = inst[j].destroyed
                        /\ inst'[j].active = inst[j].active
  BY DEF IInv, TypeOK, SetPersistent, Instance
<1> QED BY <1>1, FlagsInv DEF SetPersistent, IInv, TypeOK

\* A query repairs the marks: who is due is entered where its box is.
LEMMA QueryInv ==
    ASSUME NoQueryOnLeaving, IInv, Query
    PROVE  IInv'
<1> USE DEF IInv, roomVars, takeVars
<1>1. phase = "play"
  BY DEF Query, Calls, NoQueryOnLeaving, TypeOK
<1>2. UNCHANGED <<heap, known, instances, nextId, roomVars, takeVars, lost>>
  BY DEF Query
<1>3. UNCHANGED <<Home, SavedInstances>>
  BY <1>2 DEF Home, SavedInstances
<1>4. /\ inst' \in [Ids -> Instance]
      /\ grid' \in [Cells -> [Ids -> Nat]]
      /\ dirtyIds' = {}
      /\ \A i \in Ids :
           /\ inst'[i].active = inst[i].active /\ inst'[i].destroyed = inst[i].destroyed
           /\ inst'[i].box = inst[i].box
      /\ \A i \in Due :
           /\ ~ inst'[i].spatialGridDirty
           /\ inst'[i].collisionCells = CellsOf(inst[i].box)
           /\ \A c \in Cells : grid'[c][i] = IF c \in CellsOf(inst[i].box) THEN 1 ELSE 0
      /\ \A i \in Ids \ Due : inst'[i] = inst[i] /\ \A c \in Cells : grid'[c][i] = grid[c][i]
  BY SyncFacts DEF Query
<1>5. Due \subseteq Ids /\ Due \subseteq known /\ Due \subseteq dirtyIds
  BY DEF Due, TypeOK
<1>6. TypeOK'
  BY <1>2, <1>4 DEF TypeOK
<1>7. IdsFresh' /\ OnePlace' /\ EmptyWhileLeaving' /\ MarksOfRoom' /\ CarriedMarked'
  BY <1>1, <1>2, <1>3, <1>4
     DEF IdsFresh, OnePlace, EmptyWhileLeaving, MarksOfRoom, CarriedMarked
<1>8. EntriesRemembered'
  <2> SUFFICES ASSUME NEW c \in Cells, NEW i \in Ids
               PROVE  grid'[c][i] <= IF i \in heap /\ c \in inst'[i].collisionCells THEN 1 ELSE 0
    BY <1>2 DEF EntriesRemembered
  <2>1. CASE i \in Due
    BY <2>1, <1>4, <1>5 DEF TypeOK
  <2>2. CASE i \notin Due
    BY <2>2, <1>4 DEF EntriesRemembered
  <2> QED BY <2>1, <2>2
<1>9. EntriesOfRoom'
  <2> SUFFICES ASSUME NEW c \in Cells, NEW i \in Ids, grid'[c][i] > 0 PROVE i \in Home \cup lost
    BY <1>2, <1>3 DEF EntriesOfRoom
  <2>1. CASE i \in Due
    BY <2>1, <1>5 DEF MarksOfRoom
  <2>2. CASE i \notin Due
    BY <2>2, <1>4 DEF EntriesOfRoom
  <2> QED BY <2>1, <2>2
<1>10. MarkedOrPlaced'
  <2> SUFFICES ASSUME NEW i \in instances, i \notin lost, ~ inst'[i].destroyed
               PROVE  ~ inst'[i].spatialGridDirty /\ Placed(i)'
    BY <1>2 DEF MarkedOrPlaced
  <2>1. i \in Ids /\ i \in known /\ CellsOf(inst[i].box) \subseteq Cells
    BY <1>1, CellsOfType DEF TypeOK, OnePlace, Home, Instance
  <2>2. IF inst[i].spatialGridDirty THEN inst[i].active /\ i \in dirtyIds ELSE Placed(i)
    BY <1>1, <1>4, <2>1 DEF MarkedOrPlaced
  <2>3. CASE inst[i].spatialGridDirty
    <3>1. i \in Due
      BY <2>1, <2>2, <2>3, <1>4 DEF Due, Live
    <3> QED BY <3>1, <2>1, <1>4 DEF Placed
  <2>4. CASE ~ inst[i].spatialGridDirty
    <3>1. i \in Ids \ Due
      BY <2>1, <2>4 DEF Due
    <3> QED BY <3>1, <2>1, <2>2, <2>4, <1>4 DEF Placed
  <2> QED BY <2>3, <2>4
<1>11. SavedUnmarked'
  <2>1. SavedInstances \subseteq Ids
    BY SavedMember DEF TypeOK
  <2> QED BY <2>1, <1>2, <1>3, <1>4 DEF SavedUnmarked
<1> QED BY <1>6, <1>7, <1>8, <1>9, <1>10, <1>11

\* A new instance is awake and marked, under an id no entry of the grid has.
LEMMA CreateInv ==
    ASSUME IInv, NEW b \in Boxes, Create(b)
    PROVE  IInv'
<1> USE DEF IInv, roomVars, takeVars
<1> DEFINE n == nextId
<1>1. /\ phase = "play" /\ n \in Ids /\ n \in Nat /\ n \notin heap /\ n \notin known
      /\ n \notin SavedInstances
  <2>1. phase = "play"
    BY GridAssumption DEF Create, Calls, TypeOK
  <2>2. n \in Ids /\ n \in Nat
    BY GridAssumption DEF Create, Ids, IdsFresh, TypeOK
  <2>3. n \notin heap
    BY <2>2 DEF IdsFresh, TypeOK
  <2> QED BY <2>1, <2>2, <2>3 DEF TypeOK, OnePlace
<1>2. PICK f0 \in [Ids -> Instance], d0 \in SUBSET Ids, g0 \in [Cells -> [Ids -> Nat]] :
         f0 = [inst EXCEPT ![n] = NewInstance(b)] /\ d0 = dirtyIds /\ g0 = grid
  BY NewInstanceType DEF TypeOK
<1>3. Mark(f0, {n}, d0, g0)
  BY <1>2 DEF Mark, Create
<1>4. MarkedFields(f0, {n}, d0) /\ MarkedGrid(f0, {n}, g0)
  BY <1>1, <1>3, MarkFacts
<1>5. /\ f0[n].active /\ ~ f0[n].destroyed /\ ~ f0[n].spatialGridDirty
      /\ \A j \in Ids : j # n => f0[j] = inst[j]
  BY <1>1, <1>2 DEF NewInstance, TypeOK
<1>6. /\ inst' \in [Ids -> Instance]
      /\ inst'[n].active /\ ~ inst'[n].destroyed /\ inst'[n].spatialGridDirty
      /\ \A j \in Ids : j # n => inst'[j] = inst[j]
      /\ dirtyIds' = dirtyIds \cup {n}
  <2>1. \A j \in Ids : j \in dirtyIds' <=> j \in dirtyIds \cup {n}
    BY <1>1, <1>2, <1>4, <1>5 DEF MarkedFields, Live
  <2>2. dirtyIds' \in SUBSET Ids /\ dirtyIds \in SUBSET Ids
    BY <1>4 DEF MarkedFields, TypeOK
  <2>3. dirtyIds' = dirtyIds \cup {n}
    BY <2>1, <2>2, <1>1
  <2>4. inst' \in [Ids -> Instance] /\ \A j \in Ids : j # n => inst'[j] = inst[j]
    BY <1>4, <1>5 DEF MarkedFields
  <2>5. inst'[n].active /\ ~ inst'[n].destroyed /\ inst'[n].spatialGridDirty
    BY <1>1, <1>4, <1>5 DEF MarkedFields, Live
  <2> QED BY <2>3, <2>4, <2>5
<1>7. /\ grid' \in [Cells -> [Ids -> Nat]]
      /\ \A c \in Cells, j \in Ids : grid'[c][j] = grid[c][j]
  BY <1>2, <1>4, <1>5 DEF MarkedGrid, Live
<1>8. /\ heap' = heap \cup {n} /\ known' = known \cup {n}
      /\ instances' = instances \cup {n} /\ nextId' = n + 1
      /\ UNCHANGED <<roomVars, takeVars, lost>> /\ UNCHANGED SavedInstances
      /\ Home' = Home \cup {n}
  BY <1>1 DEF Create, SavedInstances, Home
<1>9. TypeOK'
  BY <1>1, <1>6, <1>7, <1>8 DEF TypeOK
<1>10. IdsFresh' /\ OnePlace' /\ EmptyWhileLeaving'
  <2>1. IdsFresh'
    BY <1>1, <1>8, GridAssumption DEF IdsFresh, TypeOK, Ids
  <2>2. OnePlace'
    BY <1>1, <1>8, GridAssumption DEF OnePlace
  <2> QED BY <2>1, <2>2, <1>1, <1>8 DEF EmptyWhileLeaving
<1>11. EntriesRemembered'
  <2> SUFFICES ASSUME NEW c \in Cells, NEW j \in Ids
               PROVE  grid'[c][j] <= IF j \in heap' /\ c \in inst'[j].collisionCells THEN 1 ELSE 0
    BY DEF EntriesRemembered
  <2>1. grid'[c][j] = grid[c][j] /\ grid[c][j] \in Nat
    BY <1>7 DEF TypeOK
  <2>2. grid[c][j] <= IF j \in heap /\ c \in inst[j].collisionCells THEN 1 ELSE 0
    BY DEF EntriesRemembered
  <2>3. CASE j = n
    BY <2>1, <2>2, <2>3, <1>1
  <2>4. CASE j # n
    BY <2>1, <2>2, <2>4, <1>6, <1>8
  <2> QED BY <2>3, <2>4
<1>12. EntriesOfRoom' /\ MarksOfRoom'
  BY <1>6, <1>7, <1>8 DEF EntriesOfRoom, MarksOfRoom
<1>13. MarkedOrPlaced'
  <2> SUFFICES ASSUME NEW j \in instances', j \notin lost, ~ inst'[j].destroyed
               PROVE  IF inst'[j].spatialGridDirty THEN inst'[j].active /\ j \in dirtyIds'
                      ELSE Placed(j)'
    BY <1>8 DEF MarkedOrPlaced
  <2>1. CASE j = n
    BY <2>1, <1>6
  <2>2. CASE j # n
    <3>1. j \in instances /\ j \in Ids
      BY <2>2, <1>8 DEF TypeOK
    <3>2. IF inst[j].spatialGridDirty THEN inst[j].active /\ j \in dirtyIds ELSE Placed(j)
      BY <3>1, <2>2, <1>1, <1>6 DEF MarkedOrPlaced
    <3>3. CellsOf(inst[j].box) \subseteq Cells
      BY <3>1, CellsOfType DEF TypeOK, Instance
    <3> QED BY <3>1, <3>2, <3>3, <2>2, <1>6, <1>7 DEF Placed
  <2> QED BY <2>1, <2>2
<1>14. CarriedMarked'
  BY <1>1, <1>8 DEF CarriedMarked, OnePlace
<1>15. SavedUnmarked'
  <2>1. SavedInstances \subseteq Ids
    BY SavedMember DEF TypeOK
  <2> QED BY <2>1, <1>1, <1>6, <1>8 DEF SavedUnmarked
<1> QED BY <1>9, <1>10, <1>11, <1>12, <1>13, <1>14, <1>15

\* What is freed is out of the grid, of its list and of the room.
LEMMA CleanupDestroyedInv ==
    ASSUME IInv, CleanupDestroyed
    PROVE  IInv'
<1> USE DEF IInv, roomVars, takeVars
<1> DEFINE dead == {i \in instances : inst[i].destroyed}
           corpse == [Blank EXCEPT !.destroyed = TRUE, !.active = FALSE]
<1>1. /\ phase = "play" /\ dead \in SUBSET Ids
      /\ heap' = heap \ dead /\ known' = known \ dead /\ instances' = instances \ dead
      /\ lost' = lost \ dead
      /\ UNCHANGED <<nextId, roomVars, takeVars>> /\ UNCHANGED SavedInstances
      /\ Home = instances /\ Home' = instances \ dead
  BY DEF CleanupDestroyed, TypeOK, Home, SavedInstances
<1>2. corpse \in Instance /\ corpse.destroyed /\ ~ corpse.active
  BY NewInstanceType DEF Instance, Blank, NewInstance
<1>3. PICK f0 \in [Ids -> Instance], d0 \in SUBSET Ids, g0 \in [Cells -> [Ids -> Nat]],
           S0 \in SUBSET Ids :
         /\ f0 = [i \in Ids |-> IF i \in dead THEN corpse ELSE inst[i]]
         /\ d0 = dirtyIds /\ g0 = grid /\ S0 = dead
  <2>1. [i \in Ids |-> IF i \in dead THEN corpse ELSE inst[i]] \in [Ids -> Instance]
    BY <1>2 DEF TypeOK
  <2> HIDE DEF corpse
  <2> QED BY <2>1, <1>1 DEF TypeOK
<1>4. Mark(f0, S0, d0, g0)
  BY <1>3 DEF Mark, CleanupDestroyed
<1>5. MarkedFields(f0, S0, d0) /\ MarkedGrid(f0, S0, g0)
  BY <1>4, MarkFacts
<1> HIDE DEF corpse
<1>6. /\ \A j \in dead : f0[j].destroyed /\ ~ f0[j].active
      /\ \A j \in Ids : j \notin dead => f0[j] = inst[j]
  BY <1>1, <1>2, <1>3
<1>7. /\ inst' \in [Ids -> Instance]
      /\ \A j \in Ids : j \notin dead => inst'[j] = inst[j]
      /\ dirtyIds' = dirtyIds
  <2>1. ASSUME NEW j \in Ids, j \notin dead
        PROVE  inst'[j] = inst[j]
    BY <2>1, <1>3, <1>5, <1>6 DEF MarkedFields
  <2>2. dirtyIds' = dirtyIds
    <3>1. \A j \in Ids : j \in dirtyIds' <=> j \in dirtyIds
      BY <1>3, <1>5, <1>6 DEF MarkedFields, Live
    <3>2. dirtyIds' \in SUBSET Ids /\ dirtyIds \in SUBSET Ids
      BY <1>5 DEF MarkedFields, TypeOK
    <3> QED BY <3>1, <3>2
  <2> QED BY <2>1, <2>2, <1>5 DEF MarkedFields
<1>8. /\ grid' \in [Cells -> [Ids -> Nat]]
      /\ \A c \in Cells, j \in Ids :
           /\ j \notin dead => grid'[c][j] = grid[c][j]
           /\ j \in dead => grid'[c][j] = 0
  <2>1. ASSUME NEW c \in Cells, NEW j \in dead PROVE grid'[c][j] = 0
    <3>1. j \in Ids /\ grid[c][j] \in Nat /\ grid'[c][j] \in Nat /\ grid'[c][j] <= grid[c][j]
      BY <1>1, <1>3, <1>5, ZenonT(30) DEF MarkedGrid, TypeOK
    <3>2. grid[c][j] <= 1 /\ (c \notin inst[j].collisionCells => grid[c][j] <= 0)
      BY <3>1 DEF EntriesRemembered
    <3>3. ~ Live(f0, j)
      BY <1>6 DEF Live
    <3> QED BY <3>1, <3>2, <3>3, <1>3, <1>5 DEF MarkedGrid
  <2>2. ASSUME NEW c \in Cells, NEW j \in Ids, j \notin dead PROVE grid'[c][j] = grid[c][j]
    BY <2>2, <1>3, <1>5 DEF MarkedGrid
  <2> QED BY <2>1, <2>2, <1>5 DEF MarkedGrid
<1>9. dead \cap SavedInstances = {}
  BY <1>1 DEF OnePlace
<1>10. dead \subseteq instances /\ \A j \in instances : ~ inst[j].destroyed => j \notin dead
  OBVIOUS
<1> HIDE DEF dead
<1>11. TypeOK'
  BY <1>1, <1>7, <1>8 DEF TypeOK, OnePlace
<1>12. IdsFresh' /\ OnePlace' /\ EmptyWhileLeaving'
  BY <1>1, <1>9 DEF IdsFresh, OnePlace, EmptyWhileLeaving
<1>13. EntriesRemembered'
  <2> SUFFICES ASSUME NEW c \in Cells, NEW j \in Ids
               PROVE  grid'[c][j] <= IF j \in heap' /\ c \in inst'[j].collisionCells THEN 1 ELSE 0
    BY DEF EntriesRemembered
  <2>1. CASE j \in dead
    BY <2>1, <1>8
  <2>2. CASE j \notin dead
    BY <2>2, <1>1, <1>7, <1>8 DEF EntriesRemembered
  <2> QED BY <2>1, <2>2
<1>14. EntriesOfRoom'
  BY <1>1, <1>8 DEF EntriesOfRoom
<1>15. MarksOfRoom'
  BY <1>1, <1>7 DEF MarksOfRoom
<1>16. MarkedOrPlaced'
  <2> SUFFICES ASSUME NEW j \in instances', j \notin lost', ~ inst'[j].destroyed
               PROVE  IF inst'[j].spatialGridDirty THEN inst'[j].active /\ j \in dirtyIds'
                      ELSE Placed(j)'
    BY DEF MarkedOrPlaced
  <2>1. j \in instances /\ j \in Ids /\ j \notin dead /\ j \notin lost
    BY <1>1 DEF TypeOK
  <2>2. IF inst[j].spatialGridDirty THEN inst[j].active /\ j \in dirtyIds ELSE Placed(j)
    BY <2>1, <1>1, <1>7 DEF MarkedOrPlaced
  <2>3. CellsOf(inst[j].box) \subseteq Cells
    BY <2>1, CellsOfType DEF TypeOK, Instance
  <2> QED BY <2>1, <2>2, <2>3, <1>7, <1>8 DEF Placed
<1>17. CarriedMarked'
  BY <1>1 DEF CarriedMarked, OnePlace
<1>18. SavedUnmarked'
  <2>1. SavedInstances \subseteq Ids
    BY SavedMember DEF TypeOK
  <2> QED BY <2>1, <1>1, <1>7, <1>9 DEF SavedUnmarked
<1> QED BY <1>11, <1>12, <1>13, <1>14, <1>15, <1>16, <1>17, <1>18

\* Leaving a room: what stays is carried, what is kept is saved unmarked or given up, and the
\* grid of the next room is empty.
LEMMA ChangeRoomInv ==
    ASSUME IInv, NEW next \in Rooms, ChangeRoom(next)
    PROVE  IInv'
<1> USE DEF IInv
<1> DEFINE staying == {i \in instances : inst[i].persistent}
           keep == {i \in instances \ staying : inst[i].active}
           dead == saved[room] \cup (instances \ (staying \cup keep))
<1>1. /\ phase = "play" /\ Home = instances /\ todo = {} /\ carried = {} /\ victim = NoOne
      /\ room' = next /\ dirtyIds' = {} /\ carried' = {} /\ phase' = "take"
      /\ grid' \in [Cells -> [Ids -> Nat]] /\ \A c \in Cells, i \in Ids : grid'[c][i] = 0
      /\ UNCHANGED <<nextId, victim>>
      /\ Home' = todo'
  BY DEF ChangeRoom, Home, OnePlace, NewGrid, EmptyGrid
<1>2. instances \in SUBSET Ids /\ \A r \in Rooms : saved[r] \in SUBSET Ids
  BY DEF TypeOK
<1>3. EmptyWhileLeaving' /\ EntriesRemembered' /\ EntriesOfRoom' /\ MarksOfRoom'
      /\ MarkedOrPlaced' /\ CarriedMarked'
  BY <1>1 DEF EmptyWhileLeaving, EntriesRemembered, EntriesOfRoom, MarksOfRoom, MarkedOrPlaced,
              CarriedMarked
<1>4. CASE room \in PersistentRooms
  <2>1. /\ heap' = heap \ dead /\ known' = known \ dead
        /\ instances' = staying /\ todo' = staying
        /\ saved' = [saved EXCEPT ![room] = keep]
        /\ visited' = visited \cup {room}
        /\ inst' = [i \in Ids |->
                      IF i \in dead THEN Blank
                      ELSE IF i \in staying /\ Live(inst, i)
                      THEN [inst[i] EXCEPT !.spatialGridDirty = TRUE] ELSE inst[i]]
        /\ lost' = (lost \ dead) \cup {i \in keep : inst[i].spatialGridDirty}
    BY <1>4 DEF ChangeRoom
  <2>2. /\ staying \subseteq instances /\ keep \subseteq instances /\ staying \cap keep = {}
        /\ dead = saved[room] \cup (instances \ (staying \cup keep))
    OBVIOUS
  <2>3. inst' \in [Ids -> Instance] /\ \A i \in Ids \ (dead \cup staying) : inst'[i] = inst[i]
    <3>1. ASSUME NEW i \in Ids PROVE inst'[i] \in Instance
      <4>1. inst[i] \in Instance /\ Blank \in Instance
        BY NewInstanceType DEF TypeOK
      <4> QED BY <2>1, <4>1, ZenonT(30) DEF Instance
    <3> QED BY <2>1, <3>1
  <2>4. keep \cap {i \in keep : inst[i].spatialGridDirty} = {i \in keep : inst[i].spatialGridDirty}
    OBVIOUS
  <2>5. \A j \in keep : j \in lost' \/ ~ inst[j].spatialGridDirty
    BY <2>1
  <2>6. lost' \subseteq Ids /\ \A j \in lost \ dead : j \in lost'
    BY <2>1, <2>2, <1>2 DEF TypeOK
  <2> HIDE DEF staying, keep, dead
  <2>7. /\ \A r \in Rooms : saved'[r] = IF r = room THEN keep ELSE saved[r]
        /\ saved' \in [Rooms -> SUBSET Ids]
    BY <2>1, <2>2, <1>2 DEF TypeOK
  <2>8. \A j : j \in SavedInstances' <=> j \in keep \/ (j \in SavedInstances /\ j \notin saved[room])
    <3>1. \A j : j \in SavedInstances' <=> \E r \in Rooms : j \in saved'[r]
      BY DEF SavedInstances
    <3>2. room \in Rooms
      BY DEF TypeOK
    <3>3. \A r \in Rooms : r # room => saved[r] \cap saved[room] = {}
      BY <3>2 DEF OnePlace
    <3> QED BY <3>1, <3>2, <3>3, <2>7, SavedMember
  <2>9. instances \cap SavedInstances = {} /\ known = instances \cup SavedInstances
        /\ saved[room] \subseteq SavedInstances
    BY <1>1, SavedMember DEF OnePlace, TypeOK
  <2>10. known' = Home' \cup SavedInstances'
    BY <1>1, <2>1, <2>2, <2>8, <2>9
  <2>11. Home' \cap SavedInstances' = {}
    BY <1>1, <2>1, <2>2, <2>8, <2>9
  <2>12. \A r, s \in Rooms : r # s => saved'[r] \cap saved'[s] = {}
    <3> SUFFICES ASSUME NEW r \in Rooms, NEW s \in Rooms, r # s
                 PROVE  saved'[r] \cap saved'[s] = {}
      OBVIOUS
    <3>1. saved[r] \cap saved[s] = {} /\ saved[r] \subseteq SavedInstances
          /\ saved[s] \subseteq SavedInstances
      BY SavedMember DEF OnePlace
    <3> QED BY <3>1, <2>2, <2>7, <2>9
  <2>13. victim' \notin known'
    BY <1>1, <2>1 DEF OnePlace
  <2>14. OnePlace'
    BY <1>1, <2>10, <2>11, <2>12, <2>13 DEF OnePlace
  <2>15. TypeOK'
    BY <1>1, <1>2, <2>1, <2>2, <2>3, <2>6, <2>7 DEF TypeOK
  <2>16. IdsFresh'
    BY <1>1, <2>1 DEF IdsFresh
  <2>17. SavedUnmarked'
    <3> SUFFICES ASSUME NEW j \in SavedInstances', j \notin lost' PROVE ~ inst'[j].spatialGridDirty
      BY DEF SavedUnmarked
    <3>1. CASE j \in keep
      <4>1. j \in Ids /\ j \notin dead /\ j \notin staying
        BY <3>1, <2>2, <2>9, <1>2
      <4> QED BY <4>1, <3>1, <2>3, <2>5
    <3>2. CASE j \in SavedInstances /\ j \notin saved[room]
      <4>1. j \in Ids
        BY <3>2, SavedMember, <1>2
      <4>2. j \notin dead /\ j \notin staying
        BY <3>2, <2>2, <2>9
      <4> QED BY <4>1, <4>2, <3>2, <2>3, <2>6 DEF SavedUnmarked
    <3> QED BY <3>1, <3>2, <2>8
  <2> QED BY <1>3, <2>14, <2>15, <2>16, <2>17
<1>5. CASE room \notin PersistentRooms
  <2>1. /\ todo' = instances
        /\ UNCHANGED <<heap, known, instances, saved, visited, inst, lost, SavedInstances>>
    BY <1>5 DEF ChangeRoom, SavedInstances
  <2>2. TypeOK'
    BY <1>1, <2>1 DEF TypeOK
  <2>3. IdsFresh' /\ OnePlace' /\ SavedUnmarked'
    BY <1>1, <2>1 DEF IdsFresh, OnePlace, SavedUnmarked
  <2> QED BY <1>3, <2>2, <2>3
<1> QED BY <1>4, <1>5

\* An instance that is carried leaves the old grid unmarked; one that is not leaves
\* instancesById before its CleanUp code runs.
LEMMA TakeStepInv ==
    ASSUME IInv, TakeStep
    PROVE  IInv'
<1> USE DEF IInv, roomVars
<1>1. PICK i \in todo : todo' = todo \ {i} /\ (TakeCarried(i) \/ TakeOther(i))
  BY DEF TakeStep
<1>2. /\ phase = "take" /\ i \in Ids /\ Home = todo \cup carried /\ i \in known /\ i \in Home
      /\ i \notin carried /\ i \notin SavedInstances
      /\ UNCHANGED <<heap, instances, nextId, roomVars, grid, dirtyIds, lost, SavedInstances>>
  BY DEF TakeStep, TypeOK, Home, OnePlace, SavedInstances
<1>3. \A c \in Cells, j \in Ids : grid[c][j] = 0
  BY <1>2 DEF EmptyWhileLeaving
<1>4. CASE TakeCarried(i)
  <2>1. /\ inst' = [inst EXCEPT ![i].spatialGridDirty = FALSE, ![i].collisionCells = {}]
        /\ carried' = carried \cup {i} /\ UNCHANGED <<known, phase, victim>>
        /\ Home' = Home
    BY <1>1, <1>2, <1>4 DEF TakeCarried, Home
  <2>2. inst' \in [Ids -> Instance] /\ ~ inst'[i].spatialGridDirty
        /\ \A j \in Ids : j # i => inst'[j] = inst[j]
    <3>1. inst \in [Ids -> Instance]
      BY DEF TypeOK
    <3> QED BY <1>2, <2>1, <3>1, ZenonT(30) DEF Instance
  <2>3. TypeOK'
    BY <1>1, <1>2, <2>1, <2>2 DEF TypeOK
  <2>4. IdsFresh' /\ OnePlace' /\ EmptyWhileLeaving'
    BY <1>1, <1>2, <2>1 DEF IdsFresh, OnePlace, EmptyWhileLeaving
  <2>5. EntriesRemembered' /\ EntriesOfRoom' /\ MarksOfRoom' /\ MarkedOrPlaced'
    BY <1>2, <1>3, <2>1 DEF EntriesRemembered, EntriesOfRoom, MarksOfRoom, MarkedOrPlaced
  <2>6. CarriedMarked'
    <3> SUFFICES ASSUME NEW j \in carried', j \notin lost, Live(inst, j)', inst'[j].spatialGridDirty
                 PROVE  j \in dirtyIds
      BY <1>2 DEF CarriedMarked, Live
    <3>1. j # i /\ j \in carried /\ j \in Ids
      BY <2>1, <2>2 DEF TypeOK
    <3> QED BY <3>1, <2>2 DEF CarriedMarked, Live
  <2>7. SavedUnmarked'
    <3>1. SavedInstances \subseteq Ids
      BY SavedMember DEF TypeOK
    <3> QED BY <3>1, <1>2, <2>2 DEF SavedUnmarked
  <2> QED BY <2>3, <2>4, <2>5, <2>6, <2>7
<1>5. CASE TakeOther(i)
  <2>1. /\ known' = known \ {i} /\ victim' = i /\ phase' = "cleanUp" /\ UNCHANGED <<inst, carried>>
        /\ Home' = Home \ {i}
    BY <1>1, <1>2, <1>5 DEF TakeOther, Home
  <2>2. i # NoOne /\ i \in heap
    BY <1>2, IdsAreNumbers DEF TypeOK
  <2>3. TypeOK'
    BY <1>1, <1>2, <2>1, <2>2 DEF TypeOK
  <2>4. IdsFresh' /\ OnePlace' /\ EmptyWhileLeaving'
    BY <1>1, <1>2, <2>1, <2>2 DEF IdsFresh, OnePlace, EmptyWhileLeaving
  <2>5. EntriesRemembered' /\ EntriesOfRoom' /\ MarksOfRoom' /\ MarkedOrPlaced'
    BY <1>2, <1>3, <2>1 DEF EntriesRemembered, EntriesOfRoom, MarksOfRoom, MarkedOrPlaced
  <2>6. CarriedMarked' /\ SavedUnmarked'
    BY <1>2, <2>1 DEF CarriedMarked, SavedUnmarked, Live
  <2> QED BY <2>3, <2>4, <2>5, <2>6
<1> QED BY <1>1, <1>4, <1>5

\* The instance is freed once its CleanUp code has run.
LEMMA FreeVictimInv ==
    ASSUME IInv, FreeVictim
    PROVE  IInv'
<1> USE DEF IInv, roomVars
<1>1. /\ phase = "cleanUp" /\ phase' = "take" /\ victim' = NoOne
      /\ heap' = heap \ {victim} /\ lost' = lost \ {victim}
      /\ inst' = [inst EXCEPT ![victim] = Blank]
      /\ UNCHANGED <<known, instances, nextId, roomVars, grid, dirtyIds, todo, carried>>
      /\ UNCHANGED <<Home, SavedInstances>>
  BY DEF FreeVictim, Home, SavedInstances
<1>2. victim \in Ids /\ victim \notin known /\ victim \notin carried /\ victim \notin SavedInstances
  BY <1>1 DEF TypeOK, OnePlace, Home
<1>3. inst' \in [Ids -> Instance] /\ \A j \in Ids : j # victim => inst'[j] = inst[j]
  BY <1>1, NewInstanceType DEF TypeOK
<1>4. \A c \in Cells, j \in Ids : grid[c][j] = 0
  BY <1>1 DEF EmptyWhileLeaving
<1>5. TypeOK'
  BY <1>1, <1>2, <1>3 DEF TypeOK
<1>6. NoOne \notin known
  BY IdsAreNumbers DEF TypeOK
<1>7. IdsFresh' /\ OnePlace' /\ EmptyWhileLeaving'
  BY <1>1, <1>2, <1>6 DEF IdsFresh, OnePlace, EmptyWhileLeaving
<1>8. EntriesRemembered' /\ EntriesOfRoom' /\ MarkedOrPlaced'
  BY <1>1, <1>4 DEF EntriesRemembered, EntriesOfRoom, MarkedOrPlaced
<1>9. MarksOfRoom'
  BY <1>1, <1>2 DEF MarksOfRoom
<1>10. CarriedMarked' /\ SavedUnmarked'
  <2>1. carried \subseteq Ids /\ SavedInstances \subseteq Ids
    BY SavedMember DEF TypeOK
  <2> QED BY <2>1, <1>1, <1>2, <1>3 DEF CarriedMarked, SavedUnmarked, Live
<1> QED BY <1>5, <1>7, <1>8, <1>9, <1>10

\* Everyone who arrives awake is marked, so the first query will enter it.
LEMMA ArriveInv ==
    ASSUME IInv, Arrive
    PROVE  IInv'
<1> USE DEF IInv
<1> DEFINE restores == room \in PersistentRooms /\ room \in visited
           new == RoomObjects[room] \ known
           arrivals == carried \cup (IF restores THEN saved[room] ELSE new)
           f == [i \in Ids |-> IF ~ restores /\ i \in new THEN Blank ELSE inst[i]]
<1>1. /\ phase = "take" /\ todo = {} /\ phase' = "play" /\ carried' = {}
      /\ instances' = arrivals /\ lost' = lost \cup {i \in arrivals : ~ f[i].active}
      /\ UNCHANGED <<nextId, room, todo, victim>>
      /\ Home = carried /\ victim = NoOne
  BY DEF Arrive, Home, OnePlace
<1>2. Home' = arrivals
  BY <1>1 DEF Home
<1>3. new \subseteq Ids /\ room \in Rooms /\ saved[room] \subseteq Ids /\ arrivals \in SUBSET Ids
      /\ new \subseteq 0 .. (FirstDynamic - 1)
  <2>1. room \in Rooms /\ saved[room] \subseteq Ids /\ carried \subseteq Ids
    BY DEF TypeOK
  <2>2. RoomObjects[room] \subseteq StaticIds /\ StaticIds \subseteq Ids
        /\ StaticIds \subseteq 0 .. (FirstDynamic - 1)
    BY <2>1, GridAssumption DEF Ids
  <2> QED BY <2>1, <2>2
<1>4. f \in [Ids -> Instance]
  BY NewInstanceType DEF TypeOK
<1>5. PICK f0 \in [Ids -> Instance], d0 \in SUBSET Ids, g0 \in [Cells -> [Ids -> Nat]],
           S0 \in SUBSET Ids : f0 = f /\ d0 = dirtyIds /\ g0 = grid /\ S0 = arrivals
  <2> HIDE DEF f, arrivals
  <2> QED BY <1>3, <1>4 DEF TypeOK
<1>6. Mark(f0, S0, d0, g0)
  BY <1>5 DEF Mark, Arrive
<1>7. MarkedFields(f0, S0, d0) /\ MarkedGrid(f0, S0, g0)
  BY <1>6, MarkFacts
<1>8. \A j \in known : j \in Ids /\ f0[j] = inst[j]
  BY <1>5 DEF TypeOK
<1>9. \A j \in new : ~ restores => ~ f0[j].spatialGridDirty
  BY <1>3, <1>5 DEF Blank, NewInstance
<1>10. \A c \in Cells, j \in Ids : grid'[c][j] = 0
  <2> SUFFICES ASSUME NEW c \in Cells, NEW j \in Ids PROVE grid'[c][j] = 0
    OBVIOUS
  <2>1. g0[c][j] = 0
    BY <1>1, <1>5 DEF EmptyWhileLeaving
  <2> QED BY <2>1, <1>7 DEF MarkedGrid
<1>11. lost' = lost \cup {i \in arrivals : ~ f0[i].active}
  BY <1>1, <1>5
<1> HIDE DEF f
<1>12. /\ known = carried \cup SavedInstances /\ carried \cap SavedInstances = {}
       /\ saved[room] \subseteq SavedInstances /\ SavedInstances \subseteq Ids
  BY <1>1, <1>3, SavedMember DEF OnePlace, TypeOK
<1>13. CASE restores
  <2>1. /\ saved' = [saved EXCEPT ![room] = {}] /\ UNCHANGED <<heap, known, visited>>
        /\ arrivals = carried \cup saved[room]
    BY <1>13 DEF Arrive
  <2> HIDE DEF restores, new, arrivals
  <2>2. /\ saved' \in [Rooms -> SUBSET Ids]
        /\ \A r \in Rooms : saved'[r] = IF r = room THEN {} ELSE saved[r]
    BY <2>1 DEF TypeOK
  <2>3. \A j : j \in SavedInstances' <=> j \in SavedInstances /\ j \notin saved[room]
    <3>1. \A j : j \in SavedInstances' <=> \E r \in Rooms : j \in saved'[r]
      BY DEF SavedInstances
    <3>2. \A r \in Rooms : r # room => saved[r] \cap saved[room] = {}
      BY <1>3 DEF OnePlace
    <3> QED BY <3>1, <3>2, <2>2, <1>3, SavedMember
  <2>4. TypeOK'
    BY <1>1, <1>3, <1>7, <1>11, <2>1, <2>2 DEF TypeOK, MarkedFields, MarkedGrid
  <2>5. IdsFresh' /\ EmptyWhileLeaving' /\ EntriesRemembered' /\ EntriesOfRoom'
    BY <1>1, <1>10, <2>1 DEF IdsFresh, EmptyWhileLeaving, EntriesRemembered, EntriesOfRoom
  <2>6. OnePlace'
    <3>1. known' = Home' \cup SavedInstances' /\ Home' \cap SavedInstances' = {}
      BY <1>2, <1>12, <2>1, <2>3
    <3>2. \A r, s \in Rooms : r # s => saved'[r] \cap saved'[s] = {}
      BY <2>2 DEF OnePlace
    <3> QED BY <1>1, <2>1, <3>1, <3>2 DEF OnePlace
  <2>7. MarksOfRoom'
    <3> SUFFICES ASSUME NEW j \in dirtyIds', j \in known' PROVE j \in arrivals \cup lost'
      BY <1>2 DEF MarksOfRoom
    <3>1. j \in dirtyIds \/ j \in arrivals
      BY <1>5, <1>7 DEF MarkedFields
    <3> QED BY <3>1, <1>1, <1>11, <2>1 DEF MarksOfRoom
  <2>8. MarkedOrPlaced'
    <3> SUFFICES ASSUME NEW j \in arrivals, j \notin lost', ~ inst'[j].destroyed
                 PROVE  inst'[j].spatialGridDirty /\ inst'[j].active /\ j \in dirtyIds'
      BY <1>1 DEF MarkedOrPlaced
    <3>1. j \in Ids /\ j \in known /\ j \notin lost /\ f0[j].active /\ f0[j] = inst[j]
      BY <1>3, <1>8, <1>11, <1>12, <2>1
    <3>2. Live(f0, j) /\ Live(inst, j)
      BY <3>1, <1>7 DEF MarkedFields, Live
    <3>3. inst[j].spatialGridDirty => j \in dirtyIds
      BY <3>1, <3>2, <1>12, <2>1 DEF CarriedMarked, SavedUnmarked
    <3> QED BY <3>1, <3>2, <3>3, <1>5, <1>7 DEF MarkedFields
  <2>9. CarriedMarked'
    BY <1>1 DEF CarriedMarked
  <2>10. SavedUnmarked'
    <3> SUFFICES ASSUME NEW j \in SavedInstances', j \notin lost' PROVE ~ inst'[j].spatialGridDirty
      BY DEF SavedUnmarked
    <3>1. j \in Ids /\ j \in SavedInstances /\ j \notin arrivals /\ j \notin lost /\ f0[j] = inst[j]
      BY <1>8, <1>11, <1>12, <2>1, <2>3
    <3> QED BY <3>1, <1>5, <1>7 DEF MarkedFields, SavedUnmarked
  <2> QED BY <2>4, <2>5, <2>6, <2>7, <2>8, <2>9, <2>10
<1>14. CASE ~ restores
  <2>1. /\ heap' = heap \cup new /\ known' = known \cup new
        /\ visited' = visited \cup {room} /\ UNCHANGED <<saved, SavedInstances>>
        /\ arrivals = carried \cup new /\ new \cap known = {}
        /\ \A j \in new : ~ f0[j].spatialGridDirty
    BY <1>9, <1>14 DEF Arrive, SavedInstances
  <2> HIDE DEF restores, new, arrivals
  <2>2. TypeOK'
    BY <1>1, <1>3, <1>7, <1>11, <2>1 DEF TypeOK, MarkedFields, MarkedGrid
  <2>3. IdsFresh'
    <3>1. \A i \in new : i < nextId
      BY <1>3, GridAssumption DEF IdsFresh, TypeOK
    <3> QED BY <3>1, <1>1, <2>1 DEF IdsFresh
  <2>4. EmptyWhileLeaving' /\ EntriesRemembered' /\ EntriesOfRoom'
    BY <1>1, <1>10 DEF EmptyWhileLeaving, EntriesRemembered, EntriesOfRoom
  <2>5. OnePlace'
    <3>1. NoOne \notin known'
      BY <2>2, IdsAreNumbers DEF TypeOK
    <3> QED BY <1>1, <1>2, <1>12, <2>1, <3>1 DEF OnePlace
  <2>6. MarksOfRoom'
    <3> SUFFICES ASSUME NEW j \in dirtyIds', j \in known' PROVE j \in arrivals \cup lost'
      BY <1>2 DEF MarksOfRoom
    <3>1. j \in dirtyIds \/ j \in arrivals
      BY <1>5, <1>7 DEF MarkedFields
    <3> QED BY <3>1, <1>1, <1>11, <2>1 DEF MarksOfRoom
  <2>7. MarkedOrPlaced'
    <3> SUFFICES ASSUME NEW j \in arrivals, j \notin lost', ~ inst'[j].destroyed
                 PROVE  inst'[j].spatialGridDirty /\ inst'[j].active /\ j \in dirtyIds'
      BY <1>1 DEF MarkedOrPlaced
    <3>1. j \in Ids /\ j \notin lost /\ f0[j].active
      BY <1>3, <1>11
    <3>2. Live(f0, j)
      BY <3>1, <1>7 DEF MarkedFields, Live
    <3>3. f0[j].spatialGridDirty => j \in dirtyIds
      BY <3>1, <3>2, <1>8, <1>12, <2>1 DEF CarriedMarked, Live
    <3> QED BY <3>1, <3>2, <3>3, <1>5, <1>7 DEF MarkedFields, Live
  <2>8. CarriedMarked'
    BY <1>1 DEF CarriedMarked
  <2>9. SavedUnmarked'
    <3> SUFFICES ASSUME NEW j \in SavedInstances, j \notin lost' PROVE ~ inst'[j].spatialGridDirty
      BY <2>1 DEF SavedUnmarked
    <3>1. j \in Ids /\ j \notin arrivals /\ j \notin lost /\ f0[j] = inst[j]
      BY <1>8, <1>11, <1>12, <2>1
    <3> QED BY <3>1, <1>5, <1>7 DEF MarkedFields, SavedUnmarked
  <2> QED BY <2>2, <2>3, <2>4, <2>5, <2>6, <2>7, <2>8, <2>9
<1> QED BY <1>13, <1>14

-------------------------------------------------------------------------------
(* The theorems                                                             *)

\* The marks, the cells and the list of dirty ids stay consistent, through moves, sleep,
\* deaths and changes of room in any order.
THEOREM GridConsistent ==
    ASSUME NoQueryOnLeaving PROVE Spec => []IInv
<1>1. ASSUME IInv, [Next]_vars PROVE IInv'
  <2>1. CASE Next
    <3>1. CASE \E i \in Ids : BeginDestroy(i) \/ EndDestroy(i)
      BY <1>1, <3>1, BeginDestroyInv, EndDestroyInv
    <3>2. CASE \E i \in Ids, b \in Boxes \cup {NoBox} : Move(i, b)
      BY <1>1, <3>2, MoveInv
    <3>3. CASE \E i \in Ids, b \in BOOLEAN : SetActive(i, b) \/ SetPersistent(i, b)
      BY <1>1, <3>3, SetActiveInv, SetPersistentInv
    <3>4. CASE \E b \in Boxes : Create(b)
      BY <1>1, <3>4, CreateInv
    <3>5. CASE Query \/ CleanupDestroyed \/ TakeStep \/ FreeVictim \/ Arrive
      BY <1>1, <3>5, QueryInv, CleanupDestroyedInv, TakeStepInv, FreeVictimInv, ArriveInv
    <3>6. CASE \E r \in Rooms : ChangeRoom(r)
      BY <1>1, <3>6, ChangeRoomInv
    <3> QED BY <2>1, <3>1, <3>2, <3>3, <3>4, <3>5, <3>6 DEF Next
  <2>2. CASE UNCHANGED vars
    <3>1. UNCHANGED <<Home, SavedInstances>>
      BY <2>2 DEF vars, roomVars, gridVars, takeVars, Home, SavedInstances
    <3> QED BY <1>1, <2>2, <3>1
            DEF vars, roomVars, gridVars, takeVars, IInv, TypeOK, IdsFresh, OnePlace,
                EmptyWhileLeaving, EntriesRemembered, EntriesOfRoom, MarksOfRoom, MarkedOrPlaced,
                Placed, CarriedMarked, SavedUnmarked
  <2> QED BY <1>1, <2>1, <2>2
<1> QED BY <1>1, InitInv, PTL DEF Spec

\* The variables keep their types: no cell counts below zero.
THEOREM TypeCorrect ==
    ASSUME NoQueryOnLeaving PROVE Spec => []TypeOK
<1>1. IInv => TypeOK
  BY DEF IInv
<1> QED BY <1>1, GridConsistent, PTL

\* Every entry of the grid is remembered by an allocated instance, and is there once.
THEOREM EntriesAreRemembered ==
    ASSUME NoQueryOnLeaving PROVE Spec => []EntriesRemembered
<1>1. IInv => EntriesRemembered
  BY DEF IInv
<1> QED BY <1>1, GridConsistent, PTL

\* A repaired grid leads a query to every active instance that overlaps its box, and to none
\* that is not of the room, for every size of room and cell; excepted are, as the property
\* says, the instances in `lost' and boxes too far out for the int16_t of a cell.
THEOREM QueriesFindOverlapping ==
    ASSUME NoQueryOnLeaving PROVE Spec => []QueryFindsOverlapping
<1>1. ASSUME IInv PROVE QueryFindsOverlapping
  <2> USE <1>1 DEF IInv
  <2>1. ASSUME phase = "play", dirtyIds = {}, NEW i \in instances, i \notin lost, Live(inst, i),
               inst[i].box # NoBox, Near(inst[i].box)
        PROVE  Finds(i)
    <3> SUFFICES ASSUME NEW b \in AskedBoxes, Near(b), Overlap(inst[i].box, b)
                 PROVE  i \in Found(b)
      BY DEF Finds
    <3>1. i \in Ids /\ inst[i].box \in Boxes /\ Placed(i)
      BY <2>1 DEF TypeOK, Instance, MarkedOrPlaced, Live
    <3>2. PICK c \in CellRange(inst[i].box) : c \in CellRange(b)
      BY <2>1, <3>1, OverlapSharesCell
    <3>3. c \in CellsOf(inst[i].box)
      BY <2>1, <3>2 DEF CellsOf
    <3> QED BY <2>1, <3>1, <3>2, <3>3 DEF Found, Placed, Live
  <2>2. FoundInRoom
    <3> SUFFICES ASSUME phase = "play", NEW b \in AskedBoxes, NEW i \in Found(b)
                 PROVE  i \in instances \cup lost
      BY DEF FoundInRoom
    <3>1. PICK c \in CellRange(b) : grid[c][i] > 0
      BY DEF Found
    <3>2. i \in Ids /\ c \in Cells
      BY CellRangeType DEF Found
    <3> QED BY <3>1, <3>2 DEF EntriesOfRoom, Home
  <2> QED BY <2>1, <2>2 DEF QueryFindsOverlapping
<1> QED BY <1>1, GridConsistent, PTL
===============================================================================
