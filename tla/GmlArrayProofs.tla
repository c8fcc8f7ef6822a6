---------------------------- MODULE GmlArrayProofs ----------------------------
(* Theorems about GmlArray, for any variables, shapes, lengths and number of   *)
(* instructions: types, counts, the owners of arrays that chains write to, and *)
(* what other variables see.                                                   *)
EXTENDS GmlArray, FiniteSetTheorems, WellFoundedInduction, SequenceTheorems, TLAPS

-----------------------------------------------------------------------------
(* Cells.                                                                     *)

Values == Numbers \union Ids
Array == [refCount : Nat, owner : Owners, data : Seq(Values)]

HeapOK(h) ==
    /\ h \in [Ids -> Array]
    /\ \A x \in Ids : Len(h[x].data) <= MaxLength /\ (h[x].refCount = 0 => h[x] = Freed)

CellSet(h, A, v) ==
    {c \in A \X (1 .. MaxLength) : c[2] <= Len(h[c[1]].data) /\ h[c[1]].data[c[2]] = v}

\* One reference to v, as far as x is concerned.
Is(v, x) == IF x = v THEN 1 ELSE 0

LEMMA Bounds ==
    /\ MaxArrays \in Nat \ {0} /\ MaxLength \in Nat \ {0}
    /\ MaxStack \in Nat \ {0} /\ MaxSteps \in Nat \ {0}
    /\ Ids \subseteq Nat /\ IsFiniteSet(Ids) /\ Cardinality(Ids) = MaxArrays + 2
    /\ Zero \notin Ids /\ One \notin Ids
<1>1. MaxArrays \in Nat \ {0} /\ MaxLength \in Nat \ {0} /\ MaxStack \in Nat \ {0} /\ MaxSteps \in Nat \ {0}
  BY BoundsAssumption
<1>2. MaxArrays + 2 \in Int /\ 1 \in Int /\ ~ (1 > MaxArrays + 2) BY <1>1
<1>3. IsFiniteSet(Ids) /\ Cardinality(Ids) = MaxArrays + 2
  <2>1. IsFiniteSet(1 .. MaxArrays + 2) /\ Cardinality(1 .. MaxArrays + 2) = (MaxArrays + 2) - 1 + 1
    BY <1>2, FS_Interval
  <2> QED BY <2>1, <1>1 DEF Ids
<1>4. Zero \notin Ids /\ One \notin Ids BY BoundsAssumption DEF Numbers
<1> QED BY <1>1, <1>3, <1>4 DEF Ids

LEMMA CellsFinite ==
    ASSUME NEW h, NEW A \in SUBSET Ids, NEW v
    PROVE  /\ IsFiniteSet(CellSet(h, A, v))
           /\ CellsWith(h, A, v) = Cardinality(CellSet(h, A, v))
           /\ CellsWith(h, A, v) \in Nat
<1>1. IsFiniteSet(A) BY Bounds, FS_Subset
<1>2. IsFiniteSet(1 .. MaxLength)
  <2>1. MaxLength \in Int /\ 1 \in Int BY Bounds
  <2> QED BY <2>1, FS_Interval
<1>3. IsFiniteSet(A \X (1 .. MaxLength)) BY <1>1, <1>2, FS_Product
<1>4. CellSet(h, A, v) \in SUBSET (A \X (1 .. MaxLength)) BY DEF CellSet
<1>5. IsFiniteSet(CellSet(h, A, v)) BY <1>3, <1>4, FS_Subset
<1>6. CellsWith(h, A, v) = Cardinality(CellSet(h, A, v)) BY DEF CellsWith, CellSet
<1> QED BY <1>5, <1>6, FS_CardinalityType

\* What arrays hold depends on their cells alone.
LEMMA CellsAgree ==
    ASSUME NEW h, NEW g, NEW A \in SUBSET Ids, NEW v, \A a \in A : g[a].data = h[a].data
    PROVE  CellsWith(g, A, v) = CellsWith(h, A, v)
<1>1. CellSet(g, A, v) = CellSet(h, A, v) BY DEF CellSet
<1> QED BY <1>1, CellsFinite

LEMMA CellsSplit ==
    ASSUME NEW h, NEW B \in SUBSET Ids, NEW A \in SUBSET B, NEW v
    PROVE  CellsWith(h, B, v) = CellsWith(h, A, v) + CellsWith(h, B \ A, v)
<1> DEFINE S == CellSet(h, A, v)
           T == CellSet(h, B \ A, v)
<1>1. S \cup T = CellSet(h, B, v) /\ S \cap T = {} BY DEF CellSet
<1>2. A \in SUBSET Ids /\ B \ A \in SUBSET Ids OBVIOUS
<1>3. IsFiniteSet(S) /\ IsFiniteSet(T) BY <1>2, CellsFinite
<1>4. Cardinality(S) \in Nat /\ Cardinality(T) \in Nat BY <1>3, FS_CardinalityType
<1>5. CellsWith(h, B, v) = Cardinality(S \cup T) BY <1>1, CellsFinite
<1>6. CellsWith(h, A, v) = Cardinality(S) /\ CellsWith(h, B \ A, v) = Cardinality(T)
  BY <1>2, CellsFinite
<1> HIDE DEF S, T
<1>7. Cardinality(S \cup T) = Cardinality(S) + Cardinality(T) - Cardinality(S \cap T)
  BY <1>3, FS_Union
<1>8. Cardinality(S \cap T) = 0 BY <1>1, FS_EmptySet
<1> QED BY <1>4, <1>5, <1>6, <1>7, <1>8

LEMMA CellsLess ==
    ASSUME NEW h, NEW B \in SUBSET Ids, NEW A \in SUBSET B, NEW v
    PROVE  CellsWith(h, A, v) <= CellsWith(h, B, v)
<1>1. A \in SUBSET Ids /\ B \ A \in SUBSET Ids OBVIOUS
<1>2. CellsWith(h, A, v) \in Nat /\ CellsWith(h, B \ A, v) \in Nat BY <1>1, CellsFinite
<1> QED BY <1>2, CellsSplit

\* An empty array holds nothing, and nothing is held by no array.
LEMMA CellsNone ==
    ASSUME NEW h, NEW A \in SUBSET Ids, NEW v, \A a \in A : h[a].data = <<>>
    PROVE  CellsWith(h, A, v) = 0
<1>1. CellSet(h, A, v) = {}
  <2>1. Len(<<>>) = 0 BY EmptySeq
  <2>2. \A a \in A : Len(h[a].data) = 0 BY <2>1
  <2>3. \A k \in 1 .. MaxLength : ~ (k <= 0) BY Bounds
  <2> QED BY <2>2, <2>3 DEF CellSet
<1> QED BY <1>1, CellsFinite, FS_EmptySet

\* How many of its cells an array has for v.
Inside(h, a, v) == CellsWith(h, {a}, v)

LEMMA InsideIs ==
    ASSUME NEW h, NEW a \in Ids, NEW v
    PROVE  /\ Inside(h, a, v) \in Nat
           /\ CellsWith(h, Ids, v) = Inside(h, a, v) + CellsWith(h, Ids \ {a}, v)
<1> DEFINE A == {a}
<1>1. A \in SUBSET Ids /\ Ids \in SUBSET Ids OBVIOUS
<1>2. Inside(h, a, v) = CellsWith(h, A, v) BY DEF Inside
<1>3. Ids \ {a} = Ids \ A OBVIOUS
<1> HIDE DEF A
<1>4. CellsWith(h, Ids, v) = CellsWith(h, A, v) + CellsWith(h, Ids \ A, v) BY <1>1, CellsSplit
<1>5. CellsWith(h, A, v) \in Nat BY <1>1, CellsFinite
<1> QED BY <1>2, <1>3, <1>4, <1>5

\* A copy of an array holds what the array holds.
LEMMA CellsCopied ==
    ASSUME NEW h, NEW g, NEW a \in Ids, NEW b \in Ids, NEW v, g[b].data = h[a].data
    PROVE  Inside(g, b, v) = Inside(h, a, v)
<1> DEFINE S == CellSet(h, {a}, v)
           T == CellSet(g, {b}, v)
           f == [c \in S |-> <<b, c[2]>>]
<1>1. ASSUME NEW c \in S PROVE c = <<a, c[2]>> /\ f[c] \in T
  <2>1. PICK k \in 1 .. MaxLength : c = <<a, k>> /\ k <= Len(h[a].data) /\ h[a].data[k] = v
    BY DEF CellSet
  <2>2. c[2] = k /\ f[c] = <<b, k>> BY <2>1
  <2>3. <<b, k>> \in T BY <2>1 DEF CellSet
  <2> QED BY <2>1, <2>2, <2>3
<1>2. f \in [S -> T] BY <1>1
<1>3. \A c, d \in S : f[c] = f[d] => c = d BY <1>1
<1>4. ASSUME NEW d \in T PROVE \E c \in S : f[c] = d
  <2>1. PICK k \in 1 .. MaxLength : d = <<b, k>> /\ k <= Len(g[b].data) /\ g[b].data[k] = v
    BY DEF CellSet
  <2>2. <<a, k>> \in S BY <2>1 DEF CellSet
  <2>3. f[<<a, k>>] = d BY <2>1, <2>2
  <2> QED BY <2>2, <2>3
<1>5. IsFiniteSet(S) BY CellsFinite
<1>6. Inside(h, a, v) = Cardinality(S) /\ Inside(g, b, v) = Cardinality(T)
  BY CellsFinite DEF Inside
<1> HIDE DEF S, T, f
<1>7. f \in Injection(S, T) BY <1>2, <1>3, Zenon DEF Injection, IsInjective
<1>8. f \in Surjection(S, T) BY <1>2, <1>4, Zenon DEF Surjection
<1>9. ExistsBijection(S, T) BY <1>7, <1>8, Zenon DEF ExistsBijection, Bijection
<1>10. Cardinality(T) = Cardinality(S) BY <1>5, <1>9, FS_Bijection
<1> QED BY <1>6, <1>10

\* Two heaps that agree in all cells but one.
LEMMA CellsButOne ==
    ASSUME NEW h, NEW g, NEW c, NEW x,
           CellSet(g, Ids, x) \ {c} = CellSet(h, Ids, x) \ {c}
    PROVE  CellsWith(g, Ids, x) = CellsWith(h, Ids, x)
               - (IF c \in CellSet(h, Ids, x) THEN 1 ELSE 0)
               + (IF c \in CellSet(g, Ids, x) THEN 1 ELSE 0)
<1> DEFINE S == CellSet(h, Ids, x)
           T == CellSet(g, Ids, x)
<1>1. /\ IsFiniteSet(S) /\ CellsWith(h, Ids, x) = Cardinality(S)
      /\ IsFiniteSet(T) /\ CellsWith(g, Ids, x) = Cardinality(T) BY CellsFinite
<1>2. S \ {c} = T \ {c} OBVIOUS
<1> HIDE DEF S, T
<1>3. Cardinality(S \ {c}) = IF c \in S THEN Cardinality(S) - 1 ELSE Cardinality(S)
  BY <1>1, FS_RemoveElement
<1>4. Cardinality(T \ {c}) = IF c \in T THEN Cardinality(T) - 1 ELSE Cardinality(T)
  BY <1>1, FS_RemoveElement
<1>5. Cardinality(S) \in Nat /\ Cardinality(T) \in Nat BY <1>1, FS_CardinalityType
<1>6. CellsWith(g, Ids, x) = CellsWith(h, Ids, x) - (IF c \in S THEN 1 ELSE 0) + (IF c \in T THEN 1 ELSE 0)
  BY <1>1, <1>2, <1>3, <1>4, <1>5
<1> QED BY <1>6 DEF S, T

-----------------------------------------------------------------------------
(* References.                                                                *)

\* The counts of a heap are those of its cells and of n, the references held elsewhere.
Ledger(h, n) == \A x \in Ids : h[x].refCount = n[x] + CellsWith(h, Ids, x)
Plus(n, v) == [x \in Ids |-> n[x] + Is(v, x)]
Minus(n, v) == [x \in Ids |-> n[x] - Is(v, x)]

\* From h to g arrays are freed and counted, and else stay what they were.
Kept(g, h, x) == g[x].data = h[x].data /\ g[x].owner = h[x].owner
Survives(g, h) ==
    \A x \in Ids : g[x] = Freed \/ (Kept(g, h, x) /\ g[x].refCount > 0 /\ h[x].refCount > 0)

\* From h to g only the arrays in A are written or made; others may be freed.
Alters(g, h, A) ==
    \A x \in Ids \ A : g[x].refCount > 0 => h[x].refCount > 0 /\ g[x].data = h[x].data

LEMMA PlusType ==
    ASSUME NEW v
    PROVE  /\ \A n \in [Ids -> Int] : Plus(n, v) \in [Ids -> Int] /\ Minus(n, v) \in [Ids -> Int]
           /\ \A n \in [Ids -> Nat] : Plus(n, v) \in [Ids -> Nat]
<1>1. \A x : Is(v, x) \in {0, 1} BY DEF Is
<1> QED BY <1>1 DEF Plus, Minus

LEMMA ReferencesAt ==
    \A n, v, w : \A x \in Ids : /\ Plus(n, v)[x] = n[x] + Is(v, x)
                                  /\ Minus(n, v)[x] = n[x] - Is(v, x)
                                  /\ Minus(Plus(n, v), w)[x] = (n[x] + Is(v, x)) - Is(w, x)
<1> SUFFICES ASSUME NEW n, NEW v, NEW w, NEW x \in Ids
             PROVE  /\ Plus(n, v)[x] = n[x] + Is(v, x)
                    /\ Minus(n, v)[x] = n[x] - Is(v, x)
                    /\ Minus(Plus(n, v), w)[x] = (n[x] + Is(v, x)) - Is(w, x)
  OBVIOUS
<1>1. \A k, u : Minus(k, u)[x] = k[x] - Is(u, x) BY DEF Minus
<1>2. Plus(n, v)[x] = n[x] + Is(v, x) BY DEF Plus
<1>3. Minus(Plus(n, v), w)[x] = Plus(n, v)[x] - Is(w, x) BY <1>1, Zenon
<1> QED BY <1>1, <1>2, <1>3

LEMMA HeapFields ==
    ASSUME NEW h, HeapOK(h), NEW x \in Ids
    PROVE  /\ h[x].refCount \in Nat /\ h[x].owner \in Owners /\ h[x].data \in Seq(Values)
           /\ Len(h[x].data) \in 0 .. MaxLength /\ (h[x].refCount = 0 => h[x] = Freed)
<1>1. h[x] \in Array /\ Len(h[x].data) <= MaxLength /\ (h[x].refCount = 0 => h[x] = Freed)
  BY DEF HeapOK
<1>2. h[x].refCount \in Nat /\ h[x].owner \in Owners /\ h[x].data \in Seq(Values) BY <1>1 DEF Array
<1>3. MaxLength \in Nat /\ Len(h[x].data) \in Nat BY <1>2, Bounds
<1> QED BY <1>1, <1>2, <1>3

LEMMA FreedIs ==
    /\ Freed \in Array /\ Freed.refCount = 0 /\ Freed.data = <<>> /\ Len(Freed.data) = 0
<1>1. <<>> \in Seq(Values) /\ Len(<<>>) = 0 BY EmptySeq
<1> QED BY <1>1 DEF Freed, Array, Owners

\* Heaps are the same when counts, owners and cells are.
LEMMA HeapFrom ==
    ASSUME NEW g \in [Ids -> [refCount : Nat, owner : Owners, data : Seq(Values)]],
           \A x \in Ids : Len(g[x].data) <= MaxLength,
           \A x \in Ids : g[x].refCount = 0 => g[x].owner = NoOwner /\ g[x].data = <<>>
    PROVE  HeapOK(g)
<1>1. ASSUME NEW x \in Ids, g[x].refCount = 0 PROVE g[x] = Freed
  <2>1. g[x] \in [refCount : Nat, owner : Owners, data : Seq(Values)] OBVIOUS
  <2>2. g[x].owner = NoOwner /\ g[x].data = <<>> BY <1>1
  <2>3. g[x] = [refCount |-> g[x].refCount, owner |-> g[x].owner, data |-> g[x].data] BY <2>1
  <2> QED BY <2>2, <2>3, <1>1 DEF Freed
<1> QED BY <1>1 DEF HeapOK, Array

LEMMA RetainIs ==
    ASSUME NEW h, HeapOK(h), NEW v
    PROVE  /\ HeapOK(Retain(h, v))
           /\ \A x \in Ids : /\ Kept(Retain(h, v), h, x)
                             /\ Retain(h, v)[x].refCount = h[x].refCount + Is(v, x)
           /\ \A n \in [Ids -> Int] : Ledger(h, n) => Ledger(Retain(h, v), Plus(n, v))
<1> DEFINE g == Retain(h, v)
<1>0. h \in [Ids -> Array] BY DEF HeapOK
<1>1. ASSUME NEW x \in Ids
      PROVE  /\ Kept(g, h, x) /\ g[x].refCount = h[x].refCount + Is(v, x)
             /\ g[x] \in [refCount : Nat, owner : Owners, data : Seq(Values)]
  <2>1. h[x] \in Array BY <1>0
  <2>2. g[x] = IF x = v THEN [h[x] EXCEPT !.refCount = @ + 1] ELSE h[x]
    BY <1>0 DEF Retain
  <2> QED BY <2>1, <2>2 DEF Kept, Is, Array
<1>2. g \in [Ids -> [refCount : Nat, owner : Owners, data : Seq(Values)]]
  <2>1. DOMAIN g = Ids /\ g = [x \in Ids |-> g[x]] BY <1>0 DEF Retain
  <2> HIDE DEF g
  <2> QED BY <2>1, <1>1
<1>3. HeapOK(g)
  <2>1. \A x \in Ids : Len(g[x].data) <= MaxLength BY <1>1, HeapFields DEF Kept
  <2>2. ASSUME NEW x \in Ids, g[x].refCount = 0 PROVE g[x].owner = NoOwner /\ g[x].data = <<>>
    <3>1. h[x].refCount \in Nat /\ (h[x].refCount = 0 => h[x] = Freed) BY HeapFields
    <3>2. h[x].refCount = 0 BY <3>1, <2>2, <1>1 DEF Is
    <3> QED BY <3>1, <3>2, <1>1 DEF Kept, Freed
  <2> HIDE DEF g
  <2> QED BY <2>1, <2>2, <1>2, HeapFrom
<1>4. ASSUME NEW n \in [Ids -> Int], Ledger(h, n) PROVE Ledger(g, Plus(n, v))
  <2> SUFFICES ASSUME NEW x \in Ids PROVE g[x].refCount = Plus(n, v)[x] + CellsWith(g, Ids, x)
    BY DEF Ledger
  <2>1. CellsWith(g, Ids, x) = CellsWith(h, Ids, x)
    <3> HIDE DEF g
    <3> QED BY <1>1, CellsAgree DEF Kept
  <2>2. h[x].refCount = n[x] + CellsWith(h, Ids, x) BY <1>4 DEF Ledger
  <2>3. Plus(n, v)[x] = n[x] + Is(v, x) BY DEF Plus
  <2>4. CellsWith(h, Ids, x) \in Nat /\ n[x] \in Int /\ Is(v, x) \in Int
    BY CellsFinite DEF Is
  <2>5. g[x].refCount = h[x].refCount + Is(v, x) BY <1>1
  <2> HIDE DEF g
  <2> QED BY <2>1, <2>2, <2>3, <2>4, <2>5
<1> QED BY <1>1, <1>3, <1>4

\* What a position of an array holds; positions beyond its end hold Zero.
At(data, i) == IF i <= Len(data) THEN data[i] ELSE Zero

\* An array gets other cells.
WithData(h, a, d) == [h EXCEPT ![a].data = d]

LEMMA CellWritten ==
    ASSUME NEW h, HeapOK(h), NEW a \in Ids, h[a].refCount > 0, NEW i \in 1 .. MaxLength,
           NEW d \in Seq(Values), i <= Len(d), Len(d) <= MaxLength, Len(h[a].data) <= Len(d),
           \A k \in 1 .. Len(d) : k # i => d[k] = At(h[a].data, k),
           NEW f, f = WithData(h, a, d)
    PROVE  /\ HeapOK(f)
           /\ f[a].data = d /\ f[a].refCount = h[a].refCount /\ f[a].owner = h[a].owner
           /\ \A x \in Ids : x # a => f[x] = h[x]
           /\ \A x \in Ids : CellsWith(f, Ids, x) =
                                CellsWith(h, Ids, x) - Is(At(h[a].data, i), x) + Is(d[i], x)
<1> DEFINE g == [h EXCEPT ![a].data = d]
<1>0. h \in [Ids -> Array] /\ h[a] \in Array BY DEF HeapOK
<1>1. /\ g[a].data = d /\ g[a].refCount = h[a].refCount /\ g[a].owner = h[a].owner
      /\ \A x \in Ids : x # a => g[x] = h[x]
      /\ g[a] \in [refCount : Nat, owner : Owners, data : Seq(Values)]
  BY <1>0 DEF Array
<1>2. g \in [Ids -> [refCount : Nat, owner : Owners, data : Seq(Values)]]
  <2>1. DOMAIN g = Ids /\ g = [x \in Ids |-> g[x]] BY <1>0
  <2>2. \A x \in Ids : g[x] \in [refCount : Nat, owner : Owners, data : Seq(Values)]
    BY <1>0, <1>1 DEF Array
  <2> HIDE DEF g
  <2> QED BY <2>1, <2>2
<1>3. HeapOK(g)
  <2>1. \A x \in Ids : Len(g[x].data) <= MaxLength BY <1>1, HeapFields
  <2>2. \A x \in Ids : g[x].refCount = 0 => g[x].owner = NoOwner /\ g[x].data = <<>>
    <3>1. \A x \in Ids : x # a /\ h[x].refCount = 0 => h[x].owner = NoOwner /\ h[x].data = <<>>
      BY HeapFields DEF Freed
    <3>2. ~ (h[a].refCount = 0) BY HeapFields
    <3> HIDE DEF g
    <3> QED BY <3>1, <3>2, <1>1
  <2> HIDE DEF g
  <2> QED BY <2>1, <2>2, <1>2, HeapFrom
<1>4. ASSUME NEW x \in Ids
      PROVE  CellsWith(g, Ids, x) = CellsWith(h, Ids, x) - Is(At(h[a].data, i), x) + Is(d[i], x)
  <2> DEFINE c == <<a, i>>
             old == h[a].data
  <2>1. /\ old \in Seq(Values) /\ Len(old) \in Nat /\ Len(d) \in Nat /\ i \in Nat
        /\ x # Zero
    BY HeapFields, Bounds
  <2>2. c \in Ids \X (1 .. MaxLength) OBVIOUS
  <2>3. c \in CellSet(h, Ids, x) <=> At(old, i) = x
    BY <2>1, <2>2 DEF CellSet, At
  <2>4. c \in CellSet(g, Ids, x) <=> d[i] = x
    <3> HIDE DEF g
    <3> QED BY <2>1, <2>2, <1>1 DEF CellSet
  <2>5. ASSUME NEW b \in Ids, NEW k \in 1 .. MaxLength, <<b, k>> # c
        PROVE  <<b, k>> \in CellSet(g, Ids, x) <=> <<b, k>> \in CellSet(h, Ids, x)
    <3>1. CASE b # a
      <4>1. g[b] = h[b] BY <3>1, <1>1
      <4> HIDE DEF g
      <4> QED BY <4>1 DEF CellSet
    <3>2. CASE b = a /\ k # i
      <4>1. k <= Len(d) => d[k] = At(old, k) BY <3>2, <2>1
      <4>2. k <= Len(d) /\ d[k] = x <=> k <= Len(old) /\ old[k] = x BY <4>1, <2>1 DEF At
      <4> HIDE DEF g
      <4> QED BY <4>2, <3>2, <1>1 DEF CellSet
    <3> QED BY <3>1, <3>2, <2>5
  <2>6. CellSet(g, Ids, x) \ {c} = CellSet(h, Ids, x) \ {c}
    <3>1. \A e \in CellSet(g, Ids, x) \cup CellSet(h, Ids, x) :
              \E b \in Ids, k \in 1 .. MaxLength : e = <<b, k>> BY DEF CellSet
    <3> HIDE DEF g, c
    <3> QED BY <2>5, <3>1
  <2>7. CellsWith(g, Ids, x) = CellsWith(h, Ids, x)
               - (IF c \in CellSet(h, Ids, x) THEN 1 ELSE 0)
               + (IF c \in CellSet(g, Ids, x) THEN 1 ELSE 0)
    <3> HIDE DEF g, c
    <3> QED BY <2>6, CellsButOne
  <2> HIDE DEF g, c, old
  <2> QED BY <2>3, <2>4, <2>7 DEF Is, old
<1>5. f = g BY DEF WithData
<1> HIDE DEF g
<1> QED BY <1>1, <1>3, <1>4, <1>5

\* The arrays that are freed with one: it, and those only they hold; the others are not all held
\* by them.
LEMMA FreedWithIs ==
    ASSUME NEW h, NEW v \in Ids, \A x \in Ids : h[x].refCount \in Nat
    PROVE  LET F == FreedWith(h, v) IN
           /\ F \in SUBSET Ids /\ v \in F
           /\ \A x \in Ids \ F : CellsWith(h, F, x) \in {0} \union 1 .. h[x].refCount - 1
           /\ \A x \in F : x # v => CellsWith(h, F, x) \notin {0} \union 1 .. h[x].refCount - 1
           /\ \A G \in SUBSET Ids :
                 v \in G /\ (\A x \in Ids \ G : CellsWith(h, G, x) \in {0} \union 1 .. h[x].refCount - 1)
                     => F \subseteq G
<1> DEFINE F == FreedWith(h, v)
           Low(G, x) == CellsWith(h, G, x) \in {0} \union 1 .. h[x].refCount - 1
           Closed(G) == G \in SUBSET Ids /\ v \in G /\ \A x \in Ids \ G : Low(G, x)
<1>0. {G \union {v} : G \in SUBSET (Ids \ {v})} = {G \in SUBSET Ids : v \in G}
  <2>1. ASSUME NEW G \in SUBSET Ids, v \in G
        PROVE  \E K \in SUBSET (Ids \ {v}) : G = K \union {v}
    <3>1. G \ {v} \in SUBSET (Ids \ {v}) /\ G = (G \ {v}) \union {v} BY <2>1
    <3> QED BY <3>1
  <2> QED BY <2>1
<1>1. \A x : x \in F <=> x \in Ids /\ \A G : Closed(G) => x \in G BY <1>0 DEF FreedWith
<1>2. ASSUME NEW G \in SUBSET Ids, NEW K \in SUBSET G, NEW x \in Ids, Low(G, x) PROVE Low(K, x)
  <2>1. K \in SUBSET Ids OBVIOUS
  <2>2. CellsWith(h, K, x) \in Nat /\ CellsWith(h, G, x) \in Nat BY <2>1, CellsFinite
  <2>3. CellsWith(h, K, x) <= CellsWith(h, G, x) BY CellsLess
  <2>4. CellsWith(h, G, x) = 0 => CellsWith(h, K, x) = 0 BY <2>2, <2>3
  <2>5. ASSUME CellsWith(h, G, x) \in 1 .. h[x].refCount - 1, CellsWith(h, K, x) # 0
        PROVE  CellsWith(h, K, x) \in 1 .. h[x].refCount - 1
    <3> DEFINE p == CellsWith(h, K, x)
               q == CellsWith(h, G, x)
               r == h[x].refCount - 1
    <3>1. p \in Nat /\ q \in 1 .. r /\ p <= q /\ p # 0 BY <2>2, <2>3, <2>5
    <3> HIDE DEF p, q, r
    <3>2. r \in Int BY DEF r
    <3>3. p \in 1 .. r BY <3>1, <3>2
    <3> QED BY <3>3 DEF p, r
  <2> QED BY <2>4, <2>5, <1>2
<1> HIDE DEF F
<1>3. F \in SUBSET Ids /\ v \in F BY <1>1
<1>4. ASSUME NEW x \in Ids \ F PROVE Low(F, x)
  <2>1. PICK G : Closed(G) /\ x \notin G BY <1>1
  <2>2. F \in SUBSET G BY <2>1, <1>1
  <2>3. Low(G, x) /\ G \in SUBSET Ids BY <2>1
  <2> HIDE DEF Low
  <2> QED BY <1>2, <2>2, <2>3
<1>5. ASSUME NEW x \in F, x # v, Low(F, x) PROVE FALSE
  <2> DEFINE G == F \ {x}
  <2>1. G \in SUBSET F /\ G \in SUBSET Ids /\ v \in G BY <1>3, <1>5
  <2>2. \A y \in Ids \ G : Low(F, y) BY <1>4, <1>5
  <2> HIDE DEF Low, G
  <2>3. \A y \in Ids \ G : Low(G, y) BY <1>2, <1>3, <2>1, <2>2
  <2>4. Closed(G) BY <2>1, <2>3
  <2> HIDE DEF Closed
  <2>5. x \in G BY <2>4, <1>1, <1>5
  <2> QED BY <2>5 DEF G
<1>6. \A G : Closed(G) => F \subseteq G BY <1>1
<1> QED BY <1>3, <1>4, <1>5, <1>6 DEF F

\* Releasing a reference frees arrays and counts down others, and nothing else.
LEMMA ReleaseKeeps ==
    ASSUME NEW h, HeapOK(h), NEW v, v \in Ids => h[v].refCount > 0
    PROVE  /\ HeapOK(Release(h, v))
           /\ Survives(Release(h, v), h) \/ Release(h, v) = h
<1> DEFINE g == Release(h, v)
<1>0. h \in [Ids -> Array] BY DEF HeapOK
<1>1. CASE v \notin Ids BY <1>1 DEF Release
<1>2. CASE v \in Ids /\ h[v].refCount > 1
  <2>1. g = [h EXCEPT ![v].refCount = @ - 1] BY <1>2 DEF Release
  <2>2. ASSUME NEW x \in Ids
        PROVE  /\ g[x] \in [refCount : Nat, owner : Owners, data : Seq(Values)]
               /\ Kept(g, h, x) /\ (g[x].refCount = 0 => h[x].refCount = 0)
               /\ (g[x].refCount > 0 => h[x].refCount > 0)
    <3>1. h[x] \in [refCount : Nat, owner : Owners, data : Seq(Values)] BY <1>0 DEF Array
    <3>2. g[x] = IF x = v THEN [h[x] EXCEPT !.refCount = @ - 1] ELSE h[x] BY <2>1, <1>0
    <3> HIDE DEF g
    <3>3. CASE x = v
      <4>1. g[x].refCount = h[x].refCount - 1 /\ h[x].refCount \in Nat /\ h[x].refCount > 1
        BY <3>1, <3>2, <3>3, <1>2
      <4>2. g[x].refCount \in Nat /\ g[x].refCount # 0 BY <4>1
      <4> QED BY <3>1, <3>2, <3>3, <4>1, <4>2 DEF Kept
    <3>4. CASE x # v BY <3>1, <3>2, <3>4 DEF Kept
    <3> QED BY <3>3, <3>4
  <2>3. g \in [Ids -> [refCount : Nat, owner : Owners, data : Seq(Values)]]
    <3>1. DOMAIN g = Ids /\ g = [x \in Ids |-> g[x]] BY <2>1, <1>0
    <3> HIDE DEF g
    <3> QED BY <2>2, <3>1
  <2>4. \A x \in Ids : Len(g[x].data) <= MaxLength BY <2>2, HeapFields DEF Kept
  <2>5. \A x \in Ids : g[x].refCount = 0 => g[x].owner = NoOwner /\ g[x].data = <<>>
    <3>1. \A x \in Ids : h[x].refCount = 0 => h[x].owner = NoOwner /\ h[x].data = <<>>
      BY HeapFields DEF Freed
    <3> HIDE DEF g
    <3> QED BY <2>2, <3>1 DEF Kept
  <2> HIDE DEF g
  <2>6. HeapOK(g) BY <2>3, <2>4, <2>5, HeapFrom
  <2>7. ASSUME NEW x \in Ids, g[x] # Freed
        PROVE  Kept(g, h, x) /\ g[x].refCount > 0 /\ h[x].refCount > 0
    <3>1. g[x].refCount \in Nat /\ g[x].refCount # 0 BY <2>6, <2>7, HeapFields
    <3>2. g[x].refCount > 0 BY <3>1
    <3> QED BY <3>2, <2>2
  <2> QED BY <2>6, <2>7 DEF Survives, g
<1>3. CASE v \in Ids /\ ~ (h[v].refCount > 1)
  <2> DEFINE F == FreedWith(h, v)
  <2>1. g = [x \in Ids |-> IF x \in F THEN Freed
                          ELSE [h[x] EXCEPT !.refCount = @ - CellsWith(h, F, x)]]
    BY <1>3 DEF Release
  <2>2. /\ F \in SUBSET Ids /\ v \in F
        /\ \A x \in Ids \ F : CellsWith(h, F, x) \in {0} \union 1 .. h[x].refCount - 1
    BY <1>3, FreedWithIs, HeapFields
  <2> HIDE DEF F, g
  <2>3. ASSUME NEW x \in Ids
        PROVE  /\ g[x] \in [refCount : Nat, owner : Owners, data : Seq(Values)]
               /\ g[x] = Freed \/ (Kept(g, h, x) /\ (g[x].refCount > 0 <=> h[x].refCount > 0))
               /\ (g[x].refCount = 0 => g[x] = Freed)
    <3>1. CASE x \in F
      <4>1. g[x] = Freed BY <2>1, <3>1
      <4> QED BY <4>1, FreedIs DEF Array
    <3>2. CASE x \notin F
      <4>1. h[x] \in [refCount : Nat, owner : Owners, data : Seq(Values)] BY <1>0 DEF Array
      <4>2. g[x] = [h[x] EXCEPT !.refCount = @ - CellsWith(h, F, x)] BY <2>1, <3>2
      <4>3. CellsWith(h, F, x) \in {0} \union 1 .. h[x].refCount - 1 BY <2>2, <3>2
      <4> DEFINE c == CellsWith(h, F, x)
                 r == h[x].refCount
      <4> HIDE DEF c
      <4>4. g[x].refCount = r - c /\ Kept(g, h, x) BY <4>1, <4>2 DEF Kept, c
      <4>5. r \in Nat /\ (r = 0 => h[x] = Freed) BY <4>1, HeapFields
      <4>6. r - c \in Nat /\ (r - c = 0 <=> r = 0) /\ (r - c > 0 <=> r > 0) /\ (r = 0 => c = 0)
        BY <4>3, <4>5 DEF c
      <4>7. g[x] \in [refCount : Nat, owner : Owners, data : Seq(Values)]
        BY <4>1, <4>2, <4>6 DEF c
      <4>8. r = 0 => g[x] = h[x]
        <5> SUFFICES ASSUME r = 0 PROVE g[x] = h[x] OBVIOUS
        <5>1. g[x].refCount = h[x].refCount BY <4>4, <4>6
        <5>2. g[x] = [refCount |-> g[x].refCount, owner |-> g[x].owner, data |-> g[x].data]
          BY <4>7
        <5>3. h[x] = [refCount |-> h[x].refCount, owner |-> h[x].owner, data |-> h[x].data]
          BY <4>1
        <5> QED BY <5>1, <5>2, <5>3, <4>4 DEF Kept
      <4> QED BY <4>4, <4>5, <4>6, <4>7, <4>8
    <3> QED BY <3>1, <3>2
  <2>4. g \in [Ids -> [refCount : Nat, owner : Owners, data : Seq(Values)]]
    BY <2>1, <2>3
  <2>5. \A x \in Ids : Len(g[x].data) <= MaxLength
    <3>1. \A x \in Ids : Len(h[x].data) <= MaxLength BY HeapFields
    <3>2. Len(Freed.data) <= MaxLength BY FreedIs, Bounds
    <3> QED BY <2>3, <3>1, <3>2 DEF Kept
  <2>6. \A x \in Ids : g[x].refCount = 0 => g[x].owner = NoOwner /\ g[x].data = <<>>
    BY <2>3 DEF Freed
  <2>7. HeapOK(g) BY <2>4, <2>5, <2>6, HeapFrom
  <2>8. ASSUME NEW x \in Ids, g[x] # Freed
        PROVE  Kept(g, h, x) /\ g[x].refCount > 0 /\ h[x].refCount > 0
    <3>1. g[x].refCount \in Nat /\ g[x].refCount # 0 BY <2>3, <2>8
    <3>2. g[x].refCount > 0 BY <3>1
    <3> QED BY <3>2, <2>3, <2>8
  <2> QED BY <2>7, <2>8 DEF Survives, g
<1> QED BY <1>1, <1>2, <1>3

\* A reference that is released is one less of those held outside of cells.
LEMMA ReleaseIs ==
    ASSUME NEW h, HeapOK(h), NEW v, NEW n \in [Ids -> Nat], Ledger(h, Plus(n, v))
    PROVE  /\ HeapOK(Release(h, v)) /\ Ledger(Release(h, v), n)
           /\ Survives(Release(h, v), h) \/ Release(h, v) = h
<1> DEFINE g == Release(h, v)
           All(x) == CellsWith(h, Ids, x)
<1>0. h \in [Ids -> Array] BY DEF HeapOK
<1>1. ASSUME NEW x \in Ids
      PROVE  /\ h[x].refCount = n[x] + Is(v, x) + All(x)
             /\ n[x] \in Nat /\ Is(v, x) \in {0, 1} /\ All(x) \in Nat
  BY CellsFinite DEF Ledger, Plus, Is
<1>2. v \in Ids => h[v].refCount > 0
  <2> SUFFICES ASSUME v \in Ids PROVE h[v].refCount > 0 OBVIOUS
  <2>1. Is(v, v) = 1 BY DEF Is
  <2> HIDE DEF All
  <2> QED BY <2>1, <1>1
<1>3. HeapOK(g) /\ (Survives(g, h) \/ g = h) BY <1>2, ReleaseKeeps
<1>4. CASE v \notin Ids
  <2>1. g = h BY <1>4 DEF Release
  <2>2. \A x \in Ids : Is(v, x) = 0 BY <1>4 DEF Is
  <2>3. ASSUME NEW x \in Ids PROVE h[x].refCount = n[x] + All(x)
    <3> HIDE DEF All
    <3> QED BY <2>2, <1>1
  <2> QED BY <2>1, <2>3, <1>3 DEF Ledger
<1>5. CASE v \in Ids /\ h[v].refCount > 1
  <2>1. g = [h EXCEPT ![v].refCount = @ - 1] BY <1>5 DEF Release
  <2>2. \A x \in Ids : /\ g[x].data = h[x].data
                       /\ g[x].refCount = IF x = v THEN h[x].refCount - 1 ELSE h[x].refCount
    BY <2>1, <1>0 DEF Array
  <2> HIDE DEF g
  <2>3. ASSUME NEW x \in Ids PROVE g[x].refCount = n[x] + CellsWith(g, Ids, x)
    <3>1. CellsWith(g, Ids, x) = All(x) BY <2>2, CellsAgree
    <3> HIDE DEF All
    <3> QED BY <3>1, <2>2, <1>1 DEF Is
  <2> QED BY <2>3, <1>3 DEF Ledger, g
<1>6. CASE v \in Ids /\ ~ (h[v].refCount > 1)
  <2> DEFINE F == FreedWith(h, v)
             Low(x) == CellsWith(h, F, x)
  <2>1. g = [x \in Ids |-> IF x \in F THEN Freed
                          ELSE [h[x] EXCEPT !.refCount = @ - CellsWith(h, F, x)]]
    BY <1>6 DEF Release
  <2>2. /\ F \in SUBSET Ids /\ v \in F
        /\ \A x \in F : x # v => Low(x) \notin {0} \union 1 .. h[x].refCount - 1
    BY <1>6, FreedWithIs, HeapFields
  <2>3. ASSUME NEW x \in Ids
        PROVE  /\ CellsWith(g, Ids, x) = All(x) - Low(x)
               /\ Low(x) \in Nat /\ Low(x) <= All(x)
    <3> HIDE DEF F
    <3>1. CellsWith(h, Ids, x) = Low(x) + CellsWith(h, Ids \ F, x) BY <2>2, CellsSplit
    <3>2. CellsWith(g, Ids, x) = CellsWith(g, F, x) + CellsWith(g, Ids \ F, x) BY <2>2, CellsSplit
    <3>3. \A a \in F : g[a].data = <<>>
      <4>1. \A a \in F : g[a] = Freed BY <2>1, <2>2
      <4> HIDE DEF g
      <4> QED BY <4>1, FreedIs
    <3>4. \A a \in Ids \ F : g[a].data = h[a].data
      <4>1. \A a \in Ids \ F : g[a] = [h[a] EXCEPT !.refCount = @ - CellsWith(h, F, a)]
        BY <2>1
      <4>2. \A a \in Ids : h[a] \in [refCount : Nat, owner : Owners, data : Seq(Values)]
        BY <1>0 DEF Array
      <4> HIDE DEF g
      <4> QED BY <4>1, <4>2
    <3> HIDE DEF g
    <3>5. CellsWith(g, F, x) = 0 BY <3>3, <2>2, CellsNone
    <3>6. Ids \ F \in SUBSET Ids OBVIOUS
    <3>7. CellsWith(g, Ids \ F, x) = CellsWith(h, Ids \ F, x) BY <3>4, <3>6, CellsAgree
    <3>8. Low(x) \in Nat /\ CellsWith(h, Ids \ F, x) \in Nat BY <2>2, <3>6, CellsFinite
    <3> QED BY <3>1, <3>2, <3>5, <3>7, <3>8
  <2>4. ASSUME NEW x \in Ids PROVE g[x].refCount = n[x] + (All(x) - Low(x))
    <3>1. CASE x \notin F
      <4>1. g[x].refCount = h[x].refCount - Low(x) BY <2>1, <1>0, <3>1 DEF Array
      <4>2. Is(v, x) = 0 BY <2>2, <3>1 DEF Is
      <4> HIDE DEF g, All, Low
      <4> QED BY <4>1, <4>2, <1>1, <2>3
    <3>2. CASE x \in F
      <4>1. g[x].refCount = 0 BY <2>1, <3>2 DEF Freed
      <4>2. CASE x = v
        <5>1. Is(v, x) = 1 BY <4>2 DEF Is
        <5> HIDE DEF g, All, Low
        <5>2. h[x].refCount = n[x] + 1 + All(x) /\ ~ (h[x].refCount > 1) BY <5>1, <1>1, <1>6, <4>2
        <5>3. n[x] = 0 /\ All(x) = 0 BY <5>2, <1>1
        <5> QED BY <5>3, <4>1, <2>3
      <4>3. CASE x # v
        <5>1. Is(v, x) = 0 BY <4>3 DEF Is
        <5>2. Low(x) \notin {0} \union 1 .. h[x].refCount - 1 BY <2>2, <3>2, <4>3
        <5> DEFINE l == Low(x)
                   r == h[x].refCount
        <5> HIDE DEF g, All, Low
        <5>3. l \in Nat /\ l <= All(x) /\ r = n[x] + All(x) /\ l \notin {0} \union 1 .. r - 1
          BY <5>1, <5>2, <1>1, <2>3
        <5>4. l >= r BY <5>3, <1>1
        <5>5. n[x] = 0 /\ l = All(x) BY <5>3, <5>4, <1>1
        <5> QED BY <5>5, <4>1, <1>1
      <4> QED BY <4>2, <4>3
    <3> QED BY <3>1, <3>2
  <2>5. Ledger(g, n)
    <3> HIDE DEF g
    <3> QED BY <2>3, <2>4 DEF Ledger
  <2> QED BY <2>5, <1>3
<1> QED BY <1>4, <1>5, <1>6

-----------------------------------------------------------------------------
(* New arrays.                                                                *)

\* There is room for two more arrays, and for one.
RoomForTwo(h) == Cardinality(Named(h)) <= MaxArrays
Room(h) == Cardinality(Named(h)) <= MaxArrays + 1

LEMMA NamedFinite ==
    ASSUME NEW h
    PROVE  Named(h) \subseteq Ids /\ IsFiniteSet(Named(h)) /\ Cardinality(Named(h)) \in Nat
<1>1. Named(h) \in SUBSET Ids BY DEF Named
<1> HIDE DEF Named
<1> QED BY <1>1, Bounds, FS_Subset, FS_CardinalityType

LEMMA RoomStays ==
    ASSUME NEW h, NEW g
    PROVE  /\ RoomForTwo(h) => Room(h)
           /\ Named(g) \subseteq Named(h) /\ RoomForTwo(h) => RoomForTwo(g)
           /\ Named(g) \subseteq Named(h) /\ Room(h) => Room(g)
           /\ \A r : Named(g) \subseteq Named(h) \union {r} /\ RoomForTwo(h) => Room(g)
<1>1. /\ IsFiniteSet(Named(h)) /\ Cardinality(Named(h)) \in Nat
      /\ Cardinality(Named(g)) \in Nat /\ MaxArrays \in Nat
  BY NamedFinite, Bounds
<1>2. ASSUME Named(g) \subseteq Named(h)
      PROVE  Cardinality(Named(g)) <= Cardinality(Named(h))
  <2>1. Named(g) \in SUBSET Named(h) BY <1>2
  <2> QED BY <1>1, <2>1, FS_Subset
<1>3. ASSUME NEW r, Named(g) \subseteq Named(h) \union {r}
      PROVE  Cardinality(Named(g)) <= Cardinality(Named(h)) + 1
  <2> DEFINE B == Named(h) \union {r}
  <2>1. IsFiniteSet(B) /\ Cardinality(B) \in Nat /\ Cardinality(B) <= Cardinality(Named(h)) + 1
    <3>1. IsFiniteSet(B) /\ Cardinality(B) = IF r \in Named(h) THEN Cardinality(Named(h))
                                             ELSE Cardinality(Named(h)) + 1
      BY <1>1, FS_AddElement
    <3> HIDE DEF B
    <3> QED BY <3>1, <1>1
  <2>2. Named(g) \in SUBSET B BY <1>3
  <2> HIDE DEF B
  <2>3. Cardinality(Named(g)) <= Cardinality(B) BY <2>1, <2>2, FS_Subset
  <2> QED BY <1>1, <2>1, <2>3
<1>4. RoomForTwo(h) => Room(h) BY <1>1 DEF RoomForTwo, Room
<1>5. Named(g) \subseteq Named(h) /\ RoomForTwo(h) => RoomForTwo(g) BY <1>1, <1>2 DEF RoomForTwo
<1>6. Named(g) \subseteq Named(h) /\ Room(h) => Room(g) BY <1>1, <1>2 DEF Room
<1>7. \A r : Named(g) \subseteq Named(h) \union {r} /\ RoomForTwo(h) => Room(g)
  BY <1>1, <1>3 DEF Room, RoomForTwo
<1> QED BY <1>4, <1>5, <1>6, <1>7

LEMMA NextIdIs ==
    ASSUME NEW h, HeapOK(h), Room(h)
    PROVE  NextId(h) \in Ids \ Named(h) /\ h[NextId(h)].refCount = 0 /\ h[NextId(h)] = Freed
<1>1. \E id \in Ids : id \notin Named(h)
  <2>1. SUFFICES ASSUME Ids \subseteq Named(h) PROVE FALSE OBVIOUS
  <2>2. Named(h) = Ids BY <2>1, NamedFinite
  <2>3. MaxArrays + 2 <= MaxArrays + 1 BY <2>2, Bounds DEF Room
  <2> QED BY <2>3, Bounds
<1>2. NextId(h) \in Ids /\ NextId(h) \notin Named(h) BY <1>1, Zenon DEF NextId
<1>3. ~ (h[NextId(h)].refCount > 0) BY <1>2 DEF Named
<1>4. h[NextId(h)].refCount \in Nat BY <1>2, HeapFields
<1>5. h[NextId(h)].refCount = 0 BY <1>3, <1>4
<1> QED BY <1>2, <1>5, HeapFields

\* A freed array is not held by any cell.
LEMMA DeadIsFree ==
    ASSUME NEW h, HeapOK(h), NEW n \in [Ids -> Nat], Ledger(h, n), NEW x \in Ids, NEW A \in SUBSET Ids
    PROVE  /\ CellsWith(h, A, x) \in Nat /\ CellsWith(h, A, x) <= h[x].refCount
           /\ n[x] <= h[x].refCount /\ h[x].refCount \in Nat
<1>1. h[x].refCount = n[x] + CellsWith(h, Ids, x) BY DEF Ledger
<1>2. CellsWith(h, A, x) \in Nat /\ CellsWith(h, Ids, x) \in Nat /\ n[x] \in Nat BY CellsFinite
<1>3. CellsWith(h, A, x) <= CellsWith(h, Ids, x) BY CellsLess
<1> QED BY <1>1, <1>2, <1>3

LEMMA CreateIs ==
    ASSUME NEW h, HeapOK(h), Room(h), NEW owner \in Owners,
           NEW data \in Seq(Values), Len(data) <= MaxLength, NEW c, c = Create(h, owner, data)
    PROVE  /\ c.ref \in Ids \ Named(h) /\ h[c.ref] = Freed /\ HeapOK(c.h)
           /\ c.h[c.ref].refCount = 1 /\ c.h[c.ref].owner = owner /\ c.h[c.ref].data = data
           /\ \A x \in Ids : x # c.ref => c.h[x] = h[x]
           /\ \A x \in Ids : CellsWith(c.h, Ids, x) = CellsWith(h, Ids, x) + Inside(c.h, c.ref, x)
<1> DEFINE id == NextId(h)
           g == [h EXCEPT ![id] = [refCount |-> 1, owner |-> owner, data |-> data]]
<1>1. c.ref = id /\ c.h = g BY DEF Create
<1>2. id \in Ids \ Named(h) /\ h[id] = Freed BY NextIdIs
<1>3. h \in [Ids -> Array] BY DEF HeapOK
<1> HIDE DEF id
<1>4. /\ g \in [Ids -> [refCount : Nat, owner : Owners, data : Seq(Values)]]
      /\ g[id] = [refCount |-> 1, owner |-> owner, data |-> data]
      /\ \A x \in Ids : x # id => g[x] = h[x]
  BY <1>2, <1>3 DEF Array
<1>5. g[id].refCount = 1 /\ g[id].owner = owner /\ g[id].data = data BY <1>4
<1> HIDE DEF g
<1>6. \A x \in Ids : Len(g[x].data) <= MaxLength
  <2>1. \A x \in Ids : Len(h[x].data) <= MaxLength BY DEF HeapOK
  <2> QED BY <2>1, <1>4, <1>5
<1>7. \A x \in Ids : g[x].refCount = 0 => g[x].owner = NoOwner /\ g[x].data = <<>>
  <2>1. \A x \in Ids : h[x].refCount = 0 => h[x].owner = NoOwner /\ h[x].data = <<>>
    BY HeapFields DEF Freed
  <2> QED BY <1>4, <1>5, <2>1
<1>8. HeapOK(g) BY <1>4, <1>6, <1>7, HeapFrom
<1>9. ASSUME NEW x \in Ids
      PROVE  CellsWith(g, Ids, x) = CellsWith(h, Ids, x) + Inside(g, id, x)
  <2>1. {id} \in SUBSET Ids /\ Ids \ {id} \in SUBSET Ids BY <1>2
  <2>2. CellsWith(g, Ids, x) = Inside(g, id, x) + CellsWith(g, Ids \ {id}, x)
    BY <1>2, InsideIs
  <2>3. CellsWith(h, Ids, x) = Inside(h, id, x) + CellsWith(h, Ids \ {id}, x)
    BY <1>2, InsideIs
  <2>4. CellsWith(g, Ids \ {id}, x) = CellsWith(h, Ids \ {id}, x)
    <3>1. \A b \in Ids \ {id} : g[b].data = h[b].data BY <1>4
    <3> QED BY <2>1, <3>1, CellsAgree
  <2>5. Inside(h, id, x) = 0
    <3>1. \A b \in {id} : h[b].data = <<>> BY <1>2, FreedIs
    <3> QED BY <2>1, <3>1, CellsNone DEF Inside
  <2>6. Inside(g, id, x) \in Nat /\ CellsWith(h, Ids \ {id}, x) \in Nat
    BY <1>2, <2>1, CellsFinite, InsideIs
  <2> QED BY <2>2, <2>3, <2>4, <2>5, <2>6
<1> QED BY <1>1, <1>2, <1>4, <1>5, <1>8, <1>9

\* The array a chain or a variable looks at next: what is known of r, found or made in h for v.
Found(r, h, v, n) ==
    /\ r.ref \in Ids /\ HeapOK(r.h) /\ r.h[r.ref].refCount > 0
    /\ Ledger(r.h, Minus(Plus(n, r.ref), v))
Resolved(r, h, v, n) ==
    /\ Found(r, h, v, n)
    /\ \A x \in Ids : h[x].refCount > 0 /\ (x # v \/ Inside(h, v, v) > 0)
                         => Kept(r.h, h, x) /\ r.h[x].refCount > 0
    /\ \A x \in Named(h) : r.h[x].refCount > 0 => h[x].refCount > 0 /\ r.h[x].owner = h[x].owner
    /\ Named(r.h) \subseteq Named(h) \union {r.ref}

LEMMA RetainCellsIs ==
    ASSUME NEW h, HeapOK(h), NEW a \in Ids, NEW n \in [Ids -> Nat], Ledger(h, n)
    PROVE  LET g == RetainCells(h, a) IN
           /\ HeapOK(g) /\ Named(g) = Named(h)
           /\ \A x \in Ids : /\ Kept(g, h, x)
                             /\ g[x].refCount = h[x].refCount + Inside(h, a, x)
<1> DEFINE g == RetainCells(h, a)
           held(x) == Inside(h, a, x)
<1>0. h \in [Ids -> Array] /\ {a} \in SUBSET Ids BY DEF HeapOK
<1>1. \A x \in Ids : held(x) \in Nat /\ held(x) <= h[x].refCount /\ h[x].refCount \in Nat
  BY <1>0, DeadIsFree DEF Inside
<1>2. g = [x \in Ids |-> [h[x] EXCEPT !.refCount = @ + held(x)]] BY DEF RetainCells, Inside
<1> HIDE DEF g, held
<1>3. ASSUME NEW x \in Ids
      PROVE  /\ Kept(g, h, x) /\ g[x].refCount = h[x].refCount + held(x)
             /\ g[x] \in [refCount : Nat, owner : Owners, data : Seq(Values)]
  <2>1. h[x] \in [refCount : Nat, owner : Owners, data : Seq(Values)] BY <1>0 DEF Array
  <2>2. g[x] = [h[x] EXCEPT !.refCount = @ + held(x)] BY <1>2
  <2>3. held(x) \in Nat BY <1>1
  <2> QED BY <2>1, <2>2, <2>3 DEF Kept
<1>4. g \in [Ids -> [refCount : Nat, owner : Owners, data : Seq(Values)]] BY <1>2, <1>3
<1>5. \A x \in Ids : Len(g[x].data) <= MaxLength BY <1>3, HeapFields DEF Kept
<1>6. ASSUME NEW x \in Ids, g[x].refCount = 0 PROVE g[x].owner = NoOwner /\ g[x].data = <<>>
  <2>1. h[x].refCount = 0 BY <1>1, <1>3, <1>6
  <2>2. h[x] = Freed BY <2>1, HeapFields
  <2> QED BY <2>2, <1>3 DEF Kept, Freed
<1>7. HeapOK(g) BY <1>4, <1>5, <1>6, HeapFrom
<1>8. Named(g) = Named(h)
  <2>1. \A x \in Ids : g[x].refCount > 0 <=> h[x].refCount > 0 BY <1>1, <1>3
  <2> QED BY <2>1 DEF Named
<1> QED BY <1>3, <1>7, <1>8 DEF g, held

\* A fork takes a reference to the original and gives one to the clone; the original is freed
\* if that was its last, and its cells have the clone as their holder.
LEMMA ForkMakes ==
    ASSUME NEW h, HeapOK(h), NEW a \in Ids, h[a].refCount > 0, NEW owner \in Owners,
           NEW n \in [Ids -> Nat], Ledger(h, n), Room(h)
    PROVE  LET r == Fork(h, a, owner) IN
           /\ Resolved(r, h, a, n) /\ r.ref \notin Named(h)
           /\ r.h[r.ref].owner = owner /\ r.h[r.ref].data = h[a].data
           /\ Alters(r.h, h, {r.ref})
<1> DEFINE k == RetainCells(h, a)
           c == Create(k, owner, h[a].data)
           m == c.h
           id == c.ref
           g == Release(m, a)
           held(x) == Inside(h, a, x)
           All(x) == CellsWith(h, Ids, x)
<1>1. Fork(h, a, owner).h = g /\ Fork(h, a, owner).ref = id
  <2>1. Fork(h, a, owner) = [c EXCEPT !.h = Release(@, a)] BY DEF Fork
  <2>2. c = [h |-> m, ref |-> id] BY DEF Create
  <2> HIDE DEF c
  <2> QED BY <2>1, <2>2
<1>2. /\ HeapOK(k) /\ Named(k) = Named(h)
      /\ \A x \in Ids : Kept(k, h, x) /\ k[x].refCount = h[x].refCount + held(x)
  BY RetainCellsIs
<1> HIDE DEF k
<1>3. h[a].data \in Seq(Values) /\ Len(h[a].data) <= MaxLength BY HeapFields DEF HeapOK
<1>4. Room(k) BY <1>2 DEF Room
<1>5. /\ id \in Ids \ Named(k) /\ k[id] = Freed /\ HeapOK(m)
      /\ m[id].refCount = 1 /\ m[id].owner = owner /\ m[id].data = h[a].data
      /\ \A x \in Ids : x # id => m[x] = k[x]
      /\ \A x \in Ids : CellsWith(m, Ids, x) = CellsWith(k, Ids, x) + Inside(m, id, x)
  <2> HIDE DEF m, id
  <2>1. /\ c.ref \in Ids \ Named(k) /\ k[c.ref] = Freed /\ HeapOK(c.h)
        /\ c.h[c.ref].refCount = 1 /\ c.h[c.ref].owner = owner /\ c.h[c.ref].data = h[a].data
        /\ \A x \in Ids : x # c.ref => c.h[x] = k[x]
        /\ \A x \in Ids : CellsWith(c.h, Ids, x) = CellsWith(k, Ids, x) + Inside(c.h, c.ref, x)
    <3> DEFINE d == h[a].data
    <3>1. d \in Seq(Values) /\ Len(d) <= MaxLength BY <1>3
    <3>2. c = Create(k, owner, d) OBVIOUS
    <3> HIDE DEF c, d
    <3>3. /\ c.ref \in Ids \ Named(k) /\ k[c.ref] = Freed /\ HeapOK(c.h)
          /\ c.h[c.ref].refCount = 1 /\ c.h[c.ref].owner = owner /\ c.h[c.ref].data = d
          /\ \A x \in Ids : x # c.ref => c.h[x] = k[x]
          /\ \A x \in Ids : CellsWith(c.h, Ids, x) = CellsWith(k, Ids, x) + Inside(c.h, c.ref, x)
      BY <1>2, <1>4, <3>1, <3>2, CreateIs
    <3> QED BY <3>3 DEF d
  <2> HIDE DEF c
  <2> QED BY <2>1 DEF m, id
<1> HIDE DEF m, id, c
<1>6. a \in Named(h) BY DEF Named
<1>7. id \in Ids /\ a # id /\ m[a].data = h[a].data /\ m[a].owner = h[a].owner
  BY <1>2, <1>5, <1>6 DEF Kept
<1>8. ASSUME NEW x \in Ids
      PROVE  /\ held(x) \in Nat /\ held(x) <= h[x].refCount /\ h[x].refCount \in Nat
             /\ n[x] \in Nat /\ All(x) \in Nat /\ held(x) <= All(x)
             /\ h[x].refCount = n[x] + All(x)
             /\ CellsWith(m, Ids, x) = All(x) + held(x)
             /\ Inside(m, a, x) = held(x)
  <2>1. {a} \in SUBSET Ids /\ Ids \in SUBSET Ids OBVIOUS
  <2>2. held(x) \in Nat /\ held(x) <= h[x].refCount /\ h[x].refCount \in Nat
    BY <2>1, DeadIsFree DEF Inside
  <2>3. All(x) \in Nat /\ held(x) <= All(x) BY <2>1, CellsLess, CellsFinite DEF Inside
  <2>4. CellsWith(k, Ids, x) = All(x)
    <3>1. \A b \in Ids : k[b].data = h[b].data BY <1>2 DEF Kept
    <3> QED BY <3>1, CellsAgree
  <2>5. Inside(m, id, x) = held(x) BY <1>5, <1>7, CellsCopied
  <2>6. Inside(m, a, x) = held(x) BY <1>7, CellsCopied
  <2>7. h[x].refCount = n[x] + All(x) BY DEF Ledger
  <2> HIDE DEF held, All
  <2> QED BY <2>2, <2>3, <2>4, <2>5, <2>6, <2>7, <1>5
<1> HIDE DEF held, All
<1>9. h[id].refCount = 0 /\ held(id) = 0 /\ All(id) = 0 /\ n[id] = 0
  <2>1. id \notin Named(h) BY <1>2, <1>5
  <2>2. ~ (h[id].refCount > 0) BY <2>1, <1>7 DEF Named
  <2> QED BY <2>2, <1>7, <1>8
\* The heap before the original is released.
<1>10. ASSUME NEW x \in Ids
       PROVE  /\ m[x].refCount = n[x] + Is(id, x) + (All(x) + held(x))
              /\ x # id => Kept(m, h, x) /\ m[x].refCount = h[x].refCount + held(x)
  <2>1. CASE x = id BY <2>1, <1>5, <1>9 DEF Is
  <2>2. CASE x # id
    <3>1. m[x] = k[x] BY <2>2, <1>5
    <3>2. m[x].refCount = h[x].refCount + held(x) /\ Kept(m, h, x) BY <3>1, <1>2 DEF Kept
    <3>3. Is(id, x) = 0 BY <2>2 DEF Is
    <3> QED BY <3>2, <3>3, <1>8
  <2> QED BY <2>1, <2>2
<1>11. m[a].refCount > 0 /\ m[a].refCount \in Nat BY <1>7, <1>8, <1>10
<1>12. HeapOK(g) BY <1>5, <1>11, ReleaseKeeps
<1>13. /\ Ledger(g, Minus(Plus(n, id), a))
       /\ \A x \in Ids : x # a => /\ Kept(g, m, x) /\ (g[x].refCount > 0 <=> m[x].refCount > 0)
                                  /\ (x # id => g[x].refCount >= h[x].refCount)
       /\ g[id].refCount = 1
       /\ g[a].refCount > 0 => Kept(g, m, a)
       /\ held(a) > 0 => g[a].refCount > 0
  <2>0. m \in [Ids -> [refCount : Nat, owner : Owners, data : Seq(Values)]]
    BY <1>5 DEF HeapOK, Array
  <2>1. CASE m[a].refCount > 1
    <3>1. g = [m EXCEPT ![a].refCount = @ - 1] BY <2>1 DEF Release
    <3>2. ASSUME NEW x \in Ids
          PROVE Kept(g, m, x) /\ g[x].refCount = m[x].refCount - Is(a, x)
      <4>1. g[x] = IF x = a THEN [m[x] EXCEPT !.refCount = @ - 1] ELSE m[x] BY <3>1, <2>0
      <4>2. m[x] \in [refCount : Nat, owner : Owners, data : Seq(Values)] BY <2>0
      <4> HIDE DEF g
      <4> QED BY <4>1, <4>2 DEF Kept, Is
    <3> HIDE DEF g
    <3>3. ASSUME NEW x \in Ids
          PROVE  g[x].refCount = Minus(Plus(n, id), a)[x] + CellsWith(g, Ids, x)
      <4>1. CellsWith(g, Ids, x) = CellsWith(m, Ids, x) BY <3>2, CellsAgree DEF Kept
      <4>2. Minus(Plus(n, id), a)[x] = (n[x] + Is(id, x)) - Is(a, x) BY ReferencesAt
      <4>3. Is(id, x) \in {0, 1} /\ Is(a, x) \in {0, 1} BY DEF Is
      <4> QED BY <4>1, <4>2, <4>3, <3>2, <1>8, <1>10
    <3>4. ASSUME NEW x \in Ids, x # a
          PROVE  /\ Kept(g, m, x) /\ (g[x].refCount > 0 <=> m[x].refCount > 0)
                 /\ (x # id => g[x].refCount >= h[x].refCount)
      <4>1. g[x].refCount = m[x].refCount BY <3>2, <3>4, <2>0 DEF Is
      <4> QED BY <4>1, <3>2, <1>8, <1>10
    <3>5. g[id].refCount = 1 BY <3>2, <1>5, <1>7 DEF Is
    <3>6. g[a].refCount > 0 BY <3>2, <2>1, <1>11 DEF Is
    <3> QED BY <3>2, <3>3, <3>4, <3>5, <3>6 DEF Ledger
  <2>2. CASE ~ (m[a].refCount > 1)
    <3>1. m[a].refCount = 1 /\ held(a) = 0 /\ h[a].refCount = 1
      <4>1. m[a].refCount = h[a].refCount + held(a) BY <1>7, <1>10
      <4>2. h[a].refCount \in Nat /\ held(a) \in Nat /\ held(a) <= h[a].refCount BY <1>8
      <4> QED BY <4>1, <4>2, <2>2
    <3> DEFINE F == FreedWith(m, a)
    <3>2. F = {a}
      <4>1. \A x \in Ids : m[x].refCount \in Nat BY <1>5, HeapFields
      <4>2. /\ a \in F
            /\ \A G \in SUBSET Ids :
                  a \in G /\ (\A x \in Ids \ G : CellsWith(m, G, x) \in {0} \union 1 .. m[x].refCount - 1)
                    => F \subseteq G
        BY <4>1, FreedWithIs
      <4>3. ASSUME NEW x \in Ids \ {a}
            PROVE  Inside(m, a, x) \in {0} \union 1 .. m[x].refCount - 1
        <5>1. Inside(m, a, x) = held(x) /\ held(x) \in Nat BY <1>8
        <5>2. CASE x = id BY <5>1, <5>2, <1>9
        <5>3. CASE x # id
          <6>1. m[x].refCount = h[x].refCount + held(x) BY <5>3, <1>10
          <6>2. held(x) # 0 => held(x) \in 1 .. m[x].refCount - 1 BY <6>1, <1>8
          <6> QED BY <6>2, <5>1
        <5> QED BY <5>2, <5>3
      <4>4. {a} \in SUBSET Ids OBVIOUS
      <4> HIDE DEF F
      <4>5. F \subseteq {a} BY <4>2, <4>3, <4>4 DEF Inside
      <4> QED BY <4>2, <4>5
    <3>3. g = [x \in Ids |-> IF x \in F THEN Freed
                            ELSE [m[x] EXCEPT !.refCount = @ - CellsWith(m, F, x)]]
      BY <2>2 DEF Release
    <3> HIDE DEF F
    <3>4. g[a] = Freed /\ g[a].refCount = 0 BY <3>2, <3>3 DEF Freed
    <3>5. ASSUME NEW x \in Ids, x # a
          PROVE  Kept(g, m, x) /\ g[x].refCount = m[x].refCount - held(x)
      <4>1. g[x] = [m[x] EXCEPT !.refCount = @ - Inside(m, a, x)]
        BY <3>2, <3>3, <3>5 DEF Inside
      <4>2. m[x] \in [refCount : Nat, owner : Owners, data : Seq(Values)] BY <2>0
      <4>3. Inside(m, a, x) = held(x) BY <1>8
      <4> HIDE DEF g
      <4> QED BY <4>1, <4>2, <4>3 DEF Kept
    <3> HIDE DEF g
    <3>6. ASSUME NEW x \in Ids PROVE CellsWith(g, Ids, x) = All(x)
      <4>1. {a} \in SUBSET Ids /\ Ids \ {a} \in SUBSET Ids OBVIOUS
      <4>2. CellsWith(g, Ids, x) = Inside(g, a, x) + CellsWith(g, Ids \ {a}, x)
        BY InsideIs
      <4>3. CellsWith(m, Ids, x) = Inside(m, a, x) + CellsWith(m, Ids \ {a}, x)
        BY InsideIs
      <4>4. CellsWith(g, Ids \ {a}, x) = CellsWith(m, Ids \ {a}, x)
        <5>1. \A b \in Ids \ {a} : g[b].data = m[b].data BY <3>5 DEF Kept
        <5> QED BY <4>1, <5>1, CellsAgree
      <4>5. Inside(g, a, x) = 0
        <5>1. \A b \in {a} : g[b].data = <<>> BY <3>4, FreedIs
        <5> QED BY <4>1, <5>1, CellsNone DEF Inside
      <4>6. CellsWith(m, Ids \ {a}, x) \in Nat BY <4>1, CellsFinite
      <4>7. /\ CellsWith(m, Ids, x) = All(x) + held(x) /\ Inside(m, a, x) = held(x)
            /\ All(x) \in Nat /\ held(x) \in Nat
        BY <1>8
      <4> QED BY <4>2, <4>3, <4>4, <4>5, <4>6, <4>7
    <3>7. ASSUME NEW x \in Ids
          PROVE  g[x].refCount = Minus(Plus(n, id), a)[x] + CellsWith(g, Ids, x)
      <4>1. Minus(Plus(n, id), a)[x] = (n[x] + Is(id, x)) - Is(a, x) BY ReferencesAt
      <4>2. CASE x = a
        <5>1. Is(id, x) = 0 /\ Is(a, x) = 1 BY <4>2, <1>7 DEF Is
        <5>2. h[x].refCount = 1 /\ g[x].refCount = 0 BY <4>2, <3>1, <3>4
        <5> QED BY <5>1, <5>2, <4>1, <3>6, <1>8
      <4>3. CASE x # a
        <5>1. Is(id, x) \in {0, 1} /\ Is(a, x) = 0 BY <4>3 DEF Is
        <5>2. g[x].refCount = m[x].refCount - held(x) BY <4>3, <3>5
        <5> QED BY <5>1, <5>2, <4>1, <3>6, <1>8, <1>10
      <4> QED BY <4>2, <4>3
    <3>8. ASSUME NEW x \in Ids, x # a
          PROVE  /\ (g[x].refCount > 0 <=> m[x].refCount > 0)
                 /\ (x # id => g[x].refCount >= h[x].refCount)
      <4>1. CASE x = id BY <4>1, <3>5, <1>5, <1>7, <1>9
      <4>2. CASE x # id
        <5>1. m[x].refCount = h[x].refCount + held(x) BY <4>2, <1>10
        <5>2. g[x].refCount = m[x].refCount - held(x) BY <3>5, <3>8
        <5> QED BY <5>1, <5>2, <1>8
      <4> QED BY <4>1, <4>2
    <3>9. g[id].refCount = 1 BY <3>5, <1>5, <1>7, <1>9
    <3> QED BY <3>1, <3>4, <3>5, <3>7, <3>8, <3>9 DEF Ledger
  <2> QED BY <2>1, <2>2
<1> HIDE DEF g
<1>14. ASSUME NEW x \in Ids, h[x].refCount > 0, x # a \/ held(a) > 0
       PROVE  Kept(g, h, x) /\ g[x].refCount > 0
  <2>1. x # id BY <1>9, <1>14
  <2>2. Kept(m, h, x) BY <2>1, <1>10
  <2>3. CASE x # a
    <3>1. m[x].refCount > 0 BY <2>1, <1>8, <1>10, <1>14
    <3> QED BY <3>1, <2>2, <2>3, <1>13 DEF Kept
  <2>4. CASE x = a BY <2>2, <2>4, <1>13, <1>14 DEF Kept
  <2> QED BY <2>3, <2>4
<1>15. ASSUME NEW x \in Ids, x # id, g[x].refCount > 0
       PROVE  h[x].refCount > 0 /\ g[x].owner = h[x].owner /\ g[x].data = h[x].data
  <2>1. Kept(m, h, x) BY <1>10, <1>15
  <2>2. Kept(g, m, x)
    <3>1. CASE x = a BY <3>1, <1>13, <1>15
    <3>2. CASE x # a BY <3>2, <1>13
    <3> QED BY <3>1, <3>2
  <2>3. h[x].refCount > 0
    <3>1. CASE x = a BY <3>1
    <3>2. CASE x # a
      <4>1. m[x].refCount > 0 /\ m[x].refCount = h[x].refCount + held(x)
        BY <3>2, <1>10, <1>13, <1>15
      <4> QED BY <4>1, <1>8
    <3> QED BY <3>1, <3>2
  <2> QED BY <2>1, <2>2, <2>3 DEF Kept
<1>16. id \notin Named(h) BY <1>2, <1>5
<1>17. Named(g) \subseteq Named(h) \union {id}
  <2>1. ASSUME NEW x \in Ids, x # id, g[x].refCount > 0 PROVE h[x].refCount > 0 BY <1>15, <2>1
  <2> QED BY <2>1 DEF Named
<1>18. g[id].owner = owner /\ g[id].data = h[a].data BY <1>5, <1>7, <1>13 DEF Kept
<1>19. Named(h) \subseteq Ids BY NamedFinite
<1>20. Resolved([h |-> g, ref |-> id], h, a, n)
  <2>1. 1 > 0 OBVIOUS
  <2> QED BY <2>1, <1>7, <1>12, <1>13, <1>14, <1>15, <1>16, <1>17, <1>19 DEF Resolved, Found, held
<1>21. Fork(h, a, owner) = [h |-> g, ref |-> id]
  <2>1. Fork(h, a, owner) = [c EXCEPT !.h = Release(@, a)] BY DEF Fork, c, k
  <2>2. c = [h |-> m, ref |-> id] BY DEF Create, c, m, id
  <2> QED BY <2>1, <2>2 DEF g
<1>22. Alters(g, h, {id}) BY <1>15 DEF Alters
<1> QED BY <1>16, <1>18, <1>20, <1>21, <1>22

LEMMA ForkIs ==
    ASSUME NEW h, HeapOK(h), NEW a \in Ids, h[a].refCount > 0, NEW owner \in Owners,
           NEW n \in [Ids -> Nat], Ledger(h, n), Room(h)
    PROVE  LET r == Fork(h, a, owner) IN
           /\ Resolved(r, h, a, n) /\ r.ref \notin Named(h)
           /\ r.h[r.ref].owner = owner /\ r.h[r.ref].data = h[a].data
<1> DEFINE r == Fork(h, a, owner)
<1>1. /\ Resolved(r, h, a, n) /\ r.ref \notin Named(h)
      /\ r.h[r.ref].owner = owner /\ r.h[r.ref].data = h[a].data
      /\ Alters(r.h, h, {r.ref})
  BY ForkMakes
<1> HIDE DEF r
<1>2. /\ Resolved(r, h, a, n) /\ r.ref \notin Named(h)
      /\ r.h[r.ref].owner = owner /\ r.h[r.ref].data = h[a].data
  BY <1>1
<1> QED BY <1>2 DEF r

-----------------------------------------------------------------------------
(* What a chain or an assignment finds in a variable or a cell.               *)

\* An array that is there already.
LEMMA InPlaceIs ==
    ASSUME NEW h, HeapOK(h), NEW v \in Ids, h[v].refCount > 0,
           NEW n \in [Ids -> Nat], Ledger(h, n), NEW r, r = [h |-> h, ref |-> v]
    PROVE  Resolved(r, h, v, n)
<1>1. r.h = h /\ r.ref = v OBVIOUS
<1>2. Ledger(h, Minus(Plus(n, v), v))
  <2>1. ASSUME NEW x \in Ids PROVE Minus(Plus(n, v), v)[x] = n[x]
    <3>1. Minus(Plus(n, v), v)[x] = (n[x] + Is(v, x)) - Is(v, x) BY ReferencesAt
    <3>2. n[x] \in Nat /\ Is(v, x) \in {0, 1} BY DEF Is
    <3> QED BY <3>1, <3>2
  <2> QED BY <2>1 DEF Ledger
<1>3. Named(h) \subseteq Named(h) \union {v} OBVIOUS
<1>4. \A x \in Ids : Kept(h, h, x) BY DEF Kept
<1>5. Named(h) \subseteq Ids BY NamedFinite
<1>6. \A x \in Named(h) : h[x].refCount > 0 => h[x].refCount > 0 /\ h[x].owner = h[x].owner OBVIOUS
<1> QED BY <1>1, <1>2, <1>3, <1>4, <1>6 DEF Resolved, Found

\* An array that is made where there was none.
LEMMA MadeIs ==
    ASSUME NEW h, HeapOK(h), NEW v, v \notin Ids, NEW owner \in Owners, Room(h),
           NEW n \in [Ids -> Nat], Ledger(h, n), NEW r, r = Create(h, owner, <<>>)
    PROVE  Resolved(r, h, v, n) /\ r.h[r.ref].owner = owner /\ r.ref \notin Named(h)
<1> DEFINE d == <<>>
<1>1. d \in Seq(Values) /\ Len(d) <= MaxLength /\ d = <<>> /\ r = Create(h, owner, d)
  <2>1. <<>> \in Seq(Values) /\ Len(<<>>) = 0 BY EmptySeq
  <2>2. MaxLength \in Nat BY Bounds
  <2> QED BY <2>1, <2>2
<1> HIDE DEF d
<1>2. /\ r.ref \in Ids \ Named(h) /\ h[r.ref] = Freed /\ HeapOK(r.h)
      /\ r.h[r.ref].refCount = 1 /\ r.h[r.ref].owner = owner /\ r.h[r.ref].data = d
      /\ \A x \in Ids : x # r.ref => r.h[x] = h[x]
      /\ \A x \in Ids : CellsWith(r.h, Ids, x) = CellsWith(h, Ids, x) + Inside(r.h, r.ref, x)
  <2>1. d \in Seq(Values) /\ Len(d) <= MaxLength BY <1>1
  <2>2. r = Create(h, owner, d) BY <1>1
  <2> QED BY <2>1, <2>2, CreateIs
<1>3. h[r.ref].refCount = 0 BY <1>2, FreedIs
<1>4. \A x \in Ids : Inside(r.h, r.ref, x) = 0
  <2>1. {r.ref} \in SUBSET Ids BY <1>2
  <2>2. \A b \in {r.ref} : r.h[b].data = <<>> BY <1>1, <1>2
  <2> QED BY <2>1, <2>2, CellsNone DEF Inside
<1>5. Ledger(r.h, Minus(Plus(n, r.ref), v))
  <2> SUFFICES ASSUME NEW x \in Ids
               PROVE  r.h[x].refCount = Minus(Plus(n, r.ref), v)[x] + CellsWith(r.h, Ids, x)
    BY DEF Ledger
  <2>1. Minus(Plus(n, r.ref), v)[x] = (n[x] + Is(r.ref, x)) - Is(v, x) BY ReferencesAt
  <2>2. Is(v, x) = 0 /\ n[x] \in Nat BY DEF Is
  <2>3. h[x].refCount = n[x] + CellsWith(h, Ids, x) BY DEF Ledger
  <2>4. CellsWith(r.h, Ids, x) = CellsWith(h, Ids, x) + Inside(r.h, r.ref, x) BY <1>2
  <2>5. CellsWith(h, Ids, x) \in Nat /\ Inside(r.h, r.ref, x) = 0 BY <1>4, CellsFinite
  <2>6. CASE x = r.ref
    <3>1. r.h[x].refCount = 1 /\ h[x].refCount = 0 BY <2>6, <1>2, <1>3
    <3>2. Is(r.ref, x) = 1 BY <2>6 DEF Is
    <3> DEFINE c == CellsWith(h, Ids, x)
               e == CellsWith(r.h, Ids, x)
               q == Minus(Plus(n, r.ref), v)[x]
    <3>3. q = (n[x] + 1) - 0 /\ e = c + 0 /\ c \in Nat /\ 0 = n[x] + c
      BY <3>1, <3>2, <2>1, <2>2, <2>3, <2>4, <2>5
    <3> HIDE DEF c, e, q
    <3>4. r.h[x].refCount = q + e BY <3>1, <3>3, <2>2
    <3> QED BY <3>4 DEF c, e, q
  <2>7. CASE x # r.ref
    <3>1. r.h[x] = h[x] BY <2>7, <1>2
    <3>2. Is(r.ref, x) = 0 BY <2>7 DEF Is
    <3>3. r.h[x].refCount = h[x].refCount BY <3>1
    <3> DEFINE c == CellsWith(h, Ids, x)
               e == CellsWith(r.h, Ids, x)
               q == Minus(Plus(n, r.ref), v)[x]
    <3>4. q = (n[x] + 0) - 0 /\ e = c + 0 /\ c \in Nat /\ h[x].refCount = n[x] + c
      BY <3>2, <2>1, <2>2, <2>3, <2>4, <2>5
    <3> HIDE DEF c, e, q
    <3>5. r.h[x].refCount = q + e BY <3>3, <3>4, <2>2
    <3> QED BY <3>5 DEF c, e, q
  <2> QED BY <2>6, <2>7
<1>6. \A x \in Ids : h[x].refCount > 0 => Kept(r.h, h, x) /\ r.h[x].refCount > 0
  BY <1>2, <1>3 DEF Kept
<1>7. \A x \in Named(h) : r.h[x].refCount > 0 => h[x].refCount > 0 /\ r.h[x].owner = h[x].owner
  BY <1>2, NamedFinite
<1>8. Named(r.h) \subseteq Named(h) \union {r.ref}
  <2>1. \A x \in Ids : x # r.ref => r.h[x].refCount = h[x].refCount BY <1>2
  <2> QED BY <2>1 DEF Named
<1>9. r.h[r.ref].refCount > 0 BY <1>2
<1> QED BY <1>2, <1>5, <1>6, <1>7, <1>8, <1>9 DEF Resolved, Found

LEMMA ResolveIs ==
    ASSUME NEW h, HeapOK(h), NEW v \in Values, v \in Ids => h[v].refCount > 0,
           NEW owner \in Owners, currentArrayOwner \in Owners, NEW forWrite \in BOOLEAN, Room(h),
           NEW n \in [Ids -> Nat], Ledger(h, n), NEW r, r = Resolve(h, v, owner, forWrite)
    PROVE  /\ Resolved(r, h, v, n)
           /\ forWrite => r.h[r.ref].owner \in {owner, currentArrayOwner}
           /\ forWrite /\ v \in Ids => r.h[r.ref].owner = currentArrayOwner
<1>1. CASE v \notin Ids
  <2>1. r = Create(h, owner, <<>>) BY <1>1 DEF Resolve
  <2>2. Resolved(r, h, v, n) /\ r.h[r.ref].owner = owner BY <2>1, <1>1, MadeIs
  <2> QED BY <2>2, <1>1
<1>2. CASE v \in Ids /\ (~ forWrite \/ h[v].owner = currentArrayOwner)
  <2>1. r = [h |-> h, ref |-> v] BY <1>2 DEF Resolve, CowFork
  <2>2. Resolved(r, h, v, n) BY <2>1, <1>2, InPlaceIs
  <2>3. r.h = h /\ r.ref = v BY <2>1
  <2> QED BY <2>2, <2>3, <1>2
<1>3. CASE v \in Ids /\ forWrite /\ h[v].owner # currentArrayOwner
  <2>1. r = Fork(h, v, currentArrayOwner) BY <1>3 DEF Resolve, CowFork
  <2>2. Resolved(r, h, v, n) /\ r.h[r.ref].owner = currentArrayOwner BY <2>1, <1>3, ForkIs
  <2> QED BY <2>2
<1> QED BY <1>1, <1>2, <1>3

LEMMA ArrayToWriteIs ==
    ASSUME NEW h, HeapOK(h), NEW s \in Writable, slots[s] \in Values,
           slots[s] \in Ids => h[slots[s]].refCount > 0,
           currentArrayOwner \in Owners, modern \in BOOLEAN, Room(h),
           NEW n \in [Ids -> Nat], Ledger(h, n), NEW r, r = ArrayToWrite(h, s)
    PROVE  /\ Found(r, h, slots[s], n)
           /\ modern => Resolved(r, h, slots[s], n)
<1> DEFINE a == slots[s]
<1>1. IntendedOwner(s) \in Owners BY DEF IntendedOwner, Owners
<1>2. CASE a \notin Ids
  <2>1. r = Create(h, IntendedOwner(s), <<>>) BY <1>2 DEF ArrayToWrite
  <2>2. Resolved(r, h, a, n) BY <2>1, <1>1, <1>2, MadeIs
  <2> QED BY <2>2 DEF Resolved
<1>3. CASE a \in Ids /\ (r = [h |-> h, ref |-> a])
  <2>1. Resolved(r, h, a, n) BY <1>3, InPlaceIs
  <2> QED BY <2>1 DEF Resolved
<1>4. CASE a \in Ids /\ modern /\ r # [h |-> h, ref |-> a]
  <2>1. r = CowFork(h, a) BY <1>4 DEF ArrayToWrite
  <2>2. r = Fork(h, a, currentArrayOwner) BY <2>1, <1>4 DEF CowFork
  <2>3. Resolved(r, h, a, n) BY <2>2, <1>4, ForkIs
  <2> QED BY <2>3 DEF Resolved
<1>5. CASE a \in Ids /\ ~ modern /\ r = Fork(h, a, s)
  <2>1. s \in Owners BY <1>5 DEF Owners
  <2>2. Resolved(r, h, a, n) BY <2>1, <1>5, ForkIs
  <2> QED BY <2>2 DEF Resolved
<1>6. CASE a \in Ids /\ ~ modern /\ r = [h |-> [h EXCEPT ![a].owner = s], ref |-> a]
  <2> DEFINE g == [h EXCEPT ![a].owner = s]
  <2>0. h \in [Ids -> [refCount : Nat, owner : Owners, data : Seq(Values)]] BY DEF HeapOK, Array
  <2>1. s \in Owners BY <1>6 DEF Owners
  <2>2. /\ \A x \in Ids : g[x].refCount = h[x].refCount /\ g[x].data = h[x].data
        /\ \A x \in Ids : x # a => g[x] = h[x]
        /\ g \in [Ids -> [refCount : Nat, owner : Owners, data : Seq(Values)]]
    BY <2>0, <2>1, <1>6
  <2>3. r.h = g /\ r.ref = a BY <1>6
  <2> HIDE DEF g
  <2>4. HeapOK(g)
    <3>1. \A x \in Ids : Len(g[x].data) <= MaxLength BY <2>2 DEF HeapOK
    <3>2. \A x \in Ids : g[x].refCount = 0 => g[x].owner = NoOwner /\ g[x].data = <<>>
      <4>1. \A x \in Ids : h[x].refCount = 0 => h[x].owner = NoOwner /\ h[x].data = <<>>
        BY HeapFields DEF Freed
      <4>2. ~ (h[a].refCount = 0) BY <1>6, HeapFields
      <4> QED BY <4>1, <4>2, <2>2
    <3> QED BY <3>1, <3>2, <2>2, HeapFrom
  <2>5. Ledger(g, Minus(Plus(n, a), a))
    <3> SUFFICES ASSUME NEW x \in Ids
                 PROVE  g[x].refCount = Minus(Plus(n, a), a)[x] + CellsWith(g, Ids, x)
      BY DEF Ledger
    <3>1. Minus(Plus(n, a), a)[x] = (n[x] + Is(a, x)) - Is(a, x) BY ReferencesAt
    <3>2. n[x] \in Nat /\ Is(a, x) \in {0, 1} BY DEF Is
    <3>3. h[x].refCount = n[x] + CellsWith(h, Ids, x) BY DEF Ledger
    <3>4. CellsWith(g, Ids, x) = CellsWith(h, Ids, x) BY <2>2, CellsAgree
    <3> QED BY <3>1, <3>2, <3>3, <3>4, <2>2
  <2>6. g[a].refCount > 0 BY <2>2, <1>6
  <2> QED BY <2>3, <2>4, <2>5, <2>6, <1>6 DEF Found
<1>7. \/ a \notin Ids \/ r = [h |-> h, ref |-> a] \/ modern \/ r = Fork(h, a, s)
      \/ r = [h |-> [h EXCEPT ![a].owner = s], ref |-> a]
  BY DEF ArrayToWrite
<1> QED BY <1>2, <1>3, <1>4, <1>5, <1>6, <1>7

-----------------------------------------------------------------------------
(* Writing cells.                                                             *)

\* What operands look at.
Looked == {id \in Ids : \E op \in ToSet(stack) \union ToSet(frame.args) : op.v = id}

\* An array that an operand looks at has the owner it had, or was freed.
SeenAs(g, h) ==
    \A x \in Looked : g[x].refCount > 0 => h[x].refCount > 0 /\ g[x].owner = h[x].owner

LEMMA SeenAsFrom ==
    ASSUME NEW h, NEW g
    PROVE  /\ SeenAs(h, h)
           /\ Survives(g, h) \/ g = h => SeenAs(g, h)
           /\ (\A x \in Ids : g[x].refCount = h[x].refCount /\ g[x].owner = h[x].owner) => SeenAs(g, h)
           /\ (\A x \in Named(h) : g[x].refCount > 0 => h[x].refCount > 0 /\ g[x].owner = h[x].owner)
                  => SeenAs(g, h)
<1>1. Looked \subseteq Ids /\ Looked \subseteq Named(h) BY DEF Looked, Named
<1>2. SeenAs(h, h) BY DEF SeenAs
<1>3. ASSUME Survives(g, h), NEW x \in Looked, g[x].refCount > 0
      PROVE  h[x].refCount > 0 /\ g[x].owner = h[x].owner
  <2>1. g[x] = Freed \/ (Kept(g, h, x) /\ g[x].refCount > 0 /\ h[x].refCount > 0)
    BY <1>1, <1>3 DEF Survives
  <2>2. g[x] # Freed
    <3>1. ~ (0 > 0) OBVIOUS
    <3> QED BY <3>1, <1>3, FreedIs
  <2> QED BY <2>1, <2>2 DEF Kept
<1>4. Survives(g, h) => SeenAs(g, h) BY <1>3 DEF SeenAs
<1>5. (\A x \in Ids : g[x].refCount = h[x].refCount /\ g[x].owner = h[x].owner) => SeenAs(g, h)
  BY <1>1 DEF SeenAs
<1>6. (\A x \in Named(h) : g[x].refCount > 0 => h[x].refCount > 0 /\ g[x].owner = h[x].owner)
          => SeenAs(g, h)
  BY <1>1 DEF SeenAs
<1> QED BY <1>2, <1>4, <1>5, <1>6

LEMMA SeenAsChain ==
    ASSUME NEW h, NEW g, NEW f, SeenAs(g, h), SeenAs(f, g)
    PROVE  SeenAs(f, h)
BY DEF SeenAs

LEMMA GrownIs ==
    ASSUME NEW data \in Seq(Values), Len(data) <= MaxLength, NEW i \in 1 .. MaxLength,
           NEW d, d = Grown(data, i)
    PROVE  /\ d \in Seq(Values) /\ i \in 1 .. Len(d) /\ Len(d) <= MaxLength /\ Len(data) <= Len(d)
           /\ \A k \in 1 .. Len(d) : d[k] = At(data, k)
<1>1. i \in Nat /\ MaxLength \in Nat /\ Len(data) \in Nat /\ 1 <= i /\ i <= MaxLength
  BY Bounds, LenProperties
<1>2. CASE Len(data) >= i
  <2>1. d = data BY <1>2 DEF Grown
  <2>2. \A k \in 1 .. Len(data) : data[k] = At(data, k) BY <1>1 DEF At
  <2> QED BY <2>1, <2>2, <1>1, <1>2
<1>3. CASE ~ (Len(data) >= i)
  <2> DEFINE e(k) == IF k <= Len(data) THEN data[k] ELSE Zero
  <2>1. d = [k \in 1 .. i |-> e(k)] BY <1>3 DEF Grown
  <2>2. \A k \in 1 .. i : e(k) \in Values
    <3> SUFFICES ASSUME NEW k \in 1 .. i PROVE e(k) \in Values OBVIOUS
    <3>1. CASE k <= Len(data)
      <4>1. k \in 1 .. Len(data) BY <3>1, <1>1
      <4> QED BY <4>1, <3>1, ElementOfSeq
    <3>2. CASE ~ (k <= Len(data))
      <4>1. Zero \in Values BY DEF Values, Numbers
      <4> QED BY <4>1, <3>2
    <3> QED BY <3>1, <3>2
  <2>3. \A k \in 1 .. i : e(k) = At(data, k) BY DEF At
  <2> HIDE DEF e
  <2>4. d \in Seq(Values) BY <1>1, <2>1, <2>2, IsASeq
  <2>5. DOMAIN d = 1 .. i BY <2>1
  <2>6. Len(d) = i
    <3>1. Len(d) \in Nat /\ DOMAIN d = 1 .. Len(d) BY <2>4, LenProperties
    <3>2. i \in 1 .. Len(d) BY <3>1, <2>5, <1>1
    <3>3. Len(d) \in 1 .. i
      <4> DEFINE l == Len(d)
      <4>1. l \in Nat /\ i \in Nat /\ i \in 1 .. l /\ 1 .. l = 1 .. i BY <3>1, <3>2, <2>5, <1>1
      <4> HIDE DEF l
      <4>2. l \in 1 .. l BY <4>1
      <4>3. l \in 1 .. i BY <4>1, <4>2
      <4> QED BY <4>3 DEF l
    <3> DEFINE l == Len(d)
    <3>4. l \in 1 .. i /\ i \in 1 .. l /\ l \in Nat /\ i \in Nat BY <3>1, <3>2, <3>3, <1>1
    <3> HIDE DEF l
    <3>5. l = i BY <3>4
    <3> QED BY <3>5 DEF l
  <2>7. \A k \in 1 .. i : d[k] = At(data, k) BY <2>1, <2>3
  <2> QED BY <2>4, <2>6, <2>7, <1>1, <1>3
<1> QED BY <1>2, <1>3

\* An array of which a cell is written: the references its cells hold change with that cell.
LEMMA Written ==
    ASSUME NEW h, HeapOK(h), NEW a \in Ids, h[a].refCount > 0, NEW i \in 1 .. MaxLength,
           NEW d \in Seq(Values), i \in 1 .. Len(d), Len(d) <= MaxLength, Len(h[a].data) <= Len(d),
           \A k \in 1 .. Len(d) : k # i => d[k] = At(h[a].data, k),
           NEW g, g = WithData(h, a, d)
    PROVE  /\ HeapOK(g) /\ g[a].data = d /\ SeenAs(g, h) /\ Named(g) = Named(h)
           /\ \A x \in Ids : g[x].refCount = h[x].refCount /\ g[x].owner = h[x].owner
           /\ \A x \in Ids : x # a => g[x] = h[x]
           /\ \A x \in Ids : CellsWith(g, Ids, x) =
                                CellsWith(h, Ids, x) - Is(At(h[a].data, i), x) + Is(d[i], x)
           /\ \A n \in [Ids -> Int] : Ledger(h, Plus(n, d[i])) => Ledger(g, Plus(n, At(h[a].data, i)))
<1>1. i <= Len(d) OBVIOUS
<1>2. /\ HeapOK(g)
      /\ g[a].data = d /\ g[a].refCount = h[a].refCount /\ g[a].owner = h[a].owner
      /\ \A x \in Ids : x # a => g[x] = h[x]
      /\ \A x \in Ids : CellsWith(g, Ids, x) =
                           CellsWith(h, Ids, x) - Is(At(h[a].data, i), x) + Is(d[i], x)
  BY <1>1, CellWritten
<1>3. \A x \in Ids : g[x].refCount = h[x].refCount /\ g[x].owner = h[x].owner BY <1>2
<1>4. SeenAs(g, h) BY <1>3, SeenAsFrom
<1>5. Named(g) = Named(h) BY <1>3 DEF Named
<1>6. ASSUME NEW n \in [Ids -> Int], Ledger(h, Plus(n, d[i]))
      PROVE  Ledger(g, Plus(n, At(h[a].data, i)))
  <2> DEFINE u == At(h[a].data, i)
             w == d[i]
  <2> SUFFICES ASSUME NEW x \in Ids PROVE g[x].refCount = Plus(n, u)[x] + CellsWith(g, Ids, x)
    BY DEF Ledger
  <2> HIDE DEF u, w
  <2>1. Plus(n, w)[x] = n[x] + Is(w, x) /\ Plus(n, u)[x] = n[x] + Is(u, x) BY ReferencesAt
  <2>2. h[x].refCount = Plus(n, w)[x] + CellsWith(h, Ids, x) BY <1>6 DEF Ledger, w
  <2>3. CellsWith(g, Ids, x) = CellsWith(h, Ids, x) - Is(u, x) + Is(w, x) BY <1>2 DEF u, w
  <2>4. CellsWith(h, Ids, x) \in Nat /\ n[x] \in Int /\ Is(u, x) \in Int /\ Is(w, x) \in Int
    BY CellsFinite DEF Is
  <2>5. g[x].refCount = h[x].refCount BY <1>3
  <2> DEFINE c == CellsWith(h, Ids, x)
             e == CellsWith(g, Ids, x)
             p == Plus(n, u)[x]
             iu == Is(u, x)
             iw == Is(w, x)
             r == g[x].refCount
             m == n[x]
  <2>6. /\ r = (m + iw) + c /\ e = (c - iu) + iw /\ p = m + iu
        /\ m \in Int /\ c \in Int /\ iu \in Int /\ iw \in Int
    BY <2>1, <2>2, <2>3, <2>4, <2>5
  <2> HIDE DEF c, e, p, iu, iw, r, m
  <2>7. r = p + e BY <2>6
  <2> QED BY <2>7 DEF p, e, r
<1> QED BY <1>2, <1>3, <1>4, <1>5, <1>6

LEMMA LedgerSame ==
    ASSUME NEW h, NEW n, NEW m, Ledger(h, n), \A x \in Ids : m[x] = n[x]
    PROVE  Ledger(h, m)
BY DEF Ledger

\* A number is no reference.
LEMMA NumberHoldsNothing ==
    ASSUME NEW n \in [Ids -> Int], NEW v, v \notin Ids
    PROVE  \A x \in Ids : Plus(n, v)[x] = n[x]
<1> SUFFICES ASSUME NEW x \in Ids PROVE Plus(n, v)[x] = n[x] OBVIOUS
<1>1. Plus(n, v)[x] = n[x] + Is(v, x) BY ReferencesAt
<1>2. Is(v, x) = 0 /\ n[x] \in Int BY DEF Is
<1> QED BY <1>1, <1>2

LEMMA ZeroIs == Zero \in Values /\ Zero \notin Ids BY Bounds DEF Values, Numbers

LEMMA GrowIs ==
    ASSUME NEW h, HeapOK(h), NEW a \in Ids, h[a].refCount > 0, NEW i \in 1 .. MaxLength,
           NEW g, g = Grow(h, a, i)
    PROVE  /\ HeapOK(g) /\ SeenAs(g, h) /\ Named(g) = Named(h)
           /\ i \in 1 .. Len(g[a].data) /\ g[a].data[i] \in Values
           /\ \A x \in Ids : g[x].refCount = h[x].refCount /\ g[x].owner = h[x].owner
           /\ \A n : Ledger(h, n) => Ledger(g, n)
<1> DEFINE d == Grown(h[a].data, i)
<1>1. h[a].data \in Seq(Values) /\ Len(h[a].data) <= MaxLength BY HeapFields
<1>2. /\ d \in Seq(Values) /\ i \in 1 .. Len(d) /\ Len(d) <= MaxLength /\ Len(h[a].data) <= Len(d)
      /\ \A k \in 1 .. Len(d) : d[k] = At(h[a].data, k)
  BY <1>1, GrownIs
<1>3. g = WithData(h, a, d) BY DEF Grow, WithData
<1> HIDE DEF d
<1>4. /\ HeapOK(g) /\ g[a].data = d /\ SeenAs(g, h) /\ Named(g) = Named(h)
      /\ \A x \in Ids : g[x].refCount = h[x].refCount /\ g[x].owner = h[x].owner
      /\ \A x \in Ids : CellsWith(g, Ids, x) =
                           CellsWith(h, Ids, x) - Is(At(h[a].data, i), x) + Is(d[i], x)
  BY <1>2, <1>3, Written
<1>5. \A x \in Ids : CellsWith(g, Ids, x) = CellsWith(h, Ids, x)
  <2> SUFFICES ASSUME NEW x \in Ids PROVE CellsWith(g, Ids, x) = CellsWith(h, Ids, x) OBVIOUS
  <2>1. d[i] = At(h[a].data, i) BY <1>2
  <2>2. CellsWith(h, Ids, x) \in Nat /\ Is(d[i], x) \in Int BY CellsFinite DEF Is
  <2> QED BY <2>1, <2>2, <1>4
<1>6. \A n : Ledger(h, n) => Ledger(g, n) BY <1>4, <1>5 DEF Ledger
<1>7. d[i] \in Values BY <1>2, ElementOfSeq
<1> QED BY <1>2, <1>4, <1>6, <1>7

\* The cell that is about to be written is left empty.
LEMMA VacateIs ==
    ASSUME NEW h, HeapOK(h), NEW a \in Ids, h[a].refCount > 0, NEW i \in 1 .. MaxLength,
           NEW n \in [Ids -> Nat], Ledger(h, n), NEW g, g = Vacate(h, a, i)
    PROVE  /\ HeapOK(g) /\ Ledger(g, n) /\ SeenAs(g, h)
           /\ g[a].refCount > 0 => i \in 1 .. Len(g[a].data) /\ g[a].data[i] = Zero
           /\ n[a] > 0 => g[a].refCount > 0
<1> DEFINE e == Grown(h[a].data, i)
           d == [e EXCEPT ![i] = Zero]
           k == WithData(h, a, d)
           u == e[i]
<1>1. h[a].data \in Seq(Values) /\ Len(h[a].data) <= MaxLength BY HeapFields
<1>2. /\ e \in Seq(Values) /\ i \in 1 .. Len(e) /\ Len(e) <= MaxLength /\ Len(h[a].data) <= Len(e)
      /\ \A j \in 1 .. Len(e) : e[j] = At(h[a].data, j)
  BY <1>1, GrownIs
<1>3. g = Release(k, u) BY DEF Vacate, WithData
<1> HIDE DEF e
<1>4. /\ d \in Seq(Values) /\ Len(d) = Len(e)
      /\ \A j \in 1 .. Len(e) : d[j] = IF j = i THEN Zero ELSE e[j]
  BY <1>2, ZeroIs, ExceptSeq
<1>5. u = At(h[a].data, i) /\ d[i] = Zero BY <1>2, <1>4
<1> HIDE DEF d
<1>6. \A j \in 1 .. Len(d) : j # i => d[j] = At(h[a].data, j) BY <1>2, <1>4
<1>7. i \in 1 .. Len(d) /\ Len(d) <= MaxLength /\ Len(h[a].data) <= Len(d) BY <1>2, <1>4
<1> HIDE DEF u
<1>8. k = WithData(h, a, d) OBVIOUS
<1> HIDE DEF k
<1>9. /\ HeapOK(k) /\ k[a].data = d /\ SeenAs(k, h)
      /\ \A m \in [Ids -> Int] : Ledger(h, Plus(m, d[i])) => Ledger(k, Plus(m, At(h[a].data, i)))
  BY <1>4, <1>6, <1>7, <1>8, Written
<1>10. Ledger(k, Plus(n, u))
  <2>1. n \in [Ids -> Int] OBVIOUS
  <2>2. Ledger(h, Plus(n, d[i]))
    <3>1. \A x \in Ids : Plus(n, Zero)[x] = n[x] BY <2>1, ZeroIs, NumberHoldsNothing
    <3> QED BY <3>1, <1>5, LedgerSame
  <2> QED BY <2>1, <2>2, <1>5, <1>9
<1>11. /\ HeapOK(g) /\ Ledger(g, n)
       /\ Survives(g, k) \/ g = k
  BY <1>3, <1>9, <1>10, ReleaseIs
<1>12. SeenAs(g, h)
  <2>1. SeenAs(g, k) BY <1>11, SeenAsFrom
  <2> QED BY <2>1, <1>9, SeenAsChain
<1>13. ASSUME g[a].refCount > 0 PROVE i \in 1 .. Len(g[a].data) /\ g[a].data[i] = Zero
  <2>1. g[a] # Freed
    <3>1. ~ (0 > 0) OBVIOUS
    <3> QED BY <3>1, <1>13, FreedIs
  <2>2. g[a].data = k[a].data BY <2>1, <1>11 DEF Survives, Kept
  <2> QED BY <2>2, <1>5, <1>7, <1>9
<1>14. n[a] > 0 => g[a].refCount > 0
  <2>1. n[a] <= g[a].refCount /\ g[a].refCount \in Nat /\ n[a] \in Nat
    <3>1. Ids \in SUBSET Ids OBVIOUS
    <3> QED BY <3>1, <1>11, DeadIsFree
  <2> QED BY <2>1
<1> QED BY <1>11, <1>12, <1>13, <1>14

\* A reference goes into a cell.
Filled(h, a, i, v) == [h EXCEPT ![a].data[i] = v]

LEMMA FilledIs ==
    ASSUME NEW h, HeapOK(h), NEW a \in Ids, h[a].refCount > 0, NEW i \in 1 .. Len(h[a].data),
           NEW v \in Values, NEW g, g = Filled(h, a, i, v)
    PROVE  /\ HeapOK(g) /\ SeenAs(g, h)
           /\ \A x \in Ids : g[x].refCount = h[x].refCount /\ g[x].owner = h[x].owner
           /\ \A n \in [Ids -> Int] : Ledger(h, Plus(n, v)) => Ledger(g, Plus(n, h[a].data[i]))
<1> DEFINE e == h[a].data
           d == [e EXCEPT ![i] = v]
<1>1. e \in Seq(Values) /\ Len(e) \in 0 .. MaxLength BY HeapFields
<1>2. /\ d \in Seq(Values) /\ Len(d) = Len(e)
      /\ \A j \in 1 .. Len(e) : d[j] = IF j = i THEN v ELSE e[j]
  BY <1>1, ExceptSeq
<1>3. g = WithData(h, a, d)
  <2>1. h \in [Ids -> Array] BY DEF HeapOK
  <2> QED BY <2>1 DEF Filled, WithData
<1>4. \A j \in 1 .. Len(e) : e[j] = At(e, j)
  <2>1. Len(e) \in Nat BY <1>1
  <2> QED BY <2>1 DEF At
<1>5. i \in 1 .. MaxLength /\ Len(e) <= Len(e) /\ Len(e) <= MaxLength
  <2> DEFINE l == Len(e)
  <2>1. l \in 0 .. MaxLength /\ i \in 1 .. l /\ MaxLength \in Nat BY <1>1, Bounds
  <2> HIDE DEF l
  <2>2. i \in 1 .. MaxLength /\ l <= l /\ l <= MaxLength BY <2>1
  <2> QED BY <2>2 DEF l
<1> HIDE DEF d
<1>6. d[i] = v /\ e[i] = At(h[a].data, i) BY <1>2, <1>4
<1>7. \A j \in 1 .. Len(d) : j # i => d[j] = At(h[a].data, j) BY <1>2, <1>4
<1>8. i \in 1 .. Len(d) /\ Len(d) <= MaxLength /\ Len(h[a].data) <= Len(d) BY <1>2, <1>5
<1> HIDE DEF e
<1>9. /\ HeapOK(g) /\ SeenAs(g, h)
      /\ \A x \in Ids : g[x].refCount = h[x].refCount /\ g[x].owner = h[x].owner
      /\ \A n \in [Ids -> Int] : Ledger(h, Plus(n, d[i])) => Ledger(g, Plus(n, At(h[a].data, i)))
  BY <1>2, <1>3, <1>5, <1>7, <1>8, Written
<1> QED BY <1>6, <1>9 DEF e

\* What a cell holds is an array that is there.
LEMMA HeldIsThere ==
    ASSUME NEW h, HeapOK(h), NEW a \in Ids, NEW i \in 1 .. Len(h[a].data), NEW v \in Ids,
           h[a].data[i] = v, NEW n \in [Ids -> Nat], Ledger(h, n)
    PROVE  Inside(h, a, v) > 0 /\ h[v].refCount > 0
<1> DEFINE A == {a}
           S == CellSet(h, A, v)
           c == <<a, i>>
<1>1. A \in SUBSET Ids OBVIOUS
<1>2. i \in 1 .. MaxLength /\ i <= Len(h[a].data)
  <2> DEFINE l == Len(h[a].data)
  <2>1. l \in 0 .. MaxLength /\ i \in 1 .. l /\ MaxLength \in Nat BY HeapFields, Bounds
  <2> HIDE DEF l
  <2>2. i \in 1 .. MaxLength /\ i <= l BY <2>1
  <2> QED BY <2>2 DEF l
<1>3. c \in S BY <1>2 DEF CellSet
<1> HIDE DEF c, S
<1>4. IsFiniteSet(S) /\ CellsWith(h, A, v) = Cardinality(S) BY <1>1, CellsFinite DEF S
<1>5. Cardinality(S) # 0 /\ Cardinality(S) \in Nat BY <1>3, <1>4, FS_EmptySet, FS_CardinalityType
<1>6. Inside(h, a, v) = Cardinality(S) BY <1>4 DEF Inside
<1> HIDE DEF A
<1>7. CellsWith(h, A, v) <= h[v].refCount /\ h[v].refCount \in Nat BY <1>1, DeadIsFree
<1> QED BY <1>4, <1>5, <1>6, <1>7

\* One index further down a chain.
LEMMA StepIs ==
    ASSUME NEW h, HeapOK(h), NEW a \in Ids, h[a].refCount > 0, NEW i \in 1 .. MaxLength,
           NEW owner \in Owners, currentArrayOwner \in Owners, NEW forWrite \in BOOLEAN, Room(h),
           NEW n \in [Ids -> Nat], Ledger(h, n),
           NEW k, k = Grow(h, a, i),
           NEW r, r = Resolve(k, k[a].data[i], owner, forWrite),
           NEW g, g = Filled(r.h, a, i, r.ref)
    PROVE  /\ HeapOK(g) /\ Ledger(g, n) /\ SeenAs(g, h) /\ r.ref \in Ids
           /\ forWrite => g[r.ref].owner \in {owner, currentArrayOwner}
<1> DEFINE v == k[a].data[i]
<1>1. /\ HeapOK(k) /\ SeenAs(k, h) /\ Named(k) = Named(h)
      /\ i \in 1 .. Len(k[a].data) /\ v \in Values
      /\ \A x \in Ids : k[x].refCount = h[x].refCount /\ k[x].owner = h[x].owner
      /\ Ledger(k, n)
  BY GrowIs
<1>2. k[a].refCount > 0 BY <1>1
<1>3. Room(k) BY <1>1 DEF Room
<1>4. k[a].data[i] = v OBVIOUS
<1> HIDE DEF v
<1>5. v \in Ids => Inside(k, a, v) > 0 /\ k[v].refCount > 0 BY <1>1, <1>4, HeldIsThere
<1>6. r = Resolve(k, v, owner, forWrite) BY <1>4
<1>7. /\ Resolved(r, k, v, n)
      /\ forWrite => r.h[r.ref].owner \in {owner, currentArrayOwner}
  BY <1>1, <1>3, <1>5, <1>6, ResolveIs
<1>8. Kept(r.h, k, a) /\ r.h[a].refCount > 0
  <2>1. a = v => Inside(k, v, v) > 0 BY <1>5
  <2> QED BY <2>1, <1>2, <1>7 DEF Resolved
<1>9. /\ r.ref \in Ids /\ HeapOK(r.h) /\ Ledger(r.h, Minus(Plus(n, r.ref), v))
  BY <1>7 DEF Resolved, Found
<1>10. SeenAs(r.h, k) BY <1>7, SeenAsFrom DEF Resolved
<1> DEFINE m == Minus(n, v)
<1>11. n \in [Ids -> Int] OBVIOUS
<1>12. m \in [Ids -> Int] BY <1>11, PlusType
<1>13. ASSUME NEW x \in Ids
       PROVE  Plus(m, r.ref)[x] = Minus(Plus(n, r.ref), v)[x] /\ Plus(m, v)[x] = n[x]
  <2>1. /\ m[x] = n[x] - Is(v, x)
        /\ Minus(Plus(n, r.ref), v)[x] = (n[x] + Is(r.ref, x)) - Is(v, x) BY ReferencesAt
  <2> HIDE DEF m
  <2>2. Plus(m, r.ref)[x] = m[x] + Is(r.ref, x) BY ReferencesAt
  <2>3. Plus(m, v)[x] = m[x] + Is(v, x) BY ReferencesAt
  <2>4. n[x] \in Nat /\ Is(v, x) \in Int /\ Is(r.ref, x) \in Int BY DEF Is
  <2> QED BY <2>1, <2>2, <2>3, <2>4
<1> HIDE DEF m
<1>14. Ledger(r.h, Plus(m, r.ref)) BY <1>9, <1>13, LedgerSame
<1>15. i \in 1 .. Len(r.h[a].data) /\ r.h[a].data[i] = v BY <1>1, <1>4, <1>8 DEF Kept
<1>16. r.ref \in Values BY <1>9 DEF Values
<1>17. /\ HeapOK(g) /\ SeenAs(g, r.h)
       /\ \A x \in Ids : g[x].refCount = r.h[x].refCount /\ g[x].owner = r.h[x].owner
       /\ \A p \in [Ids -> Int] : Ledger(r.h, Plus(p, r.ref)) => Ledger(g, Plus(p, r.h[a].data[i]))
  <2> DEFINE q == r.h
             u == r.ref
  <2>1. /\ HeapOK(q) /\ q[a].refCount > 0 /\ i \in 1 .. Len(q[a].data) /\ u \in Values
        /\ g = Filled(q, a, i, u)
    BY <1>8, <1>9, <1>15, <1>16
  <2> HIDE DEF q, u
  <2>2. /\ HeapOK(g) /\ SeenAs(g, q)
        /\ \A x \in Ids : g[x].refCount = q[x].refCount /\ g[x].owner = q[x].owner
        /\ \A p \in [Ids -> Int] : Ledger(q, Plus(p, u)) => Ledger(g, Plus(p, q[a].data[i]))
    BY <2>1, FilledIs
  <2> QED BY <2>2 DEF q, u
<1>18. Ledger(g, n)
  <2>1. Ledger(g, Plus(m, v)) BY <1>12, <1>14, <1>15, <1>17
  <2> QED BY <2>1, <1>13, LedgerSame
<1>19. SeenAs(g, h)
  <2>1. SeenAs(r.h, h) BY <1>1, <1>10, SeenAsChain
  <2> QED BY <2>1, <1>17, SeenAsChain
<1> QED BY <1>7, <1>9, <1>17, <1>18, <1>19

-----------------------------------------------------------------------------
(* Operands.                                                                  *)

\* What an operand owns.
Owned(op) == IF op.kind = "own" THEN op.v ELSE Zero

LEMMA RetainSeen ==
    ASSUME NEW h, HeapOK(h), NEW v, v \in Ids => h[v].refCount > 0
    PROVE  SeenAs(Retain(h, v), h) /\ Named(Retain(h, v)) = Named(h)
<1> DEFINE g == Retain(h, v)
<1>1. \A x \in Ids : Kept(g, h, x) /\ g[x].refCount = h[x].refCount + Is(v, x) BY RetainIs
<1>2. \A x \in Ids : g[x].refCount > 0 <=> h[x].refCount > 0
  <2> SUFFICES ASSUME NEW x \in Ids PROVE g[x].refCount > 0 <=> h[x].refCount > 0 OBVIOUS
  <2>1. h[x].refCount \in Nat BY HeapFields
  <2>2. CASE x = v BY <2>1, <2>2, <1>1 DEF Is
  <2>3. CASE x # v BY <2>1, <2>3, <1>1 DEF Is
  <2> QED BY <2>2, <2>3
<1> HIDE DEF g
<1>3. Named(g) = Named(h) BY <1>2 DEF Named
<1>4. \A x \in Named(h) : g[x].refCount > 0 => h[x].refCount > 0 /\ g[x].owner = h[x].owner
  BY <1>1, <1>2, NamedFinite DEF Kept
<1>5. SeenAs(g, h) BY <1>4, SeenAsFrom
<1> QED BY <1>3, <1>5 DEF g

LEMMA StealIs ==
    ASSUME NEW h, HeapOK(h), NEW op \in Operands, op.v \in Ids => h[op.v].refCount > 0,
           IsValue(op), NEW n \in [Ids -> Int], Ledger(h, Plus(n, Owned(op))), NEW g, g = Steal(h, op)
    PROVE  HeapOK(g) /\ Ledger(g, Plus(n, op.v)) /\ SeenAs(g, h)
<1>1. CASE op.kind = "own"
  <2>1. g = h /\ Owned(op) = op.v BY <1>1 DEF Steal, Owned
  <2> QED BY <2>1, SeenAsFrom
<1>2. CASE op.kind # "own"
  <2>1. g = Retain(h, op.v) /\ Owned(op) = Zero BY <1>2 DEF Steal, Owned
  <2>2. Ledger(h, n)
    <3>1. \A x \in Ids : n[x] = Plus(n, Zero)[x] BY ZeroIs, NumberHoldsNothing
    <3> QED BY <3>1, <2>1, LedgerSame
  <2> QED BY <2>1, <2>2, RetainIs, RetainSeen
<1> QED BY <1>1, <1>2

LEMMA DropIs ==
    ASSUME NEW h, HeapOK(h), NEW op \in Operands, NEW n \in [Ids -> Nat],
           Ledger(h, Plus(n, Owned(op))), NEW g, g = Drop(h, op)
    PROVE  HeapOK(g) /\ Ledger(g, n) /\ SeenAs(g, h)
<1>1. CASE op.kind = "own"
  <2>1. g = Release(h, op.v) /\ Owned(op) = op.v BY <1>1 DEF Drop, Owned
  <2>2. HeapOK(g) /\ Ledger(g, n) /\ (Survives(g, h) \/ g = h) BY <2>1, ReleaseIs
  <2> QED BY <2>2, SeenAsFrom
<1>2. CASE op.kind # "own"
  <2>1. g = h /\ Owned(op) = Zero BY <1>2 DEF Drop, Owned
  <2>2. Ledger(h, n)
    <3>1. n \in [Ids -> Int] OBVIOUS
    <3>2. \A x \in Ids : n[x] = Plus(n, Zero)[x] BY <3>1, ZeroIs, NumberHoldsNothing
    <3> QED BY <3>2, <2>1, LedgerSame
  <2> QED BY <2>1, <2>2, SeenAsFrom
<1> QED BY <1>1, <1>2

-----------------------------------------------------------------------------
(* Counting operands and variables.                                           *)

OwnSet(ops, x) == {k \in 1 .. Len(ops) : Owned(ops[k]) = x}

LEMMA OwningIs ==
    ASSUME NEW ops \in Seq(Operands), NEW x \in Ids
    PROVE  /\ IsFiniteSet(OwnSet(ops, x)) /\ Owning(ops, x) = Cardinality(OwnSet(ops, x))
           /\ Owning(ops, x) \in Nat
<1>1. Len(ops) \in Nat /\ DOMAIN ops = 1 .. Len(ops) BY LenProperties
<1>2. IsFiniteSet(1 .. Len(ops))
  <2>1. Len(ops) \in Int /\ 1 \in Int BY <1>1
  <2> QED BY <2>1, FS_Interval
<1>3. OwnSet(ops, x) \in SUBSET (1 .. Len(ops)) BY DEF OwnSet
<1>4. IsFiniteSet(OwnSet(ops, x)) BY <1>2, <1>3, FS_Subset
<1>5. {k \in DOMAIN ops : ops[k].kind = "own" /\ ops[k].v = x} = OwnSet(ops, x)
  <2>1. \A op : Owned(op) = x <=> op.kind = "own" /\ op.v = x BY ZeroIs DEF Owned
  <2> QED BY <2>1, <1>1 DEF OwnSet
<1>6. Owning(ops, x) = Cardinality(OwnSet(ops, x)) BY <1>5 DEF Owning
<1> QED BY <1>4, <1>6, FS_CardinalityType

LEMMA OwningNone == \A x \in Ids : Owning(<<>>, x) = 0
<1> SUFFICES ASSUME NEW x \in Ids PROVE Owning(<<>>, x) = 0 OBVIOUS
<1>1. <<>> \in Seq(Operands) /\ Len(<<>>) = 0 BY EmptySeq
<1>2. OwnSet(<<>>, x) = {} BY <1>1 DEF OwnSet
<1> QED BY <1>1, <1>2, OwningIs, FS_EmptySet

LEMMA OwningOne ==
    ASSUME NEW op \in Operands, NEW ops, ops = <<op>>
    PROVE  ops \in Seq(Operands) /\ \A x \in Ids : Owning(ops, x) = Is(Owned(op), x)
<1>1. ops \in Seq(Operands) /\ Len(ops) = 1 /\ ops[1] = op OBVIOUS
<1>2. ASSUME NEW x \in Ids PROVE Owning(ops, x) = Is(Owned(op), x)
  <2>1. OwnSet(ops, x) = IF Owned(op) = x THEN {1} ELSE {} BY <1>1 DEF OwnSet
  <2>2. Owning(ops, x) = Cardinality(OwnSet(ops, x)) BY <1>1, OwningIs
  <2>3. Cardinality({1}) = 1 BY FS_Singleton
  <2>4. Cardinality({}) = 0 BY FS_EmptySet
  <2> QED BY <2>1, <2>2, <2>3, <2>4 DEF Is
<1> QED BY <1>1, <1>2

LEMMA OwningConcat ==
    ASSUME NEW s \in Seq(Operands), NEW t \in Seq(Operands), NEW ops, ops = s \o t
    PROVE  ops \in Seq(Operands) /\ \A x \in Ids : Owning(ops, x) = Owning(s, x) + Owning(t, x)
<1>1. /\ ops \in Seq(Operands) /\ Len(ops) = Len(s) + Len(t)
      /\ \A i \in 1 .. Len(s) + Len(t) : ops[i] = IF i <= Len(s) THEN s[i] ELSE t[i - Len(s)]
  BY ConcatProperties
<1>2. Len(s) \in Nat /\ Len(t) \in Nat BY LenProperties
<1>3. ASSUME NEW x \in Ids PROVE Owning(ops, x) = Owning(s, x) + Owning(t, x)
  <2> DEFINE A == OwnSet(s, x)
             T == OwnSet(t, x)
             S == OwnSet(ops, x)
             B == S \ A
             m == Len(s)
             f == [k \in T |-> m + k]
  <2>1. /\ IsFiniteSet(A) /\ Owning(s, x) = Cardinality(A)
        /\ IsFiniteSet(T) /\ Owning(t, x) = Cardinality(T)
        /\ IsFiniteSet(S) /\ Owning(ops, x) = Cardinality(S)
    BY <1>1, OwningIs
  <2>2. \A k \in 1 .. m : k \in S <=> k \in A BY <1>1, <1>2 DEF OwnSet
  <2>3. \A k \in 1 .. Len(t) : m + k \in S <=> k \in T
    <3> SUFFICES ASSUME NEW k \in 1 .. Len(t) PROVE m + k \in S <=> k \in T OBVIOUS
    <3>1. m + k \in 1 .. Len(s) + Len(t) /\ ~ (m + k <= Len(s)) /\ (m + k) - Len(s) = k BY <1>2
    <3>2. ops[m + k] = t[k] BY <3>1, <1>1
    <3> QED BY <3>1, <3>2, <1>1 DEF OwnSet
  <2>4. A \subseteq S /\ A \subseteq 1 .. m
    <3>1. A \subseteq 1 .. m BY DEF OwnSet
    <3> QED BY <3>1, <2>2
  <2>5. \A k \in B : k \in Int /\ k - m \in 1 .. Len(t) /\ k = m + (k - m)
    <3> SUFFICES ASSUME NEW k \in B PROVE k \in Int /\ k - m \in 1 .. Len(t) /\ k = m + (k - m)
      OBVIOUS
    <3>1. k \in 1 .. m + Len(t) /\ k \in S BY <1>1 DEF OwnSet
    <3>2. k \notin 1 .. m BY <3>1, <2>2
    <3> HIDE DEF m, B
    <3>3. m \in Nat BY <1>2 DEF m
    <3> QED BY <3>1, <3>2, <3>3, <1>2
  <2>6. \A k \in T : k \in 1 .. Len(t) BY DEF OwnSet
  <2>7. f \in [T -> B]
    <3> SUFFICES ASSUME NEW k \in T PROVE m + k \in B OBVIOUS
    <3>1. m + k \in S BY <2>3, <2>6
    <3>2. m + k \notin 1 .. m BY <1>2, <2>6
    <3> QED BY <3>1, <3>2, <2>4
  <2>8. \A j, k \in T : f[j] = f[k] => j = k
    <3> SUFFICES ASSUME NEW j \in T, NEW k \in T, m + j = m + k PROVE j = k OBVIOUS
    <3>1. j \in Int /\ k \in Int /\ m \in Int BY <1>2, <2>6
    <3> HIDE DEF m
    <3> QED BY <3>1
  <2>9. \A b \in B : \E k \in T : f[k] = b
    <3> SUFFICES ASSUME NEW b \in B PROVE \E k \in T : f[k] = b OBVIOUS
    <3>1. b - m \in 1 .. Len(t) /\ b = m + (b - m) BY <2>5
    <3>2. b - m \in T
      <4>1. m + (b - m) \in S BY <3>1
      <4> QED BY <4>1, <3>1, <2>3
    <3>3. f[b - m] = m + (b - m) BY <3>2
    <3> QED BY <3>1, <3>2, <3>3
  <2> HIDE DEF A, T, S, B, f
  <2>10. f \in Injection(T, B) BY <2>7, <2>8, Zenon DEF Injection, IsInjective
  <2>11. f \in Surjection(T, B) BY <2>7, <2>9, Zenon DEF Surjection
  <2>12. ExistsBijection(T, B) BY <2>10, <2>11, Zenon DEF ExistsBijection, Bijection
  <2>13. IsFiniteSet(B) /\ Cardinality(B) = Cardinality(T) BY <2>1, <2>12, FS_Bijection
  <2>14. S = A \cup B /\ A \cap B = {} BY <2>4 DEF B
  <2>15. Cardinality(A \cup B) = Cardinality(A) + Cardinality(B) - Cardinality(A \cap B)
    BY <2>1, <2>13, FS_Union
  <2>16. Cardinality(A \cap B) = 0 BY <2>14, FS_EmptySet
  <2>17. Cardinality(A) \in Nat /\ Cardinality(T) \in Nat BY <2>1, FS_CardinalityType
  <2> QED BY <2>1, <2>13, <2>14, <2>15, <2>16, <2>17
<1> QED BY <1>1, <1>3

LEMMA OwningJoin ==
    ASSUME NEW s \in Seq(Operands), NEW op \in Operands, NEW ops, ops = s \o <<op>>
    PROVE  /\ ops \in Seq(Operands)
           /\ \A x \in Ids : Owning(ops, x) = Owning(s, x) + Is(Owned(op), x)
<1> DEFINE t == <<op>>
<1>1. t \in Seq(Operands) /\ \A x \in Ids : Owning(t, x) = Is(Owned(op), x) BY OwningOne
<1>2. ops = s \o t OBVIOUS
<1> HIDE DEF t
<1>3. ops \in Seq(Operands) /\ \A x \in Ids : Owning(ops, x) = Owning(s, x) + Owning(t, x)
  <2>1. t \in Seq(Operands) BY <1>1
  <2> QED BY <2>1, <1>2, OwningConcat
<1> QED BY <1>1, <1>3

LEMMA OwningAppend ==
    ASSUME NEW s \in Seq(Operands), NEW op \in Operands, NEW ops, ops = Append(s, op)
    PROVE  /\ ops \in Seq(Operands) /\ Len(ops) = Len(s) + 1
           /\ \A x \in Ids : Owning(ops, x) = Owning(s, x) + Is(Owned(op), x)
<1>1. ops = s \o <<op>> BY AppendIsConcat
<1>2. Len(ops) = Len(s) + 1 BY AppendProperties
<1> QED BY <1>1, <1>2, OwningJoin

\* How many variables hold an array.
Holders(sl, x) == Cardinality({s \in Variables : sl[s] = x})

LEMMA VariablesFinite == IsFiniteSet(Variables)
<1>1. IsFiniteSet(Globals) BY BoundsAssumption
<1>2. IsFiniteSet(Globals \union {Local}) BY <1>1, FS_AddElement
<1>3. IsFiniteSet((Globals \union {Local}) \union {Arg}) BY <1>2, FS_AddElement
<1>4. Variables = (Globals \union {Local}) \union {Arg} BY DEF Variables
<1> QED BY <1>3, <1>4

LEMMA HoldersAre ==
    ASSUME NEW sl, NEW x
    PROVE  IsFiniteSet({s \in Variables : sl[s] = x}) /\ Holders(sl, x) \in Nat
<1> DEFINE S == {s \in Variables : sl[s] = x}
<1>1. S \in SUBSET Variables OBVIOUS
<1> HIDE DEF S
<1>2. IsFiniteSet(S) BY <1>1, VariablesFinite, FS_Subset
<1>3. Cardinality(S) \in Nat BY <1>2, FS_CardinalityType
<1> QED BY <1>2, <1>3 DEF S, Holders

\* One variable is assigned.
LEMMA SlotSet ==
    ASSUME NEW sl, NEW s \in Variables, NEW f, \A t \in Variables : t # s => f[t] = sl[t]
    PROVE  \A x : /\ Holders(f, x) = (Holders(sl, x) - Is(sl[s], x)) + Is(f[s], x)
                  /\ Holders(sl, x) >= Is(sl[s], x)
<1> SUFFICES ASSUME NEW x
             PROVE  /\ Holders(f, x) = (Holders(sl, x) - Is(sl[s], x)) + Is(f[s], x)
                    /\ Holders(sl, x) >= Is(sl[s], x)
  OBVIOUS
<1> DEFINE S == {t \in Variables : sl[t] = x}
           T == {t \in Variables : f[t] = x}
<1>1. IsFiniteSet(S) /\ IsFiniteSet(T) BY HoldersAre
<1>2. S \ {s} = T \ {s} OBVIOUS
<1>3. (s \in S <=> sl[s] = x) /\ (s \in T <=> f[s] = x) OBVIOUS
<1>4. Holders(sl, x) = Cardinality(S) /\ Holders(f, x) = Cardinality(T) BY DEF Holders
<1> HIDE DEF S, T
<1>5. Cardinality(S \ {s}) = IF s \in S THEN Cardinality(S) - 1 ELSE Cardinality(S)
  BY <1>1, FS_RemoveElement
<1>6. Cardinality(T \ {s}) = IF s \in T THEN Cardinality(T) - 1 ELSE Cardinality(T)
  BY <1>1, FS_RemoveElement
<1>7. Cardinality(S) \in Nat /\ Cardinality(T) \in Nat BY <1>1, FS_CardinalityType
<1>8. s \in S => Cardinality(S) # 0 BY <1>1, FS_EmptySet
<1>9. Is(sl[s], x) = (IF s \in S THEN 1 ELSE 0) /\ Is(f[s], x) = (IF s \in T THEN 1 ELSE 0)
  BY <1>3 DEF Is
<1> DEFINE m == Cardinality(S)
           n == Cardinality(T)
           i == Is(sl[s], x)
           j == Is(f[s], x)
<1>10. /\ m \in Nat /\ n \in Nat /\ i \in {0, 1} /\ j \in {0, 1}
       /\ (i = 1 => m # 0) /\ m - i = n - j
  <2>1. m \in Nat /\ n \in Nat BY <1>7
  <2>2. i \in {0, 1} /\ j \in {0, 1} BY <1>9
  <2>3. i = 1 => m # 0 BY <1>8, <1>9
  <2>4. Cardinality(S \ {s}) = m - i BY <1>5, <1>9, <2>1
  <2>5. Cardinality(T \ {s}) = n - j BY <1>6, <1>9, <2>1
  <2>6. m - i = n - j BY <1>2, <2>4, <2>5
  <2> QED BY <2>1, <2>2, <2>3, <2>6
<1> HIDE DEF m, n, i, j
<1>11. n = (m - i) + j /\ m >= i BY <1>10
<1> QED BY <1>4, <1>11 DEF m, n, i, j

-----------------------------------------------------------------------------
(* Dropping several operands.                                                 *)

LEMMA LeastOf ==
    ASSUME NEW S \in SUBSET Nat, S # {}
    PROVE  \E x \in S : \A y \in S : x <= y
<1> DEFINE R == OpToRel(<, Nat)
<1>1. IsWellFoundedOn(R, Nat) BY NatLessThanWellFounded
<1>2. \A x, y \in Nat : <<x, y>> \in R <=> x < y BY DEF OpToRel
<1> HIDE DEF R
<1>3. PICK x \in S : \A y \in S : ~(<<y, x>> \in R) BY <1>1, WFMin
<1>4. \A y \in S : ~(y < x) BY <1>2, <1>3
<1>5. x \in Int /\ S \subseteq Int OBVIOUS
<1> QED BY <1>4, <1>5, SMT

IsDropping(h, ops, f, n) == f = [k \in 0 .. n |-> IF k = 0 THEN h ELSE Drop(f[k - 1], ops[k])]

LEMMA DroppingExists == \A h, ops : \A n \in Nat : \E f : IsDropping(h, ops, f, n)
<1> SUFFICES ASSUME NEW h, NEW ops PROVE \A n \in Nat : \E f : IsDropping(h, ops, f, n) OBVIOUS
<1> DEFINE Bad == {n \in Nat : ~ \E f : IsDropping(h, ops, f, n)}
<1>1. SUFFICES ASSUME Bad # {} PROVE FALSE OBVIOUS
<1>2. PICK m \in Bad : \A n \in Bad : m <= n
  <2>1. Bad \in SUBSET Nat OBVIOUS
  <2> HIDE DEF Bad
  <2> QED BY <1>1, <2>1, LeastOf
<1>3. m \in Nat /\ ~ \E f : IsDropping(h, ops, f, m) OBVIOUS
<1>4. CASE m = 0
  <2> DEFINE f == [k \in 0 .. 0 |-> h]
  <2>1. f = [k \in 0 .. 0 |-> IF k = 0 THEN h ELSE Drop(f[k - 1], ops[k])] OBVIOUS
  <2>2. IsDropping(h, ops, f, m) BY <2>1, <1>4 DEF IsDropping
  <2> QED BY <2>2, <1>3
<1>5. CASE m # 0
  <2>1. m - 1 \in Nat /\ ~ (m <= m - 1) BY <1>3, <1>5
  <2>2. m - 1 \notin Bad BY <2>1, <1>2
  <2>3. PICK f : IsDropping(h, ops, f, m - 1) BY <2>1, <2>2
  <2> DEFINE g == [k \in 0 .. m |-> IF k = m THEN Drop(f[m - 1], ops[m]) ELSE f[k]]
  <2>4. ASSUME NEW k \in 0 .. m
        PROVE  g[k] = IF k = 0 THEN h ELSE Drop(g[k - 1], ops[k])
    <3>1. CASE k = 0
      <4>1. 0 \in 0 .. m - 1 BY <2>1
      <4>2. f[0] = h BY <4>1, <2>3 DEF IsDropping
      <4> QED BY <3>1, <4>2, <1>5
    <3>2. CASE k # 0 /\ k # m
      <4>1. k \in 0 .. m - 1 /\ k - 1 \in 0 .. m /\ k - 1 # m BY <3>2, <1>3
      <4>2. f[k] = Drop(f[k - 1], ops[k]) BY <4>1, <3>2, <2>3 DEF IsDropping
      <4>3. g[k] = f[k] /\ g[k - 1] = f[k - 1] BY <4>1, <3>2
      <4> QED BY <4>2, <4>3, <3>2
    <3>3. CASE k = m
      <4>1. m - 1 \in 0 .. m /\ m - 1 # m BY <2>1, <1>3
      <4>2. g[m] = Drop(f[m - 1], ops[m]) /\ g[m - 1] = f[m - 1] BY <4>1, <1>3
      <4> QED BY <4>2, <3>3, <1>5
    <3> QED BY <3>1, <3>2, <3>3
  <2>5. g = [k \in 0 .. m |-> IF k = 0 THEN h ELSE Drop(g[k - 1], ops[k])] BY <2>4
  <2> HIDE DEF g
  <2>6. IsDropping(h, ops, g, m) BY <2>5 DEF IsDropping
  <2> QED BY <2>6, <1>3
<1> QED BY <1>4, <1>5

\* n, and what operands own.
With(n, ops) == [x \in Ids |-> n[x] + Owning(ops, x)]

LEMMA WithFirst ==
    ASSUME NEW n \in [Ids -> Nat], NEW op \in Operands, NEW rest \in Seq(Operands),
           NEW all, all = <<op>> \o rest
    PROVE  \A x \in Ids : Plus(With(n, rest), Owned(op))[x] = With(n, all)[x]
<1> DEFINE one == <<op>>
<1>1. one \in Seq(Operands) /\ \A x \in Ids : Owning(one, x) = Is(Owned(op), x) BY OwningOne
<1>2. all = one \o rest OBVIOUS
<1> HIDE DEF one
<1>3. \A x \in Ids : Owning(all, x) = Owning(one, x) + Owning(rest, x)
  BY <1>1, <1>2, OwningConcat
<1> SUFFICES ASSUME NEW x \in Ids PROVE Plus(With(n, rest), Owned(op))[x] = With(n, all)[x]
  OBVIOUS
<1>4. Plus(With(n, rest), Owned(op))[x] = With(n, rest)[x] + Is(Owned(op), x)
  BY ReferencesAt
<1>5. With(n, rest)[x] = n[x] + Owning(rest, x) /\ With(n, all)[x] = n[x] + Owning(all, x)
  BY DEF With
<1>6. n[x] \in Nat /\ Owning(rest, x) \in Nat /\ Is(Owned(op), x) \in Int
  BY OwningIs DEF Is
<1> DEFINE p == Plus(With(n, rest), Owned(op))[x]
           q == With(n, all)[x]
           u == Owning(rest, x)
           i == Is(Owned(op), x)
           m == n[x]
<1>7. p = (m + u) + i /\ q = m + (i + u) /\ m \in Nat /\ u \in Nat /\ i \in Int
  BY <1>1, <1>3, <1>4, <1>5, <1>6
<1> HIDE DEF p, q, u, i, m
<1>8. p = q BY <1>7
<1> QED BY <1>8 DEF p, q

LEMMA DropAllIs ==
    ASSUME NEW h, HeapOK(h), NEW ops \in Seq(Operands), NEW n \in [Ids -> Nat],
           Ledger(h, With(n, ops)), NEW g, g = DropAll(h, ops)
    PROVE  HeapOK(g) /\ Ledger(g, n) /\ SeenAs(g, h)
<1> DEFINE len == Len(ops)
           after == CHOOSE f : f = [k \in 0 .. Len(ops) |->
                                       IF k = 0 THEN h ELSE Drop(f[k - 1], ops[k])]
           left(k) == SubSeq(ops, k + 1, len)
           Good(k) == HeapOK(after[k]) /\ Ledger(after[k], With(n, left(k))) /\ SeenAs(after[k], h)
           Bad == {k \in 0 .. len : ~ Good(k)}
<1>1. len \in Nat BY LenProperties
<1>2. g = after[len] BY Zenon DEF DropAll
<1>3. after = [k \in 0 .. Len(ops) |-> IF k = 0 THEN h ELSE Drop(after[k - 1], ops[k])]
  <2>1. PICK f : IsDropping(h, ops, f, Len(ops)) BY <1>1, DroppingExists
  <2>2. f = [k \in 0 .. Len(ops) |-> IF k = 0 THEN h ELSE Drop(f[k - 1], ops[k])]
    BY <2>1 DEF IsDropping
  <2> QED BY <2>2, Zenon
<1> HIDE DEF after
<1>4. \A k \in 0 .. len : left(k) \in Seq(Operands)
  <2> SUFFICES ASSUME NEW k \in 0 .. len PROVE left(k) \in Seq(Operands) OBVIOUS
  <2>1. \A i \in k + 1 .. len : ops[i] \in Operands
    <3>1. \A i \in k + 1 .. len : i \in 1 .. Len(ops) BY <1>1
    <3> QED BY <3>1, ElementOfSeq
  <2>2. k + 1 \in Int /\ len \in Int BY <1>1
  <2> QED BY <2>1, <2>2, SubSeqProperties
<1>5. Bad = {}
  <2>1. SUFFICES ASSUME Bad # {} PROVE FALSE OBVIOUS
  <2>2. PICK m \in Bad : \A k \in Bad : m <= k
    <3>1. Bad \in SUBSET Nat BY <1>1
    <3> HIDE DEF Bad
    <3> QED BY <2>1, <3>1, LeastOf
  <2>3. m \in 0 .. len /\ ~ Good(m) OBVIOUS
  <2>4. CASE m = 0
    <3>1. after[0] = h
      <4>1. 0 \in 0 .. Len(ops) BY <1>1
      <4> QED BY <4>1, <1>3
    <3>2. left(0) = ops
      <4>1. SubSeq(ops, 1, Len(ops)) = ops BY SubSeqFull
      <4> QED BY <4>1
    <3> QED BY <3>1, <3>2, <2>3, <2>4, SeenAsFrom
  <2>5. CASE m # 0
    <3> DEFINE q == after[m - 1]
               op == ops[m]
               rest == left(m)
    <3>1. m \in 1 .. Len(ops) /\ m - 1 \in 0 .. len /\ ~ (m <= m - 1) /\ (m - 1) + 1 = m
      BY <1>1, <2>3, <2>5
    <3>2. Good(m - 1)
      <4>1. m - 1 \notin Bad BY <3>1, <2>2
      <4> QED BY <4>1, <3>1
    <3>3. after[m] = Drop(q, op) BY <1>3, <2>3, <2>5
    <3>4. op \in Operands BY <3>1, ElementOfSeq
    <3>5. rest \in Seq(Operands) BY <1>4, <2>3
    <3>6. left(m - 1) = <<op>> \o rest
      <4>1. Len(ops) \in m .. Len(ops) BY <3>1, <1>1
      <4>2. SubSeq(ops, m, Len(ops)) = <<ops[m]>> \o SubSeq(ops, m + 1, Len(ops))
        BY <3>1, <4>1, SubSeqRecursiveFirst
      <4> QED BY <4>2, <3>1
    <3>7. With(n, rest) \in [Ids -> Nat]
      <4>1. \A x \in Ids : Owning(rest, x) \in Nat BY <3>5, OwningIs
      <4> QED BY <4>1 DEF With
    <3>8. \A x \in Ids : Plus(With(n, rest), Owned(op))[x] = With(n, left(m - 1))[x]
      <4> DEFINE all == left(m - 1)
      <4>1. op \in Operands /\ rest \in Seq(Operands) /\ all = <<op>> \o rest
        BY <3>4, <3>5, <3>6
      <4> HIDE DEF op, rest, all
      <4>2. \A x \in Ids : Plus(With(n, rest), Owned(op))[x] = With(n, all)[x]
        BY <4>1, WithFirst
      <4> QED BY <4>2 DEF all
    <3>9. Ledger(q, Plus(With(n, rest), Owned(op))) BY <3>2, <3>8, LedgerSame
    <3>10. HeapOK(q) /\ SeenAs(q, h) BY <3>2
    <3> HIDE DEF q, op, rest
    <3>11. HeapOK(after[m]) /\ Ledger(after[m], With(n, rest)) /\ SeenAs(after[m], q)
      BY <3>3, <3>4, <3>7, <3>9, <3>10, DropIs
    <3>12. SeenAs(after[m], h) BY <3>10, <3>11, SeenAsChain
    <3> QED BY <3>11, <3>12, <2>3 DEF rest
  <2> QED BY <2>4, <2>5
<1>6. Good(len)
  <2>1. len \in 0 .. len BY <1>1
  <2> QED BY <2>1, <1>5
<1>7. left(len) = <<>>
  <2>1. len \in Int /\ len + 1 \in Int /\ len < len + 1 BY <1>1
  <2> QED BY <2>1, SubSeqEmpty
<1>8. \A x \in Ids : n[x] = With(n, <<>>)[x]
  <2> SUFFICES ASSUME NEW x \in Ids PROVE n[x] = With(n, <<>>)[x] OBVIOUS
  <2>1. With(n, <<>>)[x] = n[x] + Owning(<<>>, x) BY DEF With
  <2>2. Owning(<<>>, x) = 0 /\ n[x] \in Nat BY OwningNone
  <2> QED BY <2>1, <2>2
<1>9. Ledger(after[len], With(n, <<>>)) BY <1>6, <1>7
<1>10. Ledger(after[len], n) BY <1>8, <1>9, LedgerSame
<1> QED BY <1>2, <1>6, <1>10

-----------------------------------------------------------------------------
(* The invariant.                                                             *)

\* The references that variables, operands and arguments own.
Refs(sl, st, args) == [x \in Ids |-> (Holders(sl, x) + Owning(st, x)) + Owning(args, x)]

Fits ==
    /\ modern \in BOOLEAN
    /\ slots \in [Variables -> Values]
    /\ stack \in Seq(Operands)
    /\ frame \in [open : BOOLEAN, base : Nat, args : Seq(Operands)]
    /\ frame.base \in 0 .. MaxStack + 1 /\ frame.base <= Len(stack)
    /\ frame.open \/ (frame.base = 0 /\ frame.args = <<>> /\ slots[Arg] = Zero)
    /\ currentArrayOwner \in Tokens \union {NoOwner}
    /\ modern \/ currentArrayOwner = NoOwner
    /\ status \in {"run", "aborted", "dangling"}
    /\ steps \in 0 .. MaxSteps

\* Array references are made in a file of the newer version only, and those of a chain that
\* writes have the owner of the statement that made them, as long as they are there.
Chained(h, st) ==
    \A k \in 1 .. Len(st) :
        /\ IsRef(st[k]) => st[k].v \in Ids /\ modern
        /\ st[k].kind = "write" /\ h[st[k].v].refCount > 0 => h[st[k].v].owner = st[k].at

IInv ==
    /\ Fits
    /\ HeapOK(heap)
    /\ status # "dangling" => Ledger(heap, Refs(slots, stack, frame.args))
    /\ Chained(heap, stack)

LEMMA RefsIs ==
    ASSUME NEW sl, NEW st \in Seq(Operands), NEW args \in Seq(Operands)
    PROVE  /\ Refs(sl, st, args) \in [Ids -> Nat]
           /\ \A x \in Ids : /\ Refs(sl, st, args)[x] = (Holders(sl, x) + Owning(st, x)) + Owning(args, x)
                             /\ Holders(sl, x) \in Nat /\ Owning(st, x) \in Nat
                             /\ Owning(args, x) \in Nat
<1>1. \A x \in Ids : Holders(sl, x) \in Nat /\ Owning(st, x) \in Nat /\ Owning(args, x) \in Nat
  BY HoldersAre, OwningIs
<1> QED BY <1>1 DEF Refs

\* What an instruction finds.
LEMMA RunningFinds ==
    ASSUME IInv, NEW pops \in 0 .. 2, Running(pops)
    PROVE  /\ Fits /\ HeapOK(heap) /\ Chained(heap, stack) /\ RoomForTwo(heap) /\ Room(heap)
           /\ Ledger(heap, Refs(slots, stack, frame.args))
           /\ Refs(slots, stack, frame.args) \in [Ids -> Nat]
           /\ Len(stack) \in Nat /\ Len(stack) <= MaxStack /\ Base = frame.base
           /\ frame.base \in Nat /\ frame.base <= Len(stack) - pops /\ frame.args \in Seq(Operands) /\ currentArrayOwner \in Owners
           /\ status = "run" /\ modern' = modern /\ steps' \in 0 .. MaxSteps
<1>1. Fits /\ HeapOK(heap) /\ Chained(heap, stack) BY DEF IInv
<1>2. status = "run" /\ modern' = modern /\ Depth >= pops /\ Bounded /\ steps' = steps + 1
  BY DEF Running
<1>3. Ledger(heap, Refs(slots, stack, frame.args)) BY <1>2 DEF IInv
<1>4. RoomForTwo(heap) BY <1>2 DEF Bounded, RoomForTwo
<1>5. Room(heap) BY <1>4, RoomStays
<1>6. stack \in Seq(Operands) /\ frame.args \in Seq(Operands) /\ frame.base \in Nat
      /\ frame.open \in BOOLEAN
  BY <1>1 DEF Fits
<1>7. Len(stack) \in Nat BY <1>6, LenProperties
<1>8. Base = frame.base BY <1>1 DEF Base, Fits
<1>9. frame.base <= Len(stack) - pops BY <1>2, <1>6, <1>7, <1>8 DEF Depth
<1>10. Len(stack) <= MaxStack BY <1>2 DEF Bounded
<1>11. steps' \in 0 .. MaxSteps
  <2>1. steps \in 0 .. MaxSteps /\ steps < MaxSteps /\ MaxSteps \in Nat
    BY <1>1, <1>2, Bounds DEF Fits, Bounded
  <2> QED BY <2>1, <1>2
<1>12. currentArrayOwner \in Owners BY <1>1 DEF Fits, Owners
<1>13. Refs(slots, stack, frame.args) \in [Ids -> Nat] BY <1>6, RefsIs
<1> QED BY <1>1, <1>2, <1>3, <1>4, <1>5, <1>6, <1>7, <1>8, <1>9, <1>10, <1>11, <1>12, <1>13

LEMMA PrefixIs ==
    ASSUME NEW st \in Seq(Operands), NEW n \in 0 .. Len(st), NEW p, p = SubSeq(st, 1, n)
    PROVE  /\ p \in Seq(Operands) /\ Len(p) = n
           /\ \A k \in 1 .. n : k \in 1 .. Len(st) /\ p[k] = st[k]
<1>1. Len(st) \in Nat BY LenProperties
<1>2. n \in Int /\ 1 \in Int /\ n \in Nat BY <1>1
<1>3. \A k \in 1 .. n : k \in 1 .. Len(st) BY <1>1
<1>4. \A k \in 1 .. n : st[k] \in Operands BY <1>3, ElementOfSeq
<1>5. /\ p \in Seq(Operands) /\ Len(p) = (IF 1 <= n THEN n - 1 + 1 ELSE 0)
      /\ \A k \in 1 .. n - 1 + 1 : p[k] = st[1 + k - 1]
  BY <1>2, <1>4, SubSeqProperties
<1>6. n - 1 + 1 = n /\ \A k \in 1 .. n : 1 + k - 1 = k BY <1>2
<1> QED BY <1>2, <1>3, <1>5, <1>6

\* One more operand.
LEMMA OwningNext ==
    ASSUME NEW st \in Seq(Operands), NEW n \in 1 .. Len(st)
    PROVE  /\ st[n] \in Operands
           /\ \A x \in Ids : Owning(SubSeq(st, 1, n), x) =
                              Owning(SubSeq(st, 1, n - 1), x) + Is(Owned(st[n]), x)
<1> DEFINE p == SubSeq(st, 1, n - 1)
           q == SubSeq(st, 1, n)
           one == <<st[n]>>
<1>1. Len(st) \in Nat BY LenProperties
<1>2. 1 \in 1 .. Len(st) /\ n - 1 \in 0 .. Len(st) BY <1>1
<1>3. q = p \o one BY <1>2, SubSeqRecursiveSecond
<1>4. st[n] \in Operands BY ElementOfSeq
<1>5. p \in Seq(Operands) BY <1>2, PrefixIs
<1>6. q = p \o <<st[n]>> BY <1>3
<1> HIDE DEF p, q, one
<1>7. \A x \in Ids : Owning(q, x) = Owning(p, x) + Is(Owned(st[n]), x)
  BY <1>4, <1>5, <1>6, OwningJoin
<1> QED BY <1>4, <1>7 DEF p, q

\* The operand on top, and what is below it.
LEMMA TopIs ==
    ASSUME IInv, Running(1)
    PROVE  /\ Top(0) \in Operands /\ Top(0).v \in Values /\ Top(0) = stack[Len(stack)]
           /\ Top(0).v \in Ids => heap[Top(0).v].refCount > 0
           /\ Below(1) \in Seq(Operands) /\ Len(Below(1)) = Len(stack) - 1 /\ Len(stack) \in 1 .. Len(stack)
           /\ frame.base <= Len(Below(1))
           /\ \A k \in 1 .. Len(Below(1)) : k \in 1 .. Len(stack) /\ Below(1)[k] = stack[k]
           /\ \A x \in Ids : Owning(stack, x) = Owning(Below(1), x) + Is(Owned(Top(0)), x)
<1> DEFINE n == Len(stack)
<1>1. /\ n \in Nat /\ frame.base <= n - 1 /\ frame.base \in Nat /\ stack \in Seq(Operands)
  BY RunningFinds DEF Fits
<1>2. n \in 1 .. n /\ n - 1 \in 0 .. n /\ n - 0 = n BY <1>1
<1>3. Top(0) = stack[n] /\ Below(1) = SubSeq(stack, 1, n - 1) BY <1>2 DEF Top, Below
<1>4. /\ stack[n] \in Operands
      /\ \A x \in Ids : Owning(SubSeq(stack, 1, n), x) =
                          Owning(SubSeq(stack, 1, n - 1), x) + Is(Owned(stack[n]), x)
  BY <1>1, <1>2, OwningNext
<1>5. SubSeq(stack, 1, n) = stack BY <1>1, SubSeqFull
<1>6. /\ Below(1) \in Seq(Operands) /\ Len(Below(1)) = n - 1
      /\ \A k \in 1 .. n - 1 : k \in 1 .. Len(stack) /\ Below(1)[k] = stack[k]
  <2> DEFINE l == n - 1
             p == Below(1)
  <2>1. l \in 0 .. Len(stack) /\ p = SubSeq(stack, 1, l) BY <1>2, <1>3
  <2> HIDE DEF l, p
  <2>2. /\ p \in Seq(Operands) /\ Len(p) = l
        /\ \A k \in 1 .. l : k \in 1 .. Len(stack) /\ p[k] = stack[k]
    BY <1>1, <2>1, PrefixIs
  <2> QED BY <2>2 DEF l, p
<1>7. Top(0).v \in Values BY <1>3, <1>4 DEF Operands, Values
<1>8. Top(0).v \in Ids => heap[Top(0).v].refCount > 0
  <2>1. 0 \in 0 .. 1 - 1 OBVIOUS
  <2>2. Live(Top(0).v) BY <2>1 DEF Running
  <2> QED BY <2>2 DEF Live
<1> QED BY <1>1, <1>2, <1>3, <1>4, <1>5, <1>6, <1>7, <1>8

\* The two operands on top, and what is below them.
LEMMA TopTwoAre ==
    ASSUME IInv, Running(2)
    PROVE  /\ Top(0) \in Operands /\ Top(0).v \in Values /\ Top(0) = stack[Len(stack)]
           /\ Top(1) \in Operands /\ Top(1).v \in Values
           /\ Top(0).v \in Ids => heap[Top(0).v].refCount > 0
           /\ Top(1).v \in Ids => heap[Top(1).v].refCount > 0
           /\ Below(2) \in Seq(Operands) /\ Len(Below(2)) = Len(stack) - 2 /\ Len(stack) \in 1 .. Len(stack)
           /\ frame.base <= Len(Below(2))
           /\ \A k \in 1 .. Len(Below(2)) : k \in 1 .. Len(stack) /\ Below(2)[k] = stack[k]
           /\ \A x \in Ids : Owning(stack, x) =
                  (Owning(Below(2), x) + Is(Owned(Top(1)), x)) + Is(Owned(Top(0)), x)
<1> DEFINE n == Len(stack)
<1>1. /\ n \in Nat /\ frame.base <= n - 2 /\ frame.base \in Nat /\ stack \in Seq(Operands)
  BY RunningFinds DEF Fits
<1>2. /\ n \in 1 .. n /\ n - 1 \in 1 .. n /\ n - 2 \in 0 .. n /\ n - 0 = n
      /\ (n - 1) - 1 = n - 2
  BY <1>1
<1>3. Top(0) = stack[n] /\ Top(1) = stack[n - 1] /\ Below(2) = SubSeq(stack, 1, n - 2)
  BY <1>2 DEF Top, Below
<1>4. /\ stack[n] \in Operands
      /\ \A x \in Ids : Owning(SubSeq(stack, 1, n), x) =
                          Owning(SubSeq(stack, 1, n - 1), x) + Is(Owned(stack[n]), x)
  BY <1>1, <1>2, OwningNext
<1>5. /\ stack[n - 1] \in Operands
      /\ \A x \in Ids : Owning(SubSeq(stack, 1, n - 1), x) =
                          Owning(SubSeq(stack, 1, (n - 1) - 1), x) + Is(Owned(stack[n - 1]), x)
  BY <1>1, <1>2, OwningNext
<1>6. SubSeq(stack, 1, n) = stack BY <1>1, SubSeqFull
<1>7. /\ Below(2) \in Seq(Operands) /\ Len(Below(2)) = n - 2
      /\ \A k \in 1 .. n - 2 : k \in 1 .. Len(stack) /\ Below(2)[k] = stack[k]
  <2> DEFINE l == n - 2
             p == Below(2)
  <2>1. l \in 0 .. Len(stack) /\ p = SubSeq(stack, 1, l) BY <1>2, <1>3
  <2> HIDE DEF l, p
  <2>2. /\ p \in Seq(Operands) /\ Len(p) = l
        /\ \A k \in 1 .. l : k \in 1 .. Len(stack) /\ p[k] = stack[k]
    BY <1>1, <2>1, PrefixIs
  <2> QED BY <2>2 DEF l, p
<1>8. Top(0).v \in Values /\ Top(1).v \in Values BY <1>3, <1>4, <1>5 DEF Operands, Values
<1>9. /\ Top(0).v \in Ids => heap[Top(0).v].refCount > 0
      /\ Top(1).v \in Ids => heap[Top(1).v].refCount > 0
  <2>1. 0 \in 0 .. 2 - 1 /\ 1 \in 0 .. 2 - 1 OBVIOUS
  <2>2. Live(Top(0).v) /\ Live(Top(1).v) BY <2>1 DEF Running
  <2> QED BY <2>2 DEF Live
<1>10. \A x \in Ids : Owning(stack, x) =
           (Owning(Below(2), x) + Is(Owned(Top(1)), x)) + Is(Owned(Top(0)), x)
  BY <1>2, <1>3, <1>4, <1>5, <1>6
<1> QED BY <1>1, <1>2, <1>3, <1>4, <1>5, <1>7, <1>8, <1>9, <1>10

-----------------------------------------------------------------------------
(* What steps have in common.                                                 *)

LEMMA Keeps ==
    ASSUME modern' = modern, Fits', HeapOK(heap'),
           status' # "dangling" => Ledger(heap', Refs(slots', stack', frame'.args)),
           Chained(heap', stack')
    PROVE  IInv'
<1>1. Owners' = Owners BY DEF Owners
<1>2. HeapOK(heap)' BY <1>1 DEF HeapOK, Array
<1>3. Chained(heap, stack)' BY DEF Chained
<1>4. (status # "dangling" => Ledger(heap, Refs(slots, stack, frame.args)))' OBVIOUS
<1> QED BY <1>2, <1>3, <1>4 DEF IInv

LEMMA FitsKept ==
    ASSUME Fits, modern' = modern, steps' \in 0 .. MaxSteps, slots' \in [Variables -> Values],
           stack' \in Seq(Operands), frame' = frame, frame.base <= Len(stack'),
           currentArrayOwner' = currentArrayOwner, frame.open \/ slots'[Arg] = slots[Arg],
           status' \in {"run", "aborted", "dangling"}
    PROVE  Fits'
BY DEF Fits

\* Views of numbers, variables and cells, results and references are operands.
LEMMA OperandIs ==
    ASSUME Fits, NEW v \in Values, NEW kind \in {"own", "view", "read", "write"}
    PROVE  /\ Operand(v, kind) \in Operands /\ Operand(v, kind).v = v
           /\ Operand(v, kind).kind = kind /\ Operand(v, kind).at = currentArrayOwner
BY DEF Fits, Operand, Operands, Values

LEMMA ChainKept ==
    ASSUME stack \in Seq(Operands), Chained(heap, stack), NEW g, modern => SeenAs(g, heap),
           NEW st \in Seq(Operands), \A k \in 1 .. Len(st) : k \in 1 .. Len(stack) /\ st[k] = stack[k]
    PROVE  Chained(g, st)
<1> SUFFICES ASSUME NEW k \in 1 .. Len(st)
             PROVE  /\ IsRef(st[k]) => st[k].v \in Ids /\ modern
                    /\ st[k].kind = "write" /\ g[st[k].v].refCount > 0
                           => g[st[k].v].owner = st[k].at
  BY DEF Chained
<1> DEFINE op == st[k]
<1>1. k \in 1 .. Len(stack) /\ op = stack[k] OBVIOUS
<1> HIDE DEF op
<1>2. /\ IsRef(op) => op.v \in Ids /\ modern
      /\ op.kind = "write" /\ heap[op.v].refCount > 0 => heap[op.v].owner = op.at
  BY <1>1 DEF Chained
<1>3. ASSUME op.kind = "write", g[op.v].refCount > 0 PROVE g[op.v].owner = op.at
  <2>1. op.v \in Ids BY <1>2, <1>3 DEF IsRef
  <2>2. op \in ToSet(stack)
    <3>1. DOMAIN stack = 1 .. Len(stack) BY LenProperties
    <3> QED BY <3>1, <1>1 DEF ToSet
  <2>3. op.v \in Looked BY <2>1, <2>2 DEF Looked
  <2>4. modern BY <1>2, <1>3 DEF IsRef
  <2> QED BY <2>3, <2>4, <1>2, <1>3 DEF SeenAs
<1> QED BY <1>2, <1>3 DEF op

LEMMA ChainAppend ==
    ASSUME NEW g, NEW st \in Seq(Operands), Chained(g, st), NEW op \in Operands,
           IsRef(op) => op.v \in Ids /\ modern,
           op.kind = "write" => g[op.v].owner = op.at
    PROVE  Chained(g, Append(st, op))
<1> DEFINE ops == Append(st, op)
<1>1. /\ Len(ops) = Len(st) + 1 /\ Len(st) \in Nat
      /\ \A k \in 1 .. Len(st) : ops[k] = st[k]
      /\ ops[Len(st) + 1] = op
  BY AppendProperties, LenProperties
<1> HIDE DEF ops
<1>2. \A k \in 1 .. Len(ops) : k \in 1 .. Len(st) \/ k = Len(st) + 1 BY <1>1
<1>3. Chained(g, ops)
  <2> SUFFICES ASSUME NEW k \in 1 .. Len(ops)
               PROVE  /\ IsRef(ops[k]) => ops[k].v \in Ids /\ modern
                      /\ ops[k].kind = "write" /\ g[ops[k].v].refCount > 0
                             => g[ops[k].v].owner = ops[k].at
    BY DEF Chained
  <2>1. CASE k \in 1 .. Len(st)
    <3>1. ops[k] = st[k] BY <2>1, <1>1
    <3> QED BY <2>1, <3>1 DEF Chained
  <2>2. CASE k = Len(st) + 1
    <3>1. ops[k] = op BY <2>2, <1>1
    <3> QED BY <3>1
  <2> QED BY <2>1, <2>2, <1>2
<1> QED BY <1>3 DEF ops

\* An operand is put on top of a prefix of the stack.
LEMMA Pushed ==
    ASSUME IInv, Fits, modern' = modern, steps' \in 0 .. MaxSteps, slots' \in [Variables -> Values],
           frame.open \/ slots'[Arg] = slots[Arg],
           frame' = frame, currentArrayOwner' = currentArrayOwner, status' = status,
           NEW st \in Seq(Operands), frame.base <= Len(st), frame.base \in Nat,
           \A k \in 1 .. Len(st) : k \in 1 .. Len(stack) /\ st[k] = stack[k],
           NEW op \in Operands, stack' = Append(st, op),
           IsRef(op) => op.v \in Ids /\ modern,
           op.kind = "write" => heap'[op.v].owner = op.at,
           HeapOK(heap'), SeenAs(heap', heap),
           NEW n \in [Ids -> Int], Ledger(heap', n),
           \A x \in Ids : n[x] = ((Holders(slots', x) + Owning(st, x)) + Owning(frame.args, x))
                                     + Is(Owned(op), x)
    PROVE  IInv'
<1>1. /\ stack' \in Seq(Operands) /\ Len(stack') = Len(st) + 1
      /\ \A x \in Ids : Owning(stack', x) = Owning(st, x) + Is(Owned(op), x)
  BY OwningAppend
<1>2. stack \in Seq(Operands) /\ frame.args \in Seq(Operands) /\ Chained(heap, stack)
  BY DEF IInv, Fits
<1>3. Fits'
  <2>1. Len(st) \in Nat BY LenProperties
  <2>2. frame.base <= Len(stack') BY <2>1, <1>1
  <2>3. status' \in {"run", "aborted", "dangling"} BY DEF Fits
  <2> QED BY <1>1, <2>2, <2>3, FitsKept
<1>4. Chained(heap', stack')
  <2>1. Chained(heap', st) BY <1>2, ChainKept
  <2> QED BY <2>1, ChainAppend
<1>5. Ledger(heap', Refs(slots', stack', frame'.args))
  <2>1. \A x \in Ids : Refs(slots', stack', frame'.args)[x] = n[x]
    <3> SUFFICES ASSUME NEW x \in Ids PROVE Refs(slots', stack', frame'.args)[x] = n[x] OBVIOUS
    <3> DEFINE a == Holders(slots', x)
               b == Owning(st, x)
               c == Owning(frame.args, x)
               i == Is(Owned(op), x)
    <3>1. Refs(slots', stack', frame'.args)[x] = (a + Owning(stack', x)) + c
      BY DEF Refs
    <3>2. Owning(stack', x) = b + i /\ n[x] = ((a + b) + c) + i BY <1>1
    <3>3. a \in Nat /\ b \in Nat /\ c \in Nat /\ i \in Int
      <4>1. a \in Nat BY HoldersAre
      <4>2. b \in Nat BY OwningIs
      <4>3. c \in Nat BY <1>2, OwningIs
      <4>4. i \in Int BY DEF Is
      <4> QED BY <4>1, <4>2, <4>3, <4>4
    <3> HIDE DEF a, b, c, i
    <3>4. (a + (b + i)) + c = ((a + b) + c) + i BY <3>3
    <3> QED BY <3>1, <3>2, <3>4
  <2> QED BY <2>1, LedgerSame
<1> QED BY <1>3, <1>4, <1>5, Keeps

\* The stack is cut to a prefix.
LEMMA Popped ==
    ASSUME IInv, Fits, modern' = modern, steps' \in 0 .. MaxSteps, slots' \in [Variables -> Values],
           frame.open \/ slots'[Arg] = slots[Arg],
           frame' = frame, currentArrayOwner' = currentArrayOwner, status' = status,
           stack' \in Seq(Operands), frame.base <= Len(stack'),
           \A k \in 1 .. Len(stack') : k \in 1 .. Len(stack) /\ stack'[k] = stack[k],
           HeapOK(heap'), modern => SeenAs(heap', heap),
           NEW n \in [Ids -> Int], Ledger(heap', n),
           \A x \in Ids : n[x] = (Holders(slots', x) + Owning(stack', x)) + Owning(frame.args, x)
    PROVE  IInv'
<1>1. stack \in Seq(Operands) /\ Chained(heap, stack) BY DEF IInv, Fits
<1>2. Fits'
  <2>1. status' \in {"run", "aborted", "dangling"} BY DEF Fits
  <2> QED BY <2>1, FitsKept
<1>3. Chained(heap', stack') BY <1>1, ChainKept
<1>4. Ledger(heap', Refs(slots', stack', frame'.args))
  <2>1. \A x \in Ids : Refs(slots', stack', frame'.args)[x] = n[x] BY DEF Refs
  <2> QED BY <2>1, LedgerSame
<1> QED BY <1>2, <1>3, <1>4, Keeps

-----------------------------------------------------------------------------
(* Instructions on values.                                                    *)

LEMMA IsNumber == \A x \in Ids : Is(Zero, x) = 0
BY ZeroIs DEF Is

LEMMA PushKeeps ==
    ASSUME IInv, Running(0), NEW op \in Operands, op.kind = "view", Push(op)
    PROVE  IInv'
<1> DEFINE n == Refs(slots, stack, frame.args)
<1>1. /\ stack' = Append(stack, op) /\ heap' = heap /\ slots' = slots /\ frame' = frame
      /\ currentArrayOwner' = currentArrayOwner /\ status' = status
  BY DEF Push
<1>2. /\ Fits /\ HeapOK(heap) /\ Ledger(heap, n) /\ n \in [Ids -> Nat]
      /\ Len(stack) \in Nat /\ frame.base \in Nat /\ frame.base <= Len(stack) - 0
      /\ frame.args \in Seq(Operands) /\ modern' = modern /\ steps' \in 0 .. MaxSteps
  BY RunningFinds
<1>3. slots \in [Variables -> Values] /\ stack \in Seq(Operands) BY <1>2 DEF Fits
<1>4. frame.base <= Len(stack) BY <1>2
<1>5. Owned(op) = Zero /\ ~ IsRef(op) /\ op.kind # "write" BY DEF Owned, IsRef
<1>6. ASSUME NEW x \in Ids
      PROVE  n[x] = ((Holders(slots', x) + Owning(stack, x)) + Owning(frame.args, x))
                        + Is(Owned(op), x)
  <2>1. n[x] = (Holders(slots, x) + Owning(stack, x)) + Owning(frame.args, x) /\ n[x] \in Nat
    BY <1>2, <1>3, RefsIs
  <2>2. Is(Owned(op), x) = 0 BY <1>5, IsNumber
  <2> QED BY <2>1, <2>2, <1>1
<1>7. SeenAs(heap', heap) BY <1>1, SeenAsFrom
<1>8. n \in [Ids -> Int] BY <1>2
<1>9. HeapOK(heap') /\ Ledger(heap', n) BY <1>1, <1>2
<1> HIDE DEF n
<1> QED BY <1>1, <1>2, <1>3, <1>4, <1>5, <1>6, <1>7, <1>8, <1>9, Pushed

LEMMA PushNumberKeeps ==
    ASSUME IInv, PushNumber
    PROVE  IInv'
<1>1. Running(0) /\ Push(Operand(One, "view")) BY DEF PushNumber
<1>2. One \in Values BY DEF Values, Numbers
<1>3. Fits BY DEF IInv
<1>4. Operand(One, "view") \in Operands /\ Operand(One, "view").kind = "view"
  BY <1>2, <1>3, OperandIs
<1> QED BY <1>1, <1>4, PushKeeps

LEMMA PushVariableKeeps ==
    ASSUME IInv, NEW s \in Variables, PushVariable(s)
    PROVE  IInv'
<1>1. Running(0) /\ Push(Operand(slots[s], "view")) BY DEF PushVariable
<1>2. Fits BY DEF IInv
<1>3. slots[s] \in Values BY <1>2 DEF Fits
<1>4. Operand(slots[s], "view") \in Operands /\ Operand(slots[s], "view").kind = "view"
  BY <1>2, <1>3, OperandIs
<1> QED BY <1>1, <1>4, PushKeeps

LEMMA PushElementKeeps ==
    ASSUME IInv, NEW s \in Writable, NEW i \in Indices, PushElement(s, i)
    PROVE  IInv'
<1> DEFINE v == Element(slots[s], i)
<1>1. Running(0) /\ v \in Ids /\ Push(Operand(v, "view")) BY DEF PushElement
<1>2. Fits BY DEF IInv
<1> HIDE DEF v
<1>3. v \in Values BY <1>1 DEF Values
<1>4. Operand(v, "view") \in Operands /\ Operand(v, "view").kind = "view"
  BY <1>2, <1>3, OperandIs
<1> QED BY <1>1, <1>4, PushKeeps

LEMMA IndexIs == \A i \in Indices : i \in 1 .. MaxLength /\ i \in Nat
BY BoundsAssumption, Bounds

LEMMA BreakPushAFKeeps ==
    ASSUME IInv, NEW i \in Indices, BreakPushAF(i)
    PROVE  IInv'
<1> DEFINE n == Refs(slots, stack, frame.args)
           v == Element(Top(0).v, i)
           op == Operand(v, "view")
           st == Below(1)
<1>1. /\ Running(1) /\ IsRef(Top(0)) /\ stack' = Append(st, op)
      /\ heap' = heap /\ slots' = slots /\ frame' = frame
      /\ currentArrayOwner' = currentArrayOwner /\ status' = status
  BY DEF BreakPushAF
<1>2. /\ Fits /\ HeapOK(heap) /\ Ledger(heap, n) /\ n \in [Ids -> Nat] /\ frame.base \in Nat
      /\ frame.args \in Seq(Operands) /\ modern' = modern /\ steps' \in 0 .. MaxSteps
  BY <1>1, RunningFinds
<1>3. /\ Top(0) \in Operands
      /\ st \in Seq(Operands) /\ frame.base <= Len(st)
      /\ \A k \in 1 .. Len(st) : k \in 1 .. Len(stack) /\ st[k] = stack[k]
      /\ \A x \in Ids : Owning(stack, x) = Owning(st, x) + Is(Owned(Top(0)), x)
  BY <1>1, TopIs
<1>4. v \in Values
  <2> DEFINE a == Top(0).v
  <2>1. CASE a \in Ids /\ i <= Len(heap[a].data)
    <3>1. heap[a].data \in Seq(Values) /\ Len(heap[a].data) \in Nat
      BY <2>1, <1>2, HeapFields, LenProperties
    <3>2. i \in 1 .. Len(heap[a].data) BY <2>1, <3>1, IndexIs
    <3>3. v = heap[a].data[i] BY <2>1 DEF Element
    <3> QED BY <3>1, <3>2, <3>3, ElementOfSeq
  <2>2. CASE ~ (a \in Ids /\ i <= Len(heap[a].data))
    <3>1. v = Zero BY <2>2 DEF Element
    <3> QED BY <3>1, ZeroIs
  <2> QED BY <2>1, <2>2
<1> HIDE DEF v
<1>5. op \in Operands /\ op.kind = "view" BY <1>2, <1>4, OperandIs
<1> HIDE DEF op, st, n
<1>6. Owned(op) = Zero /\ ~ IsRef(op) /\ op.kind # "write" BY <1>5 DEF Owned, IsRef
<1>7. Owned(Top(0)) = Zero BY <1>1 DEF Owned, IsRef
<1>8. slots \in [Variables -> Values] /\ stack \in Seq(Operands) BY <1>2 DEF Fits
<1>9. ASSUME NEW x \in Ids
      PROVE  n[x] = ((Holders(slots', x) + Owning(st, x)) + Owning(frame.args, x))
                        + Is(Owned(op), x)
  <2>1. n[x] = (Holders(slots, x) + Owning(stack, x)) + Owning(frame.args, x) /\ n[x] \in Nat
    BY <1>2, <1>8, RefsIs DEF n
  <2>2. Is(Owned(op), x) = 0 /\ Is(Owned(Top(0)), x) = 0 BY <1>6, <1>7, IsNumber
  <2>3. Owning(stack, x) = Owning(st, x) + 0 /\ Owning(st, x) \in Nat BY <2>2, <1>3, OwningIs
  <2> QED BY <2>1, <2>2, <2>3, <1>1
<1>10. SeenAs(heap', heap) BY <1>1, SeenAsFrom
<1>11. n \in [Ids -> Int] BY <1>2
<1>12. HeapOK(heap') /\ Ledger(heap', n) BY <1>1, <1>2
<1> QED BY <1>1, <1>2, <1>3, <1>5, <1>6, <1>8, <1>9, <1>10, <1>11, <1>12, Pushed

LEMMA PopzKeeps ==
    ASSUME IInv, Popz
    PROVE  IInv'
<1> DEFINE n == Refs(slots, stack', frame.args)
<1>1. /\ Running(1) /\ stack' = Below(1) /\ heap' = Drop(heap, Top(0)) /\ slots' = slots
      /\ frame' = frame /\ currentArrayOwner' = currentArrayOwner /\ status' = status
  BY DEF Popz
<1>2. /\ Fits /\ HeapOK(heap) /\ Ledger(heap, Refs(slots, stack, frame.args))
      /\ frame.args \in Seq(Operands) /\ modern' = modern /\ steps' \in 0 .. MaxSteps
  BY <1>1, RunningFinds
<1>3. /\ Top(0) \in Operands
      /\ stack' \in Seq(Operands) /\ frame.base <= Len(stack')
      /\ \A k \in 1 .. Len(stack') : k \in 1 .. Len(stack) /\ stack'[k] = stack[k]
      /\ \A x \in Ids : Owning(stack, x) = Owning(stack', x) + Is(Owned(Top(0)), x)
  BY <1>1, TopIs
<1>4. slots \in [Variables -> Values] /\ stack \in Seq(Operands) BY <1>2 DEF Fits
<1>5. n \in [Ids -> Nat]
      /\ \A x \in Ids : /\ n[x] = (Holders(slots, x) + Owning(stack', x)) + Owning(frame.args, x)
                        /\ Holders(slots, x) \in Nat /\ Owning(stack', x) \in Nat
                        /\ Owning(frame.args, x) \in Nat
  BY <1>2, <1>3, RefsIs
<1> HIDE DEF n
<1>6. Ledger(heap, Plus(n, Owned(Top(0))))
  <2>1. ASSUME NEW x \in Ids PROVE Plus(n, Owned(Top(0)))[x] = Refs(slots, stack, frame.args)[x]
    <3>1. Plus(n, Owned(Top(0)))[x] = n[x] + Is(Owned(Top(0)), x) BY ReferencesAt
    <3>2. Refs(slots, stack, frame.args)[x] =
              (Holders(slots, x) + Owning(stack, x)) + Owning(frame.args, x)
      BY DEF Refs
    <3>3. Is(Owned(Top(0)), x) \in Int BY DEF Is
    <3> QED BY <3>1, <3>2, <3>3, <1>3, <1>5
  <2> QED BY <2>1, <1>2, LedgerSame
<1>7. HeapOK(heap') /\ Ledger(heap', n) /\ SeenAs(heap', heap) BY <1>1, <1>2, <1>3, <1>5, <1>6, DropIs
<1>8. n \in [Ids -> Int] BY <1>5
<1> QED BY <1>1, <1>2, <1>3, <1>4, <1>5, <1>7, <1>8, Popped

\* What is held when the operand on top has gone.
LEMMA BelowIs ==
    ASSUME IInv, Running(1), NEW m, m = Refs(slots, Below(1), frame.args)
    PROVE  /\ m \in [Ids -> Nat] /\ Ledger(heap, Plus(m, Owned(Top(0))))
           /\ \A x \in Ids :
                 /\ m[x] = (Holders(slots, x) + Owning(Below(1), x)) + Owning(frame.args, x)
                 /\ Holders(slots, x) \in Nat /\ Owning(Below(1), x) \in Nat
                 /\ Owning(frame.args, x) \in Nat
<1>1. frame.args \in Seq(Operands) /\ Ledger(heap, Refs(slots, stack, frame.args))
      /\ stack \in Seq(Operands)
  BY RunningFinds DEF Fits
<1>2. /\ Below(1) \in Seq(Operands)
      /\ \A x \in Ids : Owning(stack, x) = Owning(Below(1), x) + Is(Owned(Top(0)), x)
  BY TopIs
<1>3. /\ m \in [Ids -> Nat]
      /\ \A x \in Ids :
                 /\ m[x] = (Holders(slots, x) + Owning(Below(1), x)) + Owning(frame.args, x)
                 /\ Holders(slots, x) \in Nat /\ Owning(Below(1), x) \in Nat
                 /\ Owning(frame.args, x) \in Nat
  <2> DEFINE st == Below(1)
             args == frame.args
  <2>1. st \in Seq(Operands) /\ args \in Seq(Operands) /\ m = Refs(slots, st, args)
    BY <1>1, <1>2
  <2> HIDE DEF st, args
  <2>2. /\ Refs(slots, st, args) \in [Ids -> Nat]
        /\ \A x \in Ids : /\ Refs(slots, st, args)[x] =
                                 (Holders(slots, x) + Owning(st, x)) + Owning(args, x)
                          /\ Holders(slots, x) \in Nat /\ Owning(st, x) \in Nat
                          /\ Owning(args, x) \in Nat
    BY <2>1, RefsIs
  <2> QED BY <2>1, <2>2 DEF st, args
<1>4. ASSUME NEW x \in Ids PROVE Plus(m, Owned(Top(0)))[x] = Refs(slots, stack, frame.args)[x]
  <2>1. Plus(m, Owned(Top(0)))[x] = m[x] + Is(Owned(Top(0)), x) BY ReferencesAt
  <2>2. Refs(slots, stack, frame.args)[x] =
            (Holders(slots, x) + Owning(stack, x)) + Owning(frame.args, x)
    BY DEF Refs
  <2>3. Is(Owned(Top(0)), x) \in Int BY DEF Is
  <2> QED BY <2>1, <2>2, <2>3, <1>2, <1>3
<1>5. Ledger(heap, Plus(m, Owned(Top(0)))) BY <1>1, <1>4, LedgerSame
<1> QED BY <1>3, <1>5

\* A new array of one cell holds what the cell holds.
LEMMA InsideOne ==
    ASSUME NEW h, NEW a \in Ids, NEW v, NEW d, d = <<v>>, h[a].data = d
    PROVE  \A x \in Ids : Inside(h, a, x) = Is(v, x)
<1> SUFFICES ASSUME NEW x \in Ids PROVE Inside(h, a, x) = Is(v, x) OBVIOUS
<1> DEFINE A == {a}
           c == <<a, 1>>
<1>1. A \in SUBSET Ids OBVIOUS
<1>2. Len(d) = 1 /\ d[1] = v OBVIOUS
<1>3. 1 \in 1 .. MaxLength /\ \A k \in 1 .. MaxLength : k <= 1 <=> k = 1 BY Bounds
<1>4. CellSet(h, A, x) = IF v = x THEN {c} ELSE {}
  <2>1. \A e \in CellSet(h, A, x) : e = c /\ v = x BY <1>2, <1>3 DEF CellSet
  <2>2. v = x => c \in CellSet(h, A, x) BY <1>2, <1>3 DEF CellSet
  <2> HIDE DEF c, A
  <2> QED BY <2>1, <2>2
<1>5. Inside(h, a, x) = Cardinality(CellSet(h, A, x))
  <2>1. CellsWith(h, A, x) = Cardinality(CellSet(h, A, x)) BY <1>1, CellsFinite
  <2> QED BY <2>1 DEF Inside
<1> HIDE DEF c, A
<1>6. Cardinality({c}) = 1 /\ Cardinality({}) = 0 BY FS_Singleton, FS_EmptySet
<1> QED BY <1>4, <1>5, <1>6 DEF Is

\* A new array is owned once, and holds what its cells hold.
LEMMA CreateLedger ==
    ASSUME NEW h, HeapOK(h), Room(h), NEW owner \in Owners,
           NEW data \in Seq(Values), Len(data) <= MaxLength, NEW c, c = Create(h, owner, data),
           NEW q \in [Ids -> Nat],
           \A x \in Ids : h[x].refCount = (q[x] + Inside(c.h, c.ref, x)) + CellsWith(h, Ids, x)
    PROVE  Ledger(c.h, Plus(q, c.ref)) /\ SeenAs(c.h, h)
<1>1. /\ c.ref \in Ids \ Named(h) /\ h[c.ref] = Freed
      /\ c.h[c.ref].refCount = 1
      /\ \A x \in Ids : x # c.ref => c.h[x] = h[x]
      /\ \A x \in Ids : CellsWith(c.h, Ids, x) = CellsWith(h, Ids, x) + Inside(c.h, c.ref, x)
  BY CreateIs
<1>2. h[c.ref].refCount = 0 BY <1>1, FreedIs
<1>3. ASSUME NEW x \in Ids PROVE c.h[x].refCount = Plus(q, c.ref)[x] + CellsWith(c.h, Ids, x)
  <2> DEFINE u == q[x]
             i == Inside(c.h, c.ref, x)
             w == CellsWith(h, Ids, x)
             z == CellsWith(c.h, Ids, x)
             p == Plus(q, c.ref)[x]
  <2>1. p = u + Is(c.ref, x) BY ReferencesAt
  <2>2. u \in Nat /\ i \in Nat /\ w \in Nat BY <1>1, InsideIs, CellsFinite
  <2>3. h[x].refCount = (u + i) + w OBVIOUS
  <2>4. z = w + i BY <1>1
  <2> HIDE DEF u, i, w, z, p
  <2>5. CASE x = c.ref
    <3>1. c.h[x].refCount = 1 /\ h[x].refCount = 0 /\ Is(c.ref, x) = 1 BY <2>5, <1>1, <1>2 DEF Is
    <3>2. u = 0 /\ i = 0 /\ w = 0 BY <3>1, <2>2, <2>3
    <3>3. p + z = 1 BY <3>1, <3>2, <2>1, <2>4
    <3> QED BY <3>1, <3>3 DEF p, z
  <2>6. CASE x # c.ref
    <3>1. c.h[x].refCount = (u + i) + w BY <2>6, <1>1, <2>3
    <3>2. Is(c.ref, x) = 0 BY <2>6 DEF Is
    <3>3. p + z = (u + i) + w BY <3>2, <2>1, <2>2, <2>4
    <3> QED BY <3>1, <3>3 DEF p, z
  <2> QED BY <2>5, <2>6
<1>4. Ledger(c.h, Plus(q, c.ref)) BY <1>3 DEF Ledger
<1>5. \A x \in Named(h) : c.h[x].refCount > 0 => h[x].refCount > 0 /\ c.h[x].owner = h[x].owner
  BY <1>1, NamedFinite
<1>6. SeenAs(c.h, h) BY <1>5, SeenAsFrom
<1> QED BY <1>4, <1>6

LEMMA NewGMLArrayKeeps ==
    ASSUME IInv, NewGMLArray
    PROVE  IInv'
<1> DEFINE st == Below(1)
           m == Refs(slots, st, frame.args)
           v == Top(0).v
           o == Owned(Top(0))
           h == Retain(heap, v)
           d == <<v>>
           c == Create(h, NoOwner, d)
           op == Operand(c.ref, "own")
           q == Plus(m, o)
           n == Plus(m, c.ref)
<1>1. /\ Running(1) /\ heap' = Drop(c.h, Top(0)) /\ stack' = Append(st, op) /\ slots' = slots
      /\ frame' = frame /\ currentArrayOwner' = currentArrayOwner /\ status' = status
  BY DEF NewGMLArray
<1>2. /\ Fits /\ HeapOK(heap) /\ Room(heap) /\ frame.base \in Nat
      /\ modern' = modern /\ steps' \in 0 .. MaxSteps
  BY <1>1, RunningFinds
<1>3. /\ Top(0) \in Operands /\ v \in Values /\ (v \in Ids => heap[v].refCount > 0)
      /\ st \in Seq(Operands) /\ frame.base <= Len(st)
      /\ \A k \in 1 .. Len(st) : k \in 1 .. Len(stack) /\ st[k] = stack[k]
  BY <1>1, TopIs
<1>4. /\ m \in [Ids -> Nat] /\ Ledger(heap, q)
      /\ \A x \in Ids : m[x] = (Holders(slots, x) + Owning(st, x)) + Owning(frame.args, x)
  BY <1>1, BelowIs
<1>5. slots \in [Variables -> Values] BY <1>2 DEF Fits
<1>6. NoOwner \in Owners BY DEF Owners
<1>7. d \in Seq(Values) /\ Len(d) <= MaxLength
  <2>1. d \in Seq(Values) /\ Len(d) = 1 BY <1>3
  <2>2. MaxLength \in Nat \ {0} BY Bounds
  <2> QED BY <2>1, <2>2
<1> HIDE DEF m, st, o
<1>8. q \in [Ids -> Nat] BY <1>4, PlusType
<1> HIDE DEF q, v
<1>9. HeapOK(h) /\ Ledger(h, Plus(q, v)) /\ SeenAs(h, heap) /\ Named(h) = Named(heap)
  <2>1. q \in [Ids -> Int] BY <1>8
  <2> QED BY <2>1, <1>2, <1>3, <1>4, RetainIs, RetainSeen
<1>10. Room(h) BY <1>2, <1>9 DEF Room
<1>11. d = <<v>> /\ c = Create(h, NoOwner, d) OBVIOUS
<1> HIDE DEF h, d, c
<1>12. /\ c.ref \in Ids /\ HeapOK(c.h) /\ c.h[c.ref].data = d
  <2>1. HeapOK(h) /\ c = Create(h, NoOwner, d) BY <1>9, <1>11
  <2>2. /\ c.ref \in Ids \ Named(h) /\ h[c.ref] = Freed /\ HeapOK(c.h)
        /\ c.h[c.ref].refCount = 1 /\ c.h[c.ref].owner = NoOwner /\ c.h[c.ref].data = d
    BY <2>1, <1>6, <1>7, <1>10, CreateIs
  <2> QED BY <2>2
<1>13. \A x \in Ids : Inside(c.h, c.ref, x) = Is(v, x) BY <1>11, <1>12, InsideOne
<1>14. Ledger(c.h, Plus(q, c.ref)) /\ SeenAs(c.h, h)
  <2>1. \A x \in Ids : h[x].refCount = (q[x] + Inside(c.h, c.ref, x)) + CellsWith(h, Ids, x)
    <3>1. \A x \in Ids : Plus(q, v)[x] = q[x] + Is(v, x) BY ReferencesAt
    <3> QED BY <3>1, <1>9, <1>13 DEF Ledger
  <2> QED BY <2>1, <1>6, <1>7, <1>8, <1>9, <1>10, <1>11, CreateLedger
<1>15. n \in [Ids -> Nat] BY <1>4, PlusType
<1>16. Ledger(c.h, Plus(n, o))
  <2>1. ASSUME NEW x \in Ids PROVE Plus(n, o)[x] = Plus(q, c.ref)[x]
    <3>1. /\ Plus(n, o)[x] = n[x] + Is(o, x) /\ n[x] = m[x] + Is(c.ref, x)
          /\ Plus(q, c.ref)[x] = q[x] + Is(c.ref, x) /\ q[x] = m[x] + Is(o, x)
      BY ReferencesAt DEF q
    <3>2. m[x] \in Nat /\ Is(o, x) \in Int /\ Is(c.ref, x) \in Int BY <1>4 DEF Is
    <3> HIDE DEF n
    <3> QED BY <3>1, <3>2
  <2> HIDE DEF n
  <2> QED BY <2>1, <1>14, LedgerSame
<1> HIDE DEF n
<1>17. HeapOK(heap') /\ Ledger(heap', n) /\ SeenAs(heap', c.h)
  BY <1>1, <1>3, <1>12, <1>15, <1>16, DropIs DEF o
<1>18. SeenAs(heap', heap)
  <2>1. SeenAs(c.h, heap) BY <1>9, <1>14, SeenAsChain
  <2> QED BY <2>1, <1>17, SeenAsChain
<1>19. c.ref \in Values BY <1>12 DEF Values
<1>20. op \in Operands /\ op.v = c.ref /\ op.kind = "own" BY <1>2, <1>19, OperandIs
<1> HIDE DEF op
<1>21. Owned(op) = c.ref /\ ~ IsRef(op) /\ op.kind # "write" BY <1>20 DEF Owned, IsRef
<1>22. \A x \in Ids : n[x] = ((Holders(slots', x) + Owning(st, x)) + Owning(frame.args, x))
                                 + Is(Owned(op), x)
  <2>1. \A x \in Ids : n[x] = m[x] + Is(c.ref, x) BY ReferencesAt DEF n
  <2> QED BY <2>1, <1>1, <1>4, <1>21
<1>23. n \in [Ids -> Int] BY <1>15
<1> QED BY <1>1, <1>2, <1>3, <1>5, <1>17, <1>18, <1>20, <1>21, <1>22, <1>23, Pushed

LEMMA RefsAre ==
    ASSUME NEW sl, NEW st \in Seq(Operands), NEW args \in Seq(Operands),
           NEW n, n = Refs(sl, st, args)
    PROVE  /\ n \in [Ids -> Nat]
           /\ \A x \in Ids : /\ n[x] = (Holders(sl, x) + Owning(st, x)) + Owning(args, x)
                             /\ Holders(sl, x) \in Nat /\ Owning(st, x) \in Nat
                             /\ Owning(args, x) \in Nat
BY RefsIs

\* A variable in scope is assigned.
LEMMA SlotIs ==
    ASSUME Fits, NEW s \in Variables, InScope(s), NEW w \in Values, NEW f, f = [slots EXCEPT ![s] = w]
    PROVE  /\ f \in [Variables -> Values] /\ (frame.open \/ f[Arg] = slots[Arg])
           /\ slots[s] \in Values
           /\ \A x \in Ids : /\ Holders(f, x) = (Holders(slots, x) - Is(slots[s], x)) + Is(w, x)
                             /\ Holders(slots, x) >= Is(slots[s], x) /\ Holders(slots, x) \in Nat
                             /\ Is(slots[s], x) \in Int /\ Is(w, x) \in Int
<1>1. slots \in [Variables -> Values] BY DEF Fits
<1>2. f \in [Variables -> Values] /\ f[s] = w /\ slots[s] \in Values
      /\ \A t \in Variables : t # s => f[t] = slots[t]
  BY <1>1
<1>3. \A x : /\ Holders(f, x) = (Holders(slots, x) - Is(slots[s], x)) + Is(f[s], x)
             /\ Holders(slots, x) >= Is(slots[s], x)
  <2> SUFFICES ASSUME NEW x
               PROVE  /\ Holders(f, x) = (Holders(slots, x) - Is(slots[s], x)) + Is(f[s], x)
                      /\ Holders(slots, x) >= Is(slots[s], x)
    OBVIOUS
  <2>1. \A t \in Variables : t # s => f[t] = slots[t] BY <1>2
  <2>2. s \in Variables OBVIOUS
  <2> HIDE DEF InScope
  <2> QED BY ONLY <2>1, <2>2, SlotSet
<1>4. frame.open \/ f[Arg] = slots[Arg]
  <2>1. s \in Globals \/ frame.open BY DEF InScope
  <2>2. s \in Globals => s # Arg BY BoundsAssumption
  <2>3. Arg \in Variables BY DEF Variables
  <2> QED BY <2>1, <2>2, <2>3, <1>2
<1>5. \A x : Holders(slots, x) \in Nat /\ Is(slots[s], x) \in Int /\ Is(w, x) \in Int
  <2>1. \A x : Holders(slots, x) \in Nat BY HoldersAre, Zenon
  <2>2. \A x : Is(slots[s], x) \in Int /\ Is(w, x) \in Int BY DEF Is
  <2> QED BY <2>1, <2>2
<1> QED BY <1>2, <1>3, <1>4, <1>5

\* What a variable holds is there.
LEMMA SlotThere ==
    ASSUME Fits, HeapOK(heap), Ledger(heap, Refs(slots, stack, frame.args)), NEW s \in Variables
    PROVE  /\ slots[s] \in Values
           /\ slots[s] \in Ids => heap[slots[s]].refCount > 0
           /\ \A x \in Ids : Refs(slots, stack, frame.args)[x] >= Is(slots[s], x)
<1> DEFINE n == Refs(slots, stack, frame.args)
<1>1. /\ slots \in [Variables -> Values] /\ stack \in Seq(Operands) /\ frame.args \in Seq(Operands)
  BY DEF Fits
<1>2. ASSUME NEW x \in Ids PROVE n[x] >= Is(slots[s], x) /\ n[x] \in Nat
  <2>1. /\ n[x] = (Holders(slots, x) + Owning(stack, x)) + Owning(frame.args, x)
        /\ Holders(slots, x) \in Nat /\ Owning(stack, x) \in Nat
        /\ Owning(frame.args, x) \in Nat
    <3>1. n = Refs(slots, stack, frame.args) OBVIOUS
    <3> HIDE DEF n
    <3> QED BY <1>1, <3>1, RefsAre
  <2>2. Holders(slots, x) >= Is(slots[s], x)
    <3>1. \A t \in Variables : t # s => slots[t] = slots[t] OBVIOUS
    <3>2. \A y : Holders(slots, y) >= Is(slots[s], y) BY <3>1, SlotSet
    <3> QED BY <3>2
  <2>3. Is(slots[s], x) \in {0, 1} BY DEF Is
  <2> DEFINE a == Holders(slots, x)
             b == Owning(stack, x)
             c == Owning(frame.args, x)
             i == Is(slots[s], x)
  <2>4. n[x] = (a + b) + c /\ a \in Nat /\ b \in Nat /\ c \in Nat /\ a >= i /\ i \in {0, 1}
    BY <2>1, <2>2, <2>3
  <2> HIDE DEF a, b, c, i, n
  <2>5. n[x] >= i /\ n[x] \in Nat BY <2>4
  <2> QED BY <2>5 DEF i
<1>3. slots[s] \in Values BY <1>1
<1>4. ASSUME slots[s] \in Ids PROVE heap[slots[s]].refCount > 0
  <2> DEFINE a == slots[s]
  <2>1. heap[a].refCount = n[a] + CellsWith(heap, Ids, a) BY <1>4 DEF Ledger
  <2>2. CellsWith(heap, Ids, a) \in Nat BY CellsFinite
  <2>3. n[a] >= 1 /\ n[a] \in Nat
    <3>1. Is(a, a) = 1 BY DEF Is
    <3> QED BY <3>1, <1>2, <1>4
  <2> HIDE DEF a, n
  <2> QED BY <2>1, <2>2, <2>3 DEF a
<1> QED BY <1>2, <1>3, <1>4

LEMMA PopVariableKeeps ==
    ASSUME IInv, NEW s \in Variables, PopVariable(s)
    PROVE  IInv'
<1> DEFINE st == Below(1)
           v == Top(0).v
           o == Owned(Top(0))
           old == slots[s]
           h == Steal(heap, Top(0))
           m == Refs(slots, st, frame.args)
           n == Refs(slots', st, frame.args)
<1>1. /\ Running(1) /\ InScope(s) /\ IsValue(Top(0)) /\ heap' = Release(h, old)
      /\ slots' = [slots EXCEPT ![s] = v] /\ stack' = st
      /\ frame' = frame /\ currentArrayOwner' = currentArrayOwner /\ status' = status
  BY DEF PopVariable, OneValue
<1>2. /\ Fits /\ HeapOK(heap) /\ frame.args \in Seq(Operands)
      /\ modern' = modern /\ steps' \in 0 .. MaxSteps
  BY <1>1, RunningFinds
<1>3. /\ Top(0) \in Operands /\ v \in Values /\ (v \in Ids => heap[v].refCount > 0)
      /\ st \in Seq(Operands) /\ frame.base <= Len(st)
      /\ \A k \in 1 .. Len(st) : k \in 1 .. Len(stack) /\ st[k] = stack[k]
  BY <1>1, TopIs
<1>4. /\ m \in [Ids -> Nat] /\ Ledger(heap, Plus(m, o))
      /\ \A x \in Ids : /\ m[x] = (Holders(slots, x) + Owning(st, x)) + Owning(frame.args, x)
                        /\ Owning(st, x) \in Nat /\ Owning(frame.args, x) \in Nat
  BY <1>1, BelowIs
<1>5. /\ slots' \in [Variables -> Values] /\ (frame.open \/ slots'[Arg] = slots[Arg])
      /\ \A x \in Ids : /\ Holders(slots', x) = (Holders(slots, x) - Is(old, x)) + Is(v, x)
                        /\ Holders(slots, x) \in Nat /\ Is(old, x) \in Int /\ Is(v, x) \in Int
  BY <1>1, <1>2, <1>3, SlotIs
<1>6. n \in [Ids -> Nat]
      /\ \A x \in Ids : n[x] = (Holders(slots', x) + Owning(st, x)) + Owning(frame.args, x)
  <2> HIDE DEF st
  <2> QED BY <1>2, <1>3, RefsAre
<1> HIDE DEF m, n, st, o
<1>7. m \in [Ids -> Int] /\ n \in [Ids -> Int] BY <1>4, <1>6
<1>8. HeapOK(h) /\ Ledger(h, Plus(m, v)) /\ SeenAs(h, heap)
  BY <1>1, <1>2, <1>3, <1>4, <1>7, StealIs DEF o
<1>9. Ledger(h, Plus(n, old))
  <2>1. ASSUME NEW x \in Ids PROVE Plus(n, old)[x] = Plus(m, v)[x]
    <3> DEFINE a == Holders(slots, x)
               b == Owning(st, x)
               c == Owning(frame.args, x)
               i == Is(old, x)
               j == Is(v, x)
    <3>1. Plus(n, old)[x] = n[x] + i /\ Plus(m, v)[x] = m[x] + j BY ReferencesAt
    <3>2. n[x] = (((a - i) + j) + b) + c /\ m[x] = (a + b) + c BY <1>4, <1>5, <1>6
    <3>3. a \in Nat /\ b \in Nat /\ c \in Nat /\ i \in Int /\ j \in Int BY <1>4, <1>5
    <3> HIDE DEF a, b, c, i, j
    <3>4. ((((a - i) + j) + b) + c) + i = ((a + b) + c) + j BY <3>3
    <3> QED BY <3>1, <3>2, <3>4
  <2> QED BY <2>1, <1>8, LedgerSame
<1> HIDE DEF h, old, v
<1>10. HeapOK(heap') /\ Ledger(heap', n) /\ (Survives(heap', h) \/ heap' = h)
  BY <1>1, <1>6, <1>8, <1>9, ReleaseIs
<1>11. SeenAs(heap', heap)
  <2>1. SeenAs(heap', h) BY <1>10, SeenAsFrom
  <2> QED BY <2>1, <1>8, SeenAsChain
<1> QED BY <1>1, <1>2, <1>3, <1>5, <1>6, <1>7, <1>10, <1>11, Popped

LEMMA PopElementKeeps ==
    ASSUME IInv, NEW s \in Writable, NEW i \in Indices, PopElement(s, i)
    PROVE  IInv'
<1> DEFINE st == Below(1)
           v == Top(0).v
           o == Owned(Top(0))
           old == slots[s]
           h == Retain(heap, v)
           w == ArrayToWrite(h, s)
           ref == w.ref
           k == Vacate(w.h, ref, i)
           g == Filled(k, ref, i, v)
           m == Refs(slots, st, frame.args)
           q == Plus(m, o)
           p == Plus(q, v)
           n == Refs(slots', st, frame.args)
           r == Plus(n, o)
<1>1. /\ Running(1) /\ InScope(s) /\ heap' = Drop(g, Top(0))
      /\ slots' = [slots EXCEPT ![s] = ref] /\ stack' = st
      /\ frame' = frame /\ currentArrayOwner' = currentArrayOwner /\ status' = status
  BY DEF PopElement, PutCell, Filled
<1>2. /\ Fits /\ HeapOK(heap) /\ frame.args \in Seq(Operands) /\ Room(heap)
      /\ Ledger(heap, Refs(slots, stack, frame.args)) /\ currentArrayOwner \in Owners
      /\ modern' = modern /\ steps' \in 0 .. MaxSteps
  BY <1>1, RunningFinds
<1>3. /\ Top(0) \in Operands /\ v \in Values /\ (v \in Ids => heap[v].refCount > 0)
      /\ st \in Seq(Operands) /\ frame.base <= Len(st)
      /\ \A j \in 1 .. Len(st) : j \in 1 .. Len(stack) /\ st[j] = stack[j]
  BY <1>1, TopIs
<1>4. /\ m \in [Ids -> Nat] /\ Ledger(heap, q)
      /\ \A x \in Ids : /\ m[x] = (Holders(slots, x) + Owning(st, x)) + Owning(frame.args, x)
                        /\ Owning(st, x) \in Nat /\ Owning(frame.args, x) \in Nat
  BY <1>1, BelowIs
<1>5. s \in Variables BY DEF Writable, Variables
<1>6. old \in Values /\ (old \in Ids => heap[old].refCount > 0) BY <1>2, <1>5, SlotThere
<1> HIDE DEF m, st, o
<1>7. q \in [Ids -> Nat] /\ p \in [Ids -> Nat] BY <1>4, PlusType
<1> HIDE DEF q
<1>8. /\ HeapOK(h) /\ Ledger(h, p) /\ SeenAs(h, heap) /\ Named(h) = Named(heap)
      /\ \A x \in Ids : h[x].refCount = heap[x].refCount + Is(v, x)
  <2>1. q \in [Ids -> Int] BY <1>7
  <2> HIDE DEF v
  <2> QED BY <2>1, <1>2, <1>3, <1>4, RetainIs, RetainSeen
<1> HIDE DEF p, h
<1>9. Room(h) /\ (old \in Ids => h[old].refCount > 0)
  <2>1. Room(h) BY <1>2, <1>8 DEF Room
  <2>2. ASSUME old \in Ids PROVE h[old].refCount > 0
    <3>1. heap[old].refCount \in Nat BY <1>2, <2>2, HeapFields
    <3>2. Is(v, old) \in {0, 1} BY DEF Is
    <3> HIDE DEF old, v
    <3> QED BY <3>1, <3>2, <1>6, <1>8, <2>2
  <2> QED BY <2>1, <2>2
<1>10. Found(w, h, old, p) /\ (modern => Resolved(w, h, old, p))
  <2>1. modern \in BOOLEAN BY <1>2 DEF Fits
  <2> QED BY <2>1, <1>2, <1>6, <1>7, <1>8, <1>9, ArrayToWriteIs
<1> HIDE DEF w
<1>11. /\ ref \in Ids /\ HeapOK(w.h) /\ w.h[ref].refCount > 0
       /\ Ledger(w.h, Minus(Plus(p, ref), old))
       /\ modern => SeenAs(w.h, h)
  <2>1. modern => SeenAs(w.h, h)
    <3>1. ASSUME modern
          PROVE \A x \in Named(h) : w.h[x].refCount > 0 =>
                    h[x].refCount > 0 /\ w.h[x].owner = h[x].owner
      BY <3>1, <1>10 DEF Resolved
    <3> QED BY <3>1, SeenAsFrom
  <2> QED BY <2>1, <1>10 DEF Found
<1> HIDE DEF ref
<1>12. ref \in Values BY <1>11 DEF Values
<1>13. /\ slots' \in [Variables -> Values] /\ (frame.open \/ slots'[Arg] = slots[Arg])
       /\ \A x \in Ids : /\ Holders(slots', x) = (Holders(slots, x) - Is(old, x)) + Is(ref, x)
                         /\ Holders(slots, x) >= Is(old, x)
                         /\ Holders(slots, x) \in Nat /\ Is(old, x) \in Int /\ Is(ref, x) \in Int
  BY <1>1, <1>2, <1>5, <1>12, SlotIs
<1>14. n \in [Ids -> Nat]
       /\ \A x \in Ids : n[x] = (Holders(slots', x) + Owning(st, x)) + Owning(frame.args, x)
  BY <1>2, <1>3, RefsAre DEF st
<1> HIDE DEF n, old
<1>15. r \in [Ids -> Nat] /\ Plus(r, v) \in [Ids -> Nat] /\ r \in [Ids -> Int] /\ n \in [Ids -> Int]
  <2>1. r \in [Ids -> Nat] BY <1>14, PlusType
  <2> HIDE DEF r
  <2>2. Plus(r, v) \in [Ids -> Nat] BY <2>1, PlusType
  <2> QED BY <2>1, <2>2, <1>14
<1>16. n[ref] > 0
  <2> DEFINE a == Holders(slots, ref)
             b == Owning(st, ref)
             c == Owning(frame.args, ref)
             j == Is(old, ref)
  <2>1. n[ref] = (((a - j) + Is(ref, ref)) + b) + c BY <1>11, <1>13, <1>14
  <2>2. Is(ref, ref) = 1 BY DEF Is
  <2>3. a \in Nat /\ b \in Nat /\ c \in Nat /\ j \in Int /\ a >= j BY <1>4, <1>11, <1>13
  <2> HIDE DEF a, b, c, j
  <2> QED BY <2>1, <2>2, <2>3
<1>17. Plus(r, v)[ref] > 0
  <2>1. Plus(r, v)[ref] = r[ref] + Is(v, ref) /\ r[ref] = n[ref] + Is(o, ref)
    BY <1>11, ReferencesAt
  <2>2. Is(v, ref) \in {0, 1} /\ Is(o, ref) \in {0, 1} BY DEF Is
  <2>3. n[ref] \in Nat BY <1>11, <1>14
  <2> HIDE DEF r
  <2> QED BY <2>1, <2>2, <2>3, <1>16
<1>18. Ledger(w.h, Plus(r, v))
  <2>1. ASSUME NEW x \in Ids PROVE Plus(r, v)[x] = Minus(Plus(p, ref), old)[x]
    <3> DEFINE a == Holders(slots, x)
               b == Owning(st, x)
               c == Owning(frame.args, x)
               io == Is(old, x)
               ir == Is(ref, x)
               iv == Is(v, x)
               it == Is(o, x)
    <3>1. Plus(r, v)[x] = r[x] + iv /\ r[x] = n[x] + it BY ReferencesAt
    <3>2. Minus(Plus(p, ref), old)[x] = (p[x] + ir) - io /\ p[x] = q[x] + iv /\ q[x] = m[x] + it
      BY ReferencesAt DEF p, q
    <3>3. n[x] = (((a - io) + ir) + b) + c /\ m[x] = (a + b) + c BY <1>4, <1>13, <1>14
    <3>4. /\ a \in Nat /\ b \in Nat /\ c \in Nat /\ io \in Int /\ ir \in Int BY <1>4, <1>13
    <3>5. iv \in Int /\ it \in Int BY DEF Is
    <3> HIDE DEF a, b, c, io, ir, iv, it, r
    <3>6. (((((a - io) + ir) + b) + c) + it) + iv = (((((a + b) + c) + it) + iv) + ir) - io
      BY <3>4, <3>5
    <3> QED BY <3>1, <3>2, <3>3, <3>6
  <2> HIDE DEF r
  <2> QED BY <2>1, <1>11, LedgerSame
<1> HIDE DEF r
<1>19. i \in 1 .. MaxLength BY IndexIs
<1>20. /\ HeapOK(k) /\ Ledger(k, Plus(r, v)) /\ SeenAs(k, w.h) /\ k[ref].refCount > 0
       /\ i \in 1 .. Len(k[ref].data) /\ k[ref].data[i] = Zero
  BY <1>11, <1>15, <1>17, <1>18, <1>19, VacateIs
<1> HIDE DEF k, v
<1>21. HeapOK(g) /\ Ledger(g, r) /\ SeenAs(g, k)
  <2>1. HeapOK(g) /\ SeenAs(g, k) /\ Ledger(g, Plus(r, Zero))
    BY <1>3, <1>11, <1>15, <1>20, FilledIs
  <2>2. \A x \in Ids : r[x] = Plus(r, Zero)[x] BY <1>15, ZeroIs, NumberHoldsNothing
  <2> QED BY <2>1, <2>2, LedgerSame
<1> HIDE DEF g
<1>22. HeapOK(heap') /\ Ledger(heap', n) /\ SeenAs(heap', g)
  BY <1>1, <1>3, <1>14, <1>21, DropIs DEF o, r
<1>23. modern => SeenAs(heap', heap)
  <2>1. SeenAs(g, w.h) BY <1>20, <1>21, SeenAsChain
  <2>2. SeenAs(heap', w.h) BY <2>1, <1>22, SeenAsChain
  <2>3. modern => SeenAs(heap', h) BY <2>2, <1>11, SeenAsChain
  <2> QED BY <2>3, <1>8, SeenAsChain
<1> QED BY <1>1, <1>2, <1>3, <1>13, <1>14, <1>15, <1>22, <1>23, Popped

\* What is held when a variable is assigned.
Assigned(f, old, w) ==
    \A x \in Ids : Holders(f, x) = (Holders(slots, x) - Is(old, x)) + Is(w, x)

LEMMA SlotRefs ==
    ASSUME Fits, NEW w, NEW f, NEW old,
           Assigned(f, old, w),
           NEW n, n = Refs(slots, stack, frame.args), NEW m, m = Refs(f, stack, frame.args)
    PROVE  /\ m \in [Ids -> Nat] /\ m \in [Ids -> Int]
           /\ \A x \in Ids : /\ m[x] = Minus(Plus(n, w), old)[x]
                             /\ m[x] = (Holders(f, x) + Owning(stack, x)) + Owning(frame.args, x)
<1>1. stack \in Seq(Operands) /\ frame.args \in Seq(Operands) BY DEF Fits
<1>2. \A x \in Ids : Holders(slots, x) \in Nat /\ Is(old, x) \in Int /\ Is(w, x) \in Int
  <2>1. \A x : Holders(slots, x) \in Nat BY HoldersAre
  <2> QED BY <2>1 DEF Is
<1> DEFINE st == stack
           args == frame.args
<1>3. st \in Seq(Operands) /\ args \in Seq(Operands) /\ m = Refs(f, st, args) /\ n = Refs(slots, st, args)
  BY <1>1
<1> HIDE DEF st, args
<1>4. /\ Refs(f, st, args) \in [Ids -> Nat]
      /\ \A x \in Ids : /\ Refs(f, st, args)[x] = (Holders(f, x) + Owning(st, x)) + Owning(args, x)
                        /\ Owning(st, x) \in Nat /\ Owning(args, x) \in Nat
  BY <1>3, RefsIs
<1>5. \A x \in Ids : Refs(slots, st, args)[x] = (Holders(slots, x) + Owning(st, x)) + Owning(args, x)
  BY <1>3, RefsIs
<1>7. ASSUME NEW x \in Ids PROVE m[x] = Minus(Plus(n, w), old)[x]
  <2> DEFINE a == Holders(slots, x)
             b == Owning(st, x)
             c == Owning(args, x)
             i == Is(old, x)
             j == Is(w, x)
  <2>1. Minus(Plus(n, w), old)[x] = (n[x] + j) - i BY ReferencesAt
  <2>2. n[x] = (a + b) + c /\ m[x] = (((a - i) + j) + b) + c BY <1>2, <1>3, <1>4, <1>5 DEF Assigned
  <2>3. a \in Nat /\ b \in Nat /\ c \in Nat /\ i \in Int /\ j \in Int BY <1>2, <1>4
  <2> HIDE DEF a, b, c, i, j
  <2>4. (((a - i) + j) + b) + c = (((a + b) + c) + j) - i BY <2>3
  <2> QED BY <2>1, <2>2, <2>4
<1>8. m \in [Ids -> Nat] BY <1>3, <1>4
<1>9. m \in [Ids -> Int] BY <1>8
<1>10. \A x \in Ids : m[x] = (Holders(f, x) + Owning(st, x)) + Owning(args, x) BY <1>3, <1>4
<1> QED BY <1>7, <1>8, <1>9, <1>10 DEF st, args

\* A reference to an array, for a chain of indices.
LEMMA ReferenceIs ==
    ASSUME Fits, modern, NEW r \in Ids, NEW kind \in {"read", "write"}, NEW op, op = Operand(r, kind)
    PROVE  /\ op \in Operands /\ op.v = r /\ op.kind = kind /\ op.at = currentArrayOwner
           /\ IsRef(op) => op.v \in Ids /\ modern
           /\ \A x \in Ids : Is(Owned(op), x) = 0
<1>1. r \in Values BY DEF Values
<1>2. op \in Operands /\ op.v = r /\ op.kind = kind /\ op.at = currentArrayOwner BY <1>1, OperandIs
<1>3. Owned(op) = Zero BY <1>2 DEF Owned
<1> QED BY <1>2, <1>3, IsNumber

LEMMA PushTopLevelArrayRefKeeps ==
    ASSUME IInv, NEW kind \in {"read", "write"}, PushTopLevelArrayRef(kind)
    PROVE  IInv'
<1> DEFINE forWrite == kind = "write"
           old == slots[Local]
           top == Resolve(heap, old, currentArrayOwner, forWrite)
           ref == top.ref
           op == Operand(ref, kind)
           n == Refs(slots, stack, frame.args)
           m == Refs(slots', stack, frame.args)
<1>1. /\ modern /\ Running(0) /\ InScope(Local) /\ heap' = top.h
      /\ slots' = [slots EXCEPT ![Local] = ref] /\ stack' = Append(stack, op)
      /\ frame' = frame /\ currentArrayOwner' = currentArrayOwner /\ status' = status
  BY DEF PushTopLevelArrayRef
<1>2. /\ Fits /\ HeapOK(heap) /\ Room(heap) /\ frame.base \in Nat /\ frame.base <= Len(stack) - 0
      /\ Ledger(heap, n) /\ n \in [Ids -> Nat] /\ currentArrayOwner \in Owners
      /\ modern' = modern /\ steps' \in 0 .. MaxSteps
  BY <1>1, RunningFinds
<1>3. Local \in Variables BY DEF Variables
<1>4. old \in Values /\ (old \in Ids => heap[old].refCount > 0) BY <1>2, <1>3, SlotThere
<1>5. forWrite \in BOOLEAN /\ (op.kind = "write" => forWrite) BY DEF Operand
<1> HIDE DEF n, forWrite, old
<1>6. /\ Resolved(top, heap, old, n)
      /\ forWrite => top.h[ref].owner = currentArrayOwner
  BY <1>2, <1>4, <1>5, ResolveIs
<1> HIDE DEF top
<1>7. /\ ref \in Ids /\ HeapOK(heap') /\ Ledger(heap', Minus(Plus(n, ref), old))
      /\ SeenAs(heap', heap)
  <2>1. \A x \in Named(heap) : top.h[x].refCount > 0 =>
                    heap[x].refCount > 0 /\ top.h[x].owner = heap[x].owner
    BY <1>6 DEF Resolved
  <2>2. SeenAs(top.h, heap) BY <2>1, SeenAsFrom
  <2> QED BY <2>2, <1>1, <1>6 DEF Resolved, Found
<1> HIDE DEF ref
<1>8. /\ op \in Operands /\ op.v = ref /\ op.at = currentArrayOwner
      /\ IsRef(op) => op.v \in Ids /\ modern
      /\ \A x \in Ids : Is(Owned(op), x) = 0
  BY <1>1, <1>2, <1>7, ReferenceIs
<1> HIDE DEF op
<1>9. ref \in Values BY <1>7 DEF Values
<1>10. /\ slots' \in [Variables -> Values] /\ (frame.open \/ slots'[Arg] = slots[Arg])
       /\ \A x \in Ids : Holders(slots', x) = (Holders(slots, x) - Is(old, x)) + Is(ref, x)
  <2>1. Fits /\ InScope(Local) /\ slots' = [slots EXCEPT ![Local] = ref] BY <1>1, <1>2
  <2> QED BY <2>1, <1>3, <1>9, SlotIs DEF old
<1>11. /\ m \in [Ids -> Nat] /\ m \in [Ids -> Int]
       /\ \A x \in Ids : /\ m[x] = Minus(Plus(n, ref), old)[x]
                         /\ m[x] = (Holders(slots', x) + Owning(stack, x)) + Owning(frame.args, x)
  <2> DEFINE sl == slots'
  <2>1. Fits /\ n = Refs(slots, stack, frame.args) /\ m = Refs(sl, stack, frame.args)
    BY <1>2 DEF n
  <2>2. Assigned(sl, old, ref) BY <1>10 DEF Assigned
  <2> HIDE DEF sl, m
  <2>3. /\ m \in [Ids -> Nat] /\ m \in [Ids -> Int]
        /\ \A x \in Ids : /\ m[x] = Minus(Plus(n, ref), old)[x]
                          /\ m[x] = (Holders(sl, x) + Owning(stack, x)) + Owning(frame.args, x)
    BY <2>1, <2>2, SlotRefs
  <2> QED BY <2>3 DEF sl
<1> HIDE DEF m
<1>12. Ledger(heap', m) BY <1>7, <1>11, LedgerSame
<1>13. \A x \in Ids : m[x] = ((Holders(slots', x) + Owning(stack, x)) + Owning(frame.args, x))
                                 + Is(Owned(op), x)
  <2>1. \A x \in Ids : m[x] = m[x] + Is(Owned(op), x) BY <1>8, <1>11
  <2> QED BY <2>1, <1>11
<1>14. stack \in Seq(Operands) /\ Len(stack) \in Nat /\ frame.base <= Len(stack)
  <2>1. stack \in Seq(Operands) BY <1>2 DEF Fits
  <2>2. Len(stack) \in Nat BY <2>1, LenProperties
  <2> QED BY <2>1, <2>2, <1>2
<1>15. \A k \in 1 .. Len(stack) : k \in 1 .. Len(stack) /\ stack[k] = stack[k] OBVIOUS
<1>16. op.kind = "write" => heap'[op.v].owner = op.at
  <2>1. heap' = top.h BY <1>1
  <2> QED BY <2>1, <1>5, <1>6, <1>8 DEF op, ref
<1> QED BY <1>1, <1>2, <1>7, <1>8, <1>10, <1>11, <1>12, <1>13, <1>14, <1>15, <1>16, Pushed

LEMMA PushArrayRefKeeps ==
    ASSUME IInv, NEW s \in Globals, NEW i \in Indices, NEW kind \in {"read", "write"},
           PushArrayRef(s, i, kind)
    PROVE  IInv'
<1> DEFINE forWrite == kind = "write"
           old == slots[s]
           top == Resolve(heap, old, currentArrayOwner, forWrite)
           ref == top.ref
           big == Grow(top.h, ref, i)
           owner == big[ref].owner
           sub == Resolve(big, big[ref].data[i], owner, forWrite)
           g == Filled(sub.h, ref, i, sub.ref)
           op == Operand(sub.ref, kind)
           n == Refs(slots, stack, frame.args)
           m == Refs(slots', stack, frame.args)
<1>1. /\ modern /\ Running(0) /\ InScope(s) /\ heap' = g
      /\ slots' = [slots EXCEPT ![s] = ref] /\ stack' = Append(stack, op)
      /\ frame' = frame /\ currentArrayOwner' = currentArrayOwner /\ status' = status
  BY DEF PushArrayRef, InScope, Filled
<1>2. /\ Fits /\ HeapOK(heap) /\ Room(heap) /\ RoomForTwo(heap) /\ frame.base \in Nat
      /\ frame.base <= Len(stack) - 0 /\ Ledger(heap, n) /\ n \in [Ids -> Nat] /\ currentArrayOwner \in Owners
      /\ modern' = modern /\ steps' \in 0 .. MaxSteps
  <2>1. Running(0) BY <1>1
  <2> HIDE DEF g, m, op
  <2> QED BY <2>1, RunningFinds
<1>3. s \in Variables BY DEF Variables
<1>4. old \in Values /\ (old \in Ids => heap[old].refCount > 0) BY <1>2, <1>3, SlotThere
<1>5. forWrite \in BOOLEAN /\ (op.kind = "write" => forWrite) BY DEF Operand
<1> HIDE DEF n, forWrite, old
<1>6. /\ Resolved(top, heap, old, n)
      /\ forWrite => top.h[ref].owner = currentArrayOwner
  BY <1>2, <1>4, <1>5, ResolveIs
<1> HIDE DEF top
<1>7. /\ ref \in Ids /\ HeapOK(top.h) /\ top.h[ref].refCount > 0
      /\ Ledger(top.h, Minus(Plus(n, ref), old))
      /\ SeenAs(top.h, heap) /\ Room(top.h)
  <2>1. \A x \in Named(heap) : top.h[x].refCount > 0 =>
                    heap[x].refCount > 0 /\ top.h[x].owner = heap[x].owner
    BY <1>6 DEF Resolved
  <2>2. SeenAs(top.h, heap) BY <2>1, SeenAsFrom
  <2>3. Named(top.h) \subseteq Named(heap) \union {ref} BY <1>6 DEF Resolved
  <2>4. Room(top.h) BY <2>3, <1>2, RoomStays
  <2> QED BY <2>2, <2>4, <1>6 DEF Resolved, Found
<1> HIDE DEF ref
<1>8. owner \in Owners /\ i \in 1 .. MaxLength /\ owner = top.h[ref].owner
  <2>1. i \in 1 .. MaxLength BY IndexIs
  <2>2. HeapOK(big) /\ owner = top.h[ref].owner BY <2>1, <1>7, GrowIs
  <2>3. owner \in Owners
    <3> HIDE DEF big
    <3> QED BY <2>2, <1>7, HeapFields
  <2> QED BY <2>1, <2>2, <2>3
<1>9. ref \in Values BY <1>7 DEF Values
<1>10. /\ slots' \in [Variables -> Values] /\ (frame.open \/ slots'[Arg] = slots[Arg])
       /\ \A x \in Ids : Holders(slots', x) = (Holders(slots, x) - Is(old, x)) + Is(ref, x)
  <2>1. Fits /\ InScope(s) /\ slots' = [slots EXCEPT ![s] = ref] BY <1>1, <1>2
  <2> QED BY <2>1, <1>3, <1>9, SlotIs DEF old
<1>11. /\ m \in [Ids -> Nat] /\ m \in [Ids -> Int]
       /\ \A x \in Ids : /\ m[x] = Minus(Plus(n, ref), old)[x]
                         /\ m[x] = (Holders(slots', x) + Owning(stack, x)) + Owning(frame.args, x)
  <2> DEFINE sl == slots'
  <2>1. Fits /\ n = Refs(slots, stack, frame.args) /\ m = Refs(sl, stack, frame.args)
    BY <1>2 DEF n
  <2>2. Assigned(sl, old, ref) BY <1>10 DEF Assigned
  <2> HIDE DEF sl, m
  <2>3. /\ m \in [Ids -> Nat] /\ m \in [Ids -> Int]
        /\ \A x \in Ids : /\ m[x] = Minus(Plus(n, ref), old)[x]
                          /\ m[x] = (Holders(sl, x) + Owning(stack, x)) + Owning(frame.args, x)
    BY <2>1, <2>2, SlotRefs
  <2> QED BY <2>3 DEF sl
<1> HIDE DEF m
<1>12. Ledger(top.h, m) BY <1>7, <1>11, LedgerSame
<1>13. /\ HeapOK(g) /\ Ledger(g, m) /\ SeenAs(g, top.h) /\ sub.ref \in Ids
       /\ forWrite => g[sub.ref].owner = currentArrayOwner
  <2> DEFINE h == top.h
  <2>1. /\ HeapOK(h) /\ h[ref].refCount > 0 /\ Room(h) /\ Ledger(h, m) /\ m \in [Ids -> Nat]
        /\ ref \in Ids /\ forWrite \in BOOLEAN /\ owner \in Owners /\ i \in 1 .. MaxLength
        /\ currentArrayOwner \in Owners
        /\ big = Grow(h, ref, i)
    BY <1>2, <1>5, <1>7, <1>8, <1>11, <1>12
  <2>2. sub = Resolve(big, big[ref].data[i], owner, forWrite) /\ g = Filled(sub.h, ref, i, sub.ref)
    OBVIOUS
  <2> HIDE DEF big, owner, sub, g, h
  <2>3. /\ HeapOK(g) /\ Ledger(g, m) /\ SeenAs(g, h) /\ sub.ref \in Ids
        /\ forWrite => g[sub.ref].owner \in {owner, currentArrayOwner}
    BY <2>1, <2>2, StepIs
  <2> QED BY <2>3, <1>6, <1>8 DEF h
<1> HIDE DEF g, sub
<1>14. SeenAs(g, heap) BY <1>7, <1>13, SeenAsChain
<1>15. /\ op \in Operands /\ op.v = sub.ref /\ op.at = currentArrayOwner
       /\ IsRef(op) => op.v \in Ids /\ modern
       /\ \A x \in Ids : Is(Owned(op), x) = 0
  BY <1>1, <1>2, <1>13, ReferenceIs
<1>16. op.kind = "write" => heap'[op.v].owner = op.at BY <1>1, <1>5, <1>13, <1>15
<1> HIDE DEF op
<1>17. \A x \in Ids : m[x] = ((Holders(slots', x) + Owning(stack, x)) + Owning(frame.args, x))
                                 + Is(Owned(op), x)
  <2>1. \A x \in Ids : m[x] = m[x] + Is(Owned(op), x) BY <1>11, <1>15
  <2> QED BY <2>1, <1>11
<1>18. stack \in Seq(Operands) /\ Len(stack) \in Nat /\ frame.base <= Len(stack)
  <2>1. stack \in Seq(Operands) BY <1>2 DEF Fits
  <2>2. Len(stack) \in Nat BY <2>1, LenProperties
  <2> QED BY <2>1, <2>2, <1>2
<1>19. \A k \in 1 .. Len(stack) : k \in 1 .. Len(stack) /\ stack[k] = stack[k] OBVIOUS
<1> QED BY <1>1, <1>2, <1>10, <1>11, <1>13, <1>14, <1>15, <1>16, <1>17, <1>18, <1>19, Pushed

LEMMA BreakPushACKeeps ==
    ASSUME IInv, NEW i \in Indices, BreakPushAC(i)
    PROVE  IInv'
<1> DEFINE st == Below(1)
           a == Top(0).v
           kind == Top(0).kind
           o == Owned(Top(0))
           big == Grow(heap, a, i)
           sub == Resolve(big, big[a].data[i], currentArrayOwner, TRUE)
           g == Filled(sub.h, a, i, sub.ref)
           op == Operand(sub.ref, kind)
           m == Refs(slots, st, frame.args)
<1>1. /\ Running(1) /\ IsRef(Top(0)) /\ heap' = g
      /\ stack' = Append(st, op) /\ slots' = slots
      /\ frame' = frame /\ currentArrayOwner' = currentArrayOwner /\ status' = status
  BY DEF BreakPushAC, Filled
<1> HIDE DEF g, op
<1>2. /\ Fits /\ HeapOK(heap) /\ Room(heap) /\ frame.base \in Nat /\ frame.args \in Seq(Operands)
      /\ currentArrayOwner \in Owners /\ Chained(heap, stack)
      /\ modern' = modern /\ steps' \in 0 .. MaxSteps
  BY <1>1, RunningFinds
<1>3. /\ Top(0) = stack[Len(stack)] /\ (a \in Ids => heap[a].refCount > 0)
      /\ st \in Seq(Operands) /\ frame.base <= Len(st) /\ Len(stack) \in 1 .. Len(stack)
      /\ \A k \in 1 .. Len(st) : k \in 1 .. Len(stack) /\ st[k] = stack[k]
  BY <1>1, TopIs
<1>4. /\ m \in [Ids -> Nat] /\ Ledger(heap, Plus(m, o))
      /\ \A x \in Ids : m[x] = (Holders(slots, x) + Owning(st, x)) + Owning(frame.args, x)
  BY <1>1, BelowIs
<1>5. a \in Ids /\ modern /\ kind \in {"read", "write"} /\ o = Zero
  BY <1>1, <1>2, <1>3 DEF Chained, IsRef, Owned
<1> HIDE DEF m, st, o, a, kind
<1>6. m \in [Ids -> Int] BY <1>4
<1>7. Ledger(heap, m)
  <2>1. \A x \in Ids : m[x] = Plus(m, o)[x] BY <1>5, <1>6, ZeroIs, NumberHoldsNothing
  <2> QED BY <2>1, <1>4, LedgerSame
<1>8. i \in 1 .. MaxLength BY IndexIs
<1>9. /\ HeapOK(g) /\ Ledger(g, m) /\ SeenAs(g, heap) /\ sub.ref \in Ids
      /\ g[sub.ref].owner = currentArrayOwner
  <2> DEFINE forWrite == TRUE
             owner == currentArrayOwner
             h == heap
  <2>1. /\ HeapOK(h) /\ h[a].refCount > 0 /\ Room(h) /\ Ledger(h, m) /\ m \in [Ids -> Nat]
        /\ a \in Ids /\ forWrite \in BOOLEAN /\ owner \in Owners /\ i \in 1 .. MaxLength
        /\ currentArrayOwner \in Owners
        /\ big = Grow(h, a, i)
    <3>1. h[a].refCount > 0 BY <1>3, <1>5 DEF a
    <3> QED BY <3>1, <1>2, <1>4, <1>5, <1>7, <1>8
  <2>2. sub = Resolve(big, big[a].data[i], owner, forWrite) /\ g = Filled(sub.h, a, i, sub.ref)
    BY DEF g
  <2> HIDE DEF big, owner, sub, h, forWrite
  <2>3. /\ HeapOK(g) /\ Ledger(g, m) /\ SeenAs(g, h) /\ sub.ref \in Ids
        /\ forWrite => g[sub.ref].owner \in {owner, currentArrayOwner}
    BY <2>1, <2>2, StepIs
  <2> QED BY <2>3 DEF h, forWrite, owner
<1> HIDE DEF sub
<1>10. /\ op \in Operands /\ op.v = sub.ref /\ op.at = currentArrayOwner
       /\ IsRef(op) => op.v \in Ids /\ modern
       /\ \A x \in Ids : Is(Owned(op), x) = 0
  BY <1>2, <1>5, <1>9, ReferenceIs DEF op
<1>11. op.kind = "write" => heap'[op.v].owner = op.at BY <1>1, <1>9, <1>10
<1>12. \A x \in Ids : m[x] = ((Holders(slots', x) + Owning(st, x)) + Owning(frame.args, x))
                                 + Is(Owned(op), x)
  <2>1. \A x \in Ids : m[x] = m[x] + Is(Owned(op), x) BY <1>4, <1>10
  <2> QED BY <2>1, <1>1, <1>4
<1>13. slots' \in [Variables -> Values] BY <1>1, <1>2 DEF Fits
<1> QED BY <1>1, <1>2, <1>3, <1>6, <1>9, <1>10, <1>11, <1>12, <1>13, Pushed DEF st

\* What only goes on, or stops.
LEMMA BreakPopAFAbortsKeeps ==
    ASSUME IInv, BreakPopAFAborts
    PROVE  IInv'
<1>1. /\ Running(2) /\ status' = "aborted" /\ heap' = heap /\ slots' = slots /\ stack' = stack
      /\ frame' = frame /\ currentArrayOwner' = currentArrayOwner
  BY DEF BreakPopAFAborts
<1>2. /\ Fits /\ HeapOK(heap) /\ Chained(heap, stack)
      /\ Ledger(heap, Refs(slots, stack, frame.args))
      /\ modern' = modern /\ steps' \in 0 .. MaxSteps
  BY <1>1, RunningFinds
<1>3. Fits' BY <1>1, <1>2 DEF Fits
<1> QED BY <1>1, <1>2, <1>3, Keeps

LEMMA BreakSetOwnerKeeps ==
    ASSUME IInv, NEW token \in Tokens, BreakSetOwner(token)
    PROVE  IInv'
<1>1. /\ modern /\ Running(0) /\ status' = status /\ heap' = heap /\ slots' = slots
      /\ stack' = stack /\ frame' = frame /\ currentArrayOwner' = token
  BY DEF BreakSetOwner
<1>2. /\ Fits /\ HeapOK(heap) /\ Chained(heap, stack)
      /\ Ledger(heap, Refs(slots, stack, frame.args))
      /\ modern' = modern /\ steps' \in 0 .. MaxSteps
  BY <1>1, RunningFinds
<1>3. Fits' BY <1>1, <1>2 DEF Fits
<1> QED BY <1>1, <1>2, <1>3, Keeps

LEMMA FollowDanglingKeeps ==
    ASSUME IInv, FollowDangling
    PROVE  IInv'
<1>1. /\ status' = "dangling" /\ heap' = heap /\ slots' = slots /\ stack' = stack
      /\ frame' = frame /\ currentArrayOwner' = currentArrayOwner /\ modern' = modern
      /\ steps' = steps
  BY DEF FollowDangling
<1>2. Fits /\ HeapOK(heap) /\ Chained(heap, stack) BY DEF IInv
<1>3. Fits' BY <1>1, <1>2 DEF Fits
<1> QED BY <1>1, <1>2, <1>3, Keeps

\* Nothing changes.
LEMMA StutterKeeps ==
    ASSUME IInv, UNCHANGED vars
    PROVE  IInv'
<1>1. /\ status' = status /\ heap' = heap /\ slots' = slots /\ stack' = stack
      /\ frame' = frame /\ currentArrayOwner' = currentArrayOwner /\ modern' = modern
      /\ steps' = steps
  BY DEF vars
<1>2. /\ Fits /\ HeapOK(heap) /\ Chained(heap, stack)
      /\ status # "dangling" => Ledger(heap, Refs(slots, stack, frame.args))
  BY DEF IInv
<1>3. Fits' BY <1>1, <1>2 DEF Fits
<1> QED BY <1>1, <1>2, <1>3, Keeps

\* What is held when the two operands on top have gone.
LEMMA BelowTwoIs ==
    ASSUME IInv, Running(2), NEW m, m = Refs(slots, Below(2), frame.args)
    PROVE  /\ m \in [Ids -> Nat]
           /\ Ledger(heap, Plus(Plus(m, Owned(Top(1))), Owned(Top(0))))
           /\ \A x \in Ids :
                 m[x] = (Holders(slots, x) + Owning(Below(2), x)) + Owning(frame.args, x)
<1>1. frame.args \in Seq(Operands) /\ Ledger(heap, Refs(slots, stack, frame.args))
      /\ stack \in Seq(Operands)
  BY RunningFinds DEF Fits
<1>2. /\ Below(2) \in Seq(Operands)
      /\ \A x \in Ids : Owning(stack, x) =
            (Owning(Below(2), x) + Is(Owned(Top(1)), x)) + Is(Owned(Top(0)), x)
  BY TopTwoAre
<1>3. /\ m \in [Ids -> Nat]
      /\ \A x \in Ids :
                 /\ m[x] = (Holders(slots, x) + Owning(Below(2), x)) + Owning(frame.args, x)
                 /\ Holders(slots, x) \in Nat /\ Owning(Below(2), x) \in Nat
                 /\ Owning(frame.args, x) \in Nat
  <2> DEFINE st == Below(2)
             args == frame.args
  <2>1. st \in Seq(Operands) /\ args \in Seq(Operands) /\ m = Refs(slots, st, args)
    BY <1>1, <1>2
  <2> HIDE DEF st, args
  <2>2. /\ Refs(slots, st, args) \in [Ids -> Nat]
        /\ \A x \in Ids : /\ Refs(slots, st, args)[x] =
                                 (Holders(slots, x) + Owning(st, x)) + Owning(args, x)
                          /\ Holders(slots, x) \in Nat /\ Owning(st, x) \in Nat
                          /\ Owning(args, x) \in Nat
    BY <2>1, RefsIs
  <2> QED BY <2>1, <2>2 DEF st, args
<1> DEFINE p == Owned(Top(1))
           o == Owned(Top(0))
           q == Plus(m, p)
<1>4. ASSUME NEW x \in Ids PROVE Plus(q, o)[x] = Refs(slots, stack, frame.args)[x]
  <2> DEFINE a == Holders(slots, x)
             b == Owning(Below(2), x)
             c == Owning(frame.args, x)
             i == Is(p, x)
             j == Is(o, x)
  <2>1. Plus(q, o)[x] = q[x] + j /\ q[x] = m[x] + i BY ReferencesAt
  <2>2. Refs(slots, stack, frame.args)[x] = (a + Owning(stack, x)) + c BY DEF Refs
  <2>3. Owning(stack, x) = (b + i) + j BY <1>2
  <2>4. m[x] = (a + b) + c /\ a \in Nat /\ b \in Nat /\ c \in Nat BY <1>3
  <2>5. i \in Int /\ j \in Int BY DEF Is
  <2> HIDE DEF a, b, c, i, j, q
  <2>6. (((a + b) + c) + i) + j = (a + ((b + i) + j)) + c BY <2>4, <2>5
  <2> QED BY <2>1, <2>2, <2>3, <2>4, <2>6
<1>5. Ledger(heap, Plus(q, o)) BY <1>1, <1>4, LedgerSame
<1> QED BY <1>3, <1>5

LEMMA BreakPopAFKeeps ==
    ASSUME IInv, NEW i \in Indices, BreakPopAF(i)
    PROVE  IInv'
<1> DEFINE st == Below(2)
           a == Top(0).v
           v == Top(1).v
           p == Owned(Top(1))
           o == Owned(Top(0))
           h == Retain(heap, v)
           k == Vacate(h, a, i)
           g == Filled(k, a, i, v)
           m == Refs(slots, st, frame.args)
           q == Plus(m, p)
<1>1. /\ Running(2) /\ Top(0).kind = "write" /\ slots' = slots
      /\ frame' = frame /\ currentArrayOwner' = currentArrayOwner
      /\ \/ k[a].refCount > 0 /\ heap' = Drop(g, Top(1)) /\ stack' = st /\ status' = status
         \/ status' = "dangling" /\ heap' = heap /\ stack' = stack
  BY DEF BreakPopAF, Filled
<1> HIDE DEF g
<1>2. /\ Fits /\ HeapOK(heap) /\ frame.args \in Seq(Operands) /\ Chained(heap, stack)
      /\ modern' = modern /\ steps' \in 0 .. MaxSteps
  <2>1. Running(2) BY <1>1
  <2> HIDE DEF k, m
  <2> QED BY <2>1, RunningFinds
<1>3. /\ Top(0) = stack[Len(stack)] /\ (a \in Ids => heap[a].refCount > 0)
      /\ Top(1) \in Operands /\ v \in Values /\ (v \in Ids => heap[v].refCount > 0)
      /\ st \in Seq(Operands) /\ frame.base <= Len(st) /\ Len(stack) \in 1 .. Len(stack)
      /\ \A j \in 1 .. Len(st) : j \in 1 .. Len(stack) /\ st[j] = stack[j]
  BY <1>1, TopTwoAre
<1>4. /\ m \in [Ids -> Nat] /\ Ledger(heap, Plus(q, o))
      /\ \A x \in Ids : m[x] = (Holders(slots, x) + Owning(st, x)) + Owning(frame.args, x)
  BY <1>1, BelowTwoIs
<1>5. a \in Ids /\ o = Zero BY <1>1, <1>2, <1>3 DEF Chained, IsRef, Owned
<1> HIDE DEF m, st, o
<1>6. m \in [Ids -> Int] /\ q \in [Ids -> Nat] BY <1>4, PlusType
<1> HIDE DEF q
<1>7. Ledger(heap, q)
  <2>1. q \in [Ids -> Int] BY <1>6
  <2>2. \A x \in Ids : q[x] = Plus(q, o)[x] BY <2>1, <1>5, ZeroIs, NumberHoldsNothing
  <2> QED BY <2>2, <1>4, LedgerSame
<1>8. CASE status' = "dangling" /\ heap' = heap /\ stack' = stack
  <2>1. Fits' BY <1>1, <1>2, <1>8 DEF Fits
  <2> QED BY <2>1, <1>1, <1>2, <1>8, Keeps
<1>9. CASE k[a].refCount > 0 /\ heap' = Drop(g, Top(1)) /\ stack' = st /\ status' = status
  <2> HIDE DEF v
  <2>1. /\ HeapOK(h) /\ Ledger(h, Plus(q, v)) /\ SeenAs(h, heap)
        /\ h[a].refCount = heap[a].refCount + Is(v, a)
    <3>1. q \in [Ids -> Int] BY <1>6
    <3> QED BY <3>1, <1>2, <1>3, <1>5, <1>7, RetainIs, RetainSeen
  <2>2. h[a].refCount > 0
    <3>1. heap[a].refCount \in Nat /\ heap[a].refCount > 0 BY <1>2, <1>3, <1>5, HeapFields
    <3>2. Is(v, a) \in {0, 1} BY DEF Is
    <3> HIDE DEF a, h
    <3> QED BY <3>1, <3>2, <2>1
  <2> HIDE DEF h, a
  <2>3. Plus(q, v) \in [Ids -> Nat] /\ q \in [Ids -> Int] BY <1>6, PlusType
  <2>4. i \in 1 .. MaxLength BY IndexIs
  <2>5. /\ HeapOK(k) /\ Ledger(k, Plus(q, v)) /\ SeenAs(k, h)
        /\ k[a].refCount > 0 => i \in 1 .. Len(k[a].data) /\ k[a].data[i] = Zero
    BY <1>5, <2>1, <2>2, <2>3, <2>4, VacateIs
  <2> HIDE DEF k
  <2>6. HeapOK(g) /\ Ledger(g, q) /\ SeenAs(g, k)
    <3>1. HeapOK(g) /\ SeenAs(g, k) /\ Ledger(g, Plus(q, Zero))
      <4>1. g = Filled(k, a, i, v) BY DEF g
      <4>2. k[a].refCount > 0 /\ i \in 1 .. Len(k[a].data) /\ k[a].data[i] = Zero /\ HeapOK(k)
        BY <1>9, <2>5
      <4>3. \A n \in [Ids -> Int] : Ledger(k, Plus(n, v)) => Ledger(g, Plus(n, k[a].data[i]))
        BY <1>3, <1>5, <4>1, <4>2, FilledIs
      <4>4. HeapOK(g) /\ SeenAs(g, k) BY <1>3, <1>5, <4>1, <4>2, FilledIs
      <4> QED BY <2>3, <2>5, <4>2, <4>3, <4>4
    <3>2. \A x \in Ids : q[x] = Plus(q, Zero)[x] BY <2>3, ZeroIs, NumberHoldsNothing
    <3> QED BY <3>1, <3>2, LedgerSame
  <2>7. HeapOK(heap') /\ Ledger(heap', m) /\ SeenAs(heap', g)
    <3>1. heap' = Drop(g, Top(1)) BY <1>9
    <3> QED BY <3>1, <1>3, <1>4, <2>6, DropIs DEF q
  <2>8. SeenAs(heap', heap)
    <3>1. SeenAs(g, h) BY <2>5, <2>6, SeenAsChain
    <3>2. SeenAs(heap', h) BY <3>1, <2>7, SeenAsChain
    <3> QED BY <3>2, <2>1, SeenAsChain
  <2>9. slots' \in [Variables -> Values] /\ slots' = slots BY <1>1, <1>2 DEF Fits
  <2>10. /\ stack' \in Seq(Operands) /\ frame.base <= Len(stack')
         /\ \A j \in 1 .. Len(stack') : j \in 1 .. Len(stack) /\ stack'[j] = stack[j]
    BY <1>3, <1>9
  <2>11. \A x \in Ids : m[x] = (Holders(slots', x) + Owning(stack', x)) + Owning(frame.args, x)
    BY <1>4, <1>9, <2>9
  <2>12. status' = status BY <1>9
  <2> QED BY <1>1, <1>2, <1>6, <2>7, <2>8, <2>9, <2>10, <2>11, <2>12, Popped
<1> QED BY <1>1, <1>8, <1>9

\* Two operands.
LEMMA OwningTwo ==
    ASSUME NEW a \in Operands, NEW b \in Operands, NEW ops, ops = <<a, b>>
    PROVE  ops \in Seq(Operands) /\ \A x \in Ids : Owning(ops, x) = Is(Owned(a), x) + Is(Owned(b), x)
<1> DEFINE s == <<a>>
<1>1. s \in Seq(Operands) /\ \A x \in Ids : Owning(s, x) = Is(Owned(a), x) BY OwningOne
<1>2. ops = Append(s, b) OBVIOUS
<1> HIDE DEF s
<1>3. ops \in Seq(Operands) /\ \A x \in Ids : Owning(ops, x) = Owning(s, x) + Is(Owned(b), x)
  BY <1>1, <1>2, OwningAppend
<1> QED BY <1>1, <1>3

\* What is retained is there as it was.
LEMMA RetainThere ==
    ASSUME NEW h, HeapOK(h), NEW v, NEW a \in Ids, h[a].refCount > 0, NEW g, g = Retain(h, v)
    PROVE  g[a].refCount > 0 /\ g[a].data = h[a].data
<1>1. g[a].refCount = h[a].refCount + Is(v, a) /\ Kept(g, h, a) BY RetainIs
<1>2. h[a].refCount \in Nat BY HeapFields
<1>3. Is(v, a) \in {0, 1} BY DEF Is
<1> QED BY <1>1, <1>2, <1>3 DEF Kept

LEMMA ArraySetKeeps ==
    ASSUME IInv, NEW i \in Indices, ArraySet(i)
    PROVE  IInv'
<1> DEFINE st == Below(2)
           a == Top(0).v
           v == Top(1).v
           p == Owned(Top(1))
           o == Owned(Top(0))
           k == Vacate(heap, a, i)
           h == Retain(k, v)
           g == Filled(h, a, i, v)
           ops == <<Top(0), Top(1)>>
           op == Operand(Zero, "own")
           m == Refs(slots, st, frame.args)
           q == Plus(m, p)
           n == Plus(q, o)
<1>1. /\ Running(2) /\ a \in Ids /\ slots' = slots
      /\ frame' = frame /\ currentArrayOwner' = currentArrayOwner
      /\ \/ /\ k[a].refCount > 0 /\ (v \in Ids => k[v].refCount > 0)
            /\ heap' = DropAll(g, ops) /\ stack' = Append(st, op) /\ status' = status
         \/ status' = "dangling" /\ heap' = heap /\ stack' = stack
  BY DEF ArraySet, Filled
<1> HIDE DEF g, op
<1>2. /\ Fits /\ HeapOK(heap) /\ frame.args \in Seq(Operands) /\ Chained(heap, stack)
      /\ modern' = modern /\ steps' \in 0 .. MaxSteps /\ frame.base \in Nat
  <2>1. Running(2) BY <1>1
  <2> HIDE DEF k, m
  <2> QED BY <2>1, RunningFinds
<1>3. /\ Top(0) \in Operands /\ heap[a].refCount > 0
      /\ Top(1) \in Operands /\ v \in Values
      /\ st \in Seq(Operands) /\ frame.base <= Len(st)
      /\ \A j \in 1 .. Len(st) : j \in 1 .. Len(stack) /\ st[j] = stack[j]
  BY <1>1, TopTwoAre
<1>4. /\ m \in [Ids -> Nat] /\ Ledger(heap, n)
      /\ \A x \in Ids : m[x] = (Holders(slots, x) + Owning(st, x)) + Owning(frame.args, x)
  BY <1>1, BelowTwoIs
<1> HIDE DEF m, st
<1>6. m \in [Ids -> Int] /\ q \in [Ids -> Nat] BY <1>4, PlusType
<1> HIDE DEF q
<1>7. n \in [Ids -> Nat] BY <1>6, PlusType
<1>8. CASE status' = "dangling" /\ heap' = heap /\ stack' = stack
  <2>1. Fits' BY <1>1, <1>2, <1>8 DEF Fits
  <2> QED BY <2>1, <1>1, <1>2, <1>8, Keeps
<1>9. CASE /\ k[a].refCount > 0 /\ (v \in Ids => k[v].refCount > 0)
           /\ heap' = DropAll(g, ops) /\ stack' = Append(st, op) /\ status' = status
  <2> HIDE DEF v, a, n, o, p, ops
  <2>1. i \in 1 .. MaxLength BY IndexIs
  <2>2. /\ HeapOK(k) /\ Ledger(k, n) /\ SeenAs(k, heap)
        /\ i \in 1 .. Len(k[a].data) /\ k[a].data[i] = Zero
    BY <1>1, <1>2, <1>3, <1>4, <1>7, <1>9, <2>1, VacateIs
  <2>3. n \in [Ids -> Int] BY <1>7
  <2> HIDE DEF k
  <2>4. HeapOK(h) /\ Ledger(h, Plus(n, v)) /\ SeenAs(h, k)
    BY <1>9, <2>2, <2>3, RetainIs, RetainSeen
  <2>5. h[a].refCount > 0 /\ i \in 1 .. Len(h[a].data) /\ h[a].data[i] = Zero
    <3>1. h[a].refCount > 0 /\ h[a].data = k[a].data BY <1>1, <1>9, <2>2, RetainThere
    <3> QED BY <3>1, <2>2
  <2> HIDE DEF h
  <2>6. HeapOK(g) /\ Ledger(g, n) /\ SeenAs(g, h)
    <3>1. g = Filled(h, a, i, v) BY DEF g
    <3>2. \A r \in [Ids -> Int] : Ledger(h, Plus(r, v)) => Ledger(g, Plus(r, h[a].data[i]))
      BY <1>1, <1>3, <2>4, <2>5, <3>1, FilledIs
    <3>3. HeapOK(g) /\ SeenAs(g, h) BY <1>1, <1>3, <2>4, <2>5, <3>1, FilledIs
    <3>4. Ledger(g, Plus(n, Zero)) BY <2>3, <2>4, <2>5, <3>2
    <3>5. \A x \in Ids : n[x] = Plus(n, Zero)[x] BY <2>3, ZeroIs, NumberHoldsNothing
    <3> QED BY <3>3, <3>4, <3>5, LedgerSame
  <2>7. ops \in Seq(Operands) /\ \A x \in Ids : Owning(ops, x) = Is(o, x) + Is(p, x)
    BY <1>3, OwningTwo DEF ops, o, p
  <2>8. Ledger(g, With(m, ops))
    <3>1. ASSUME NEW x \in Ids PROVE With(m, ops)[x] = n[x]
      <4> DEFINE b == m[x]
                 c == Is(p, x)
                 d == Is(o, x)
      <4>1. n[x] = q[x] + d /\ q[x] = b + c BY ReferencesAt DEF n, q
      <4>2. With(m, ops)[x] = b + (d + c) BY <2>7 DEF With
      <4>3. b \in Nat /\ c \in Int /\ d \in Int BY <1>4 DEF Is
      <4> HIDE DEF b, c, d
      <4>4. (b + c) + d = b + (d + c) BY <4>3
      <4> QED BY <4>1, <4>2, <4>4
    <3> QED BY <3>1, <2>6, LedgerSame
  <2>9. HeapOK(heap') /\ Ledger(heap', m) /\ SeenAs(heap', g)
    <3>1. heap' = DropAll(g, ops) BY <1>9
    <3> QED BY <3>1, <1>4, <2>6, <2>7, <2>8, DropAllIs
  <2>10. SeenAs(heap', heap)
    <3>1. SeenAs(g, k) BY <2>4, <2>6, SeenAsChain
    <3>2. SeenAs(heap', k) BY <3>1, <2>9, SeenAsChain
    <3> QED BY <3>2, <2>2, SeenAsChain
  <2>11. slots' \in [Variables -> Values] /\ slots' = slots BY <1>1, <1>2 DEF Fits
  <2>12. op \in Operands /\ op.v = Zero /\ op.kind = "own" BY <1>2, ZeroIs, OperandIs DEF op
  <2>13. ~ IsRef(op) /\ op.kind # "write" /\ Owned(op) = Zero BY <2>12 DEF IsRef, Owned
  <2>14. \A x \in Ids : m[x] = ((Holders(slots', x) + Owning(st, x)) + Owning(frame.args, x))
                                 + Is(Owned(op), x)
    <3>1. \A x \in Ids : m[x] = m[x] + Is(Owned(op), x) BY <2>13, <1>4, IsNumber
    <3> QED BY <3>1, <2>11, <1>4
  <2>15. stack' = Append(st, op) /\ status' = status BY <1>9
  <2> QED BY <1>1, <1>2, <1>3, <1>6, <2>9, <2>10, <2>11, <2>12, <2>13, <2>14, <2>15, Pushed
<1> QED BY <1>1, <1>8, <1>9

\* A call without an argument leaves everything where it is.
LEMMA CallNoneKeeps ==
    ASSUME IInv, Call(0)
    PROVE  IInv'
<1> DEFINE args == SubSeq(stack, Len(stack) - 0 + 1, Len(stack))
<1>1. /\ Running(0) /\ ~ frame.open /\ heap' = heap /\ stack' = SubSeq(stack, 1, Len(stack) - 0)
      /\ frame' = [open |-> TRUE, base |-> Len(stack) - 0, args |-> args]
      /\ slots' = [slots EXCEPT ![Arg] = Zero]
      /\ currentArrayOwner' = currentArrayOwner /\ status' = status
  BY DEF Call, Below
<1> HIDE DEF args
<1>2. /\ Fits /\ HeapOK(heap) /\ Chained(heap, stack)
      /\ Ledger(heap, Refs(slots, stack, frame.args))
      /\ modern' = modern /\ steps' \in 0 .. MaxSteps /\ Len(stack) \in Nat /\ Len(stack) <= MaxStack
  BY <1>1, RunningFinds
<1>3. stack \in Seq(Operands) /\ slots \in [Variables -> Values] /\ slots[Arg] = Zero /\ frame.args = <<>>
  BY <1>1, <1>2 DEF Fits
<1>4. args = <<>>
  <2> DEFINE l == Len(stack)
  <2>1. args = SubSeq(stack, l + 1, l) BY <1>2 DEF args
  <2>2. l \in Nat BY <1>2
  <2> HIDE DEF l
  <2>3. l + 1 > l /\ l + 1 \in Int /\ l \in Int BY <2>2
  <2> QED BY <2>1, <2>3, <1>3, SubSeqEmpty
<1>5. stack' = stack
  <2>1. Len(stack) - 0 = Len(stack) BY <1>2
  <2> QED BY <2>1, <1>1, <1>3, SubSeqFull
<1>6. slots' = slots BY <1>1, <1>3
<1>7. /\ frame' \in [open : BOOLEAN, base : Nat, args : Seq(Operands)]
      /\ frame'.open /\ frame'.base = Len(stack) /\ frame'.args = <<>>
  <2>1. <<>> \in Seq(Operands) BY EmptySeq
  <2> QED BY <2>1, <1>1, <1>2, <1>4
<1>8. Fits'
  <2>1. MaxStack \in Nat BY Bounds
  <2>2. Len(stack) \in 0 .. MaxStack + 1 BY <2>1, <1>2
  <2>3. frame'.base <= Len(stack') /\ frame'.base \in 0 .. MaxStack + 1
    BY <2>2, <1>2, <1>5, <1>7
  <2>4. /\ stack' \in Seq(Operands) /\ slots' \in [Variables -> Values] /\ modern' \in BOOLEAN
        /\ currentArrayOwner' \in Tokens \union {NoOwner} /\ (modern' \/ currentArrayOwner' = NoOwner)
        /\ status' \in {"run", "aborted", "dangling"}
    BY <1>1, <1>2, <1>3, <1>5, <1>6 DEF Fits
  <2> QED BY <2>3, <2>4, <1>2, <1>7 DEF Fits
<1> QED BY <1>1, <1>2, <1>3, <1>5, <1>6, <1>7, <1>8, Keeps

\* A call with one argument: the script gets a reference of its own to it.
LEMMA CallOneKeeps ==
    ASSUME IInv, Call(1)
    PROVE  IInv'
<1> DEFINE st == Below(1)
           v == Top(0).v
           o == Owned(Top(0))
           args == SubSeq(stack, Len(stack) - 1 + 1, Len(stack))
           one == <<Top(0)>>
           m == Refs(slots, st, frame.args)
           q == Plus(m, o)
           n == Refs(slots', st, one)
<1>1. /\ Running(1) /\ ~ frame.open /\ heap' = Retain(heap, v) /\ stack' = st
      /\ frame' = [open |-> TRUE, base |-> Len(stack) - 1, args |-> args]
      /\ slots' = [slots EXCEPT ![Arg] = v]
      /\ currentArrayOwner' = currentArrayOwner /\ status' = status
  BY DEF Call
<1> HIDE DEF args
<1>2. /\ Fits /\ HeapOK(heap) /\ Chained(heap, stack)
      /\ modern' = modern /\ steps' \in 0 .. MaxSteps /\ Len(stack) \in Nat /\ Len(stack) <= MaxStack
  <2>1. Running(1) BY <1>1
  <2> QED BY <2>1, RunningFinds
<1>3. /\ Top(0) \in Operands /\ v \in Values /\ (v \in Ids => heap[v].refCount > 0)
      /\ Top(0) = stack[Len(stack)]
      /\ st \in Seq(Operands) /\ Len(st) = Len(stack) - 1 /\ Len(stack) \in 1 .. Len(stack)
      /\ \A k \in 1 .. Len(st) : k \in 1 .. Len(stack) /\ st[k] = stack[k]
  BY <1>1, TopIs
<1>4. /\ m \in [Ids -> Nat] /\ Ledger(heap, q)
      /\ \A x \in Ids : /\ m[x] = (Holders(slots, x) + Owning(st, x)) + Owning(frame.args, x)
                        /\ Owning(st, x) \in Nat
  BY <1>1, BelowIs
<1>5. /\ stack \in Seq(Operands) /\ slots \in [Variables -> Values] /\ slots[Arg] = Zero
      /\ frame.args = <<>>
  BY <1>1, <1>2 DEF Fits
<1>6. args = one
  <2> DEFINE l == Len(stack)
  <2>1. l \in Nat /\ l \in 1 .. l BY <1>2, <1>3
  <2>2. args = SubSeq(stack, l, l)
    <3>1. l - 1 + 1 = l BY <2>1
    <3> QED BY <3>1 DEF args
  <2> HIDE DEF l
  <2>3. l = Len(stack) BY DEF l
  <2>4. args = <<stack[l]>>
    <3> DEFINE w == <<stack[l]>>
    <3>1. l \in 1 .. Len(stack) /\ l \in l .. Len(stack) BY <2>1, <2>3
    <3>2. SubSeq(stack, l, l) = w \o SubSeq(stack, l + 1, l)
      BY <3>1, <1>5, SubSeqRecursiveFirst
    <3>3. SubSeq(stack, l + 1, l) = <<>>
      <4>1. l < l + 1 /\ l + 1 \in Int /\ l \in Int BY <2>1
      <4> QED BY <4>1, SubSeqEmpty
    <3>4. w \in Seq(Operands) BY <3>1, <1>5
    <3>5. w \o <<>> = w
      <4> HIDE DEF w
      <4> QED BY <3>4, ConcatEmptySeq
    <3> QED BY <2>2, <3>2, <3>3, <3>5
  <2> QED BY <2>3, <2>4, <1>3
<1> HIDE DEF m, st, one, o
<1>7. one \in Seq(Operands) /\ \A x \in Ids : Owning(one, x) = Is(o, x)
  BY <1>3, OwningOne DEF one, o
<1>8. slots' \in [Variables -> Values]
      /\ \A x \in Ids : /\ Holders(slots', x) = (Holders(slots, x) - Is(Zero, x)) + Is(v, x)
                        /\ Holders(slots, x) \in Nat
  <2> DEFINE f == slots'
  <2>1. Arg \in Variables BY DEF Variables
  <2>2. f \in [Variables -> Values] /\ f[Arg] = v /\ \A t \in Variables : t # Arg => f[t] = slots[t]
    BY <2>1, <1>1, <1>3, <1>5
  <2> HIDE DEF f, v
  <2>3. \A x : Holders(f, x) = (Holders(slots, x) - Is(slots[Arg], x)) + Is(f[Arg], x)
    <3>1. \A t \in Variables : t # Arg => f[t] = slots[t] BY <2>2
    <3> QED BY ONLY <2>1, <3>1, SlotSet
  <2>4. \A x : Holders(slots, x) \in Nat BY HoldersAre
  <2> QED BY <2>2, <2>3, <2>4, <1>5 DEF f
<1>9. q \in [Ids -> Int]
  <2>1. q \in [Ids -> Nat] BY <1>4, PlusType
  <2> HIDE DEF q
  <2> QED BY <2>1
<1>10. HeapOK(heap') /\ Ledger(heap', Plus(q, v)) /\ SeenAs(heap', heap)
  <2> HIDE DEF q, v
  <2> QED BY <1>1, <1>2, <1>3, <1>4, <1>9, RetainIs, RetainSeen DEF v
<1>11. Ledger(heap', n)
  <2>1. ASSUME NEW x \in Ids PROVE n[x] = Plus(q, v)[x]
    <3> DEFINE a == Holders(slots, x)
               b == Owning(st, x)
               c == Owning(frame.args, x)
               d == Owning(one, x)
               i == Is(o, x)
               j == Is(v, x)
               y == Holders(slots', x)
    <3>1. Plus(q, v)[x] = q[x] + j /\ q[x] = m[x] + i BY ReferencesAt
    <3>2. n[x] = (y + b) + d BY DEF Refs
    <3>3. c = 0 BY <1>5, OwningNone
    <3>4. m[x] = (a + b) + c /\ d = i /\ y = (a - Is(Zero, x)) + j BY <1>4, <1>7, <1>8
    <3>5. Is(Zero, x) = 0 BY IsNumber
    <3>6. a \in Nat /\ b \in Nat /\ i \in Int /\ j \in Int BY <1>4, <1>8 DEF Is
    <3> HIDE DEF a, b, c, d, i, j, y, q, n
    <3>7. (((a - 0) + j) + b) + i = (((a + b) + 0) + i) + j BY <3>6
    <3> QED BY <3>1, <3>2, <3>3, <3>4, <3>5, <3>7
  <2> HIDE DEF n, q
  <2> QED BY <2>1, <1>10, LedgerSame
<1>12. /\ frame' \in [open : BOOLEAN, base : Nat, args : Seq(Operands)]
       /\ frame'.open /\ frame'.base = Len(st) /\ frame'.args = one
  <2>1. Len(stack) - 1 \in Nat BY <1>2, <1>3
  <2> QED BY <2>1, <1>1, <1>3, <1>6, <1>7
<1>13. Fits'
  <2>1. MaxStack \in Nat BY Bounds
  <2>2. Len(st) \in 0 .. MaxStack + 1 BY <2>1, <1>2, <1>3
  <2> QED BY <2>2, <1>1, <1>2, <1>3, <1>8, <1>12 DEF Fits
<1>14. Chained(heap', stack') BY <1>1, <1>2, <1>3, <1>5, <1>10, ChainKept
<1>15. Ledger(heap', Refs(slots', stack', frame'.args)) BY <1>1, <1>11, <1>12
<1> QED BY <1>1, <1>2, <1>10, <1>13, <1>14, <1>15, Keeps

\* References and those that operands own.
LEMMA WithType ==
    ASSUME NEW n \in [Ids -> Nat], NEW ops \in Seq(Operands)
    PROVE  With(n, ops) \in [Ids -> Nat] /\ \A x \in Ids : With(n, ops)[x] = n[x] + Owning(ops, x)
<1>1. \A x \in Ids : Owning(ops, x) \in Nat BY OwningIs
<1> QED BY <1>1 DEF With

\* The local variable and the argument are emptied.
LEMMA LocalsEmptied ==
    ASSUME slots \in [Variables -> Values], NEW f, f = [slots EXCEPT ![Local] = Zero, ![Arg] = Zero]
    PROVE  /\ f \in [Variables -> Values] /\ f[Arg] = Zero
           /\ \A x \in Ids : /\ Holders(f, x) =
                                   (Holders(slots, x) - Is(slots[Local], x)) - Is(slots[Arg], x)
                             /\ Holders(slots, x) \in Nat
<1> DEFINE g == [slots EXCEPT ![Local] = Zero]
<1>1. Local \in Variables /\ Arg \in Variables /\ Local # Arg BY BoundsAssumption DEF Variables
<1>2. /\ f \in [Variables -> Values] /\ f[Arg] = Zero /\ g[Arg] = slots[Arg]
      /\ \A t \in Variables : t # Arg => f[t] = g[t]
  BY <1>1, ZeroIs
<1>3. g[Local] = Zero /\ \A t \in Variables : t # Local => g[t] = slots[t] BY <1>1
<1> HIDE DEF g
<1>4. \A x : Holders(f, x) = (Holders(g, x) - Is(g[Arg], x)) + Is(f[Arg], x)
  <2>1. \A t \in Variables : t # Arg => f[t] = g[t] BY <1>2
  <2>2. Arg \in Variables BY <1>1
  <2> QED BY ONLY <2>1, <2>2, SlotSet
<1>5. \A x : Holders(g, x) = (Holders(slots, x) - Is(slots[Local], x)) + Is(g[Local], x)
  <2>1. \A t \in Variables : t # Local => g[t] = slots[t] BY <1>3
  <2>2. Local \in Variables BY <1>1
  <2> QED BY ONLY <2>1, <2>2, SlotSet
<1>6. ASSUME NEW x \in Ids
      PROVE  /\ Holders(f, x) = (Holders(slots, x) - Is(slots[Local], x)) - Is(slots[Arg], x)
             /\ Holders(slots, x) \in Nat
  <2> DEFINE a == Holders(slots, x)
             b == Is(slots[Local], x)
             c == Is(slots[Arg], x)
             d == Holders(g, x)
  <2>1. Holders(f, x) = (d - c) + Is(Zero, x) BY <1>2, <1>4
  <2>2. d = (a - b) + Is(Zero, x) BY <1>3, <1>5
  <2>3. Is(Zero, x) = 0 BY IsNumber
  <2>4. a \in Nat /\ b \in Int /\ c \in Int
    <3>1. a \in Nat BY HoldersAre
    <3>2. b \in Int /\ c \in Int BY DEF Is
    <3> QED BY <3>1, <3>2
  <2> HIDE DEF a, b, c, d
  <2>5. Holders(f, x) = (a - b) - c /\ a \in Nat BY <2>1, <2>2, <2>3, <2>4
  <2> QED BY <2>5 DEF a, b, c
<1> QED BY <1>2, <1>6

\* A script returns: its result is held, then its variables, its operands and the arguments
\* of the caller are released.
LEMMA LeaveKeeps ==
    ASSUME IInv, Fits, HeapOK(heap), Chained(heap, stack), frame.open,
           Ledger(heap, Refs(slots, stack, frame.args)), modern' = modern, steps' \in 0 .. MaxSteps,
           NEW result \in Operands, IsValue(result), result.v \in Values,
           result.v \in Ids => heap[result.v].refCount > 0,
           NEW operands \in Seq(Operands), NEW prefix, prefix = SubSeq(stack, 1, frame.base),
           \A x \in Ids : Owning(stack, x) =
               (Owning(prefix, x) + Owning(operands, x)) + Is(Owned(result), x),
           Leave(result, operands)
    PROVE  IInv'
<1> DEFINE args == frame.args
           loc == slots[Local]
           arg == slots[Arg]
           v == result.v
           o == Owned(result)
           none == <<>>
           h1 == Steal(heap, result)
           h2 == Release(h1, loc)
           h3 == Release(h2, arg)
           h4 == DropAll(h3, operands)
           op == [result EXCEPT !.kind = "own"]
           m == Refs(slots', prefix, none)
           n4 == Plus(m, v)
           n3 == With(n4, args)
           n2 == With(n3, operands)
           n1 == Plus(n2, arg)
           n0 == Plus(n1, loc)
           ns == Minus(n0, v)
<1>1. /\ heap' = DropAll(h4, args) /\ slots' = [slots EXCEPT ![Local] = Zero, ![Arg] = Zero]
      /\ stack' = Append(prefix, op) /\ frame' = NoFrame
      /\ currentArrayOwner' = currentArrayOwner /\ status' = status
  BY DEF Leave
<1>2. /\ stack \in Seq(Operands) /\ args \in Seq(Operands) /\ slots \in [Variables -> Values]
      /\ frame.base \in 0 .. Len(stack)
  <2>1. /\ stack \in Seq(Operands) /\ args \in Seq(Operands) /\ slots \in [Variables -> Values]
        /\ frame.base \in Nat /\ frame.base <= Len(stack)
    BY DEF Fits
  <2>2. Len(stack) \in Nat BY <2>1, LenProperties
  <2> QED BY <2>1, <2>2
<1>3. /\ prefix \in Seq(Operands)
      /\ \A k \in 1 .. Len(prefix) : k \in 1 .. Len(stack) /\ prefix[k] = stack[k]
  <2>1. /\ prefix \in Seq(Operands) /\ Len(prefix) = frame.base
        /\ \A k \in 1 .. frame.base : k \in 1 .. Len(stack) /\ prefix[k] = stack[k]
    <3> DEFINE b == frame.base
    <3>1. b \in 0 .. Len(stack) /\ prefix = SubSeq(stack, 1, b) BY <1>2
    <3> HIDE DEF b
    <3>2. /\ prefix \in Seq(Operands) /\ Len(prefix) = b
          /\ \A k \in 1 .. b : k \in 1 .. Len(stack) /\ prefix[k] = stack[k]
      BY <1>2, <3>1, PrefixIs
    <3> QED BY <3>2 DEF b
  <2> QED BY <2>1
<1>4. /\ op \in Operands /\ op.v = v /\ ~ IsRef(op) /\ op.kind # "write" /\ Owned(op) = v
  BY DEF Operands, IsRef, Owned
<1>5. /\ slots' \in [Variables -> Values] /\ slots'[Arg] = Zero
      /\ \A x \in Ids : /\ Holders(slots', x) = (Holders(slots, x) - Is(loc, x)) - Is(arg, x)
                        /\ Holders(slots, x) \in Nat
  <2> DEFINE f == slots'
  <2>1. f = [slots EXCEPT ![Local] = Zero, ![Arg] = Zero] BY <1>1
  <2> HIDE DEF f
  <2>2. /\ f \in [Variables -> Values] /\ f[Arg] = Zero
        /\ \A x \in Ids : /\ Holders(f, x) = (Holders(slots, x) - Is(loc, x)) - Is(arg, x)
                          /\ Holders(slots, x) \in Nat
    BY <1>2, <2>1, LocalsEmptied
  <2> QED BY <2>2 DEF f
<1> HIDE DEF op, args, loc, arg, v, o
<1>6. none \in Seq(Operands) /\ \A x \in Ids : Owning(none, x) = 0 BY EmptySeq, OwningNone
<1> HIDE DEF none
<1>7. /\ m \in [Ids -> Nat]
      /\ \A x \in Ids : /\ m[x] = (Holders(slots', x) + Owning(prefix, x)) + Owning(none, x)
                        /\ Owning(prefix, x) \in Nat
  <2> DEFINE sl == slots'
  <2>1. m = Refs(sl, prefix, none) OBVIOUS
  <2> HIDE DEF sl, m
  <2>2. /\ Refs(sl, prefix, none) \in [Ids -> Nat]
        /\ \A x \in Ids : /\ Refs(sl, prefix, none)[x] =
                                 (Holders(sl, x) + Owning(prefix, x)) + Owning(none, x)
                          /\ Owning(prefix, x) \in Nat
    <3>1. prefix \in Seq(Operands) /\ none \in Seq(Operands) BY <1>3, <1>6
    <3> QED BY ONLY <3>1, RefsIs
  <2> QED BY <2>1, <2>2 DEF sl
<1> HIDE DEF m
<1>8. n4 \in [Ids -> Nat] BY <1>7, PlusType
<1> HIDE DEF n4
<1>9. n3 \in [Ids -> Nat] BY <1>2, <1>8, WithType
<1> HIDE DEF n3
<1>10. n2 \in [Ids -> Nat] BY <1>9, WithType
<1> HIDE DEF n2
<1>11. n1 \in [Ids -> Nat] BY <1>10, PlusType
<1> HIDE DEF n1
<1>12. n0 \in [Ids -> Int]
  <2>1. n1 \in [Ids -> Int] BY <1>11
  <2> QED BY <2>1, PlusType
<1> HIDE DEF n0
<1>13. ns \in [Ids -> Int] BY <1>12, PlusType
<1> HIDE DEF ns
<1>14. ASSUME NEW x \in Ids
       PROVE  /\ ns[x] = n0[x] - Is(v, x)
              /\ n0[x] = ((((m[x] + Is(v, x)) + Owning(args, x)) + Owning(operands, x))
                             + Is(arg, x)) + Is(loc, x)
              /\ Owning(args, x) \in Nat /\ Owning(operands, x) \in Nat
  <2>1. ns[x] = n0[x] - Is(v, x) BY ReferencesAt DEF ns
  <2>2. n0[x] = n1[x] + Is(loc, x) BY ReferencesAt DEF n0
  <2>3. n1[x] = n2[x] + Is(arg, x) BY ReferencesAt DEF n1
  <2>4. n2[x] = n3[x] + Owning(operands, x) BY DEF n2, With
  <2>5. n3[x] = n4[x] + Owning(args, x) BY DEF n3, With
  <2>6. n4[x] = m[x] + Is(v, x) BY ReferencesAt DEF n4
  <2>7. Owning(args, x) \in Nat /\ Owning(operands, x) \in Nat BY <1>2, OwningIs
  <2> QED BY <2>1, <2>2, <2>3, <2>4, <2>5, <2>6, <2>7
<1>15. ASSUME NEW x \in Ids PROVE Plus(ns, o)[x] = Refs(slots, stack, frame.args)[x]
  <2> DEFINE a == Holders(slots, x)
             b == Owning(prefix, x)
             c == Owning(args, x)
             d == Owning(operands, x)
             iv == Is(v, x)
             io == Is(o, x)
             ia == Is(arg, x)
             il == Is(loc, x)
  <2>1. Plus(ns, o)[x] = ns[x] + io BY ReferencesAt
  <2>2. Refs(slots, stack, frame.args)[x] = (a + Owning(stack, x)) + c BY DEF Refs, args
  <2>3. Owning(stack, x) = (b + d) + io BY DEF o
  <2>4. m[x] = (((a - il) - ia) + b) + 0 BY <1>5, <1>6, <1>7
  <2>5. ns[x] = (((((m[x] + iv) + c) + d) + ia) + il) - iv BY <1>14
  <2>6. a \in Nat /\ b \in Nat /\ c \in Nat /\ d \in Nat BY <1>5, <1>7, <1>14
  <2>7. iv \in Int /\ io \in Int /\ ia \in Int /\ il \in Int BY DEF Is
  <2> HIDE DEF a, b, c, d, iv, io, ia, il
  <2>8. ((((((((((a - il) - ia) + b) + 0) + iv) + c) + d) + ia) + il) - iv) + io
            = (a + ((b + d) + io)) + c
    BY <2>6, <2>7
  <2> QED BY <2>1, <2>2, <2>3, <2>4, <2>5, <2>8
<1>16. Ledger(heap, Plus(ns, o)) BY <1>15, LedgerSame
<1>17. HeapOK(h1) /\ Ledger(h1, Plus(ns, v)) /\ SeenAs(h1, heap)
  BY <1>13, <1>16, StealIs DEF o, v
<1> HIDE DEF h1
<1>18. Ledger(h1, n0)
  <2>1. ASSUME NEW x \in Ids PROVE n0[x] = Plus(ns, v)[x]
    <3>1. Plus(ns, v)[x] = ns[x] + Is(v, x) /\ ns[x] = n0[x] - Is(v, x) BY <1>14, ReferencesAt
    <3>2. n0[x] \in Int /\ Is(v, x) \in Int BY <1>12 DEF Is
    <3> QED BY <3>1, <3>2
  <2> QED BY <2>1, <1>17, LedgerSame
<1>19. HeapOK(h2) /\ Ledger(h2, n1) /\ SeenAs(h2, h1)
  <2>1. HeapOK(h2) /\ Ledger(h2, n1) /\ (Survives(h2, h1) \/ h2 = h1)
    BY <1>11, <1>17, <1>18, ReleaseIs DEF n0
  <2> QED BY <2>1, SeenAsFrom
<1> HIDE DEF h2
<1>20. HeapOK(h3) /\ Ledger(h3, n2) /\ SeenAs(h3, h2)
  <2>1. HeapOK(h3) /\ Ledger(h3, n2) /\ (Survives(h3, h2) \/ h3 = h2)
    BY <1>10, <1>19, ReleaseIs DEF n1
  <2> QED BY <2>1, SeenAsFrom
<1> HIDE DEF h3
<1>21. HeapOK(h4) /\ Ledger(h4, n3) /\ SeenAs(h4, h3)
  BY <1>9, <1>20, DropAllIs DEF n2
<1> HIDE DEF h4
<1>22. HeapOK(heap') /\ Ledger(heap', n4) /\ SeenAs(heap', h4)
  BY <1>1, <1>2, <1>8, <1>21, DropAllIs DEF n3
<1>23. SeenAs(heap', heap)
  <2>1. SeenAs(h2, heap) BY <1>17, <1>19, SeenAsChain
  <2>2. SeenAs(h3, heap) BY <2>1, <1>20, SeenAsChain
  <2>3. SeenAs(h4, heap) BY <2>2, <1>21, SeenAsChain
  <2> QED BY <2>3, <1>22, SeenAsChain
<1>24. /\ stack' \in Seq(Operands) /\ Len(stack') = Len(prefix) + 1
       /\ \A x \in Ids : Owning(stack', x) = Owning(prefix, x) + Is(v, x)
  <2> DEFINE s == stack'
  <2>1. s = Append(prefix, op) /\ prefix \in Seq(Operands) /\ op \in Operands BY <1>1, <1>3, <1>4
  <2> HIDE DEF s
  <2>2. /\ s \in Seq(Operands) /\ Len(s) = Len(prefix) + 1
        /\ \A x \in Ids : Owning(s, x) = Owning(prefix, x) + Is(Owned(op), x)
    BY ONLY <2>1, OwningAppend
  <2> QED BY <2>2, <1>4 DEF s
<1>25. Chained(heap', stack')
  <2>1. Chained(heap', prefix) BY <1>2, <1>3, <1>23, ChainKept
  <2> QED BY <2>1, <1>1, <1>3, <1>4, ChainAppend
<1>26. /\ frame' \in [open : BOOLEAN, base : Nat, args : Seq(Operands)]
       /\ frame'.base = 0 /\ frame'.args = none /\ frame'.args = <<>>
  BY <1>1, <1>6 DEF NoFrame, none
<1>27. Ledger(heap', Refs(slots', stack', frame'.args))
  <2>1. ASSUME NEW x \in Ids PROVE Refs(slots', stack', none)[x] = n4[x]
    <3> DEFINE a == Holders(slots', x)
               b == Owning(prefix, x)
               i == Is(v, x)
    <3>1. Refs(slots', stack', none)[x] = (a + Owning(stack', x)) + Owning(none, x) BY DEF Refs
    <3>2. Owning(stack', x) = b + i /\ Owning(none, x) = 0 BY <1>6, <1>24
    <3>3. n4[x] = m[x] + i BY ReferencesAt DEF n4
    <3>4. m[x] = (a + b) + 0 BY <1>6, <1>7
    <3>5. a \in Nat /\ b \in Nat /\ i \in Int
      <4>1. a \in Nat BY HoldersAre
      <4>2. b \in Nat BY <1>7
      <4>3. i \in Int BY DEF Is
      <4> QED BY <4>1, <4>2, <4>3
    <3> HIDE DEF a, b, i
    <3>6. (a + (b + i)) + 0 = ((a + b) + 0) + i BY <3>5
    <3> QED BY <3>1, <3>2, <3>3, <3>4, <3>6
  <2>2. Ledger(heap', Refs(slots', stack', none)) BY <2>1, <1>22, LedgerSame
  <2> QED BY <2>2, <1>26
<1>28. Fits'
  <2>1. frame'.base <= Len(stack') /\ frame'.base \in 0 .. MaxStack + 1
    <3>1. Len(prefix) \in Nat BY <1>3, LenProperties
    <3>2. MaxStack \in Nat BY Bounds
    <3>3. Len(stack') = Len(prefix) + 1 /\ frame'.base = 0 BY <1>24, <1>26
    <3> QED BY ONLY <3>1, <3>2, <3>3
  <2>2. /\ modern' \in BOOLEAN /\ currentArrayOwner' \in Tokens \union {NoOwner}
        /\ (modern' \/ currentArrayOwner' = NoOwner) /\ status' \in {"run", "aborted", "dangling"}
    BY <1>1 DEF Fits
  <2> QED BY <2>1, <2>2, <1>5, <1>24, <1>26 DEF Fits
<1> QED BY <1>22, <1>25, <1>27, <1>28, Keeps

LEMMA ReturnKeeps ==
    ASSUME IInv, Return
    PROVE  IInv'
<1> DEFINE l == Len(stack)
           b == frame.base
           prefix == SubSeq(stack, 1, b)
           operands == SubSeq(stack, b + 1, l - 1)
           below == SubSeq(stack, 1, l - 1)
<1>1. /\ Running(1) /\ frame.open /\ IsValue(Top(0)) /\ Leave(Top(0), operands)
  BY DEF Return
<1>2. /\ Fits /\ HeapOK(heap) /\ Chained(heap, stack)
      /\ Ledger(heap, Refs(slots, stack, frame.args))
      /\ modern' = modern /\ steps' \in 0 .. MaxSteps
      /\ l \in Nat /\ b \in Nat /\ b <= l - 1
  BY <1>1, RunningFinds
<1>3. /\ Top(0) \in Operands /\ Top(0).v \in Values
      /\ Top(0).v \in Ids => heap[Top(0).v].refCount > 0
      /\ \A x \in Ids : Owning(stack, x) = Owning(below, x) + Is(Owned(Top(0)), x)
  BY <1>1, TopIs DEF Below
<1>4. stack \in Seq(Operands) BY <1>2 DEF Fits
<1> DEFINE c == l - 1
<1>5. c \in Nat /\ c <= l /\ b <= c BY <1>2
<1>6. prefix \in Seq(Operands) /\ operands \in Seq(Operands) /\ below = prefix \o operands
  <2>1. prefix \in Seq(Operands)
    <3>1. b \in 0 .. Len(stack) BY <1>2
    <3> HIDE DEF b
    <3> QED BY <1>4, <3>1, PrefixIs
  <2>2. operands \in Seq(Operands)
    <3>1. b + 1 \in Int /\ c \in Int /\ \A i \in b + 1 .. c : i \in 1 .. Len(stack) BY <1>2, <1>5
    <3>2. \A i \in b + 1 .. c : stack[i] \in Operands BY <1>4, <3>1
    <3> HIDE DEF b, c
    <3> QED BY <3>1, <3>2, SubSeqProperties DEF c
  <2>3. below = prefix \o operands
    <3>1. 1 \in 1 .. Len(stack) + 1 /\ b \in 1 - 1 .. Len(stack) /\ c \in b .. Len(stack)
      BY <1>2, <1>5
    <3> HIDE DEF b, c
    <3>2. SubSeq(stack, 1, b) \o SubSeq(stack, b + 1, c) = SubSeq(stack, 1, c)
      BY <1>4, <3>1, ConcatAdjacentSubSeq
    <3> QED BY <3>2 DEF c
  <2> QED BY <2>1, <2>2, <2>3
<1> HIDE DEF operands, below, l, c
<1>7. \A x \in Ids : Owning(below, x) = Owning(prefix, x) + Owning(operands, x)
  <2> HIDE DEF prefix
  <2> QED BY <1>6, OwningConcat
<1>8. \A x \in Ids : Owning(stack, x) =
          (Owning(prefix, x) + Owning(operands, x)) + Is(Owned(Top(0)), x)
  BY <1>3, <1>7
<1>9. prefix = SubSeq(stack, 1, frame.base) OBVIOUS
<1> DEFINE result == Top(0)
<1>10. /\ result \in Operands /\ IsValue(result) /\ result.v \in Values
       /\ result.v \in Ids => heap[result.v].refCount > 0
       /\ Leave(result, operands)
       /\ \A x \in Ids : Owning(stack, x) =
              (Owning(prefix, x) + Owning(operands, x)) + Is(Owned(result), x)
  BY <1>1, <1>3, <1>8
<1> HIDE DEF prefix, result, b
<1> QED BY <1>1, <1>2, <1>6, <1>10, LeaveKeeps DEF prefix, b

LEMMA ExitKeeps ==
    ASSUME IInv, Exit
    PROVE  IInv'
<1> DEFINE b == frame.base
           prefix == SubSeq(stack, 1, b)
           operands == <<>>
           result == Operand(Zero, "view")
<1>1. /\ Running(0) /\ frame.open /\ Depth = 0 /\ Leave(result, operands)
  BY DEF Exit
<1> HIDE DEF result
<1>2. /\ Fits /\ HeapOK(heap) /\ Chained(heap, stack)
      /\ Ledger(heap, Refs(slots, stack, frame.args))
      /\ modern' = modern /\ steps' \in 0 .. MaxSteps
      /\ Len(stack) \in Nat /\ b \in Nat /\ Base = b
  BY <1>1, RunningFinds
<1>3. stack \in Seq(Operands) BY <1>2 DEF Fits
<1>4. b = Len(stack) BY <1>1, <1>2 DEF Depth
<1>5. prefix = stack BY <1>3, <1>4, SubSeqFull
<1>6. operands \in Seq(Operands) /\ \A x \in Ids : Owning(operands, x) = 0
  BY EmptySeq, OwningNone
<1>7. result \in Operands /\ result.v = Zero /\ result.kind = "view"
  BY <1>2, ZeroIs, OperandIs DEF result
<1>8. /\ IsValue(result) /\ result.v \in Values /\ result.v \notin Ids /\ Owned(result) = Zero
  BY <1>7, ZeroIs DEF IsValue, Owned
<1> HIDE DEF operands
<1>9. \A x \in Ids : Owning(stack, x) =
          (Owning(prefix, x) + Owning(operands, x)) + Is(Owned(result), x)
  <2> SUFFICES ASSUME NEW x \in Ids
               PROVE  Owning(stack, x) =
                        (Owning(prefix, x) + Owning(operands, x)) + Is(Owned(result), x)
    OBVIOUS
  <2> DEFINE a == Owning(stack, x)
  <2>1. Owning(prefix, x) = a /\ Owning(operands, x) = 0 BY <1>5, <1>6
  <2>2. Is(Owned(result), x) = 0 BY <1>8, IsNumber
  <2>3. a \in Nat BY <1>3, OwningIs
  <2> HIDE DEF a
  <2>4. a = (a + 0) + 0 BY <2>3
  <2> QED BY <2>1, <2>2, <2>4 DEF a
<1>10. prefix = SubSeq(stack, 1, frame.base) OBVIOUS
<1> HIDE DEF prefix, b
<1> QED BY <1>1, <1>2, <1>6, <1>7, <1>8, <1>9, <1>10, LeaveKeeps

-----------------------------------------------------------------------------
(* The theorems.                                                              *)

LEMMA IInvKept ==
    ASSUME IInv, [Next]_vars
    PROVE  IInv'
<1>1. CASE PushNumber BY <1>1, PushNumberKeeps
<1>2. CASE Popz BY <1>2, PopzKeeps
<1>3. CASE NewGMLArray BY <1>3, NewGMLArrayKeeps
<1>4. CASE \E s \in Variables : PushVariable(s) \/ PopVariable(s)
  BY <1>4, PushVariableKeeps, PopVariableKeeps
<1>5. CASE \E s \in Writable, i \in Indices : PushElement(s, i) \/ PopElement(s, i)
  BY <1>5, PushElementKeeps, PopElementKeeps
<1>6. CASE \E s \in Globals, i \in Indices, kind \in {"read", "write"} : PushArrayRef(s, i, kind)
  BY <1>6, PushArrayRefKeeps
<1>7. CASE \E kind \in {"read", "write"} : PushTopLevelArrayRef(kind)
  BY <1>7, PushTopLevelArrayRefKeeps
<1>8. CASE \E i \in Indices : BreakPushAC(i) \/ BreakPushAF(i) \/ BreakPopAF(i) \/ ArraySet(i)
  BY <1>8, BreakPushACKeeps, BreakPushAFKeeps, BreakPopAFKeeps, ArraySetKeeps
<1>9. CASE BreakPopAFAborts BY <1>9, BreakPopAFAbortsKeeps
<1>10. CASE \E token \in Tokens : BreakSetOwner(token) BY <1>10, BreakSetOwnerKeeps
<1>11. CASE \E n \in 0 .. 1 : Call(n)
  <2>1. \A n \in 0 .. 1 : n = 0 \/ n = 1 OBVIOUS
  <2> QED BY <1>11, <2>1, CallNoneKeeps, CallOneKeeps
<1>12. CASE Return BY <1>12, ReturnKeeps
<1>13. CASE Exit BY <1>13, ExitKeeps
<1>14. CASE FollowDangling BY <1>14, FollowDanglingKeeps
<1>15. CASE UNCHANGED vars BY <1>15, StutterKeeps
<1> QED
  BY <1>1, <1>2, <1>3, <1>4, <1>5, <1>6, <1>7, <1>8, <1>9, <1>10, <1>11, <1>12, <1>13, <1>14, <1>15
     DEF Next

\* What a shape holds is counted by its heap.
LEMMA ShapeIs ==
    ASSUME modern \in BOOLEAN, NEW shape \in Shapes,
           NEW owner \in {NoOwner} \union IF modern THEN Tokens ELSE Writable,
           NEW g, g = [id \in Ids |->
                   IF id \in DOMAIN shape.data
                   THEN [refCount |-> HoldersIn(shape, id), owner |-> owner,
                         data |-> shape.data[id]]
                   ELSE Freed],
           NEW sl, sl = [s \in Variables |-> IF s \in Globals THEN shape.globals[s] ELSE Zero]
    PROVE  /\ HeapOK(g) /\ sl \in [Variables -> Values] /\ sl[Arg] = Zero
           /\ \A x \in Ids : g[x].refCount = Holders(sl, x) + CellsWith(g, Ids, x)
<1> DEFINE data == shape.data
           D == DOMAIN data
           C(x) == {c \in D \X (1 .. MaxLength) : c[2] <= Len(data[c[1]]) /\ data[c[1]][c[2]] = x}
           G(x) == {s \in Globals : shape.globals[s] = x}
<1>1. /\ data \in Seq(Seq(Values)) /\ Len(data) <= MaxArrays
      /\ shape.globals \in [Globals -> Numbers \union D]
      /\ \A id \in D :
            /\ Len(data[id]) <= MaxLength
            /\ \A k \in DOMAIN data[id] : data[id][k] \in Ids => data[id][k] \in D
            /\ HoldersIn(shape, id) > 0
  BY ShapesAssumption DEF Values
<1>2. D = 1 .. Len(data) /\ Len(data) \in Nat /\ D \in SUBSET Ids
  <2>1. D = 1 .. Len(data) /\ Len(data) \in Nat BY <1>1, LenProperties
  <2>2. Len(data) <= MaxArrays + 2 BY <2>1, <1>1, Bounds
  <2>3. MaxArrays + 2 \in Nat BY Bounds
  <2> HIDE DEF D
  <2>4. \A i \in 1 .. Len(data) : i \in 1 .. MaxArrays + 2 BY <2>1, <2>2, <2>3
  <2> QED BY <2>1, <2>4 DEF Ids
<1>3. \A x : HoldersIn(shape, x) = Cardinality(G(x)) + Cardinality(C(x)) BY DEF HoldersIn
<1>4. \A id \in D : data[id] \in Seq(Values) /\ Len(data[id]) \in Nat /\ DOMAIN data[id] = 1 .. Len(data[id])
  <2>1. \A id \in D : data[id] \in Seq(Values)
    <3>1. \A id \in 1 .. Len(data) : data[id] \in Seq(Values) BY <1>1
    <3> HIDE DEF data
    <3> QED BY <1>2, <3>1
  <2> HIDE DEF data
  <2> QED BY <2>1, LenProperties
<1>5. /\ \A x \in D : /\ g[x].refCount = HoldersIn(shape, x) /\ g[x].owner = owner
                      /\ g[x].data = data[x]
      /\ \A x \in Ids \ D : g[x] = Freed
      /\ g = [x \in Ids |-> g[x]]
  BY <1>2
<1>6. /\ sl = [s \in Variables |-> sl[s]] /\ sl[Arg] = Zero /\ sl[Local] = Zero
      /\ \A s \in Globals : sl[s] = shape.globals[s]
  BY BoundsAssumption DEF Variables
<1> HIDE DEF data, D, C, G
<1>7. \A x \in Ids : IsFiniteSet(G(x)) /\ IsFiniteSet(C(x))
  <2> SUFFICES ASSUME NEW x \in Ids PROVE IsFiniteSet(G(x)) /\ IsFiniteSet(C(x)) OBVIOUS
  <2>1. IsFiniteSet(Globals) /\ G(x) \in SUBSET Globals BY BoundsAssumption DEF G
  <2>2. IsFiniteSet(G(x)) BY <2>1, FS_Subset
  <2>3. IsFiniteSet(D) BY <1>2, Bounds, FS_Subset
  <2>4. IsFiniteSet(1 .. MaxLength)
    <3>1. MaxLength \in Int /\ 1 \in Int BY Bounds
    <3> QED BY <3>1, FS_Interval
  <2>5. IsFiniteSet(D \X (1 .. MaxLength)) BY <2>3, <2>4, FS_Product
  <2>6. C(x) \in SUBSET (D \X (1 .. MaxLength)) BY DEF C
  <2>7. IsFiniteSet(C(x)) BY <2>5, <2>6, FS_Subset
  <2> QED BY <2>2, <2>7
<1>8. \A x \in Ids : Cardinality(G(x)) \in Nat /\ Cardinality(C(x)) \in Nat
  BY <1>7, FS_CardinalityType
<1>9. HeapOK(g)
  <2>1. \A x \in D : HoldersIn(shape, x) \in Nat /\ HoldersIn(shape, x) > 0
    <3>1. \A x \in Ids : HoldersIn(shape, x) \in Nat
      <4> SUFFICES ASSUME NEW x \in Ids PROVE HoldersIn(shape, x) \in Nat OBVIOUS
      <4>1. HoldersIn(shape, x) = Cardinality(G(x)) + Cardinality(C(x)) BY <1>3
      <4> QED BY <4>1, <1>8
    <3>2. \A x \in D : HoldersIn(shape, x) > 0 BY <1>1
    <3> QED BY <3>1, <3>2, <1>2
  <2>2. owner \in Owners BY DEF Owners
  <2>3. ASSUME NEW x \in Ids
        PROVE  /\ g[x] \in [refCount : Nat, owner : Owners, data : Seq(Values)]
               /\ Len(g[x].data) <= MaxLength
               /\ g[x].refCount = 0 => g[x].owner = NoOwner /\ g[x].data = <<>>
    <3>1. CASE x \in D
      <4>1. g[x] = [refCount |-> HoldersIn(shape, x), owner |-> owner, data |-> data[x]]
        BY <3>1 DEF D, data
      <4>2. Len(data[x]) <= MaxLength BY <3>1, <1>1
      <4> QED BY <3>1, <4>1, <4>2, <2>1, <2>2, <1>4
    <3>2. CASE x \notin D
      <4>1. g[x] = Freed BY <3>2, <1>5
      <4>2. 0 <= MaxLength BY Bounds
      <4> QED BY <4>1, <4>2, FreedIs DEF Freed, Array
    <3> QED BY <3>1, <3>2
  <2>4. g \in [Ids -> [refCount : Nat, owner : Owners, data : Seq(Values)]] BY <2>3
  <2> QED BY <2>3, <2>4, HeapFrom
<1>10. sl \in [Variables -> Values]
  <2>1. \A s \in Globals : sl[s] \in Values BY <1>1, <1>2, <1>6 DEF Values
  <2>2. \A s \in Variables : sl[s] \in Values BY <2>1, <1>6, ZeroIs DEF Variables
  <2> QED BY <2>2, <1>6
<1>11. ASSUME NEW x \in Ids PROVE g[x].refCount = Holders(sl, x) + CellsWith(g, Ids, x)
  <2>1. {s \in Variables : sl[s] = x} = G(x)
    <3>1. Zero # x BY ZeroIs
    <3> QED BY <3>1, <1>6 DEF G, Variables
  <2>2. Holders(sl, x) = Cardinality(G(x)) BY <2>1 DEF Holders
  <2>3. CellSet(g, Ids, x) = C(x)
    <3>1. \A a \in Ids \ D : Len(g[a].data) = 0
      <4>1. Len(<<>>) = 0 BY EmptySeq
      <4> QED BY <4>1, <1>5 DEF Freed
    <3>2. \A k \in 1 .. MaxLength : ~ (k <= 0) BY Bounds
    <3>3. \A a \in Ids, k \in 1 .. MaxLength :
             k <= Len(g[a].data) /\ g[a].data[k] = x
               <=> a \in D /\ k <= Len(data[a]) /\ data[a][k] = x
      <4> SUFFICES ASSUME NEW a \in Ids, NEW k \in 1 .. MaxLength
                   PROVE  k <= Len(g[a].data) /\ g[a].data[k] = x
                              <=> a \in D /\ k <= Len(data[a]) /\ data[a][k] = x
        OBVIOUS
      <4>1. CASE a \in D BY <4>1, <1>5
      <4>2. CASE a \notin D BY <4>2, <3>1, <3>2
      <4> QED BY <4>1, <4>2
    <3>4. \A c : c \in CellSet(g, Ids, x) <=>
              /\ c \in Ids \X (1 .. MaxLength)
              /\ c[2] <= Len(g[c[1]].data) /\ g[c[1]].data[c[2]] = x
      BY DEF CellSet
    <3>5. \A c : c \in C(x) <=>
              /\ c \in D \X (1 .. MaxLength)
              /\ c[2] <= Len(data[c[1]]) /\ data[c[1]][c[2]] = x
      BY DEF C
    <3>6. ASSUME NEW c PROVE c \in CellSet(g, Ids, x) <=> c \in C(x)
      <4>1. CASE c \in Ids \X (1 .. MaxLength)
        <5>1. c[1] \in Ids /\ c[2] \in 1 .. MaxLength BY <4>1
        <5>2. c \in D \X (1 .. MaxLength) <=> c[1] \in D BY <4>1
        <5> QED BY <4>1, <5>1, <5>2, <3>3, <3>4, <3>5
      <4>2. CASE c \notin Ids \X (1 .. MaxLength)
        <5>1. c \notin D \X (1 .. MaxLength) BY <4>2, <1>2
        <5> QED BY <4>2, <5>1, <3>4, <3>5
      <4> QED BY <4>1, <4>2
    <3> QED BY <3>6
  <2>4. CellsWith(g, Ids, x) = Cardinality(C(x)) BY <2>3, CellsFinite
  <2>5. CASE x \in D BY <2>2, <2>4, <2>5, <1>3, <1>5
  <2>6. CASE x \notin D
    <3>1. G(x) = {}
      <4>1. \A s \in Globals : shape.globals[s] \in Numbers \union D BY <1>1
      <4>2. x \notin Numbers BY BoundsAssumption
      <4> QED BY <4>1, <4>2, <2>6 DEF G
    <3>2. C(x) = {}
      <4> SUFFICES ASSUME NEW c \in C(x) PROVE FALSE OBVIOUS
      <4>1. PICK a \in D, k \in 1 .. MaxLength : c = <<a, k>> /\ k <= Len(data[a]) /\ data[a][k] = x
        BY DEF C
      <4>2. k \in DOMAIN data[a] BY <4>1, <1>4
      <4>3. data[a][k] \in D BY <4>1, <4>2, <1>1
      <4> QED BY <4>1, <4>3, <2>6
    <3>3. g[x].refCount = 0 BY <2>6, <1>5, FreedIs
    <3> QED BY <3>1, <3>2, <3>3, <2>2, <2>4, FS_EmptySet
  <2> QED BY <2>5, <2>6
<1> QED BY <1>6, <1>9, <1>10, <1>11

LEMMA InitStarts ==
    ASSUME Init
    PROVE  IInv
<1> PICK shape \in Shapes :
        /\ \E owner \in {NoOwner} \union IF modern THEN Tokens ELSE Writable :
               heap = [id \in Ids |->
                   IF id \in DOMAIN shape.data
                   THEN [refCount |-> HoldersIn(shape, id), owner |-> owner,
                         data |-> shape.data[id]]
                   ELSE Freed]
        /\ slots = [s \in Variables |-> IF s \in Globals THEN shape.globals[s] ELSE Zero]
  BY DEF Init
<1>1. /\ modern \in BOOLEAN /\ stack = <<>> /\ frame = NoFrame /\ status = "run" /\ steps = 0
      /\ currentArrayOwner \in {NoOwner} \union IF modern THEN Tokens ELSE {}
  BY DEF Init
<1>2. /\ HeapOK(heap) /\ slots \in [Variables -> Values] /\ slots[Arg] = Zero
      /\ \A x \in Ids : heap[x].refCount = Holders(slots, x) + CellsWith(heap, Ids, x)
  <2> PICK owner \in {NoOwner} \union IF modern THEN Tokens ELSE Writable :
               heap = [id \in Ids |->
                   IF id \in DOMAIN shape.data
                   THEN [refCount |-> HoldersIn(shape, id), owner |-> owner,
                         data |-> shape.data[id]]
                   ELSE Freed]
    OBVIOUS
  <2>1. slots = [s \in Variables |-> IF s \in Globals THEN shape.globals[s] ELSE Zero]
    OBVIOUS
  <2> QED BY <2>1, <1>1, ShapeIs
<1> DEFINE none == <<>>
<1>3. none \in Seq(Operands) /\ Len(none) = 0 /\ \A x \in Ids : Owning(none, x) = 0
  BY EmptySeq, OwningNone
<1>4. stack = none /\ frame = [open |-> FALSE, base |-> 0, args |-> none] BY <1>1 DEF NoFrame
<1>5. frame.args = <<>> BY <1>4
<1> HIDE DEF none
<1>6. /\ frame \in [open : BOOLEAN, base : Nat, args : Seq(Operands)] /\ frame.base = 0
      /\ frame.args = none
  BY <1>3, <1>4
<1>7. Fits
  <2>1. MaxStack \in Nat /\ MaxSteps \in Nat BY Bounds
  <2>2. frame.base \in 0 .. MaxStack + 1 /\ steps \in 0 .. MaxSteps /\ frame.base <= Len(stack)
    BY <2>1, <1>1, <1>3, <1>4, <1>6
  <2>3. /\ currentArrayOwner \in Tokens \union {NoOwner}
        /\ (modern \/ currentArrayOwner = NoOwner) /\ status \in {"run", "aborted", "dangling"}
    BY <1>1
  <2> QED BY <2>2, <2>3, <1>1, <1>2, <1>3, <1>4, <1>5, <1>6 DEF Fits
<1>8. Ledger(heap, Refs(slots, none, none))
  <2> SUFFICES ASSUME NEW x \in Ids
               PROVE  heap[x].refCount = Refs(slots, none, none)[x] + CellsWith(heap, Ids, x)
    BY DEF Ledger
  <2> DEFINE a == Holders(slots, x)
             c == CellsWith(heap, Ids, x)
  <2>1. Refs(slots, none, none)[x] = (a + Owning(none, x)) + Owning(none, x) BY DEF Refs
  <2>2. heap[x].refCount = a + c /\ Owning(none, x) = 0 BY <1>2, <1>3
  <2>3. a \in Nat /\ c \in Nat
    <3>1. a \in Nat BY HoldersAre
    <3>2. c \in Nat BY CellsFinite
    <3> QED BY <3>1, <3>2
  <2> HIDE DEF a, c
  <2>4. ((a + 0) + 0) + c = a + c BY <2>3
  <2> QED BY <2>1, <2>2, <2>4 DEF c
<1>9. Chained(heap, stack)
  <2>1. \A k \in 1 .. Len(none) : FALSE BY <1>3
  <2> QED BY <2>1, <1>4 DEF Chained
<1> QED BY <1>2, <1>4, <1>6, <1>7, <1>8, <1>9 DEF IInv

LEMMA IInvHolds == Spec => []IInv
<1>1. Init => IInv BY InitStarts
<1>2. IInv /\ [Next]_vars => IInv' BY IInvKept
<1> QED BY <1>1, <1>2, PTL DEF Spec

\* Counts are never negative, owners are of the version's kind, and operands are values, views
\* or references, in any event that gml_array.c and vm.c run.
THEOREM TypeCorrect == Spec => []TypeOK
<1>1. ASSUME IInv PROVE TypeOK
  <2>1. Fits /\ HeapOK(heap) BY <1>1 DEF IInv
  <2>2. \A s, S : s \in Seq(S) => ToSet(s) \subseteq S
    <3> SUFFICES ASSUME NEW s, NEW S, s \in Seq(S), NEW e \in ToSet(s) PROVE e \in S
      BY Zenon
    <3>1. DOMAIN s = 1 .. Len(s) BY LenProperties
    <3> QED BY <3>1 DEF ToSet
  <2>3. ASSUME NEW id \in Ids
        PROVE  /\ heap[id].refCount \in Nat /\ heap[id].owner \in Owners
               /\ ToSet(heap[id].data) \subseteq Numbers \union Ids
    <3>1. heap[id].refCount \in Nat /\ heap[id].owner \in Owners /\ heap[id].data \in Seq(Values)
      BY <2>1, HeapFields
    <3>2. ToSet(heap[id].data) \subseteq Values BY <3>1, <2>2
    <3> QED BY <3>1, <3>2 DEF Values
  <2>4. ToSet(stack) \subseteq Operands /\ ToSet(frame.args) \subseteq Operands
    <3>1. stack \in Seq(Operands) /\ frame.args \in Seq(Operands) BY <2>1 DEF Fits
    <3> QED BY <3>1, <2>2, Zenon
  <2> QED BY <2>1, <2>3, <2>4 DEF Fits, TypeOK, Values
<1> QED BY <1>1, IInvHolds, PTL

\* As long as no freed array is used, every array is counted once for each variable, cell and
\* operand that holds it: GMLArray_incRef and GMLArray_decRef balance, whatever is called.
THEOREM CountsHeld == Spec => []CountsOwners
<1>1. ASSUME IInv PROVE CountsOwners
  <2> SUFFICES ASSUME status # "dangling", NEW id \in Ids PROVE heap[id].refCount = OwnersOf(id)
    BY DEF CountsOwners
  <2> DEFINE a == Holders(slots, id)
             b == Owning(stack, id)
             c == Owning(frame.args, id)
             d == CellsWith(heap, Ids, id)
  <2>1. Fits /\ Ledger(heap, Refs(slots, stack, frame.args)) BY <1>1 DEF IInv
  <2>2. heap[id].refCount = ((a + b) + c) + d BY <2>1 DEF Ledger, Refs
  <2>3. OwnersOf(id) = ((a + d) + b) + c BY DEF OwnersOf, Holders
  <2>4. a \in Nat /\ b \in Nat /\ c \in Nat /\ d \in Nat
    <3>1. stack \in Seq(Operands) /\ frame.args \in Seq(Operands) BY <2>1 DEF Fits
    <3>2. a \in Nat BY HoldersAre
    <3>3. b \in Nat BY <3>1, OwningIs
    <3>4. c \in Nat BY <3>1, OwningIs
    <3>5. d \in Nat BY CellsFinite
    <3> QED BY <3>2, <3>3, <3>4, <3>5
  <2> HIDE DEF a, b, c, d
  <2>5. ((a + b) + c) + d = ((a + d) + b) + c BY <2>4
  <2> QED BY <2>2, <2>3, <2>5
<1> QED BY <1>1, IInvHolds, PTL

\* What BREAK_POPAF asserts: in a statement that nothing changed the owner of, the array that
\* a chain of indices writes to belongs to the statement.
THEOREM ChainsFork == Spec => []ChainsAreForked
<1>1. ASSUME IInv PROVE ChainsAreForked
  <2> SUFFICES ASSUME NEW op \in ToSet(stack), op.kind = "write", op.at = currentArrayOwner,
                      Live(op.v)
               PROVE  MayWrite(op.v)
    BY DEF ChainsAreForked
  <2>1. stack \in Seq(Operands) /\ Chained(heap, stack) BY <1>1 DEF IInv, Fits
  <2>2. PICK k \in 1 .. Len(stack) : op = stack[k]
    <3>1. DOMAIN stack = 1 .. Len(stack) BY <2>1, LenProperties
    <3> QED BY <3>1 DEF ToSet
  <2>3. op.v \in Ids BY <2>1, <2>2 DEF Chained, IsRef
  <2>4. heap[op.v].refCount > 0 BY <2>3 DEF Live
  <2>5. heap[op.v].owner = currentArrayOwner BY <2>1, <2>2, <2>4 DEF Chained
  <2> QED BY <2>5 DEF MayWrite
<1> QED BY <1>1, IInvHolds, PTL

-----------------------------------------------------------------------------
(* What others see.                                                           *)

\* x is in a cell of y.
InCell(h, y, x) == \E i \in 1 .. Len(h[y].data) : h[y].data[i] = x

\* One step further: the arrays in cells of arrays in A.
Spread(A) == A \cup UNION {ToSet(heap[a].data) \cap Ids : a \in A}

IsReaching(v, f, n) ==
    f = [k \in 0 .. n |-> IF k = 0 THEN {v} \cap Ids ELSE Spread(f[k - 1])]

LEMMA ReachingExists == \A v : \A n \in Nat : \E f : IsReaching(v, f, n)
<1> SUFFICES ASSUME NEW v PROVE \A n \in Nat : \E f : IsReaching(v, f, n) OBVIOUS
<1> DEFINE Bad == {n \in Nat : ~ \E f : IsReaching(v, f, n)}
<1>1. SUFFICES ASSUME Bad # {} PROVE FALSE OBVIOUS
<1>2. PICK m \in Bad : \A n \in Bad : m <= n
  <2>1. Bad \in SUBSET Nat OBVIOUS
  <2> HIDE DEF Bad
  <2> QED BY <1>1, <2>1, LeastOf
<1>3. m \in Nat /\ ~ \E f : IsReaching(v, f, m) OBVIOUS
<1> DEFINE start == {v} \cap Ids
<1>4. CASE m = 0
  <2> DEFINE f == [k \in 0 .. 0 |-> start]
  <2>1. f = [k \in 0 .. 0 |-> IF k = 0 THEN start ELSE Spread(f[k - 1])] OBVIOUS
  <2>2. IsReaching(v, f, m) BY <2>1, <1>4 DEF IsReaching
  <2> QED BY <2>2, <1>3
<1>5. CASE m # 0
  <2>1. m - 1 \in Nat /\ ~ (m <= m - 1) BY <1>3, <1>5
  <2>2. m - 1 \notin Bad BY <2>1, <1>2
  <2>3. PICK f : IsReaching(v, f, m - 1) BY <2>1, <2>2
  <2> DEFINE g == [k \in 0 .. m |-> IF k = m THEN Spread(f[m - 1]) ELSE f[k]]
  <2>4. f = [k \in 0 .. m - 1 |-> IF k = 0 THEN start ELSE Spread(f[k - 1])]
    BY <2>3 DEF IsReaching
  <2> HIDE DEF start
  <2>5. ASSUME NEW k \in 0 .. m PROVE g[k] = IF k = 0 THEN start ELSE Spread(g[k - 1])
    <3>1. CASE k = 0
      <4>1. 0 \in 0 .. m - 1 BY <2>1
      <4>2. f[0] = start BY <4>1, <2>4
      <4> QED BY <3>1, <4>2, <1>5
    <3>2. CASE k # 0 /\ k # m
      <4>1. k \in 0 .. m - 1 /\ k - 1 \in 0 .. m /\ k - 1 # m BY <3>2, <1>3
      <4>2. f[k] = Spread(f[k - 1]) BY <4>1, <3>2, <2>4
      <4>3. g[k] = f[k] /\ g[k - 1] = f[k - 1] BY <4>1, <3>2
      <4> QED BY <4>2, <4>3, <3>2
    <3>3. CASE k = m
      <4>1. m - 1 \in 0 .. m /\ m - 1 # m BY <2>1, <1>3
      <4>2. g[m] = Spread(f[m - 1]) /\ g[m - 1] = f[m - 1] BY <4>1, <1>3
      <4> QED BY <4>2, <3>3, <1>5
    <3> QED BY <3>1, <3>2, <3>3
  <2>6. g = [k \in 0 .. m |-> IF k = 0 THEN start ELSE Spread(g[k - 1])] BY <2>5
  <2> HIDE DEF g
  <2>7. IsReaching(v, g, m) BY <2>6 DEF IsReaching, start
  <2> QED BY <2>7, <1>3
<1> QED BY <1>4, <1>5

\* A step leads to what is in cells, and to nothing else.
LEMMA SpreadIs ==
    ASSUME HeapOK(heap), NEW A \in SUBSET Ids
    PROVE  /\ Spread(A) \in SUBSET Ids
           /\ A \subseteq Spread(A)
           /\ \A x \in Spread(A) : x \in A \/ \E y \in A : InCell(heap, y, x)
<1>1. ASSUME NEW y \in A, NEW x \in ToSet(heap[y].data) PROVE InCell(heap, y, x)
  <2> DEFINE d == heap[y].data
  <2>1. d \in Seq(Values) BY HeapFields
  <2> HIDE DEF d
  <2>2. \A z \in ToSet(d) : \E i \in 1 .. Len(d) : d[i] = z BY <2>1 DEF ToSet
  <2> QED BY <2>2 DEF InCell, d
<1>2. \A x \in Spread(A) : x \in A \/ (x \in Ids /\ \E y \in A : x \in ToSet(heap[y].data))
  BY DEF Spread
<1>3. A \subseteq Spread(A) BY DEF Spread
<1> HIDE DEF Spread
<1> QED BY <1>1, <1>2, <1>3

\* What is reached through a value is in every set that has the value and is
\* closed under the cells that are reached.
LEMMA ReachIs ==
    ASSUME HeapOK(heap), NEW v \in Values, NEW R, R = Reach(v)
    PROVE  /\ R \in SUBSET Ids
           /\ v \in Ids => v \in R
           /\ \A G \in SUBSET Ids :
                 (v \in Ids => v \in G)
                 /\ (\A y \in G \cap R, x \in R : InCell(heap, y, x) => x \in G)
                     => R \subseteq G
<1> DEFINE start == {v} \cap Ids
           reach == CHOOSE f : f = [n \in 0 .. MaxArrays |->
                                       IF n = 0 THEN {v} \cap Ids ELSE Spread(f[n - 1])]
<1>1. MaxArrays \in Nat BY BoundsAssumption
<1>2. R = reach[MaxArrays] BY Zenon DEF Reach, Spread
<1>3. reach = [n \in 0 .. MaxArrays |-> IF n = 0 THEN {v} \cap Ids ELSE Spread(reach[n - 1])]
  <2>1. PICK f : IsReaching(v, f, MaxArrays) BY <1>1, ReachingExists
  <2>2. f = [n \in 0 .. MaxArrays |-> IF n = 0 THEN {v} \cap Ids ELSE Spread(f[n - 1])]
    BY <2>1 DEF IsReaching
  <2> QED BY <2>2, Zenon
<1> HIDE DEF reach
<1>4. reach[0] = start
  <2>1. 0 \in 0 .. MaxArrays BY <1>1
  <2> QED BY <2>1, <1>3
<1>5. \A n \in 1 .. MaxArrays : reach[n] = Spread(reach[n - 1])
  <2> SUFFICES ASSUME NEW n \in 1 .. MaxArrays PROVE reach[n] = Spread(reach[n - 1]) OBVIOUS
  <2>1. n \in 0 .. MaxArrays /\ n # 0 BY <1>1
  <2> QED BY <2>1, <1>3
<1>6. start \in SUBSET Ids /\ (v \in Ids => v \in start) /\ start \subseteq {v} OBVIOUS
<1> HIDE DEF start
<1>7. \A n \in 0 .. MaxArrays : reach[n] \in SUBSET Ids
  <2> DEFINE Bad == {n \in 0 .. MaxArrays : reach[n] \notin SUBSET Ids}
  <2>1. SUFFICES ASSUME Bad # {} PROVE FALSE OBVIOUS
  <2>2. PICK m \in Bad : \A n \in Bad : m <= n
    <3>1. Bad \in SUBSET Nat BY <1>1
    <3> HIDE DEF Bad
    <3> QED BY <2>1, <3>1, LeastOf
  <2>3. m \in 0 .. MaxArrays /\ reach[m] \notin SUBSET Ids OBVIOUS
  <2>4. m # 0 BY <1>4, <1>6, <2>3
  <2>5. m \in 1 .. MaxArrays /\ m - 1 \in 0 .. MaxArrays /\ ~ (m <= m - 1) BY <2>3, <2>4, <1>1
  <2>6. m - 1 \notin Bad BY <2>2, <2>5
  <2>7. reach[m - 1] \in SUBSET Ids BY <2>5, <2>6
  <2> HIDE DEF Bad
  <2>8. Spread(reach[m - 1]) \in SUBSET Ids BY <2>7, SpreadIs
  <2> QED BY <2>3, <2>5, <2>8, <1>5
<1>8. \A n \in 0 .. MaxArrays : reach[n] \subseteq R
  <2> DEFINE Bad == {k \in 0 .. MaxArrays : ~ (reach[MaxArrays - k] \subseteq R)}
  <2>1. Bad = {}
    <3>1. SUFFICES ASSUME Bad # {} PROVE FALSE OBVIOUS
    <3>2. PICK m \in Bad : \A n \in Bad : m <= n
      <4>1. Bad \in SUBSET Nat BY <1>1
      <4> HIDE DEF Bad
      <4> QED BY <3>1, <4>1, LeastOf
    <3>3. m \in 0 .. MaxArrays /\ ~ (reach[MaxArrays - m] \subseteq R) OBVIOUS
    <3>4. m # 0
      <4>1. MaxArrays - 0 = MaxArrays BY <1>1
      <4> QED BY <3>3, <4>1, <1>2
    <3>5. m - 1 \in 0 .. MaxArrays /\ ~ (m <= m - 1) BY <3>3, <3>4, <1>1
    <3>6. m - 1 \notin Bad BY <3>2, <3>5
    <3>7. reach[MaxArrays - (m - 1)] \subseteq R BY <3>5, <3>6
    <3> HIDE DEF Bad
    <3> DEFINE n == MaxArrays - (m - 1)
    <3>8. n \in 1 .. MaxArrays /\ n - 1 = MaxArrays - m /\ n - 1 \in 0 .. MaxArrays
      BY <3>3, <3>4, <1>1
    <3>9. reach[n] \subseteq R BY <3>7
    <3> HIDE DEF n
    <3>10. reach[n - 1] \subseteq reach[n] BY <3>8, <1>5, <1>7, SpreadIs
    <3> QED BY <3>3, <3>8, <3>9, <3>10
  <2> SUFFICES ASSUME NEW n \in 0 .. MaxArrays PROVE reach[n] \subseteq R OBVIOUS
  <2>2. MaxArrays - n \in 0 .. MaxArrays /\ MaxArrays - (MaxArrays - n) = n BY <1>1
  <2> DEFINE k == MaxArrays - n
  <2>3. k \in 0 .. MaxArrays /\ MaxArrays - k = n BY <2>2
  <2> HIDE DEF k
  <2> QED BY <2>1, <2>3
<1>9. ASSUME NEW G \in SUBSET Ids, v \in Ids => v \in G,
             \A y \in G \cap R, x \in R : InCell(heap, y, x) => x \in G
      PROVE  R \subseteq G
  <2> DEFINE Bad == {n \in 0 .. MaxArrays : ~ (reach[n] \subseteq G)}
  <2>1. Bad = {}
    <3>1. SUFFICES ASSUME Bad # {} PROVE FALSE OBVIOUS
    <3>2. PICK m \in Bad : \A n \in Bad : m <= n
      <4>1. Bad \in SUBSET Nat BY <1>1
      <4> HIDE DEF Bad
      <4> QED BY <3>1, <4>1, LeastOf
    <3>3. m \in 0 .. MaxArrays /\ ~ (reach[m] \subseteq G) OBVIOUS
    <3>4. m # 0 BY <1>4, <1>6, <1>9, <3>3
    <3>5. m \in 1 .. MaxArrays /\ m - 1 \in 0 .. MaxArrays /\ ~ (m <= m - 1)
      BY <3>3, <3>4, <1>1
    <3>6. m - 1 \notin Bad BY <3>2, <3>5
    <3>7. reach[m - 1] \subseteq G /\ reach[m - 1] \subseteq R /\ reach[m] \subseteq R
      BY <3>3, <3>5, <3>6, <1>8
    <3> HIDE DEF Bad
    <3>8. \A x \in reach[m] : x \in reach[m - 1] \/ \E y \in reach[m - 1] : InCell(heap, y, x)
      BY <3>5, <1>5, <1>7, SpreadIs
    <3> QED BY <3>3, <3>7, <3>8, <1>9
  <2>2. MaxArrays \in 0 .. MaxArrays BY <1>1
  <2> QED BY <2>1, <2>2, <1>2
<1>10. R \in SUBSET Ids
  <2>1. MaxArrays \in 0 .. MaxArrays BY <1>1
  <2> QED BY <2>1, <1>2, <1>7
<1>11. v \in Ids => v \in R
  <2>1. 0 \in 0 .. MaxArrays BY <1>1
  <2> QED BY <2>1, <1>4, <1>6, <1>8
<1> QED BY <1>9, <1>10, <1>11

\* What a cell of an array that is there holds is there, and counted besides what n counts.
LEMMA CellHeld ==
    ASSUME NEW h, HeapOK(h), NEW n \in [Ids -> Nat], Ledger(h, n), NEW y \in Ids, NEW x \in Ids,
           InCell(h, y, x)
    PROVE  h[x].refCount > n[x] /\ h[x].refCount > 0 /\ h[x].refCount \in Nat
<1>1. PICK i \in 1 .. Len(h[y].data) : h[y].data[i] = x BY DEF InCell
<1>2. Inside(h, y, x) > 0 BY <1>1, HeldIsThere
<1> DEFINE A == Ids \ {y}
           a == CellsWith(h, Ids, x)
           b == Inside(h, y, x)
           c == CellsWith(h, A, x)
<1>3. a = b + c /\ b \in Nat /\ c \in Nat
  <2>1. A \in SUBSET Ids OBVIOUS
  <2>2. c \in Nat BY <2>1, CellsFinite
  <2> QED BY <2>2, InsideIs
<1>4. h[x].refCount = n[x] + a BY DEF Ledger
<1> HIDE DEF a, b, c
<1> QED BY <1>2, <1>3, <1>4 DEF b

\* An array seen through a variable and held by another has two references.
LEMMA SeenTwice ==
    ASSUME HeapOK(heap), NEW n \in [Ids -> Nat], Ledger(heap, n), NEW v \in Values,
           NEW a \in Reach(v), a = v => n[a] > 1, n[a] > 0
    PROVE  heap[a].refCount > 1
<1> DEFINE R == Reach(v)
           G == {x \in Ids : x = v \/ \E y \in R : InCell(heap, y, x)}
<1>1. /\ R \in SUBSET Ids
      /\ v \in Ids => v \in R
      /\ \A S \in SUBSET Ids :
            (v \in Ids => v \in S)
            /\ (\A y \in S \cap R, x \in R : InCell(heap, y, x) => x \in S)
                => R \subseteq S
  BY ReachIs
<1>2. a \in R OBVIOUS
<1> HIDE DEF R
<1>3. R \subseteq G
  <2>1. G \in SUBSET Ids /\ (v \in Ids => v \in G) BY <1>1
  <2>2. \A y \in G \cap R, x \in R : InCell(heap, y, x) => x \in G BY <1>1
  <2> QED BY <2>1, <2>2, <1>1
<1>4. a \in Ids /\ (a = v \/ \E y \in R : InCell(heap, y, a)) BY <1>1, <1>2, <1>3
<1>5. CASE a = v
  <2> DEFINE A == Ids
  <2>1. A \in SUBSET Ids OBVIOUS
  <2>2. n[a] <= heap[a].refCount /\ heap[a].refCount \in Nat BY <1>4, <2>1, DeadIsFree
  <2>3. n[a] \in Nat /\ n[a] > 1 BY <1>4, <1>5
  <2> QED BY <2>2, <2>3
<1>6. CASE \E y \in R : InCell(heap, y, a)
  <2>1. PICK y \in Ids : InCell(heap, y, a) BY <1>1, <1>6
  <2>2. heap[a].refCount > n[a] /\ heap[a].refCount \in Nat BY <1>4, <2>1, CellHeld
  <2>3. n[a] \in Nat BY <1>4
  <2> QED BY <2>2, <2>3
<1> QED BY <1>4, <1>5, <1>6

LEMMA AltersFrom ==
    ASSUME NEW h, NEW g, NEW A
    PROVE  /\ Alters(h, h, A)
           /\ Survives(g, h) \/ g = h => Alters(g, h, A)
           /\ (\A x \in Ids : x \notin A => g[x] = h[x]) => Alters(g, h, A)
<1>1. ASSUME Survives(g, h) PROVE Alters(g, h, A)
  <2> SUFFICES ASSUME NEW x \in Ids \ A, g[x].refCount > 0
               PROVE  h[x].refCount > 0 /\ g[x].data = h[x].data
    BY DEF Alters
  <2>1. g[x] # Freed
    <3>1. ~ (0 > 0) OBVIOUS
    <3> QED BY <3>1, FreedIs
  <2> QED BY <1>1, <2>1 DEF Survives, Kept
<1> QED BY <1>1 DEF Alters

LEMMA AltersChain ==
    ASSUME NEW h, NEW g, NEW f, NEW A, NEW B, Alters(g, h, A), Alters(f, g, B)
    PROVE  Alters(f, h, A \cup B)
BY DEF Alters

\* What is seen through a value that is held stays there, and what it was.
LEMMA StillSeen ==
    ASSUME HeapOK(heap), NEW v \in Values, NEW g, HeapOK(g), NEW n \in [Ids -> Nat], Ledger(g, n),
           v \in Ids => n[v] > 0, NEW A, A \cap Reach(v) = {}, Alters(g, heap, A)
    PROVE  \A x \in Reach(v) : x \in Ids /\ g[x].refCount > 0 /\ g[x].data = heap[x].data
<1> DEFINE R == Reach(v)
           G == {x \in R : g[x].refCount > 0}
<1>1. /\ R \in SUBSET Ids
      /\ v \in Ids => v \in R
      /\ \A S \in SUBSET Ids :
            (v \in Ids => v \in S)
            /\ (\A y \in S \cap R, x \in R : InCell(heap, y, x) => x \in S)
                => R \subseteq S
  BY ReachIs
<1>2. A \cap R = {} OBVIOUS
<1> HIDE DEF R
<1>3. \A x \in G : g[x].data = heap[x].data BY <1>1, <1>2 DEF Alters
<1>4. v \in Ids => v \in G
  <2> SUFFICES ASSUME v \in Ids PROVE g[v].refCount > 0 BY <1>1
  <2> DEFINE S == Ids
  <2>1. S \in SUBSET Ids OBVIOUS
  <2>2. n[v] <= g[v].refCount /\ g[v].refCount \in Nat BY <2>1, DeadIsFree
  <2>3. n[v] \in Nat /\ n[v] > 0 OBVIOUS
  <2> QED BY <2>2, <2>3
<1>5. ASSUME NEW y \in G \cap R, NEW x \in R, InCell(heap, y, x) PROVE x \in G
  <2>1. y \in Ids /\ x \in Ids BY <1>1
  <2>2. InCell(g, y, x) BY <1>3, <1>5 DEF InCell
  <2>3. g[x].refCount > 0 BY <2>1, <2>2, CellHeld
  <2> QED BY <2>1, <2>3
<1>6. G \in SUBSET Ids BY <1>1
<1>7. R \subseteq G BY <1>1, <1>4, <1>5, <1>6
<1> QED BY <1>1, <1>3, <1>7 DEF R

LEMMA ReleaseAlters ==
    ASSUME NEW h, HeapOK(h), NEW v, NEW g, g = Release(h, v)
    PROVE  Alters(g, h, {})
<1>1. h \in [Ids -> [refCount : Nat, owner : Owners, data : Seq(Values)]] BY DEF HeapOK, Array
<1> SUFFICES ASSUME NEW x \in Ids, g[x].refCount > 0
             PROVE  h[x].refCount > 0 /\ g[x].data = h[x].data
  BY DEF Alters
<1>2. CASE v \notin Ids BY <1>2 DEF Release
<1>3. CASE v \in Ids /\ h[v].refCount > 1
  <2>1. g = [h EXCEPT ![v].refCount = @ - 1] BY <1>3 DEF Release
  <2>2. g[x].data = h[x].data /\ (x # v => g[x] = h[x]) BY <1>1, <2>1
  <2>3. h[v].refCount > 0 BY <1>1, <1>3
  <2> QED BY <2>2, <2>3
<1>4. CASE v \in Ids /\ ~ (h[v].refCount > 1)
  <2> DEFINE F == FreedWith(h, v)
             c == CellsWith(h, F, x)
  <2>1. g[x] = IF x \in F THEN Freed ELSE [h[x] EXCEPT !.refCount = @ - c] BY <1>4 DEF Release
  <2>2. F \in SUBSET Ids BY DEF FreedWith
  <2> HIDE DEF F
  <2>3. c \in Nat BY <2>2, CellsFinite
  <2> HIDE DEF c
  <2>4. x \notin F
    <3>1. ~ (0 > 0) OBVIOUS
    <3> QED BY <2>1, <3>1, FreedIs
  <2>5. h[x] \in [refCount : Nat, owner : Owners, data : Seq(Values)] BY <1>1
  <2>6. g[x].refCount = h[x].refCount - c /\ g[x].data = h[x].data BY <2>1, <2>4, <2>5
  <2>7. h[x].refCount \in Nat BY <2>5
  <2> QED BY <2>3, <2>6, <2>7
<1> QED BY <1>2, <1>3, <1>4

LEMMA DropAlters ==
    ASSUME NEW h, HeapOK(h), NEW op, NEW g, g = Drop(h, op)
    PROVE  Alters(g, h, {})
<1>1. g = Release(h, op.v) \/ g = h BY DEF Drop
<1> QED BY <1>1, ReleaseAlters, AltersFrom

LEMMA RetainAlters ==
    ASSUME NEW h, HeapOK(h), NEW v, v \in Ids => h[v].refCount > 0, NEW g, g = Retain(h, v)
    PROVE  Alters(g, h, {})
<1> SUFFICES ASSUME NEW x \in Ids, g[x].refCount > 0
             PROVE  h[x].refCount > 0 /\ g[x].data = h[x].data
  BY DEF Alters
<1>1. Kept(g, h, x) /\ g[x].refCount = h[x].refCount + Is(v, x) BY RetainIs
<1>2. h[x].refCount \in Nat BY HeapFields
<1>3. CASE x = v BY <1>1, <1>3 DEF Kept
<1>4. CASE x # v
  <2>1. Is(v, x) = 0 BY <1>4 DEF Is
  <2> QED BY <1>1, <1>2, <2>1 DEF Kept
<1> QED BY <1>3, <1>4

LEMMA FilledAlters ==
    ASSUME NEW h, HeapOK(h), NEW a \in Ids, NEW i, NEW v, NEW g, g = Filled(h, a, i, v)
    PROVE  Alters(g, h, {a})
<1>1. h \in [Ids -> Array] BY DEF HeapOK
<1>2. \A x \in Ids : x \notin {a} => g[x] = h[x] BY <1>1 DEF Filled
<1> QED BY <1>2, AltersFrom

LEMMA GrowAlters ==
    ASSUME NEW h, HeapOK(h), NEW a \in Ids, NEW i, NEW g, g = Grow(h, a, i)
    PROVE  Alters(g, h, {a})
<1>1. h \in [Ids -> Array] BY DEF HeapOK
<1>2. \A x \in Ids : x \notin {a} => g[x] = h[x] BY <1>1 DEF Grow
<1> QED BY <1>2, AltersFrom

LEMMA VacateAlters ==
    ASSUME NEW h, HeapOK(h), NEW a \in Ids, h[a].refCount > 0, NEW i \in 1 .. MaxLength,
           NEW g, g = Vacate(h, a, i)
    PROVE  Alters(g, h, {a})
<1> DEFINE e == Grown(h[a].data, i)
           d == [e EXCEPT ![i] = Zero]
           k == WithData(h, a, d)
<1>1. h[a].data \in Seq(Values) /\ Len(h[a].data) <= MaxLength BY HeapFields
<1>2. /\ e \in Seq(Values) /\ i \in 1 .. Len(e) /\ Len(e) <= MaxLength /\ Len(h[a].data) <= Len(e)
      /\ \A j \in 1 .. Len(e) : e[j] = At(h[a].data, j)
  BY <1>1, GrownIs
<1>3. g = Release(k, e[i]) BY DEF Vacate, WithData
<1> HIDE DEF e
<1>4. /\ d \in Seq(Values) /\ Len(d) = Len(e)
      /\ \A j \in 1 .. Len(e) : d[j] = IF j = i THEN Zero ELSE e[j]
  BY <1>2, ZeroIs, ExceptSeq
<1> HIDE DEF d
<1>5. \A j \in 1 .. Len(d) : j # i => d[j] = At(h[a].data, j) BY <1>2, <1>4
<1>6. i \in 1 .. Len(d) /\ Len(d) <= MaxLength /\ Len(h[a].data) <= Len(d) BY <1>2, <1>4
<1>7. k = WithData(h, a, d) OBVIOUS
<1> HIDE DEF k
<1>8. HeapOK(k) /\ \A x \in Ids : x # a => k[x] = h[x] BY <1>4, <1>5, <1>6, <1>7, Written
<1>9. Alters(k, h, {a}) BY <1>8, AltersFrom
<1>10. Alters(g, k, {}) BY <1>3, <1>8, ReleaseAlters
<1>11. {a} \cup {} = {a} OBVIOUS
<1>12. Alters(g, h, {a} \cup {}) BY <1>9, <1>10, AltersChain
<1> QED BY <1>11, <1>12

LEMMA CreateAlters ==
    ASSUME NEW h, HeapOK(h), Room(h), NEW owner \in Owners, NEW r, r = Create(h, owner, <<>>)
    PROVE  Alters(r.h, h, {r.ref}) /\ r.ref \notin Named(h)
<1> DEFINE d == <<>>
<1>1. d \in Seq(Values) /\ Len(d) <= MaxLength /\ r = Create(h, owner, d) BY Bounds
<1> HIDE DEF d
<1>2. r.ref \notin Named(h) /\ \A x \in Ids : x # r.ref => r.h[x] = h[x] BY <1>1, CreateIs
<1> QED BY <1>2, AltersFrom

LEMMA ForkAlters ==
    ASSUME NEW h, HeapOK(h), NEW a \in Ids, h[a].refCount > 0, NEW owner \in Owners,
           NEW n \in [Ids -> Nat], Ledger(h, n), Room(h), NEW r, r = Fork(h, a, owner)
    PROVE  Alters(r.h, h, {r.ref}) /\ r.ref \notin Named(h)
<1> DEFINE f == Fork(h, a, owner)
<1>1. Alters(f.h, h, {f.ref}) /\ f.ref \notin Named(h) BY ForkMakes
<1>2. r = f OBVIOUS
<1> HIDE DEF f
<1> QED BY <1>1, <1>2

\* The array r found or made in h for v: nothing else was altered, and if it was not made, nothing.
Fetched(r, h, v, forWrite) ==
    /\ Alters(r.h, h, {r.ref})
    /\ r.ref \notin Named(h) \/ (r.ref = v /\ r.h = h)
    /\ forWrite => r.ref \notin Named(h) \/ h[v].owner = currentArrayOwner

LEMMA ResolveAlters ==
    ASSUME NEW h, HeapOK(h), NEW v \in Values, v \in Ids => h[v].refCount > 0,
           NEW owner \in Owners, currentArrayOwner \in Owners, Room(h),
           NEW n \in [Ids -> Nat], Ledger(h, n), NEW forWrite \in BOOLEAN, NEW r, r = Resolve(h, v, owner, forWrite)
    PROVE  Fetched(r, h, v, forWrite)
<1>1. CASE v \notin Ids
  <2>1. r = Create(h, owner, <<>>) BY <1>1 DEF Resolve
  <2>2. Alters(r.h, h, {r.ref}) /\ r.ref \notin Named(h) BY <2>1, CreateAlters
  <2> QED BY <2>2 DEF Fetched
<1>2. CASE v \in Ids /\ (~ forWrite \/ h[v].owner = currentArrayOwner)
  <2>1. r = [h |-> h, ref |-> v] BY <1>2 DEF Resolve, CowFork
  <2>2. r.h = h /\ r.ref = v BY ONLY <2>1
  <2> QED BY <2>2, <1>2, AltersFrom DEF Fetched
<1>3. CASE v \in Ids /\ forWrite /\ h[v].owner # currentArrayOwner
  <2>1. r = Fork(h, v, currentArrayOwner) BY <1>3 DEF Resolve, CowFork
  <2>2. r.ref \notin Named(h) /\ Alters(r.h, h, {r.ref}) BY <2>1, <1>3, ForkAlters
  <2> QED BY <2>2 DEF Fetched
<1> QED BY <1>1, <1>2, <1>3

\* VM_arraySetWithCoW writes an array nobody knew of, one of its owner or one nobody shares.
LEMMA ToWriteAlters ==
    ASSUME NEW h, HeapOK(h), NEW s \in Writable, slots[s] \in Values,
           slots[s] \in Ids => h[slots[s]].refCount > 0,
           currentArrayOwner \in Owners, modern \in BOOLEAN, Room(h),
           NEW n \in [Ids -> Nat], Ledger(h, n), NEW r, r = ArrayToWrite(h, s)
    PROVE  /\ Alters(r.h, h, {r.ref})
           /\ \/ r.ref \notin Named(h)
              \/ r.ref = slots[s] /\ (h[r.ref].owner = IntendedOwner(s) \/ ~ (h[r.ref].refCount > 1))
<1> DEFINE a == slots[s]
<1>1. IntendedOwner(s) \in Owners BY DEF IntendedOwner, Owners
<1>2. CASE a \notin Ids
  <2>1. r = Create(h, IntendedOwner(s), <<>>) BY <1>2 DEF ArrayToWrite
  <2> QED BY <2>1, <1>1, CreateAlters
<1>3. CASE a \in Ids /\ modern /\ h[a].owner = currentArrayOwner
  <2>1. r = [h |-> h, ref |-> a] BY <1>3 DEF ArrayToWrite, CowFork
  <2>2. r.h = h /\ r.ref = a BY <2>1
  <2> QED BY <2>2, <1>3, AltersFrom DEF IntendedOwner
<1>4. CASE a \in Ids /\ modern /\ h[a].owner # currentArrayOwner
  <2>1. r = Fork(h, a, currentArrayOwner) BY <1>4 DEF ArrayToWrite, CowFork
  <2>2. r.ref \notin Named(h) /\ Alters(r.h, h, {r.ref}) BY <2>1, <1>4, ForkAlters
  <2> QED BY <2>2
<1>5. CASE a \in Ids /\ ~ modern /\ h[a].refCount > 1 /\ h[a].owner # s
  <2>1. r = Fork(h, a, s) /\ s \in Owners BY <1>5 DEF ArrayToWrite, Owners
  <2>2. r.ref \notin Named(h) /\ Alters(r.h, h, {r.ref}) BY <2>1, <1>5, ForkAlters
  <2> QED BY <2>2
<1>6. CASE a \in Ids /\ ~ modern /\ ~ (h[a].refCount > 1 /\ h[a].owner # s)
  <2> DEFINE g == [h EXCEPT ![a].owner = s]
  <2>1. r = [h |-> g, ref |-> a] \/ r = [h |-> h, ref |-> a] BY <1>6 DEF ArrayToWrite
  <2>2. Alters(g, h, {a})
    <3>1. h \in [Ids -> Array] BY DEF HeapOK
    <3>2. \A x \in Ids : x \notin {a} => g[x] = h[x] BY <3>1
    <3> QED BY <3>2, AltersFrom
  <2>3. Alters(h, h, {a}) BY AltersFrom
  <2> HIDE DEF g
  <2>4. r.ref = a /\ Alters(r.h, h, {r.ref}) BY <2>1, <2>2, <2>3
  <2> QED BY <2>4, <1>6 DEF IntendedOwner
<1> QED BY <1>2, <1>3, <1>4, <1>5, <1>6

\* Variables count.
LEMMA SlotsCounted ==
    ASSUME NEW sl, NEW st \in Seq(Operands), NEW args \in Seq(Operands),
           NEW n, n = Refs(sl, st, args), NEW t \in Variables
    PROVE  /\ n \in [Ids -> Nat]
           /\ sl[t] \in Ids => n[sl[t]] > 0
           /\ \A s \in Variables : s # t /\ sl[s] = sl[t] /\ sl[t] \in Ids => n[sl[t]] > 1
<1>1. /\ n \in [Ids -> Nat]
      /\ \A x \in Ids : /\ n[x] = (Holders(sl, x) + Owning(st, x)) + Owning(args, x)
                        /\ Holders(sl, x) \in Nat /\ Owning(st, x) \in Nat
                        /\ Owning(args, x) \in Nat
  BY RefsAre
<1> DEFINE x == sl[t]
           S == {s \in Variables : sl[s] = x}
<1> SUFFICES ASSUME x \in Ids
             PROVE  n[x] > 0 /\ \A s \in Variables : s # t /\ sl[s] = x => n[x] > 1
  BY <1>1
<1>2. IsFiniteSet(S) /\ Holders(sl, x) = Cardinality(S) BY HoldersAre DEF Holders
<1>3. t \in S OBVIOUS
<1> HIDE DEF S, x
<1>4. Cardinality(S) \in Nat /\ Cardinality(S) # 0 BY <1>2, <1>3, FS_CardinalityType, FS_EmptySet
<1>5. n[x] >= Cardinality(S) /\ n[x] \in Nat
  <2> DEFINE a == Holders(sl, x)
             b == Owning(st, x)
             c == Owning(args, x)
  <2>1. n[x] = (a + b) + c /\ a \in Nat /\ b \in Nat /\ c \in Nat /\ a = Cardinality(S)
    BY <1>1, <1>2
  <2> HIDE DEF a, b, c
  <2> QED BY <2>1
<1>6. ASSUME NEW s \in Variables, s # t, sl[s] = x PROVE Cardinality(S) > 1
  <2>1. s \in S BY <1>6 DEF S
  <2>2. Cardinality(S) # 1
    <3> SUFFICES ASSUME Cardinality(S) = 1 PROVE FALSE OBVIOUS
    <3>1. \E y : S = {y} BY <1>2, FS_Singleton
    <3> QED BY <3>1, <2>1, <1>3, <1>6
  <2> QED BY <1>4, <2>2
<1> QED BY <1>4, <1>5, <1>6

\* An instruction that alters only arrays in A lets a variable see what it saw, if that is
\* none of A.
LEMMA StaysSeen ==
    ASSUME IInv, IInv', modern' = modern, status' # "dangling", NEW t \in Variables, slots'[t] = slots[t],
           NEW A, A \cap Reach(slots[t]) = {}, Alters(heap', heap, A)
    PROVE  \A x \in Reach(slots[t]) : heap'[x].data = heap[x].data
<1> DEFINE g == heap'
           sl == slots'
           st == stack'
           args == frame'.args
           n == Refs(sl, st, args)
           v == slots[t]
<1>1. HeapOK(heap) /\ slots \in [Variables -> Values] BY DEF IInv, Fits
<1>2. HeapOK(g) /\ Ledger(g, n) /\ st \in Seq(Operands) /\ args \in Seq(Operands)
  <2>1. Fits' /\ HeapOK(heap)' /\ Ledger(heap, Refs(slots, stack, frame.args))' BY DEF IInv
  <2>2. HeapOK(g) BY <2>1 DEF HeapOK, Array, Owners
  <2>3. Ledger(g, n) BY <2>1 DEF Ledger, Refs, Holders, CellsWith, Owning
  <2>4. st \in Seq(Operands) /\ args \in Seq(Operands) BY <2>1 DEF Fits, Operands
  <2> QED BY <2>2, <2>3, <2>4
<1>3. v \in Values /\ v = sl[t] /\ A \cap Reach(v) = {} BY <1>1
<1>4. Alters(g, heap, A) OBVIOUS
<1>5. n = Refs(sl, st, args) OBVIOUS
<1> HIDE DEF g, sl, st, args, n, v
<1>6. n \in [Ids -> Nat] /\ (v \in Ids => n[v] > 0) BY <1>2, <1>3, <1>5, SlotsCounted
<1>7. \A x \in Reach(v) : g[x].data = heap[x].data BY <1>1, <1>2, <1>3, <1>4, <1>6, StillSeen
<1> QED BY <1>7 DEF v, g

LEMMA BreakPopAFOthers ==
    ASSUME IInv, NEW i \in Indices, BreakPopAF(i), heap' # heap, NEW t \in Variables
    PROVE  SeenStays(t, Top(0).at)
<1> DEFINE a == Top(0).v
           v == Top(1).v
           h == Retain(heap, v)
           k == Vacate(h, a, i)
           g == Filled(k, a, i, v)
           n == Refs(slots, stack, frame.args)
           p == Plus(n, v)
<1>1. /\ Running(2) /\ Top(0).kind = "write" /\ slots' = slots
      /\ k[a].refCount > 0 /\ heap' = Drop(g, Top(1)) /\ status' = status /\ modern' = modern
  BY DEF BreakPopAF, Filled, Running
<1> HIDE DEF g
<1>2. HeapOK(heap) /\ Chained(heap, stack) /\ status = "run" /\ Ledger(heap, n) /\ n \in [Ids -> Nat]
  <2>1. Running(2) BY <1>1
  <2> HIDE DEF k, p
  <2> QED BY <2>1, RunningFinds
<1>3. /\ Top(0) = stack[Len(stack)] /\ (a \in Ids => heap[a].refCount > 0)
      /\ v \in Values /\ (v \in Ids => heap[v].refCount > 0) /\ Len(stack) \in 1 .. Len(stack)
  BY <1>1, TopTwoAre
<1>4. a \in Ids /\ heap[a].refCount > 0 /\ heap[a].owner = Top(0).at
  BY <1>1, <1>2, <1>3 DEF Chained, IsRef
<1>5. IInv' BY BreakPopAFKeeps
<1> HIDE DEF v, n
<1>6. /\ HeapOK(h) /\ Alters(h, heap, {}) /\ h[a].refCount > 0
      /\ Ledger(h, p) /\ p \in [Ids -> Nat]
  <2>0. n \in [Ids -> Int] /\ p \in [Ids -> Nat] BY <1>2, PlusType
  <2>1. HeapOK(h) /\ h[a].refCount = heap[a].refCount + Is(v, a) /\ Ledger(h, p)
    BY <2>0, <1>2, <1>4, RetainIs
  <2>2. heap[a].refCount \in Nat BY <1>2, <1>4, HeapFields
  <2>3. Is(v, a) \in {0, 1} BY DEF Is
  <2>4. Alters(h, heap, {}) BY <1>2, <1>3, RetainAlters
  <2> HIDE DEF a, h, p
  <2> QED BY <2>0, <2>1, <2>2, <2>3, <2>4, <1>4
<1> HIDE DEF h, a, p
<1>7. i \in 1 .. MaxLength BY IndexIs
<1>8. HeapOK(k) /\ Alters(k, h, {a}) /\ i \in 1 .. Len(k[a].data)
  BY <1>1, <1>4, <1>6, <1>7, VacateAlters, VacateIs
<1> HIDE DEF k
<1>9. HeapOK(g) /\ Alters(g, k, {a})
  <2>1. g = Filled(k, a, i, v) BY DEF g
  <2> QED BY <2>1, <1>3, <1>4, <1>8, <1>1, FilledAlters, FilledIs
<1>10. Alters(heap', g, {}) BY <1>1, <1>9, DropAlters
<1>11. Alters(heap', heap, {a})
  <2>1. Alters(k, heap, {} \cup {a}) BY <1>6, <1>8, AltersChain
  <2>2. Alters(g, heap, ({} \cup {a}) \cup {a}) BY <2>1, <1>9, AltersChain
  <2>3. Alters(heap', heap, (({} \cup {a}) \cup {a}) \cup {}) BY <2>2, <1>10, AltersChain
  <2>4. (({} \cup {a}) \cup {a}) \cup {} = {a} OBVIOUS
  <2> QED BY <2>3, <2>4
<1> SUFFICES ASSUME \A x \in Reach(slots[t]) : heap[x].owner # Top(0).at
             PROVE  \A x \in Reach(slots[t]) : heap'[x].data = heap[x].data
  BY <1>1 DEF SeenStays
<1>12. {a} \cap Reach(slots[t]) = {} BY <1>4
<1>13. slots'[t] = slots[t] /\ status' # "dangling" /\ modern' = modern BY <1>1, <1>2
<1> QED BY <1>5, <1>11, <1>12, <1>13, StaysSeen

LEMMA PopElementOthers ==
    ASSUME IInv, NEW s \in Writable, NEW i \in Indices, PopElement(s, i), NEW t \in Variables \ {s}
    PROVE  SeenStays(t, IntendedOwner(s))
<1> DEFINE v == Top(0).v
           old == slots[s]
           seen == slots[t]
           h == Retain(heap, v)
           w == ArrayToWrite(h, s)
           ref == w.ref
           k == Vacate(w.h, ref, i)
           g == Filled(k, ref, i, v)
           n == Refs(slots, stack, frame.args)
           p == Plus(n, v)
           m == Minus(Plus(p, ref), old)
<1>1. /\ Running(1) /\ heap' = Drop(g, Top(0))
      /\ slots' = [slots EXCEPT ![s] = ref] /\ status' = status
  BY DEF PopElement, PutCell, Filled
<1>2. /\ Fits /\ HeapOK(heap) /\ Room(heap) /\ Ledger(heap, n) /\ n \in [Ids -> Nat]
      /\ currentArrayOwner \in Owners /\ modern' = modern /\ status = "run"
  <2>1. Running(1) BY <1>1
  <2> HIDE DEF g, p, m
  <2> QED BY <2>1, RunningFinds
<1>3. v \in Values /\ (v \in Ids => heap[v].refCount > 0) BY <1>1, TopIs
<1>4. s \in Variables /\ t \in Variables /\ s # t BY DEF Writable, Variables
<1>5. old \in Values /\ (old \in Ids => heap[old].refCount > 0) BY <1>2, <1>4, SlotThere
<1>6. /\ seen \in Values /\ (seen \in Ids => n[seen] > 0)
      /\ old \in Ids => n[old] > 0 /\ (old = seen => n[old] > 1)
  <2>1. stack \in Seq(Operands) /\ frame.args \in Seq(Operands) /\ slots \in [Variables -> Values]
    BY <1>2 DEF Fits
  <2>2. n = Refs(slots, stack, frame.args) OBVIOUS
  <2> HIDE DEF n
  <2>3. /\ seen \in Ids => n[seen] > 0
        /\ \A r \in Variables : r # t /\ slots[r] = slots[t] /\ slots[t] \in Ids => n[slots[t]] > 1
    BY <2>1, <2>2, <1>4, SlotsCounted
  <2>4. old \in Ids => n[old] > 0 BY <2>1, <2>2, <1>4, SlotsCounted
  <2> QED BY <2>1, <2>3, <2>4, <1>4
<1>7. IInv' BY PopElementKeeps
<1> HIDE DEF n
<1>8. /\ HeapOK(h) /\ Ledger(h, p) /\ p \in [Ids -> Nat] /\ Named(h) = Named(heap)
      /\ \A x \in Ids : Kept(h, heap, x) /\ h[x].refCount = heap[x].refCount + Is(v, x)
      /\ Alters(h, heap, {})
  <2>1. n \in [Ids -> Int] /\ p \in [Ids -> Nat] BY <1>2, PlusType
  <2> HIDE DEF v, p
  <2>2. p = Plus(n, v) BY DEF p
  <2> QED BY <2>1, <2>2, <1>2, <1>3, RetainIs, RetainSeen, RetainAlters
<1> HIDE DEF p, h
<1>9. Room(h) /\ (old \in Ids => h[old].refCount > 0)
  <2>1. Room(h) BY <1>2, <1>8 DEF Room
  <2>2. ASSUME old \in Ids PROVE h[old].refCount > 0
    <3>1. heap[old].refCount \in Nat BY <1>2, <2>2, HeapFields
    <3>2. Is(v, old) \in {0, 1} BY DEF Is
    <3> HIDE DEF old, v
    <3> QED BY <3>1, <3>2, <1>5, <1>8, <2>2
  <2> QED BY <2>1, <2>2
<1>10. /\ Found(w, h, old, p) /\ Alters(w.h, h, {w.ref})
       /\ \/ w.ref \notin Named(h)
          \/ w.ref = slots[s] /\ (h[w.ref].owner = IntendedOwner(s) \/ ~ (h[w.ref].refCount > 1))
  <2>1. modern \in BOOLEAN BY <1>2 DEF Fits
  <2> QED BY <2>1, <1>2, <1>5, <1>8, <1>9, ArrayToWriteIs, ToWriteAlters
<1> HIDE DEF w
<1>11. ref \in Ids /\ HeapOK(w.h) /\ w.h[ref].refCount > 0 /\ Ledger(w.h, m) BY <1>10 DEF Found
<1>12. slots'[t] = slots[t] /\ slots'[s] = ref
  <2>1. slots \in [Variables -> Values] BY <1>2 DEF Fits
  <2> QED BY <2>1, <1>1, <1>4
<1> SUFFICES ASSUME \A x \in Reach(slots[t]) : heap[x].owner # IntendedOwner(s)
             PROVE  \A x \in Reach(slots[t]) : heap'[x].data = heap[x].data
  BY <1>12 DEF SeenStays
\* The array that is written is not among those seen.
<1>13. ref \notin Reach(seen)
  <2> SUFFICES ASSUME ref \in Reach(seen) PROVE FALSE OBVIOUS
  <2> HIDE DEF seen
  <2>1. Alters(h, heap, {}) /\ {} \cap Reach(seen) = {} BY <1>8
  <2>2. seen \in Ids => p[seen] > 0
    <3> SUFFICES ASSUME seen \in Ids PROVE p[seen] > 0 OBVIOUS
    <3>1. p[seen] = n[seen] + Is(v, seen) BY ReferencesAt DEF p
    <3>2. n[seen] \in Nat /\ Is(v, seen) \in {0, 1} BY <1>2 DEF Is
    <3>3. n[seen] > 0 BY <1>6
    <3> HIDE DEF v
    <3> QED BY <3>1, <3>2, <3>3
  <2>3. h[ref].refCount > 0 BY <2>1, <2>2, <1>2, <1>6, <1>8, StillSeen
  <2>4. CASE ref \notin Named(h) BY <2>3, <2>4, <1>11 DEF Named
  <2>5. CASE ref = old /\ h[ref].owner = IntendedOwner(s)
    <3>1. heap[ref].owner = IntendedOwner(s) BY <2>5, <1>8, <1>11 DEF Kept
    <3> QED BY <3>1 DEF seen
  <2>6. CASE ref = old /\ ~ (h[ref].refCount > 1)
    <3>1. n[ref] > 0 /\ (ref = seen => n[ref] > 1) BY <2>6, <1>6, <1>11
    <3> HIDE DEF ref, old
    <3>2. heap[ref].refCount > 1 BY <3>1, <1>2, <1>6, SeenTwice
    <3>3. h[ref].refCount = heap[ref].refCount + Is(v, ref) BY <1>8, <1>11
    <3>4. Is(v, ref) \in {0, 1} BY DEF Is
    <3>5. heap[ref].refCount \in Nat BY <1>2, <1>11, HeapFields
    <3> QED BY <3>2, <3>3, <3>4, <3>5, <2>6
  <2> QED BY <2>4, <2>5, <2>6, <1>10
<1> HIDE DEF ref
<1>14. i \in 1 .. MaxLength BY IndexIs
<1>15. m \in [Ids -> Nat] /\ m[ref] > 0
  <2>1. ASSUME NEW x \in Ids PROVE m[x] \in Nat /\ (x = ref => m[x] > 0)
    <3> DEFINE io == Is(old, x)
               ir == Is(ref, x)
               iv == Is(v, x)
               q == n[x]
    <3>1. m[x] = (p[x] + ir) - io /\ p[x] = q + iv BY ReferencesAt DEF p
    <3>2. io \in {0, 1} /\ ir \in {0, 1} /\ iv \in {0, 1} /\ q \in Nat BY <1>2 DEF Is
    <3>3. (io = 1 => q > 0) /\ (x = ref => ir = 1) BY <1>6 DEF Is
    <3> HIDE DEF io, ir, iv, q, m
    <3> QED BY <3>1, <3>2, <3>3
  <2>2. m = [x \in Ids |-> m[x]] BY DEF Minus
  <2> HIDE DEF m
  <2> QED BY <2>1, <2>2, <1>11
<1> HIDE DEF m, v
<1>16. /\ Alters(k, w.h, {ref}) /\ HeapOK(k) /\ k[ref].refCount > 0
       /\ i \in 1 .. Len(k[ref].data)
  BY <1>11, <1>14, <1>15, VacateAlters, VacateIs
<1> HIDE DEF k
<1>17. Alters(g, k, {ref}) /\ HeapOK(g)
  BY <1>3, <1>11, <1>16, FilledAlters, FilledIs
<1> HIDE DEF g
<1>18. Alters(heap', g, {}) BY <1>1, <1>17, DropAlters
<1>19. Alters(heap', heap, {ref})
  <2>1. Alters(w.h, heap, {} \cup {ref}) BY <1>8, <1>10, AltersChain DEF ref
  <2>2. Alters(k, heap, ({} \cup {ref}) \cup {ref}) BY <2>1, <1>16, AltersChain
  <2>3. Alters(g, heap, (({} \cup {ref}) \cup {ref}) \cup {ref}) BY <2>2, <1>17, AltersChain
  <2>4. Alters(heap', heap, ((({} \cup {ref}) \cup {ref}) \cup {ref}) \cup {})
    BY <2>3, <1>18, AltersChain
  <2>5. ((({} \cup {ref}) \cup {ref}) \cup {ref}) \cup {} = {ref} OBVIOUS
  <2> QED BY <2>4, <2>5
<1>20. {ref} \cap Reach(slots[t]) = {} BY <1>13
<1>21. slots'[t] = slots[t] /\ status' # "dangling" /\ modern' = modern BY <1>1, <1>2, <1>12
<1> QED BY <1>4, <1>7, <1>19, <1>20, <1>21, StaysSeen

LEMMA PushArrayRefOthers ==
    ASSUME IInv, NEW s \in Globals, NEW i \in Indices, PushArrayRef(s, i, "write"),
           NEW t \in Variables \ {s}
    PROVE  SeenStays(t, currentArrayOwner)
<1> DEFINE forWrite == "write" = "write"
           old == slots[s]
           seen == slots[t]
           top == Resolve(heap, old, currentArrayOwner, forWrite)
           ref == top.ref
           h == top.h
           big == Grow(h, ref, i)
           owner == big[ref].owner
           inner == big[ref].data[i]
           sub == Resolve(big, inner, owner, forWrite)
           g == Filled(sub.h, ref, i, sub.ref)
           n == Refs(slots, stack, frame.args)
           m == Minus(Plus(n, ref), old)
<1>1. /\ modern /\ Running(0) /\ heap' = g /\ slots' = [slots EXCEPT ![s] = ref] /\ status' = status
  BY DEF PushArrayRef, Filled
<1>2. /\ Fits /\ HeapOK(heap) /\ Room(heap) /\ RoomForTwo(heap) /\ Ledger(heap, n)
      /\ n \in [Ids -> Nat] /\ currentArrayOwner \in Owners /\ modern' = modern /\ status = "run"
  <2>1. Running(0) BY <1>1
  <2> HIDE DEF g, m
  <2> QED BY <2>1, RunningFinds
<1>3. s \in Variables /\ t \in Variables /\ s # t BY DEF Variables
<1>4. old \in Values /\ (old \in Ids => heap[old].refCount > 0) BY <1>2, <1>3, SlotThere
<1>5. /\ seen \in Values /\ (seen \in Ids => n[seen] > 0)
      /\ old \in Ids => n[old] > 0 /\ (old = seen => n[old] > 1)
  <2>1. stack \in Seq(Operands) /\ frame.args \in Seq(Operands) /\ slots \in [Variables -> Values]
    BY <1>2 DEF Fits
  <2>2. n = Refs(slots, stack, frame.args) OBVIOUS
  <2> HIDE DEF n
  <2>3. /\ seen \in Ids => n[seen] > 0
        /\ \A r \in Variables : r # t /\ slots[r] = slots[t] /\ slots[t] \in Ids => n[slots[t]] > 1
    BY <2>1, <2>2, <1>3, SlotsCounted
  <2>4. old \in Ids => n[old] > 0 BY <2>1, <2>2, <1>3, SlotsCounted
  <2> QED BY <2>1, <2>3, <2>4, <1>3
<1>6. IInv'
  <2> HIDE DEF g
  <2> QED BY PushArrayRefKeeps
<1>7. slots'[t] = slots[t]
  <2>1. slots \in [Variables -> Values] BY <1>2 DEF Fits
  <2> HIDE DEF ref
  <2> QED BY <2>1, <1>1, <1>3
<1>8. forWrite \in BOOLEAN OBVIOUS
<1>0. forWrite OBVIOUS
<1> HIDE DEF n, forWrite, old
<1>9. /\ Resolved(top, heap, old, n) /\ Alters(h, heap, {ref})
      /\ \/ ref \notin Named(heap)
         \/ ref = old /\ heap[ref].owner = currentArrayOwner
  <2>1. /\ HeapOK(heap) /\ old \in Values /\ (old \in Ids => heap[old].refCount > 0)
        /\ currentArrayOwner \in Owners /\ Room(heap) /\ n \in [Ids -> Nat] /\ Ledger(heap, n)
        /\ forWrite \in BOOLEAN /\ top = Resolve(heap, old, currentArrayOwner, forWrite)
    BY <1>2, <1>4, <1>8
  <2> HIDE DEF top, ref, h, big, owner, inner, sub, g, m
  <2>2. Resolved(top, heap, old, n) BY <2>1, ResolveIs
  <2>3. Fetched(top, heap, old, forWrite) BY <2>1, ResolveAlters
  <2> QED BY <2>2, <2>3, <1>0 DEF Fetched, ref, h
<1> HIDE DEF top
<1>10. /\ ref \in Ids /\ HeapOK(h) /\ h[ref].refCount > 0 /\ Ledger(h, m)
       /\ Named(h) \subseteq Named(heap) \union {ref}
  BY <1>9 DEF Resolved, Found
<1> HIDE DEF ref, h
<1>11. Room(h) BY <1>2, <1>10, RoomStays
<1> SUFFICES ASSUME \A x \in Reach(slots[t]) : heap[x].owner # currentArrayOwner
             PROVE  \A x \in Reach(slots[t]) : heap'[x].data = heap[x].data
  BY <1>7 DEF SeenStays
<1>12. m \in [Ids -> Nat] /\ (seen \in Ids => m[seen] > 0)
  <2>1. ASSUME NEW x \in Ids PROVE m[x] \in Nat /\ (x = seen => m[x] > 0)
    <3> DEFINE io == Is(old, x)
               ir == Is(ref, x)
               q == n[x]
    <3>1. m[x] = (q + ir) - io BY ReferencesAt
    <3>2. io \in {0, 1} /\ ir \in {0, 1} /\ q \in Nat BY <1>2 DEF Is
    <3>3. /\ io = 1 => q > 0
          /\ x = seen => q > 0
          /\ io = 1 /\ x = seen => q > 1
      BY <1>5 DEF Is
    <3> HIDE DEF io, ir, q, m
    <3> QED BY <3>1, <3>2, <3>3
  <2>2. m = [x \in Ids |-> m[x]] BY DEF Minus
  <2> HIDE DEF m, seen
  <2> QED BY <2>1, <2>2
<1> HIDE DEF m
\* Neither the array found first nor, from there on, any that is seen is altered.
<1>13. ref \notin Reach(seen)
  <2> SUFFICES ASSUME ref \in Reach(seen) PROVE FALSE OBVIOUS
  <2> HIDE DEF seen
  <2>1. Alters(heap, heap, {}) /\ {} \cap Reach(seen) = {} BY AltersFrom
  <2>2. heap[ref].refCount > 0 BY <2>1, <1>2, <1>5, StillSeen
  <2>3. CASE ref \notin Named(heap) BY <2>2, <2>3, <1>10 DEF Named
  <2>4. CASE heap[ref].owner = currentArrayOwner BY <2>4 DEF seen
  <2> QED BY <2>3, <2>4, <1>9
<1>14. \A x \in Reach(seen) : x \in Ids /\ h[x].refCount > 0
  <2> HIDE DEF seen
  <2>1. {ref} \cap Reach(seen) = {} BY <1>13
  <2> QED BY <2>1, <1>2, <1>5, <1>9, <1>10, <1>12, StillSeen
<1>15. i \in 1 .. MaxLength BY IndexIs
<1>16. /\ HeapOK(big) /\ Named(big) = Named(h) /\ Ledger(big, m) /\ i \in 1 .. Len(big[ref].data)
       /\ inner \in Values /\ Alters(big, h, {ref}) /\ big[ref].owner = h[ref].owner
       /\ \A x \in Ids : big[x].refCount = h[x].refCount
  BY <1>10, <1>15, GrowIs, GrowAlters
<1> HIDE DEF big
<1>17. owner \in Owners /\ Room(big) BY <1>10, <1>11, <1>16, HeapFields DEF Room
<1>18. inner \in Ids => big[inner].refCount > 0 BY <1>10, <1>12, <1>16, HeldIsThere
<1> HIDE DEF owner, inner
<1>19. /\ Alters(sub.h, big, {sub.ref}) /\ HeapOK(sub.h)
       /\ sub.ref \notin Named(big) \/ sub.h = big
  <2>1. sub = Resolve(big, inner, owner, forWrite) OBVIOUS
  <2> HIDE DEF sub, g
  <2>2. Resolved(sub, big, inner, m) BY <2>1, <1>2, <1>8, <1>12, <1>16, <1>17, <1>18, ResolveIs
  <2>3. Fetched(sub, big, inner, forWrite)
    BY <2>1, <1>2, <1>8, <1>12, <1>16, <1>17, <1>18, ResolveAlters
  <2>4. HeapOK(sub.h) BY <2>2 DEF Resolved, Found
  <2> QED BY <2>3, <2>4 DEF Fetched
<1> HIDE DEF sub
<1>20. Alters(g, sub.h, {ref}) BY <1>10, <1>19, FilledAlters
<1> HIDE DEF g
<1>21. PICK A : Alters(sub.h, big, A) /\ A \cap Reach(seen) = {}
  <2>1. CASE sub.h = big
    <3>1. Alters(sub.h, big, {}) /\ {} \cap Reach(seen) = {} BY <2>1, AltersFrom
    <3> QED BY <3>1
  <2>2. CASE sub.ref \notin Named(big)
    <3>1. \A x \in Reach(seen) : x \in Named(big)
      <4>1. \A x \in Reach(seen) : x \in Ids /\ h[x].refCount > 0 BY <1>14
      <4>2. \A x \in Ids : h[x].refCount > 0 => x \in Named(h) BY DEF Named
      <4> QED BY <4>1, <4>2, <1>16
    <3>2. {sub.ref} \cap Reach(seen) = {} BY <3>1, <2>2
    <3> QED BY <3>2, <1>19
  <2> QED BY <2>1, <2>2, <1>19
<1> DEFINE B == (({ref} \cup {ref}) \cup A) \cup {ref}
<1>22. Alters(heap', heap, B)
  <2>1. Alters(big, heap, {ref} \cup {ref}) BY <1>9, <1>16, AltersChain
  <2>2. Alters(sub.h, heap, ({ref} \cup {ref}) \cup A) BY <2>1, <1>21, AltersChain
  <2>3. Alters(g, heap, B) BY <2>2, <1>20, AltersChain
  <2> QED BY <2>3, <1>1
<1>23. B \cap Reach(slots[t]) = {} BY <1>13, <1>21
<1> HIDE DEF B
<1>24. status' # "dangling" BY <1>1, <1>2
<1> QED BY <1>2, <1>3, <1>6, <1>7, <1>22, <1>23, <1>24, StaysSeen

\* Copy on write: an assignment, or the array reference a chain writes through, changes nothing
\* that another variable sees, unless the writer owns an array it sees (VM_arraySetWithCoW,
\* cowForkSlotForModificationIfNeeded, BREAK_POPAF).
THEOREM OthersKeep == Spec => OthersKeepWhatTheySee
<1>1. ASSUME IInv, heap' # heap
      PROVE  /\ \A s \in Writable : \A t \in Variables \ {s} :
                    SeenStays(t, IntendedOwner(s)) \/ \A i \in Indices : ~ PopElement(s, i)
             /\ \A s \in Globals : \A t \in Variables \ {s} :
                    SeenStays(t, currentArrayOwner) \/ \A i \in Indices : ~ PushArrayRef(s, i, "write")
             /\ \A i \in Indices : BreakPopAF(i) =>
                    \A t \in Variables : SeenStays(t, Top(0).at)
  BY <1>1, PopElementOthers, PushArrayRefOthers, BreakPopAFOthers
<1>2. IInv => [heap' # heap =>
          /\ \A s \in Writable : \A t \in Variables \ {s} :
                 SeenStays(t, IntendedOwner(s)) \/ \A i \in Indices : ~ PopElement(s, i)
          /\ \A s \in Globals : \A t \in Variables \ {s} :
                 SeenStays(t, currentArrayOwner) \/ \A i \in Indices : ~ PushArrayRef(s, i, "write")
          /\ \A i \in Indices : BreakPopAF(i) =>
                 \A t \in Variables : SeenStays(t, Top(0).at)]_vars
  BY <1>1
<1> QED BY <1>2, IInvHolds, PTL DEF OthersKeepWhatTheySee
=============================================================================
