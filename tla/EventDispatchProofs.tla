-------------------------- MODULE EventDispatchProofs --------------------------
(* Theorems about EventDispatch, for any objects, instances, handlers, game    *)
(* code and any nesting: types, the copies that loops walk, and alarms.        *)
EXTENDS EventDispatch, FiniteSetTheorems, WellFoundedInduction, SequenceTheorems, TLAPS

-------------------------------------------------------------------------------
(* Numbers and lists                                                        *)

LEMMA LeastOf ==
    ASSUME NEW S \in SUBSET Nat, S # {}
    PROVE  \E x \in S : \A y \in S : x <= y
<1> DEFINE R == OpToRel(<, Nat)
<1>1. IsWellFoundedOn(R, Nat) BY NatLessThanWellFounded
<1>2. \A x, y \in Nat : <<x, y>> \in R <=> x < y BY DEF OpToRel
<1> HIDE DEF R
<1>3. PICK x \in S : \A y \in S : ~(<<y, x>> \in R) BY <1>1, WFMin
<1>4. \A y \in S : ~(y < x) BY <1>2, <1>3
<1>5. x \in Int /\ S \subseteq Int OBVIOUS
<1> QED BY <1>4, <1>5, SMT

\* A finite set of numbers has a k-th element for each k up to its cardinality.
LEMMA NthExists ==
    ASSUME NEW S \in SUBSET Nat, IsFiniteSet(S)
    PROVE  \A k \in 1 .. Cardinality(S) : \E n \in S : Cardinality({m \in S : m < n}) = k - 1
<1> DEFINE Rank(n) == Cardinality({m \in S : m < n})
           Bad == {k \in 1 .. Cardinality(S) : ~ \E n \in S : Rank(n) = k - 1}
<1>1. Cardinality(S) \in Nat BY FS_CardinalityType
<1>2. SUFFICES ASSUME Bad # {} PROVE FALSE OBVIOUS
<1>3. PICK k \in Bad : \A j \in Bad : k <= j
  <2>1. Bad \in SUBSET Nat OBVIOUS
  <2> HIDE DEF Bad
  <2> QED BY <1>2, <2>1, LeastOf
<1>4. k \in 1 .. Cardinality(S) /\ ~ \E n \in S : Rank(n) = k - 1 OBVIOUS
<1>5. CASE k = 1
  <2>1. S # {} BY <1>1, <1>4, FS_EmptySet
  <2>2. PICK n \in S : \A m \in S : n <= m BY <2>1, LeastOf
  <2>3. {m \in S : m < n} = {}
    <3>1. S \subseteq Int OBVIOUS
    <3>2. \A m \in S : ~ (m < n) BY <2>2, <3>1
    <3> QED BY <3>2
  <2>4. Rank(n) = 0 BY <2>3, FS_EmptySet
  <2> QED BY <2>4, <1>4, <1>5
<1>6. CASE k # 1
  <2>1. k - 1 \in 1 .. Cardinality(S) /\ ~ (k <= k - 1) BY <1>1, <1>4, <1>6
  <2>2. k - 1 \notin Bad BY <2>1, <1>3
  <2>3. PICK n \in S : Rank(n) = (k - 1) - 1 BY <2>1, <2>2
  <2> DEFINE B == {m \in S : m < n}
             C == {m \in S : m > n}
  <2>4. IsFiniteSet(B) /\ B \subseteq S /\ n \notin B BY FS_Subset
  <2>5. Cardinality(B \cup {n}) = k - 1
    <3>1. Cardinality(B) = (k - 1) - 1 BY <2>3
    <3> HIDE DEF B
    <3>2. Cardinality(B \cup {n}) = Cardinality(B) + 1 BY <2>4, FS_AddElement
    <3> QED BY <3>1, <3>2, <2>1
  <2>6. C # {}
    <3>1. SUFFICES ASSUME C = {} PROVE FALSE OBVIOUS
    <3>2. \A m \in S : m < n \/ m = n BY <3>1
    <3>3. S = B \cup {n} BY <3>2
    <3>4. Cardinality(S) = k - 1 BY <2>5, <3>3
    <3>5. k <= Cardinality(S) /\ k \in Int BY <1>1, <1>4
    <3> HIDE DEF B, C, Bad, Rank
    <3> QED BY <3>4, <3>5
  <2>7. PICK p \in C : \A q \in C : p <= q
    <3>1. C \in SUBSET Nat OBVIOUS
    <3> HIDE DEF C
    <3> QED BY <2>6, <3>1, LeastOf
  <2>8. {m \in S : m < p} = B \cup {n}
    <3>1. \A m \in S : m < p => ~ (m > n) BY <2>7
    <3>2. \A m \in S : m < p <=> m < n \/ m = n BY <3>1, <2>7
    <3> QED BY <3>2
  <2>9. Rank(p) = k - 1 BY <2>5, <2>8
  <2> QED BY <2>9, <1>4, <2>7
<1> QED BY <1>5, <1>6

LEMMA NthIs ==
    ASSUME NEW S \in SUBSET Nat, IsFiniteSet(S)
    PROVE  /\ \A k \in 1 .. Cardinality(S) : Nth(S, k) \in S
           /\ \A k, j \in 1 .. Cardinality(S) : Nth(S, k) = Nth(S, j) => k = j
<1>1. ASSUME NEW k \in 1 .. Cardinality(S)
      PROVE  Nth(S, k) \in S /\ Cardinality({m \in S : m < Nth(S, k)}) = k - 1
  BY NthExists, Zenon DEF Nth
<1>2. ASSUME NEW k \in 1 .. Cardinality(S), NEW j \in 1 .. Cardinality(S), Nth(S, k) = Nth(S, j)
      PROVE  k = j
  <2>1. k - 1 = j - 1 BY <1>1, <1>2
  <2> QED BY <2>1
<1> QED BY <1>1, <1>2

LEMMA EntriesAre ==
    ASSUME NEW T, NEW list \in Seq(T), NEW S \in SUBSET (DOMAIN list)
    PROVE  /\ Entries(list, S) \in Seq(T)
           /\ \A k \in DOMAIN Entries(list, S) : \E n \in S : Entries(list, S)[k] = list[n]
           /\ (\A k, j \in DOMAIN list : list[k] = list[j] => k = j)
                 => \A k, j \in DOMAIN Entries(list, S) :
                       Entries(list, S)[k] = Entries(list, S)[j] => k = j
<1>1. Len(list) \in Nat /\ DOMAIN list = 1 .. Len(list) /\ \A k \in DOMAIN list : list[k] \in T
  OBVIOUS
<1>2. S \in SUBSET Nat /\ IsFiniteSet(S) /\ Cardinality(S) \in Nat
  <2>1. IsFiniteSet(1 .. Len(list)) BY <1>1, FS_Interval
  <2> QED BY <1>1, <2>1, FS_Subset, FS_CardinalityType
<1>3. /\ \A k \in 1 .. Cardinality(S) : Nth(S, k) \in S
      /\ \A k, j \in 1 .. Cardinality(S) : Nth(S, k) = Nth(S, j) => k = j
  BY <1>2, NthIs
<1> DEFINE n == Cardinality(S)
           e == [k \in 1 .. n |-> list[Nth(S, k)]]
<1>4. Entries(list, S) = e BY DEF Entries
<1> HIDE DEF n
<1>5. \A k \in 1 .. n : e[k] = list[Nth(S, k)] /\ Nth(S, k) \in S BY <1>3 DEF n
<1>6. e \in [1 .. n -> T] BY <1>1, <1>5
<1>7. DOMAIN e = 1 .. n OBVIOUS
<1> HIDE DEF e
<1>8. e \in Seq(T) BY <1>2, <1>6 DEF n
<1>9. \A k \in DOMAIN e : \E m \in S : e[k] = list[m] BY <1>5, <1>7
<1>10. ASSUME \A k, j \in DOMAIN list : list[k] = list[j] => k = j,
              NEW k \in DOMAIN e, NEW j \in DOMAIN e, e[k] = e[j]
       PROVE  k = j
  <2>1. Nth(S, k) = Nth(S, j) BY <1>5, <1>7, <1>10
  <2> QED BY <2>1, <1>3, <1>7 DEF n
<1> QED BY <1>4, <1>8, <1>9, <1>10

LEMMA SortedIs ==
    ASSUME NEW list \in Seq(Ids) PROVE ByObjectAndId(list) \in Seq(Ids)
<1> DEFINE S == ToSet(list)
<1>1. S \subseteq Ids BY DEF ToSet
<1>2. S \in SUBSET Nat /\ IsFiniteSet(S) /\ Cardinality(S) \in Nat
  <2>1. MaxId \in Nat BY DispatchAssumption
  <2>2. IsFiniteSet(Ids) BY <2>1, FS_Interval DEF Ids
  <2> QED BY <1>1, <2>1, <2>2, FS_Subset, FS_CardinalityType DEF Ids
<1> HIDE DEF S
<1>3. \A k \in 1 .. Cardinality(S) : Nth(S, k) \in Ids BY <1>1, <1>2, NthIs
<1>4. [k \in 1 .. Cardinality(S) |-> Nth(S, k)] \in Seq(Ids) BY <1>2, <1>3
<1> QED BY <1>4 DEF ByObjectAndId, S

\* An instance leaves a list that holds each once.
LEMMA WithoutIs ==
    ASSUME NEW list \in Seq(Ids), NEW i,
           \A k, j \in DOMAIN list : list[k] = list[j] => k = j
    PROVE  /\ Without(list, i) \in Seq(Ids)
           /\ \A k \in DOMAIN Without(list, i) :
                 /\ Without(list, i)[k] # i
                 /\ \E n \in DOMAIN list : Without(list, i)[k] = list[n]
           /\ \A k, j \in DOMAIN Without(list, i) : Without(list, i)[k] = Without(list, i)[j] => k = j
<1>1. CASE i \notin ToSet(list) BY <1>1 DEF Without, ToSet
<1>2. CASE i \in ToSet(list)
  <2> DEFINE n == CHOOSE k \in DOMAIN list : list[k] = i
             L == Len(list)
             a == SubSeq(list, 1, n - 1)
             b == SubSeq(list, n + 1, L)
             w == a \o b
  <2>1. DOMAIN list = 1 .. L /\ L \in Nat BY LenProperties
  <2>2. n \in 1 .. L /\ list[n] = i
    <3>1. \E k \in DOMAIN list : list[k] = i BY <1>2 DEF ToSet
    <3>2. n \in DOMAIN list /\ list[n] = i BY <3>1
    <3> QED BY <2>1, <3>2
  <2>3. Without(list, i) = w BY <1>2 DEF Without, RemoveAt
  <2> HIDE DEF n, L
  <2>4. /\ a \in Seq(Ids) /\ Len(a) = n - 1 /\ \A k \in 1 .. n - 1 : a[k] = list[k]
        /\ b \in Seq(Ids) /\ Len(b) = L - n /\ \A k \in 1 .. L - n : b[k] = list[n + k]
    <3>1. /\ \A k \in 1 .. n - 1 : list[k] \in Ids /\ 1 + k - 1 = k
          /\ \A k \in n + 1 .. L : list[k] \in Ids
          /\ \A k \in 1 .. L - n : (n + 1) + k - 1 = n + k
      BY <2>1, <2>2
    <3>2. n - 1 \in Int /\ n + 1 \in Int /\ L \in Int /\ (n - 1) - 1 + 1 = n - 1
          /\ L - (n + 1) + 1 = L - n /\ 1 \in Int
      BY <2>1, <2>2
    <3>3. /\ a \in Seq(Ids) /\ Len(a) = IF 1 <= n - 1 THEN n - 1 ELSE 0
          /\ \A k \in 1 .. n - 1 : a[k] = list[1 + k - 1]
      BY <3>1, <3>2, SubSeqProperties
    <3>4. /\ b \in Seq(Ids) /\ Len(b) = IF n + 1 <= L THEN L - n ELSE 0
          /\ \A k \in 1 .. L - n : b[k] = list[(n + 1) + k - 1]
      BY <3>1, <3>2, SubSeqProperties
    <3> HIDE DEF a, b
    <3> QED BY <3>1, <3>3, <3>4, <2>1, <2>2
  <2> HIDE DEF a, b
  <2>5. /\ w \in Seq(Ids) /\ DOMAIN w = 1 .. L - 1
        /\ \A k \in 1 .. L - 1 : w[k] = IF k < n THEN list[k] ELSE list[k + 1]
    <3>1. w \in Seq(Ids) /\ Len(w) = Len(a) + Len(b) BY <2>4, ConcatProperties
    <3>2. ASSUME NEW k \in 1 .. L - 1 PROVE w[k] = IF k < n THEN list[k] ELSE list[k + 1]
      <4>1. w[k] = IF k <= Len(a) THEN a[k] ELSE b[k - Len(a)]
        <5>1. k \in 1 .. Len(a) + Len(b) BY <2>1, <2>2, <2>4
        <5> QED BY <5>1, <2>4, ConcatProperties
      <4>2. CASE k < n BY <4>1, <4>2, <2>2, <2>4
      <4>3. CASE ~ (k < n)
        <5>1. ~ (k <= Len(a)) /\ k - Len(a) \in 1 .. L - n /\ n + (k - Len(a)) = k + 1
          BY <4>3, <2>1, <2>2, <2>4
        <5> QED BY <5>1, <4>1, <4>3, <2>4
      <4> QED BY <4>2, <4>3
    <3>3. Len(a) + Len(b) = L - 1 BY <2>1, <2>2, <2>4
    <3> HIDE DEF w
    <3>4. Len(w) = L - 1 BY <3>1, <3>3
    <3> QED BY <3>1, <3>2, <3>4
  <2> HIDE DEF w
  <2>6. ASSUME NEW k \in DOMAIN w PROVE w[k] # i /\ \E m \in DOMAIN list : w[k] = list[m]
    <3>1. CASE k < n
      <4>1. k \in DOMAIN list /\ w[k] = list[k] /\ k # n BY <3>1, <2>1, <2>2, <2>5
      <4>2. n \in DOMAIN list BY <2>1, <2>2
      <4> QED BY <4>1, <4>2, <2>2
    <3>2. CASE ~ (k < n)
      <4>1. k + 1 \in DOMAIN list /\ w[k] = list[k + 1] /\ k + 1 # n BY <3>2, <2>1, <2>2, <2>5
      <4>2. n \in DOMAIN list BY <2>1, <2>2
      <4> QED BY <4>1, <4>2, <2>2
    <3> QED BY <3>1, <3>2
  <2>7. ASSUME NEW k \in DOMAIN w, NEW j \in DOMAIN w, w[k] = w[j] PROVE k = j
    <3> DEFINE At(m) == IF m < n THEN m ELSE m + 1
    <3>1. At(k) \in DOMAIN list /\ At(j) \in DOMAIN list /\ w[k] = list[At(k)] /\ w[j] = list[At(j)]
      BY <2>1, <2>2, <2>5
    <3>2. At(k) = At(j) BY <3>1, <2>7
    <3> QED BY <3>2, <2>5, <2>1, <2>2
  <2> QED BY <2>3, <2>5, <2>6, <2>7
<1> QED BY <1>1, <1>2

-------------------------------------------------------------------------------
(* Stacks                                                                   *)

LEMMA ConsIs ==
    ASSUME NEW T, NEW s \in Seq(T), NEW f \in T
    PROVE  /\ <<f>> \o s \in Seq(T) /\ <<f>> \o s # <<>> /\ Len(<<f>> \o s) = Len(s) + 1
           /\ DOMAIN (<<f>> \o s) = 1 .. Len(s) + 1
           /\ (<<f>> \o s)[1] = f
           /\ \A k \in 1 .. Len(s) : (<<f>> \o s)[k + 1] = s[k]
<1>1. <<f>> \in Seq(T) /\ Len(<<f>>) = 1 /\ <<f>>[1] = f OBVIOUS
<1>2. Len(s) \in Nat BY LenProperties
<1>3. <<f>> \o s \in Seq(T) /\ Len(<<f>> \o s) = 1 + Len(s) BY <1>1, ConcatProperties
<1>4. \A k \in 1 .. 1 + Len(s) :
         (<<f>> \o s)[k] = IF k <= 1 THEN <<f>>[k] ELSE s[k - 1]
  BY <1>1, ConcatProperties
<1>5. 1 \in 1 .. 1 + Len(s) /\ \A k \in 1 .. Len(s) : k + 1 \in 1 .. 1 + Len(s)
                                                     /\ ~ (k + 1 <= 1) /\ (k + 1) - 1 = k
  BY <1>2
<1> DEFINE c == <<f>> \o s
<1>6. DOMAIN c = 1 .. Len(c) BY <1>3, LenProperties
<1> HIDE DEF c
<1>7. c # <<>> BY <1>2, <1>3, <1>6, EmptySeq DEF c
<1>8. c[1] = f /\ \A k \in 1 .. Len(s) : c[k + 1] = s[k] BY <1>1, <1>4, <1>5 DEF c
<1> QED BY <1>2, <1>3, <1>6, <1>7, <1>8 DEF c

LEMMA TailIs ==
    ASSUME NEW T, NEW s \in Seq(T), s # <<>>
    PROVE  /\ Tail(s) \in Seq(T) /\ Len(Tail(s)) = Len(s) - 1 /\ Len(s) \in Nat \ {0}
           /\ DOMAIN Tail(s) = 1 .. Len(s) - 1 /\ DOMAIN s = 1 .. Len(s)
           /\ Head(s) = s[1] /\ Head(s) \in T
           /\ \A k \in 1 .. Len(s) - 1 : Tail(s)[k] = s[k + 1]
<1>1. Len(s) \in Nat \ {0} BY EmptySeq
<1>2. /\ Head(s) \in T /\ Tail(s) \in Seq(T) /\ Len(Tail(s)) = Len(s) - 1
      /\ \A k \in 1 .. Len(Tail(s)) : Tail(s)[k] = s[k + 1]
  BY HeadTailProperties
<1>3. DOMAIN Tail(s) = 1 .. Len(Tail(s)) /\ DOMAIN s = 1 .. Len(s) BY <1>2, LenProperties
<1>4. Head(s) = s[1] OBVIOUS
<1> QED BY <1>1, <1>2, <1>3, <1>4

LEMMA TwoOnTop ==
    ASSUME NEW T, NEW s \in Seq(T), NEW f \in T, NEW g \in T
    PROVE  <<f, g>> \o s = <<f>> \o (<<g>> \o s)
<1>1. <<f>> \in Seq(T) /\ <<g>> \in Seq(T) OBVIOUS
<1>2. <<f>> \o <<g>> = <<f, g>>
  <2> DEFINE x == <<g>>
             z == <<f>> \o x
             y == <<f, g>>
  <2>1. x \in Seq(T) /\ Len(x) = 1 /\ x[1] = g OBVIOUS
  <2>2. y \in Seq(T) /\ Len(y) = 2 /\ y[1] = f /\ y[2] = g OBVIOUS
  <2> HIDE DEF x, y
  <2>3. /\ z \in Seq(T) /\ Len(z) = Len(x) + 1 /\ z[1] = f
        /\ \A k \in 1 .. Len(x) : z[k + 1] = x[k]
    BY <2>1, ConsIs
  <2> HIDE DEF z
  <2>4. Len(z) = 2 /\ z[2] = g /\ \A k \in 1 .. 2 : k = 1 \/ k = 2 BY <2>1, <2>3
  <2>5. \A k \in 1 .. Len(z) : z[k] = y[k] BY <2>2, <2>3, <2>4
  <2>6. z = y BY <2>2, <2>3, <2>4, <2>5, SeqEqual
  <2> QED BY <2>6 DEF x, y, z
<1>3. (<<f>> \o <<g>>) \o s = <<f>> \o (<<g>> \o s) BY <1>1, ConcatAssociative
<1> QED BY <1>2, <1>3

Frame == Loop \cup Code \cup Solid

\* The loops that hold a copy on the arena.
InArena(f) == f.kind = "loop" /\ f.via \in {"arena", "pointer"}

\* What is known of a frame, given the list of all instances, and the scratch array and how
\* often it was reallocated.
FrameOK(f, ins, scr, ep) ==
    f.kind = "loop" =>
       /\ f.pos >= 1
       /\ f.via = "scratch" <=> f.event \in ForAll
       /\ f.via = "scratch" => f.epoch <= ep /\ Len(f.snap) <= Len(scr)
       /\ f.event \in ListForAll => /\ Len(f.snap) <= Len(ins)
                                    /\ \A j \in 1 .. Len(f.snap) : f.snap[j] = ins[j]
       /\ f.event = "Hit" \/ f.targets # <<>> => f.self \in Ids
       /\ f.via = "scratch" /\ f.epoch = ep /\ (~ f.overrun \/ f.event \in ListForAll)
             => \A j \in 1 .. Len(f.snap) : scr[j] = f.snap[j]

FramesOK(s, ins, scr, ep) == \A k \in 1 .. Len(s) : FrameOK(s[k], ins, scr, ep)

ArenaOK(s, a) ==
    /\ \A k \in 1 .. Len(s) : InArena(s[k]) =>
          /\ End(s[k]) <= Len(a)
          /\ \A j \in 1 .. Len(s[k].snap) : a[s[k].base + j] = s[k].snap[j]
    /\ \A k, m \in 1 .. Len(s) : InArena(s[k]) /\ InArena(s[m]) /\ k < m
                                    => s[k].base >= End(s[m])
    /\ \A p \in 1 .. Len(a) : \E k \in 1 .. Len(s) :
          InArena(s[k]) /\ s[k].base < p /\ p <= End(s[k])

World(s, a, ins, scr, ep) == FramesOK(s, ins, scr, ep) /\ ArenaOK(s, a)

LEMMA FrameIs ==
    ASSUME NEW f \in Frame
    PROVE  /\ f.kind \in {"loop", "code", "solid"}
           /\ f.kind = "loop" => f \in Loop
           /\ f.kind = "code" => f \in Code
           /\ f.kind = "solid" => f \in Solid
<1>1. CASE f \in Loop BY <1>1 DEF Loop
<1>2. CASE f \in Code BY <1>2 DEF Code
<1>3. CASE f \in Solid BY <1>3 DEF Solid
<1> QED BY <1>1, <1>2, <1>3 DEF Frame

LEMMA LoopIs ==
    ASSUME NEW f \in Frame, f.kind = "loop"
    PROVE  /\ f \in Loop /\ f.base \in Nat /\ f.snap \in Seq(Ids) /\ Len(f.snap) \in Nat
           /\ DOMAIN f.snap = 1 .. Len(f.snap) /\ End(f) \in Nat /\ End(f) = f.base + Len(f.snap)
           /\ f.pos \in Nat /\ f.via \in {"arena", "pointer", "scratch"}
           /\ f.targets \in Seq(Objects)
           /\ f.epoch \in Nat /\ f.overrun \in BOOLEAN
           /\ f.event \in Events \cup {"Hit", "Write"} /\ f.object \in Objects \cup {Everyone}
<1>1. f \in Loop BY FrameIs
<1>2. /\ f.base \in Nat /\ f.snap \in Seq(Ids) /\ f.pos \in Nat
      /\ f.via \in {"arena", "pointer", "scratch"} /\ f.epoch \in Nat /\ f.overrun \in BOOLEAN
      /\ f.targets \in Seq(Objects)
      /\ f.event \in Events \cup {"Hit", "Write"} /\ f.object \in Objects \cup {Everyone}
  BY <1>1 DEF Loop
<1>3. Len(f.snap) \in Nat /\ DOMAIN f.snap = 1 .. Len(f.snap) BY <1>2, LenProperties
<1> QED BY <1>1, <1>2, <1>3 DEF End

LEMMA FramesPush ==
    ASSUME NEW s \in Seq(Frame), NEW f \in Frame, NEW ins, NEW scr, NEW ep,
           FramesOK(s, ins, scr, ep), FrameOK(f, ins, scr, ep)
    PROVE  FramesOK(<<f>> \o s, ins, scr, ep)
<1> DEFINE c == <<f>> \o s
<1>1. Len(s) \in Nat BY LenProperties
<1>2. Len(c) = Len(s) + 1 /\ c[1] = f /\ \A k \in 1 .. Len(s) : c[k + 1] = s[k] BY ConsIs
<1> HIDE DEF c
<1>3. ASSUME NEW k \in 1 .. Len(c) PROVE FrameOK(c[k], ins, scr, ep)
  <2>1. CASE k = 1 BY <2>1, <1>2
  <2>2. CASE k # 1
    <3>1. k - 1 \in 1 .. Len(s) /\ (k - 1) + 1 = k BY <2>2, <1>1, <1>2
    <3>2. c[k] = s[k - 1] BY <3>1, <1>2
    <3> QED BY <3>1, <3>2 DEF FramesOK
  <2> QED BY <2>1, <2>2
<1> QED BY <1>3 DEF FramesOK, c

LEMMA FramesPop ==
    ASSUME NEW s \in Seq(Frame), s # <<>>, NEW ins, NEW scr, NEW ep, FramesOK(s, ins, scr, ep)
    PROVE  FrameOK(Head(s), ins, scr, ep) /\ FramesOK(Tail(s), ins, scr, ep)
<1>1. /\ Len(s) \in Nat \ {0} /\ Head(s) = s[1] /\ Len(Tail(s)) = Len(s) - 1
      /\ \A k \in 1 .. Len(s) - 1 : Tail(s)[k] = s[k + 1]
  BY TailIs
<1>2. 1 \in 1 .. Len(s) /\ \A k \in 1 .. Len(s) - 1 : k + 1 \in 1 .. Len(s) BY <1>1
<1>3. FrameOK(Head(s), ins, scr, ep) BY <1>1, <1>2 DEF FramesOK
<1>4. \A k \in 1 .. Len(Tail(s)) : FrameOK(Tail(s)[k], ins, scr, ep) BY <1>1, <1>2 DEF FramesOK
<1> QED BY <1>3, <1>4 DEF FramesOK

LEMMA ArenaPushOther ==
    ASSUME NEW s \in Seq(Frame), NEW f \in Frame, ~ InArena(f), NEW a \in Seq(Ids), ArenaOK(s, a)
    PROVE  ArenaOK(<<f>> \o s, a)
<1> DEFINE c == <<f>> \o s
<1>1. Len(s) \in Nat BY LenProperties
<1>2. Len(c) = Len(s) + 1 /\ c[1] = f /\ \A k \in 1 .. Len(s) : c[k + 1] = s[k] BY ConsIs
<1> HIDE DEF c
<1>3. ASSUME NEW k \in 1 .. Len(c), InArena(c[k])
      PROVE  k - 1 \in 1 .. Len(s) /\ c[k] = s[k - 1]
  <2>1. k # 1 BY <1>2, <1>3
  <2>2. k - 1 \in 1 .. Len(s) /\ (k - 1) + 1 = k BY <2>1, <1>1, <1>2
  <2> QED BY <2>2, <1>2
<1>4. ASSUME NEW k \in 1 .. Len(c), InArena(c[k])
      PROVE  /\ End(c[k]) <= Len(a)
             /\ \A j \in 1 .. Len(c[k].snap) : a[c[k].base + j] = c[k].snap[j]
  BY <1>3, <1>4 DEF ArenaOK
<1>5. ASSUME NEW k \in 1 .. Len(c), NEW m \in 1 .. Len(c), InArena(c[k]), InArena(c[m]), k < m
      PROVE  c[k].base >= End(c[m])
  <2>1. k - 1 \in 1 .. Len(s) /\ c[k] = s[k - 1] /\ m - 1 \in 1 .. Len(s) /\ c[m] = s[m - 1]
    BY <1>3, <1>5
  <2>2. k - 1 < m - 1 BY <1>2, <1>1, <1>5
  <2> QED BY <2>1, <2>2, <1>5 DEF ArenaOK
<1>6. ASSUME NEW p \in 1 .. Len(a)
      PROVE  \E k \in 1 .. Len(c) : InArena(c[k]) /\ c[k].base < p /\ p <= End(c[k])
  <2>1. PICK k \in 1 .. Len(s) : InArena(s[k]) /\ s[k].base < p /\ p <= End(s[k]) BY DEF ArenaOK
  <2>2. k + 1 \in 1 .. Len(c) /\ c[k + 1] = s[k] BY <1>1, <1>2
  <2> QED BY <2>1, <2>2
<1> QED BY <1>4, <1>5, <1>6 DEF ArenaOK, c

LEMMA ArenaPush ==
    ASSUME NEW s \in Seq(Frame), NEW f \in Frame, InArena(f), NEW a \in Seq(Ids),
           f.base = Len(a), ArenaOK(s, a)
    PROVE  ArenaOK(<<f>> \o s, a \o f.snap)
<1> DEFINE c == <<f>> \o s
           b == a \o f.snap
<1>1. Len(s) \in Nat /\ Len(a) \in Nat /\ DOMAIN s = 1 .. Len(s) BY LenProperties
<1>2. Len(c) = Len(s) + 1 /\ c[1] = f /\ \A k \in 1 .. Len(s) : c[k + 1] = s[k] BY ConsIs
<1>3. f.snap \in Seq(Ids) /\ Len(f.snap) \in Nat /\ End(f) = Len(a) + Len(f.snap)
  BY LoopIs DEF InArena
<1>4. /\ Len(b) = Len(a) + Len(f.snap)
      /\ \A p \in 1 .. Len(a) + Len(f.snap) :
            b[p] = IF p <= Len(a) THEN a[p] ELSE f.snap[p - Len(a)]
  BY <1>3, ConcatProperties
<1> HIDE DEF c, b
<1>5. ASSUME NEW k \in 1 .. Len(c), k # 1 PROVE k - 1 \in 1 .. Len(s) /\ c[k] = s[k - 1]
  <2>1. k - 1 \in 1 .. Len(s) /\ (k - 1) + 1 = k BY <1>5, <1>1, <1>2
  <2> QED BY <2>1, <1>2
<1>6. ASSUME NEW k \in 1 .. Len(s), InArena(s[k])
      PROVE  /\ s[k].base \in Nat /\ Len(s[k].snap) \in Nat /\ End(s[k]) = s[k].base + Len(s[k].snap)
             /\ End(s[k]) <= Len(a)
             /\ \A j \in 1 .. Len(s[k].snap) : a[s[k].base + j] = s[k].snap[j]
  <2>1. s[k] \in Frame BY <1>1
  <2> QED BY <2>1, <1>6, LoopIs DEF ArenaOK, InArena
<1>7. ASSUME NEW k \in 1 .. Len(c), InArena(c[k])
      PROVE  /\ End(c[k]) <= Len(b)
             /\ \A j \in 1 .. Len(c[k].snap) : b[c[k].base + j] = c[k].snap[j]
  <2>1. CASE k = 1
    <3>1. ASSUME NEW j \in 1 .. Len(f.snap) PROVE b[Len(a) + j] = f.snap[j]
      <4>1. /\ Len(a) + j \in 1 .. Len(a) + Len(f.snap) /\ ~ (Len(a) + j <= Len(a))
            /\ (Len(a) + j) - Len(a) = j
        BY <1>1, <1>3
      <4> QED BY <4>1, <1>4
    <3>2. End(f) <= Len(b) BY <1>1, <1>3, <1>4
    <3> QED BY <3>1, <3>2, <2>1, <1>2
  <2>2. CASE k # 1
    <3>1. k - 1 \in 1 .. Len(s) /\ c[k] = s[k - 1] BY <2>2, <1>5
    <3> DEFINE g == s[k - 1]
    <3>2. /\ g.base \in Nat /\ Len(g.snap) \in Nat /\ End(g) = g.base + Len(g.snap)
          /\ End(g) <= Len(a) /\ \A j \in 1 .. Len(g.snap) : a[g.base + j] = g.snap[j]
      BY <3>1, <1>6, <1>7
    <3> HIDE DEF g
    <3>3. ASSUME NEW j \in 1 .. Len(g.snap) PROVE b[g.base + j] = g.snap[j]
      <4>1. g.base + j \in 1 .. Len(a) + Len(f.snap) /\ g.base + j <= Len(a)
        BY <3>2, <1>1, <1>3
      <4> QED BY <4>1, <3>2, <1>4
    <3>4. End(g) <= Len(b) BY <3>2, <1>1, <1>3, <1>4
    <3> QED BY <3>1, <3>3, <3>4 DEF g
  <2> QED BY <2>1, <2>2
<1>8. ASSUME NEW k \in 1 .. Len(c), NEW m \in 1 .. Len(c), InArena(c[k]), InArena(c[m]), k < m
      PROVE  c[k].base >= End(c[m])
  <2>1. m # 1 BY <1>1, <1>2, <1>8
  <2>2. m - 1 \in 1 .. Len(s) /\ c[m] = s[m - 1] BY <2>1, <1>5
  <2>3. End(s[m - 1]) \in Nat /\ End(s[m - 1]) <= Len(a) BY <2>2, <1>6, <1>8
  <2>4. CASE k = 1 BY <2>4, <2>2, <2>3, <1>1, <1>2
  <2>5. CASE k # 1
    <3>1. k - 1 \in 1 .. Len(s) /\ c[k] = s[k - 1] BY <2>5, <1>5
    <3>2. k - 1 < m - 1 BY <1>1, <1>2, <1>8
    <3> QED BY <3>1, <3>2, <2>2, <1>8 DEF ArenaOK
  <2> QED BY <2>4, <2>5
<1>9. ASSUME NEW p \in 1 .. Len(b)
      PROVE  \E k \in 1 .. Len(c) : InArena(c[k]) /\ c[k].base < p /\ p <= End(c[k])
  <2>1. CASE p <= Len(a)
    <3>1. p \in 1 .. Len(a) BY <2>1, <1>1, <1>3, <1>4
    <3>2. PICK k \in 1 .. Len(s) : InArena(s[k]) /\ s[k].base < p /\ p <= End(s[k])
      BY <3>1 DEF ArenaOK
    <3>3. k + 1 \in 1 .. Len(c) /\ c[k + 1] = s[k] BY <1>1, <1>2
    <3> QED BY <3>2, <3>3
  <2>2. CASE ~ (p <= Len(a))
    <3>1. f.base < p /\ p <= End(f) BY <2>2, <1>1, <1>3, <1>4
    <3>2. 1 \in 1 .. Len(c) BY <1>1, <1>2
    <3> QED BY <3>1, <3>2, <1>2
  <2> QED BY <2>1, <2>2
<1> QED BY <1>7, <1>8, <1>9 DEF ArenaOK, c, b

LEMMA ArenaPopOther ==
    ASSUME NEW s \in Seq(Frame), s # <<>>, ~ InArena(Head(s)), NEW a, ArenaOK(s, a)
    PROVE  ArenaOK(Tail(s), a)
<1> DEFINE c == Tail(s)
<1>1. /\ Len(s) \in Nat \ {0} /\ Head(s) = s[1] /\ Len(c) = Len(s) - 1
      /\ \A k \in 1 .. Len(s) - 1 : c[k] = s[k + 1]
  BY TailIs
<1> HIDE DEF c
<1>2. \A k \in 1 .. Len(c) : k + 1 \in 1 .. Len(s) /\ c[k] = s[k + 1] BY <1>1
<1>3. \A k, m \in 1 .. Len(c) : k < m => k + 1 < m + 1 BY <1>1
<1>4. ASSUME NEW p \in 1 .. Len(a)
      PROVE  \E k \in 1 .. Len(c) : InArena(c[k]) /\ c[k].base < p /\ p <= End(c[k])
  <2>1. PICK k \in 1 .. Len(s) : InArena(s[k]) /\ s[k].base < p /\ p <= End(s[k]) BY DEF ArenaOK
  <2>2. k # 1 BY <2>1, <1>1
  <2>3. k - 1 \in 1 .. Len(c) /\ (k - 1) + 1 = k BY <2>2, <1>1
  <2>4. c[k - 1] = s[k] BY <2>3, <1>2
  <2> QED BY <2>1, <2>3, <2>4
<1>5. \A k \in 1 .. Len(c) : InArena(c[k]) =>
          /\ End(c[k]) <= Len(a)
          /\ \A j \in 1 .. Len(c[k].snap) : a[c[k].base + j] = c[k].snap[j]
  BY <1>2 DEF ArenaOK
<1>6. \A k, m \in 1 .. Len(c) : InArena(c[k]) /\ InArena(c[m]) /\ k < m => c[k].base >= End(c[m])
  BY <1>2, <1>3 DEF ArenaOK
<1> QED BY <1>4, <1>5, <1>6 DEF ArenaOK, c

LEMMA ArenaPop ==
    ASSUME NEW s \in Seq(Frame), s # <<>>, InArena(Head(s)), NEW a \in Seq(Ids), ArenaOK(s, a)
    PROVE  /\ SubSeq(a, 1, Head(s).base) \in Seq(Ids)
           /\ Len(SubSeq(a, 1, Head(s).base)) = Head(s).base /\ Head(s).base <= Len(a)
           /\ ArenaOK(Tail(s), SubSeq(a, 1, Head(s).base))
<1> DEFINE c == Tail(s)
           f == Head(s)
           b == SubSeq(a, 1, f.base)
<1>1. /\ Len(s) \in Nat \ {0} /\ f = s[1] /\ Len(c) = Len(s) - 1 /\ f \in Frame
      /\ DOMAIN s = 1 .. Len(s) /\ \A k \in 1 .. Len(s) - 1 : c[k] = s[k + 1]
  BY TailIs
<1>2. f.base \in Nat /\ Len(f.snap) \in Nat /\ End(f) = f.base + Len(f.snap)
  BY <1>1, LoopIs DEF InArena
<1>3. Len(a) \in Nat /\ \A p \in 1 .. Len(a) : a[p] \in Ids BY LenProperties
<1>4. f.base <= Len(a)
  <2>1. End(f) <= Len(a) BY <1>1 DEF ArenaOK
  <2> QED BY <2>1, <1>2, <1>3
<1>5. b \in Seq(Ids) /\ Len(b) = f.base /\ \A p \in 1 .. f.base : b[p] = a[p]
  <2>1. 1 \in Int /\ f.base \in Int /\ f.base - 1 + 1 = f.base /\ (~ (1 <= f.base) => f.base = 0)
        /\ \A p \in 1 .. f.base : 1 + p - 1 = p
    BY <1>2
  <2>2. \A p \in 1 .. f.base : a[p] \in Ids BY <1>2, <1>3, <1>4
  <2>3. /\ b \in Seq(Ids) /\ Len(b) = IF 1 <= f.base THEN f.base - 1 + 1 ELSE 0
        /\ \A p \in 1 .. f.base - 1 + 1 : b[p] = a[1 + p - 1]
    BY <2>1, <2>2, SubSeqProperties
  <2> QED BY <2>1, <2>3
<1> HIDE DEF c, f, b
<1>6. \A k \in 1 .. Len(c) : k + 1 \in 1 .. Len(s) /\ c[k] = s[k + 1] /\ 1 < k + 1 BY <1>1
<1>7. \A k, m \in 1 .. Len(c) : k < m => k + 1 < m + 1 BY <1>1
<1>8. ASSUME NEW k \in 1 .. Len(c), InArena(c[k])
      PROVE  /\ c[k].base \in Nat /\ Len(c[k].snap) \in Nat /\ End(c[k]) = c[k].base + Len(c[k].snap)
             /\ End(c[k]) <= f.base
             /\ \A j \in 1 .. Len(c[k].snap) : a[c[k].base + j] = c[k].snap[j]
  <2>1. k + 1 \in 1 .. Len(s) /\ c[k] = s[k + 1] /\ 1 < k + 1 /\ 1 \in 1 .. Len(s) BY <1>1, <1>6
  <2>2. s[k + 1] \in Frame BY <2>1, <1>1
  <2>3. f.base >= End(s[k + 1]) BY <2>1, <1>1, <1>8 DEF ArenaOK, f
  <2>4. End(s[k + 1]) \in Nat /\ c[k].base \in Nat /\ Len(c[k].snap) \in Nat
        /\ End(c[k]) = c[k].base + Len(c[k].snap)
    BY <2>1, <2>2, <1>8, LoopIs DEF InArena
  <2>5. \A j \in 1 .. Len(c[k].snap) : a[c[k].base + j] = c[k].snap[j] BY <2>1, <1>8 DEF ArenaOK
  <2> QED BY <2>1, <2>3, <2>4, <2>5, <1>2
<1>9. ASSUME NEW k \in 1 .. Len(c), InArena(c[k])
      PROVE  /\ End(c[k]) <= Len(b)
             /\ \A j \in 1 .. Len(c[k].snap) : b[c[k].base + j] = c[k].snap[j]
  <2>1. ASSUME NEW j \in 1 .. Len(c[k].snap) PROVE b[c[k].base + j] = c[k].snap[j]
    <3>1. c[k].base + j \in 1 .. f.base BY <1>2, <1>8, <1>9
    <3> QED BY <3>1, <1>5, <1>8, <1>9
  <2> QED BY <2>1, <1>5, <1>8, <1>9
<1>10. \A k, m \in 1 .. Len(c) : InArena(c[k]) /\ InArena(c[m]) /\ k < m => c[k].base >= End(c[m])
  BY <1>6, <1>7 DEF ArenaOK
<1>11. ASSUME NEW p \in 1 .. Len(b)
       PROVE  \E k \in 1 .. Len(c) : InArena(c[k]) /\ c[k].base < p /\ p <= End(c[k])
  <2>1. p \in 1 .. Len(a) /\ ~ (f.base < p) BY <1>2, <1>3, <1>4, <1>5
  <2>2. PICK k \in 1 .. Len(s) : InArena(s[k]) /\ s[k].base < p /\ p <= End(s[k])
    BY <2>1 DEF ArenaOK
  <2>3. k # 1 BY <2>1, <2>2, <1>1
  <2>4. k - 1 \in 1 .. Len(c) /\ (k - 1) + 1 = k BY <2>3, <1>1
  <2>5. c[k - 1] = s[k] BY <2>4, <1>6
  <2> QED BY <2>2, <2>4, <2>5
<1> QED BY <1>4, <1>5, <1>9, <1>10, <1>11 DEF ArenaOK, c, b, f

\* Frames may change in what the arena is not about.
LEMMA ArenaSame ==
    ASSUME NEW s \in Seq(Frame), NEW t \in Seq(Frame), NEW a, ArenaOK(s, a), Len(t) = Len(s),
           \A k \in 1 .. Len(s) : /\ InArena(t[k]) <=> InArena(s[k])
                                  /\ InArena(s[k]) => t[k].base = s[k].base /\ t[k].snap = s[k].snap
    PROVE  ArenaOK(t, a)
<1>1. \A k \in 1 .. Len(s) : InArena(t[k]) => End(t[k]) = End(s[k]) BY DEF End
<1> QED BY <1>1 DEF ArenaOK

LEMMA ArenaSetTop ==
    ASSUME NEW s \in Seq(Frame), s # <<>>, NEW g \in Frame, NEW a, ArenaOK(s, a),
           InArena(g) <=> InArena(Head(s)),
           InArena(g) => g.base = Head(s).base /\ g.snap = Head(s).snap
    PROVE  ArenaOK(<<g>> \o Tail(s), a)
<1> DEFINE t == <<g>> \o Tail(s)
           r == Tail(s)
<1>1. /\ Len(s) \in Nat \ {0} /\ Head(s) = s[1] /\ r \in Seq(Frame) /\ Len(r) = Len(s) - 1
      /\ \A k \in 1 .. Len(s) - 1 : r[k] = s[k + 1]
  BY TailIs
<1>2. /\ t \in Seq(Frame) /\ Len(t) = Len(r) + 1 /\ t[1] = g
      /\ \A k \in 1 .. Len(r) : t[k + 1] = r[k]
  BY <1>1, ConsIs
<1> HIDE DEF t, r
<1>3. Len(t) = Len(s) BY <1>1, <1>2
<1>4. ASSUME NEW k \in 1 .. Len(s), k # 1 PROVE t[k] = s[k]
  <2>1. k - 1 \in 1 .. Len(s) - 1 /\ (k - 1) + 1 = k BY <1>1, <1>4
  <2> QED BY <2>1, <1>1, <1>2
<1>5. \A k \in 1 .. Len(s) : /\ InArena(t[k]) <=> InArena(s[k])
                             /\ InArena(s[k]) => t[k].base = s[k].base /\ t[k].snap = s[k].snap
  BY <1>1, <1>2, <1>4
<1> QED BY <1>2, <1>3, <1>5, ArenaSame DEF t, r

-------------------------------------------------------------------------------
(* Arrays and lists                                                         *)

LEMMA CapacityIs ==
    ASSUME NEW cap \in Nat, NEW need \in Nat, NEW epoch \in Nat
    PROVE  /\ Capacity(cap, need) \in Nat /\ need <= Capacity(cap, need) /\ cap <= Capacity(cap, need)
           /\ Epoch(epoch, cap, need) \in Nat /\ epoch <= Epoch(epoch, cap, need)
<1>1. MinCapacity \in Nat BY DispatchAssumption
<1> QED BY <1>1 DEF Capacity, Epoch, Max2

\* The buckets of the objects that handle an event, appended one after the other.
Appended(event, f, o) == f \o (IF o - 1 \in Handlers[event] THEN bucket[o - 1] ELSE <<>>)
IsAppending(event, f, n) ==
    f = [o \in 0 .. n |-> IF o = 0 THEN <<>> ELSE Appended(event, f[o - 1], o)]

LEMMA AppendingExists == \A event : \A n \in Nat : \E f : IsAppending(event, f, n)
<1> SUFFICES ASSUME NEW event PROVE \A n \in Nat : \E f : IsAppending(event, f, n) OBVIOUS
<1> DEFINE Bad == {n \in Nat : ~ \E f : IsAppending(event, f, n)}
<1>1. SUFFICES ASSUME Bad # {} PROVE FALSE OBVIOUS
<1>2. PICK m \in Bad : \A n \in Bad : m <= n BY <1>1, LeastOf
<1>3. m \in Nat /\ ~ \E f : IsAppending(event, f, m) OBVIOUS
<1>4. CASE m = 0
  <2> DEFINE f == [o \in 0 .. 0 |-> <<>>]
  <2>1. f = [o \in 0 .. 0 |-> IF o = 0 THEN <<>> ELSE Appended(event, f[o - 1], o)] OBVIOUS
  <2>2. IsAppending(event, f, m) BY <2>1, <1>4 DEF IsAppending
  <2> QED BY <2>2, <1>3
<1>5. CASE m # 0
  <2>1. m - 1 \in Nat /\ ~ (m <= m - 1) BY <1>3, <1>5
  <2>2. m - 1 \notin Bad BY <2>1, <1>2
  <2>3. PICK f : IsAppending(event, f, m - 1) BY <2>1, <2>2
  <2> DEFINE g == [o \in 0 .. m |-> IF o = m THEN Appended(event, f[m - 1], m) ELSE f[o]]
  <2>4. ASSUME NEW o \in 0 .. m
        PROVE  g[o] = IF o = 0 THEN <<>> ELSE Appended(event, g[o - 1], o)
    <3>1. CASE o = 0
      <4>1. 0 \in 0 .. m - 1 BY <2>1
      <4>2. f[0] = <<>> BY <4>1, <2>3 DEF IsAppending
      <4> QED BY <3>1, <4>2, <1>5
    <3>2. CASE o # 0 /\ o # m
      <4>1. o \in 0 .. m - 1 /\ o - 1 \in 0 .. m /\ o - 1 # m BY <3>2, <1>3
      <4>2. f[o] = Appended(event, f[o - 1], o) BY <4>1, <3>2, <2>3 DEF IsAppending
      <4>3. g[o] = f[o] /\ g[o - 1] = f[o - 1] BY <4>1, <3>2
      <4> QED BY <4>2, <4>3, <3>2
    <3>3. CASE o = m
      <4>1. m - 1 \in 0 .. m /\ m - 1 # m BY <2>1, <1>3
      <4>2. g[m] = Appended(event, f[m - 1], m) /\ g[m - 1] = f[m - 1] BY <4>1, <1>3
      <4> QED BY <4>2, <3>3, <1>5
    <3> QED BY <3>1, <3>2, <3>3
  <2>5. g = [o \in 0 .. m |-> IF o = 0 THEN <<>> ELSE Appended(event, g[o - 1], o)] BY <2>4
  <2> HIDE DEF g
  <2>6. IsAppending(event, g, m) BY <2>5 DEF IsAppending
  <2> QED BY <2>6, <1>3
<1> QED BY <1>4, <1>5

LEMMA RespondersIs ==
    ASSUME NEW event, bucket \in [Objects -> Seq(Ids)]
    PROVE  Responders(event) \in Seq(Ids)
<1>1. ObjectCount \in Nat BY DispatchAssumption
<1> DEFINE up == CHOOSE f : f = [o \in 0 .. ObjectCount |->
                    IF o = 0 THEN <<>>
                    ELSE f[o - 1] \o (IF o - 1 \in Handlers[event] THEN bucket[o - 1] ELSE <<>>)]
<1>2. Responders(event) = up[ObjectCount] BY Zenon DEF Responders
<1>3. PICK f : IsAppending(event, f, ObjectCount) BY <1>1, AppendingExists
<1>4. f = [o \in 0 .. ObjectCount |->
              IF o = 0 THEN <<>>
              ELSE f[o - 1] \o (IF o - 1 \in Handlers[event] THEN bucket[o - 1] ELSE <<>>)]
  BY <1>3 DEF IsAppending, Appended
<1>5. up = [o \in 0 .. ObjectCount |->
              IF o = 0 THEN <<>>
              ELSE up[o - 1] \o (IF o - 1 \in Handlers[event] THEN bucket[o - 1] ELSE <<>>)]
  BY <1>4, Zenon
<1> HIDE DEF up
<1> DEFINE Bad == {o \in 0 .. ObjectCount : up[o] \notin Seq(Ids)}
<1>6. SUFFICES ASSUME Bad # {} PROVE FALSE
  <2>1. ObjectCount \in 0 .. ObjectCount BY <1>1
  <2> QED BY <1>2, <2>1
<1>7. Bad \in SUBSET Nat BY <1>1
<1>8. PICK m \in Bad : \A n \in Bad : m <= n
  <2> HIDE DEF Bad
  <2> QED BY <1>6, <1>7, LeastOf
<1>9. m \in 0 .. ObjectCount /\ up[m] \notin Seq(Ids) OBVIOUS
<1>10. CASE m = 0
  <2>1. up[0] = <<>> BY <1>5, <1>9, <1>10
  <2>2. <<>> \in Seq(Ids) BY EmptySeq
  <2> QED BY <2>1, <2>2, <1>9, <1>10
<1>11. CASE m # 0
  <2>1. m - 1 \in 0 .. ObjectCount /\ ~ (m <= m - 1) /\ m - 1 \in Objects
    BY <1>1, <1>9, <1>11 DEF Objects
  <2>2. up[m - 1] \in Seq(Ids) BY <2>1, <1>8
  <2>3. bucket[m - 1] \in Seq(Ids) /\ <<>> \in Seq(Ids) BY <2>1, EmptySeq
  <2> DEFINE more == IF m - 1 \in Handlers[event] THEN bucket[m - 1] ELSE <<>>
  <2>4. more \in Seq(Ids) BY <2>3
  <2>5. up[m] = up[m - 1] \o more BY <1>5, <1>9, <1>11
  <2> HIDE DEF more
  <2>6. up[m - 1] \o more \in Seq(Ids) BY <2>2, <2>4, ConcatProperties
  <2> QED BY <2>5, <2>6, <1>9
<1> QED BY <1>10, <1>11

-------------------------------------------------------------------------------
(* What a step does to the frames                                           *)

LEMMA MovedIs ==
    ASSUME NEW f \in Loop
    PROVE  LET g == [f EXCEPT !.pos = @ + 1] IN
           /\ g \in Loop /\ g.kind = "loop" /\ g.via = f.via /\ g.event = f.event
           /\ g.object = f.object /\ g.self = f.self
           /\ g.targets = f.targets /\ g.base = f.base /\ g.snap = f.snap /\ g.pos = f.pos + 1
           /\ g.epoch = f.epoch /\ g.overrun = f.overrun
<1> DEFINE g == [f EXCEPT !.pos = @ + 1]
<1>1. f.pos \in Nat BY DEF Loop
<1>2. g = [f EXCEPT !.pos = f.pos + 1] OBVIOUS
<1>3. f.pos + 1 \in Nat BY <1>1
<1>4. g \in Loop BY <1>2, <1>3 DEF Loop
<1>5. /\ g.kind = "loop" /\ g.via = f.via /\ g.event = f.event
      /\ g.object = f.object /\ g.self = f.self
      /\ g.targets = f.targets /\ g.base = f.base /\ g.snap = f.snap /\ g.pos = f.pos + 1
      /\ g.epoch = f.epoch /\ g.overrun = f.overrun
  BY <1>2 DEF Loop
<1> QED BY <1>4, <1>5

LEMMA WorldPush ==
    ASSUME NEW s \in Seq(Frame), NEW f \in Frame, f.kind # "loop", NEW a \in Seq(Ids),
           NEW ins, NEW scr, NEW ep, World(s, a, ins, scr, ep)
    PROVE  <<f>> \o s \in Seq(Frame) /\ World(<<f>> \o s, a, ins, scr, ep)
<1>1. <<f>> \o s \in Seq(Frame) BY ConsIs
<1>2. FrameOK(f, ins, scr, ep) /\ ~ InArena(f) BY DEF FrameOK, InArena
<1> QED BY <1>1, <1>2, FramesPush, ArenaPushOther DEF World

LEMMA WorldSetTop ==
    ASSUME NEW s \in Seq(Frame), s # <<>>, NEW g \in Frame, NEW a, NEW ins, NEW scr, NEW ep,
           World(s, a, ins, scr, ep), FrameOK(g, ins, scr, ep),
           InArena(g) <=> InArena(Head(s)),
           InArena(g) => g.base = Head(s).base /\ g.snap = Head(s).snap
    PROVE  <<g>> \o Tail(s) \in Seq(Frame) /\ World(<<g>> \o Tail(s), a, ins, scr, ep)
<1>1. Tail(s) \in Seq(Frame) BY TailIs
<1>2. FramesOK(Tail(s), ins, scr, ep) BY FramesPop DEF World
<1>3. FramesOK(<<g>> \o Tail(s), ins, scr, ep) BY <1>1, <1>2, FramesPush
<1>4. ArenaOK(<<g>> \o Tail(s), a) BY ArenaSetTop DEF World
<1> QED BY <1>1, <1>3, <1>4, ConsIs DEF World

\* A dispatch to all fills the scratch array: the loops over it that go on are those that copied
\* the list of all instances, if that is what is copied again.
LEMMA FilledIs ==
    ASSUME NEW list \in Seq(Ids), scratch \in Seq(Ids)
    PROVE  /\ Filled(list) \in Seq(Ids)
           /\ Len(Filled(list)) = IF Len(scratch) <= Len(list) THEN Len(list) ELSE Len(scratch)
           /\ \A j \in 1 .. Len(list) : Filled(list)[j] = list[j]
<1> DEFINE b == SubSeq(scratch, Len(list) + 1, Len(scratch))
<1>1. Len(list) \in Nat /\ Len(scratch) \in Nat /\ \A j \in 1 .. Len(scratch) : scratch[j] \in Ids
  BY LenProperties
<1>2. b \in Seq(Ids) /\ Len(b) = IF Len(list) + 1 <= Len(scratch)
                                 THEN Len(scratch) - (Len(list) + 1) + 1 ELSE 0
  <2>1. Len(list) + 1 \in Int /\ Len(scratch) \in Int BY <1>1
  <2>2. \A j \in Len(list) + 1 .. Len(scratch) : scratch[j] \in Ids BY <1>1
  <2> QED BY <2>1, <2>2, SubSeqProperties
<1> HIDE DEF b
<1>3. /\ list \o b \in Seq(Ids) /\ Len(list \o b) = Len(list) + Len(b)
      /\ \A j \in 1 .. Len(list) + Len(b) :
            (list \o b)[j] = IF j <= Len(list) THEN list[j] ELSE b[j - Len(list)]
  BY <1>2, ConcatProperties
<1>4. \A j \in 1 .. Len(list) : j \in 1 .. Len(list) + Len(b) /\ j <= Len(list) BY <1>1, <1>2
<1>5. Filled(list) = list \o b BY DEF Filled, b
<1>6. \A j \in 1 .. Len(list) : (list \o b)[j] = list[j] BY <1>3, <1>4
<1> QED BY <1>1, <1>2, <1>3, <1>5, <1>6

LEMMA OverrunIs ==
    ASSUME NEW s \in Seq(Frame)
    PROVE  /\ Overrun(s) \in Seq(Frame) /\ Len(Overrun(s)) = Len(s)
           /\ \A k \in 1 .. Len(s) :
                 LET f == s[k]  g == Overrun(s)[k] IN
                 /\ g.kind = f.kind
                 /\ f.kind = "loop" =>
                       /\ g.via = f.via /\ g.event = f.event /\ g.object = f.object
                       /\ g.self = f.self /\ g.targets = f.targets
                       /\ g.base = f.base /\ g.snap = f.snap /\ g.pos = f.pos /\ g.epoch = f.epoch
                       /\ g.via = "scratch" => g.overrun = TRUE
<1> DEFINE Marked(f) == IF f.kind = "loop" THEN IF f.via = "scratch"
                           THEN [f EXCEPT !.overrun = TRUE] ELSE f ELSE f
<1>1. Len(s) \in Nat /\ DOMAIN s = 1 .. Len(s) /\ \A k \in 1 .. Len(s) : s[k] \in Frame
  BY LenProperties
<1>2. ASSUME NEW f \in Frame
      PROVE  /\ Marked(f) \in Frame /\ Marked(f).kind = f.kind
             /\ f.kind = "loop" =>
                   LET g == Marked(f) IN
                       /\ g.via = f.via /\ g.event = f.event /\ g.object = f.object
                       /\ g.self = f.self /\ g.targets = f.targets
                       /\ g.base = f.base /\ g.snap = f.snap /\ g.pos = f.pos /\ g.epoch = f.epoch
                       /\ g.via = "scratch" => g.overrun = TRUE
  <2>1. CASE f.kind # "loop" BY <2>1
  <2>2. CASE f.kind = "loop"
    <3>1. f \in Loop BY <2>2, FrameIs
    <3>2. CASE f.via # "scratch" BY <3>2, <2>2
    <3>3. CASE f.via = "scratch"
      <4> DEFINE g == [f EXCEPT !.overrun = TRUE]
      <4>1. /\ g \in Loop /\ g.kind = "loop" /\ g.via = f.via /\ g.event = f.event
            /\ g.object = f.object /\ g.self = f.self
            /\ g.targets = f.targets /\ g.base = f.base /\ g.snap = f.snap /\ g.pos = f.pos
            /\ g.epoch = f.epoch /\ g.overrun = TRUE
        BY <3>1 DEF Loop
      <4>2. Marked(f) = g BY <3>3, <2>2
      <4> HIDE DEF g, Marked
      <4> QED BY <4>1, <4>2, <2>2 DEF Frame
    <3> QED BY <3>2, <3>3
  <2> QED BY <2>1, <2>2
<1>3. Overrun(s) = [k \in 1 .. Len(s) |-> Marked(s[k])] BY <1>1 DEF Overrun
<1> HIDE DEF Marked
<1> DEFINE t == [k \in 1 .. Len(s) |-> Marked(s[k])]
<1>4. t \in [1 .. Len(s) -> Frame] BY <1>1, <1>2
<1>5. t \in Seq(Frame) /\ Len(t) = Len(s) BY <1>1, <1>4
<1>6. \A k \in 1 .. Len(s) : t[k] = Marked(s[k]) OBVIOUS
<1>7. Overrun(s) = t BY <1>3
<1> HIDE DEF t
<1>8. ASSUME NEW k \in 1 .. Len(s)
      PROVE  /\ t[k].kind = s[k].kind
             /\ s[k].kind = "loop" =>
                   LET f == s[k]  g == t[k] IN
                       /\ g.via = f.via /\ g.event = f.event /\ g.object = f.object
                       /\ g.self = f.self /\ g.targets = f.targets
                       /\ g.base = f.base /\ g.snap = f.snap /\ g.pos = f.pos /\ g.epoch = f.epoch
                       /\ g.via = "scratch" => g.overrun = TRUE
  <2>1. s[k] \in Frame /\ t[k] = Marked(s[k]) BY <1>1, <1>6
  <2> QED BY <2>1, <1>2
<1> QED BY <1>5, <1>7, <1>8

-------------------------------------------------------------------------------
(* The inductive invariant of the lists, arrays and loops                   *)

LoopEvents == Events \cup {"Hit", "Write"}
LoopObjects == Objects \cup {Everyone}

ListsType ==
    /\ instances \in Seq(Ids) /\ bucket \in [Objects -> Seq(Ids)]
    /\ inst \in [Ids -> Instance] /\ nextId \in Nat \ {0}
ArenaType ==
    arena \in Seq(Ids) /\ arenaCap \in Nat /\ arenaEpoch \in Nat /\ Len(arena) <= arenaCap
ScratchType ==
    /\ scratch \in Seq(Ids) /\ scratchCap \in Nat /\ scratchEpoch \in Nat
    /\ Len(scratch) <= scratchCap
FlagsType == lives \in BOOLEAN /\ pendingRoom \in BOOLEAN /\ crashed \in BOOLEAN
HistoryType == frames \in Nat /\ ops \in Nat /\ ticks \in [Ids -> Nat] /\ changed \subseteq Ids

\* An instance is listed once, in the bucket of its object, and was created.
ListsInv ==
    /\ \A k \in 1 .. Len(instances) : instances[k] < nextId
    /\ \A o \in Objects :
          /\ \A k \in 1 .. Len(bucket[o]) :
                bucket[o][k] < nextId /\ inst[bucket[o][k]].object = o
          /\ \A k, m \in 1 .. Len(bucket[o]) : bucket[o][k] = bucket[o][m] => k = m

\* Entries of the agenda are for the list of all instances or for some objects; alarms are
\* among the second, and are due once.
Entry == (Events \cup {"Cleanup"}) \X SUBSET LoopObjects
EntryOK(e) ==
    /\ e[2] # {} /\ (e[2] = {Everyone} \/ e[2] \subseteq Objects)
    /\ e[1] = "Alarm" => e[2] \subseteq Objects
AgendaOK(ag) ==
    /\ ag \in Seq(Entry)
    /\ \A k \in 1 .. Len(ag) : EntryOK(ag[k])
    /\ \A k, m \in 1 .. Len(ag) : ag[k][1] = "Alarm" /\ ag[m][1] = "Alarm" => k = m

StackInv == stack \in Seq(Frame) /\ World(stack, arena, instances, scratch, scratchEpoch)

IInv ==
    /\ ListsType /\ ArenaType /\ ScratchType /\ FlagsType /\ HistoryType
    /\ ListsInv /\ AgendaOK(agenda) /\ StackInv

LEMMA TypesFollow == IInv => TypeOK
BY DEF IInv, TypeOK, ListsType, ArenaType, ScratchType, FlagsType, HistoryType,
       AgendaOK, Entry, LoopObjects, StackInv, Frame

LEMMA CopiesFollow == IInv => LoopsReadTheirCopies
<1> SUFFICES ASSUME IInv PROVE LoopsReadTheirCopies OBVIOUS
<1>1. stack \in Seq(Frame) /\ DOMAIN stack = 1 .. Len(stack) /\ \A k \in 1 .. Len(stack) : stack[k] \in Frame
  BY LenProperties DEF IInv, StackInv
<1>2. DOMAIN arena = 1 .. Len(arena) BY LenProperties DEF IInv, ArenaType
<1>3. \A k : k \in ArenaLoops <=> k \in 1 .. Len(stack) /\ InArena(stack[k])
  BY <1>1 DEF ArenaLoops, LoopsOver, InArena
<1>4. \A k \in 1 .. Len(stack) : stack[k].kind = "loop" => DOMAIN stack[k].snap = 1 .. Len(stack[k].snap)
  BY <1>1, LoopIs
<1>5. ArenaOK(stack, arena) /\ FramesOK(stack, instances, scratch, scratchEpoch)
  BY DEF IInv, StackInv, World
<1>6. ArenaIsTheLoops
  <2>1. ASSUME NEW k \in ArenaLoops
        PROVE  /\ End(stack[k]) <= Len(arena)
               /\ \A j \in DOMAIN stack[k].snap : arena[stack[k].base + j] = stack[k].snap[j]
    <3>1. k \in 1 .. Len(stack) /\ InArena(stack[k]) BY <1>3
    <3>2. DOMAIN stack[k].snap = 1 .. Len(stack[k].snap) BY <3>1, <1>4 DEF InArena
    <3> QED BY <3>1, <3>2, <1>5 DEF ArenaOK
  <2>2. \A k, m \in ArenaLoops : k < m => stack[k].base >= End(stack[m])
    BY <1>3, <1>5 DEF ArenaOK
  <2>3. \A p \in DOMAIN arena : \E k \in ArenaLoops : stack[k].base < p /\ p <= End(stack[k])
    <3>1. ASSUME NEW p \in 1 .. Len(arena)
          PROVE  \E k \in ArenaLoops : stack[k].base < p /\ p <= End(stack[k])
      <4>1. PICK k \in 1 .. Len(stack) : InArena(stack[k]) /\ stack[k].base < p /\ p <= End(stack[k])
        BY <1>5 DEF ArenaOK
      <4>2. k \in ArenaLoops BY <4>1, <1>3
      <4> QED BY <4>1, <4>2
    <3> QED BY <3>1, <1>2
  <2> QED BY <2>1, <2>2, <2>3 DEF ArenaIsTheLoops
<1>7. ScratchReads
  <2> SUFFICES ASSUME NEW k \in LoopsOver({"scratch"}),
                      stack[k].epoch = scratchEpoch,
                      ~ stack[k].overrun \/ stack[k].event \in ListForAll,
                      NEW j \in DOMAIN stack[k].snap
               PROVE  scratch[j] = stack[k].snap[j]
    BY DEF ScratchReads
  <2>1. k \in 1 .. Len(stack) /\ stack[k].kind = "loop" /\ stack[k].via = "scratch"
    BY <1>1 DEF LoopsOver
  <2>2. j \in 1 .. Len(stack[k].snap) BY <2>1, <1>4
  <2>3. FrameOK(stack[k], instances, scratch, scratchEpoch) BY <2>1, <1>5 DEF FramesOK
  <2> QED BY <2>1, <2>2, <2>3 DEF FrameOK
<1> QED BY <1>6, <1>7 DEF LoopsReadTheirCopies

-------------------------------------------------------------------------------
(* Steps that several actions take                                          *)

LEMMA LoopOfIs ==
    ASSUME NEW event \in LoopEvents, NEW object \in LoopObjects, NEW base \in Nat, NEW snap \in Seq(Ids),
           NEW f, f = LoopOf(event, object, "arena", base, snap)
    PROVE  /\ f \in Loop /\ f.kind = "loop" /\ f.via = "arena" /\ f.event = event
           /\ f.object = object /\ f.self = 0 /\ f.targets = <<>> /\ f.base = base /\ f.snap = snap
           /\ f.pos = 1 /\ f.epoch = 0
<1>1. <<>> \in Seq(Objects) BY EmptySeq
<1> QED BY <1>1 DEF LoopOf, Loop, LoopEvents, LoopObjects

LEMMA ForAllEvents ==
    /\ ForAll \subseteq Events /\ BucketLoops \subseteq Events /\ ToSet(MouseStages) \subseteq Events
    /\ BucketForAll \cap ListForAll = {} /\ "Timeline" \in Events
    /\ ToSet(MouseStages) = {"MouseEnter", "MouseHeld", "MouseReleased"}
    /\ ForAll \cap ({"Alarm", "OutsideRoom", "Collision", "Timeline", "Hit", "Write"} \cup ToSet(MouseStages)) = {}
    /\ \A e \in Events : e # "Hit" /\ e # "Write"
<1>1. ToSet(MouseStages) = {"MouseEnter", "MouseHeld", "MouseReleased"} BY DEF ToSet, MouseStages
<1> QED BY <1>1 DEF ForAll, BucketForAll, ListForAll, BucketLoops, Events

LEMMA ExecuteForAllStep ==
    ASSUME ListsType, ArenaType, ScratchType, NEW event \in ForAll, NEW rest \in Seq(Frame),
           World(rest, arena, instances, scratch, scratchEpoch),
           rest = <<>> \/ event \in ListForAll,
           ExecuteEventForAll(event, rest)
    PROVE  /\ ScratchType' /\ stack' \in Seq(Frame)
           /\ World(stack', arena, instances, scratch', scratchEpoch')
<1> DEFINE list == Dispatched(event)
<1>1. list \in Seq(Ids) BY RespondersIs DEF Dispatched, ListsType
<1>2. event \in ListForAll => list = instances
  BY ForAllEvents DEF Dispatched
<1> HIDE DEF list
<1>3. CASE Handlers[event] = {} \/ list = <<>>
  <2>1. stack' = rest /\ UNCHANGED scratchVars BY <1>3 DEF ExecuteEventForAll, list
  <2> QED BY <2>1 DEF scratchVars, ScratchType
<1>4. CASE ~ (Handlers[event] = {} \/ list = <<>>)
  <2> DEFINE need == Len(list)
             f == [LoopOf(event, Everyone, "scratch", 0, list) EXCEPT !.epoch = scratchEpoch']
             t == Overrun(rest)
  <2>1. /\ scratch' = Filled(list) /\ scratchCap' = Capacity(scratchCap, need)
        /\ scratchEpoch' = Epoch(scratchEpoch, scratchCap, need)
        /\ stack' = <<f>> \o t
    BY <1>4 DEF ExecuteEventForAll, list
  <2>2. Len(list) \in Nat /\ Len(instances) \in Nat /\ Len(scratch) \in Nat
    BY <1>1, LenProperties DEF ListsType, ScratchType
  <2>3. /\ scratch' \in Seq(Ids)
        /\ Len(scratch') = IF Len(scratch) <= Len(list) THEN Len(list) ELSE Len(scratch)
        /\ \A j \in 1 .. Len(list) : scratch'[j] = list[j]
    BY <2>1, <1>1, FilledIs DEF ScratchType
  <2>4. /\ scratchCap' \in Nat /\ need <= scratchCap' /\ scratchCap <= scratchCap'
        /\ scratchEpoch' \in Nat /\ scratchEpoch <= scratchEpoch'
    BY <2>1, <2>2, CapacityIs DEF ScratchType
  <2>5. ScratchType'
    <3>1. Len(scratch) <= scratchCap /\ scratchCap \in Nat BY DEF ScratchType
    <3>2. Len(scratch') <= scratchCap' BY <2>2, <2>3, <2>4, <3>1
    <3> QED BY <2>3, <2>4, <3>2 DEF ScratchType
  <2>6. /\ f \in Loop /\ f.kind = "loop" /\ f.via = "scratch" /\ f.event = event
        /\ f.targets = <<>> /\ f.snap = list /\ f.pos = 1 /\ f.epoch = scratchEpoch'
    <3> DEFINE g == LoopOf(event, Everyone, "scratch", 0, list)
    <3>1. /\ g \in Loop /\ g.kind = "loop" /\ g.via = "scratch" /\ g.event = event
          /\ g.targets = <<>> /\ g.snap = list /\ g.pos = 1
      <4>1. /\ event \in Events \cup {"Hit", "Write"} /\ Everyone \in Objects \cup {Everyone}
            /\ "scratch" \in {"arena", "pointer", "scratch"} /\ 0 \in Nat
        BY ForAllEvents
      <4> HIDE DEF g
      <4>2. g = LoopOf(event, Everyone, "scratch", 0, list) BY DEF g
      <4>3. <<>> \in Seq(Objects) BY EmptySeq
      <4> QED BY <4>1, <4>2, <4>3, <1>1 DEF LoopOf, Loop
    <3> HIDE DEF g
    <3>2. LET h == [g EXCEPT !.epoch = scratchEpoch'] IN
          /\ h \in Loop /\ h.kind = "loop" /\ h.via = "scratch" /\ h.event = event
          /\ h.targets = <<>> /\ h.snap = list /\ h.pos = 1 /\ h.epoch = scratchEpoch'
      BY <3>1, <2>4 DEF Loop
    <3> QED BY <3>2 DEF g
  <2> HIDE DEF f, t
  <2>7. FrameOK(f, instances, scratch', scratchEpoch')
    <3>1. Len(list) <= Len(scratch') BY <2>2, <2>3
    <3>2. event # "Hit" BY ForAllEvents
    <3>3. event \in ListForAll => /\ Len(list) <= Len(instances)
                                  /\ \A j \in 1 .. Len(list) : list[j] = instances[j]
      BY <1>2, <2>2
    <3> QED BY <3>1, <3>2, <3>3, <2>3, <2>4, <2>6 DEF FrameOK
  <2>8. /\ t \in Seq(Frame) /\ Len(t) = Len(rest)
        /\ \A k \in 1 .. Len(rest) :
              /\ t[k].kind = rest[k].kind
              /\ rest[k].kind = "loop" =>
                    /\ t[k].via = rest[k].via /\ t[k].event = rest[k].event
                    /\ t[k].self = rest[k].self /\ t[k].targets = rest[k].targets
                    /\ t[k].base = rest[k].base /\ t[k].snap = rest[k].snap
                    /\ t[k].pos = rest[k].pos /\ t[k].epoch = rest[k].epoch
                    /\ t[k].via = "scratch" => t[k].overrun = TRUE
    BY OverrunIs DEF t
  <2>9. ASSUME NEW k \in 1 .. Len(t), t[k].kind = "loop"
        PROVE  FrameOK(t[k], instances, scratch', scratchEpoch')
    <3> DEFINE g == t[k]
               h == rest[k]
    <3>1. /\ k \in 1 .. Len(rest) /\ h.kind = "loop"
          /\ g.via = h.via /\ g.event = h.event /\ g.self = h.self /\ g.targets = h.targets
          /\ g.base = h.base /\ g.snap = h.snap /\ g.pos = h.pos /\ g.epoch = h.epoch
          /\ g.via = "scratch" => g.overrun = TRUE
      BY <2>8, <2>9
    <3>2. FrameOK(h, instances, scratch, scratchEpoch) BY <3>1 DEF World, FramesOK
    <3>3. h \in Frame BY <3>1, LenProperties
    <3>4. h.epoch \in Nat /\ Len(h.snap) \in Nat BY <3>1, <3>3, LoopIs
    <3>5. event \in ListForAll /\ list = instances
      <4>1. Len(rest) # 0 BY <3>1, LenProperties
      <4>2. rest # <<>> BY <4>1, EmptySeq
      <4> QED BY <4>2, <1>2
    <3> HIDE DEF g, h
    <3>6. g.via = "scratch" => g.epoch <= scratchEpoch' /\ Len(g.snap) <= Len(scratch')
      <4>1. scratchEpoch \in Nat BY DEF ScratchType
      <4> QED BY <4>1, <3>1, <3>2, <3>4, <2>2, <2>3, <2>4 DEF FrameOK
    <3>7. ASSUME g.via = "scratch", ~ g.overrun \/ g.event \in ListForAll,
                 NEW j \in 1 .. Len(g.snap)
          PROVE  scratch'[j] = g.snap[j]
      <4>1. h.event \in ListForAll BY <3>1, <3>7
      <4>2. Len(h.snap) <= Len(instances) /\ h.snap[j] = instances[j]
        BY <4>1, <3>1, <3>2, <3>7 DEF FrameOK
      <4>3. j \in 1 .. Len(list) BY <4>2, <3>1, <3>4, <3>5, <3>7, <2>2
      <4> QED BY <4>2, <4>3, <3>1, <3>5, <2>3
    <3>8. FrameOK(g, instances, scratch', scratchEpoch')
      BY <3>1, <3>2, <3>6, <3>7 DEF FrameOK
    <3> QED BY <3>8 DEF g
  <2>10. FramesOK(t, instances, scratch', scratchEpoch')
    BY <2>9 DEF FramesOK, FrameOK
  <2>11. ArenaOK(t, arena)
    <3>1. \A k \in 1 .. Len(rest) :
             /\ InArena(t[k]) <=> InArena(rest[k])
             /\ InArena(rest[k]) => t[k].base = rest[k].base /\ t[k].snap = rest[k].snap
      BY <2>8 DEF InArena
    <3> QED BY <3>1, <2>8, ArenaSame DEF World
  <2>12. f \in Frame /\ ~ InArena(f) BY <2>6 DEF Frame, InArena
  <2>13. FramesOK(<<f>> \o t, instances, scratch', scratchEpoch')
    BY <2>7, <2>8, <2>10, <2>12, FramesPush
  <2>14. ArenaOK(<<f>> \o t, arena)
    BY <2>8, <2>11, <2>12, ArenaPushOther DEF ArenaType
  <2> QED BY <2>1, <2>5, <2>8, <2>12, <2>13, <2>14, ConsIs DEF World
<1> QED BY <1>3, <1>4

LEMMA SetLivesStep ==
    ASSUME ListsType, ArenaType, ScratchType, lives \in BOOLEAN, NEW positive \in BOOLEAN,
           NEW rest \in Seq(Frame), World(rest, arena, instances, scratch, scratchEpoch),
           SetLives(positive, rest)
    PROVE  /\ lives' \in BOOLEAN /\ ScratchType' /\ stack' \in Seq(Frame)
           /\ World(stack', arena, instances, scratch', scratchEpoch')
<1>1. lives' = positive BY DEF SetLives
<1>2. CASE lives /\ ~ positive
  <2>1. ExecuteEventForAll("NoMoreLives", rest) BY <1>2 DEF SetLives
  <2>2. "NoMoreLives" \in ForAll /\ "NoMoreLives" \in ListForAll BY DEF ForAll, ListForAll
  <2> QED BY <1>1, <2>1, <2>2, ExecuteForAllStep
<1>3. CASE ~ (lives /\ ~ positive)
  <2>1. stack' = rest /\ UNCHANGED scratchVars BY <1>3 DEF SetLives
  <2> QED BY <1>1, <2>1 DEF scratchVars, ScratchType
<1> QED BY <1>2, <1>3

LEMMA PushStep ==
    ASSUME ArenaType, NEW list \in Seq(Ids), Push(list)
    PROVE  ArenaType' /\ arena' = arena \o list
<1>1. Len(arena) \in Nat /\ Len(list) \in Nat BY LenProperties DEF ArenaType
<1>2. arena' \in Seq(Ids) /\ Len(arena') = Len(arena) + Len(list)
  BY ConcatProperties DEF ArenaType, Push
<1>3. Len(arena) + Len(list) \in Nat BY <1>1
<1>4. arenaCap' \in Nat /\ Len(arena) + Len(list) <= arenaCap' /\ arenaEpoch' \in Nat
  BY <1>3, CapacityIs DEF ArenaType, Push
<1> QED BY <1>2, <1>4 DEF ArenaType, Push

\* A loop over a copy on the arena starts above some frames.
LEMMA PushLoopStep ==
    ASSUME ListsType, ArenaType, NEW list \in Seq(Ids), Push(list),
           NEW rest \in Seq(Frame), World(rest, arena, instances, scratch, scratchEpoch),
           NEW f \in Loop, f.via = "arena", f.event \notin ForAll, f.pos = 1, f.targets = <<>>,
           f.event = "Hit" => f.self \in Ids, f.base = Len(arena), f.snap = list
    PROVE  /\ ArenaType' /\ <<f>> \o rest \in Seq(Frame)
           /\ World(<<f>> \o rest, arena', instances, scratch, scratchEpoch)
<1>1. ArenaType' /\ arena' = arena \o list BY PushStep
<1>2. f \in Frame /\ f.kind = "loop" BY DEF Frame, Loop
<1>3. InArena(f) BY <1>2 DEF InArena
<1>4. arena \in Seq(Ids) BY DEF ArenaType
<1>5. ArenaOK(<<f>> \o rest, arena \o f.snap) BY <1>2, <1>3, <1>4, ArenaPush DEF World
<1>6. FrameOK(f, instances, scratch, scratchEpoch)
  <2>1. f.event \notin ListForAll BY DEF ForAll
  <2> QED BY <2>1 DEF FrameOK
<1>7. FramesOK(<<f>> \o rest, instances, scratch, scratchEpoch)
  BY <1>2, <1>6, FramesPush DEF World
<1> QED BY <1>1, <1>2, <1>5, <1>7, ConsIs DEF World

LEMMA TopIs ==
    ASSUME IInv, stack # <<>>
    PROVE  /\ Top \in Frame /\ Below \in Seq(Frame)
           /\ FrameOK(Top, instances, scratch, scratchEpoch)
           /\ FramesOK(Below, instances, scratch, scratchEpoch)
           /\ ~ InArena(Top) => ArenaOK(Below, arena)
BY TailIs, FramesPop, ArenaPopOther DEF IInv, StackInv, World, Top, Below

LEMMA PopStep ==
    ASSUME IInv, stack # <<>>, InArena(Top), Pop(Top.base)
    PROVE  ArenaType' /\ ArenaOK(Below, arena')
<1>1. arena \in Seq(Ids) /\ ArenaOK(stack, arena) /\ stack \in Seq(Frame)
  BY DEF IInv, ArenaType, StackInv, World
<1>2. /\ arena' = SubSeq(arena, 1, Top.base) /\ UNCHANGED <<arenaCap, arenaEpoch>>
  BY DEF Pop
<1>3. /\ arena' \in Seq(Ids) /\ Len(arena') = Top.base /\ Top.base <= Len(arena)
      /\ ArenaOK(Below, arena')
  BY <1>1, <1>2, ArenaPop DEF Top, Below
<1>4. Top.base \in Nat /\ Len(arena) \in Nat
  <2>1. Top \in Frame BY TopIs
  <2> QED BY <2>1, <1>1, LoopIs, LenProperties DEF InArena
<1>5. Len(arena') <= arenaCap'
  <2>1. Len(arena) <= arenaCap /\ arenaCap \in Nat BY DEF IInv, ArenaType
  <2> QED BY <2>1, <1>2, <1>3, <1>4
<1> QED BY <1>2, <1>3, <1>5 DEF IInv, ArenaType

\* What a loop reads is an instance of its copy.
LEMMA ReadIs ==
    ASSUME IInv, Running("loop"), Top.pos <= Len(Top.snap)
    PROVE  /\ Top.pos \in 1 .. Len(Top.snap) /\ Read(Top) \in Ids
           /\ Top.via # "scratch" => Read(Top) = Top.snap[Top.pos]
<1>1. stack # <<>> /\ Top.kind = "loop" BY DEF Running
<1>2. Top \in Frame /\ FrameOK(Top, instances, scratch, scratchEpoch) BY <1>1, TopIs
<1>3. /\ Top.snap \in Seq(Ids) /\ Len(Top.snap) \in Nat /\ DOMAIN Top.snap = 1 .. Len(Top.snap)
      /\ Top.pos \in Nat /\ Top.via \in {"arena", "pointer", "scratch"} /\ Top.base \in Nat
  BY <1>1, <1>2, LoopIs
<1>4. Top.pos \in 1 .. Len(Top.snap) BY <1>1, <1>2, <1>3 DEF FrameOK
<1>5. Top.snap[Top.pos] \in Ids BY <1>3, <1>4
<1>6. CASE ~ Intact(Top) BY <1>4, <1>5, <1>6 DEF Read
<1>7. CASE Intact(Top) /\ Top.via = "scratch"
  <2>1. Read(Top) = scratch[Top.pos] BY <1>7 DEF Read
  <2>2. scratch \in Seq(Ids) /\ Len(scratch) \in Nat BY LenProperties DEF IInv, ScratchType
  <2>3. Len(Top.snap) <= Len(scratch) BY <1>1, <1>2, <1>7 DEF FrameOK
  <2>4. Top.pos \in 1 .. Len(scratch) BY <2>2, <2>3, <1>3, <1>4
  <2>5. scratch[Top.pos] \in Ids BY <2>2, <2>4
  <2> QED BY <2>1, <2>5, <1>4, <1>7
<1>8. CASE Intact(Top) /\ Top.via # "scratch"
  <2>1. Read(Top) = arena[Top.base + Top.pos] BY <1>8 DEF Read
  <2>2. InArena(Top) BY <1>1, <1>3, <1>8 DEF InArena
  <2>3. stack \in Seq(Frame) /\ ArenaOK(stack, arena) BY DEF IInv, StackInv, World
  <2>4. 1 \in 1 .. Len(stack) /\ Top = stack[1] BY <2>3, <1>1, TailIs DEF Top
  <2>5. arena[Top.base + Top.pos] = Top.snap[Top.pos] BY <2>2, <2>3, <2>4, <1>4 DEF ArenaOK
  <2> QED BY <2>1, <2>5, <1>4, <1>5
<1> QED BY <1>6, <1>7, <1>8

\* The top loop goes on to the next position.
LEMMA AdvancedIs ==
    ASSUME IInv, Running("loop")
    PROVE  Advanced \in Seq(Frame) /\ World(Advanced, arena, instances, scratch, scratchEpoch)
<1>1. stack # <<>> /\ Top.kind = "loop" BY DEF Running
<1>2. Top \in Frame /\ FrameOK(Top, instances, scratch, scratchEpoch) BY <1>1, TopIs
<1>3. Top \in Loop /\ Top.pos \in Nat BY <1>1, <1>2, LoopIs
<1> DEFINE g == [Top EXCEPT !.pos = @ + 1]
<1>4. /\ g \in Loop /\ g.kind = "loop" /\ g.via = Top.via /\ g.event = Top.event
      /\ g.self = Top.self /\ g.targets = Top.targets /\ g.base = Top.base /\ g.snap = Top.snap
      /\ g.pos = Top.pos + 1 /\ g.epoch = Top.epoch /\ g.overrun = Top.overrun
  BY <1>3, MovedIs
<1>5. Advanced = <<g>> \o Tail(stack) BY DEF Advanced, Below
<1> HIDE DEF g
<1>6. g.pos >= 1 BY <1>3, <1>4
<1>7. FrameOK(g, instances, scratch, scratchEpoch) BY <1>1, <1>2, <1>4, <1>6 DEF FrameOK
<1>8. g \in Frame BY <1>4 DEF Frame
<1>9. /\ InArena(g) <=> InArena(Head(stack))
      /\ InArena(g) => g.base = Head(stack).base /\ g.snap = Head(stack).snap
  BY <1>1, <1>4 DEF InArena, Top
<1> QED BY <1>1, <1>5, <1>7, <1>8, <1>9, WorldSetTop DEF IInv, StackInv

\* Game code is called above some frames, or is not.
LEMMA ExecuteIs ==
    ASSUME NEW rest \in Seq(Frame), NEW a \in Seq(Ids), NEW ins, NEW scr, NEW ep,
           World(rest, a, ins, scr, ep), NEW i \in Ids, NEW e \in Events
    PROVE  Execute(i, e, rest) \in Seq(Frame) /\ World(Execute(i, e, rest), a, ins, scr, ep)
<1>1. CASE Blocked(e) BY <1>1 DEF Execute
<1>2. CASE ~ Blocked(e)
  <2> DEFINE f == [kind |-> "code", self |-> i, event |-> e]
  <2>1. f \in Frame /\ f.kind # "loop" BY DEF Frame, Code
  <2>2. Execute(i, e, rest) = <<f>> \o rest BY <1>2 DEF Execute
  <2> HIDE DEF f
  <2> QED BY <2>1, <2>2, WorldPush
<1> QED BY <1>1, <1>2

-------------------------------------------------------------------------------
(* Actions of game code                                                     *)

LEMMA Kept ==
    IInv => /\ UNCHANGED lists => ListsType' /\ ListsInv'
            /\ UNCHANGED arenaVars => ArenaType'
            /\ UNCHANGED scratchVars => ScratchType'
            /\ UNCHANGED <<lives, pendingRoom, crashed>> => FlagsType'
            /\ UNCHANGED agenda => AgendaOK(agenda')
            /\ UNCHANGED <<frames, ops, history>> => HistoryType'
            /\ UNCHANGED <<stack, arena, instances, scratch, scratchEpoch>> => StackInv'
<1> SUFFICES ASSUME IInv
             PROVE  /\ UNCHANGED lists => ListsType' /\ ListsInv'
                    /\ UNCHANGED arenaVars => ArenaType'
                    /\ UNCHANGED scratchVars => ScratchType'
                    /\ UNCHANGED <<lives, pendingRoom, crashed>> => FlagsType'
                    /\ UNCHANGED agenda => AgendaOK(agenda')
                    /\ UNCHANGED <<frames, ops, history>> => HistoryType'
                    /\ UNCHANGED <<stack, arena, instances, scratch, scratchEpoch>> => StackInv'
  OBVIOUS
<1>1. UNCHANGED lists => ListsType' BY DEF IInv, ListsType, lists
<1>2. UNCHANGED lists => ListsInv' BY DEF IInv, ListsInv, lists
<1>3. UNCHANGED arenaVars => ArenaType' BY DEF IInv, ArenaType, arenaVars
<1>4. UNCHANGED scratchVars => ScratchType' BY DEF IInv, ScratchType, scratchVars
<1>5. UNCHANGED <<lives, pendingRoom, crashed>> => FlagsType' BY DEF IInv, FlagsType
<1>6. UNCHANGED agenda => AgendaOK(agenda') BY DEF IInv
<1>7. UNCHANGED <<frames, ops, history>> => HistoryType' BY DEF IInv, HistoryType, history
<1>8. UNCHANGED <<stack, arena, instances, scratch, scratchEpoch>> => StackInv' BY DEF IInv, StackInv
<1> QED BY <1>1, <1>2, <1>3, <1>4, <1>5, <1>6, <1>7, <1>8

\* What code does to the lists leaves the loops alone.
LEMMA CodeKeeps ==
    ASSUME IInv, NEW op, Does(op), InCode, SameStack, pendingRoom' \in BOOLEAN,
           UNCHANGED ticks, changed' \subseteq Ids
    PROVE  /\ ArenaType' /\ ScratchType' /\ FlagsType' /\ HistoryType' /\ AgendaOK(agenda')
           /\ UNCHANGED instances => StackInv'
<1>1. UNCHANGED <<arenaVars, scratchVars, lives, stack, agenda, crashed, frames>>
  BY DEF InCode, SameStack
<1>2. ArenaType' /\ ScratchType' /\ AgendaOK(agenda') BY <1>1, Kept
<1>3. FlagsType' BY <1>1 DEF IInv, FlagsType
<1>4. HistoryType' BY <1>1 DEF IInv, HistoryType, Does
<1>5. UNCHANGED instances => StackInv' BY <1>1, Kept DEF arenaVars, scratchVars
<1> QED BY <1>2, <1>3, <1>4, <1>5

LEMMA KnownIs ==
    ASSUME IInv, NEW i \in Known
    PROVE  i \in Ids /\ i < nextId
<1>1. instances \in Seq(Ids) /\ DOMAIN instances = 1 .. Len(instances)
  BY LenProperties DEF IInv, ListsType
<1>2. PICK k \in 1 .. Len(instances) : instances[k] = i BY <1>1 DEF Known, ToSet
<1> QED BY <1>1, <1>2 DEF IInv, ListsInv

\* Fields other than the object change.
LEMMA FieldsChange ==
    ASSUME IInv, UNCHANGED <<instances, bucket, nextId>>, inst' \in [Ids -> Instance],
           \A i \in Ids : inst'[i].object = inst[i].object
    PROVE  ListsType' /\ ListsInv'
<1>1. ListsType' BY DEF IInv, ListsType
<1>2. \A o \in Objects : \A k \in 1 .. Len(bucket[o]) : bucket[o][k] \in Ids
  BY DEF IInv, ListsType
<1>3. ListsInv' BY <1>2 DEF IInv, ListsInv
<1> QED BY <1>1, <1>3

LEMMA InstanceCreateStep ==
    ASSUME IInv, NEW o \in Objects, InstanceCreate(o) PROVE IInv'
<1>1. /\ Does("create") /\ nextId <= MaxId
      /\ instances' = Append(instances, nextId)
      /\ bucket' = [bucket EXCEPT ![o] = Append(@, nextId)]
      /\ inst' = [inst EXCEPT ![nextId].object = o]
      /\ nextId' = nextId + 1
      /\ SameStack /\ InCode /\ UNCHANGED <<pendingRoom, history>>
  BY DEF InstanceCreate
<1>2. /\ instances \in Seq(Ids) /\ bucket \in [Objects -> Seq(Ids)] /\ inst \in [Ids -> Instance]
      /\ nextId \in Nat \ {0} /\ MaxId \in Nat
  BY DispatchAssumption DEF IInv, ListsType
<1>3. nextId \in Ids BY <1>1, <1>2 DEF Ids
<1>4. /\ instances' \in Seq(Ids) /\ Len(instances') = Len(instances) + 1 /\ Len(instances) \in Nat
      /\ \A k \in 1 .. Len(instances) : instances'[k] = instances[k]
      /\ instances'[Len(instances) + 1] = nextId
  BY <1>1, <1>2, <1>3, AppendProperties, LenProperties
<1>5. /\ bucket[o] \in Seq(Ids) /\ bucket'[o] = Append(bucket[o], nextId)
      /\ \A p \in Objects : p # o => bucket'[p] = bucket[p]
  BY <1>1, <1>2
<1>6. /\ bucket'[o] \in Seq(Ids) /\ Len(bucket'[o]) = Len(bucket[o]) + 1 /\ Len(bucket[o]) \in Nat
      /\ \A k \in 1 .. Len(bucket[o]) : bucket'[o][k] = bucket[o][k]
      /\ bucket'[o][Len(bucket[o]) + 1] = nextId
  BY <1>3, <1>5, AppendProperties, LenProperties
<1>7. bucket' \in [Objects -> Seq(Ids)] BY <1>1, <1>2, <1>6
<1>8. /\ inst' \in [Ids -> Instance] /\ inst'[nextId].object = o
      /\ \A i \in Ids : i # nextId => inst'[i] = inst[i]
  BY <1>1, <1>2, <1>3 DEF Instance
<1>9. ListsType' BY <1>1, <1>2, <1>4, <1>7, <1>8 DEF ListsType
<1>10. ListsInv'
  <2>1. \A k \in 1 .. Len(instances') : instances'[k] < nextId'
    <3>1. ASSUME NEW k \in 1 .. Len(instances') PROVE instances'[k] < nextId'
      <4>1. CASE k = Len(instances) + 1 BY <4>1, <1>1, <1>2, <1>4
      <4>2. CASE k # Len(instances) + 1
        <5>1. k \in 1 .. Len(instances) BY <4>2, <1>4
        <5>2. instances[k] < nextId /\ instances[k] \in Ids BY <5>1, <1>2 DEF IInv, ListsInv
        <5> QED BY <5>1, <5>2, <1>1, <1>2, <1>4 DEF Ids
      <4> QED BY <4>1, <4>2
    <3> QED BY <3>1
  <2>2. ASSUME NEW p \in Objects, NEW k \in 1 .. Len(bucket[p])
        PROVE  /\ bucket[p][k] \in Ids /\ bucket[p][k] < nextId /\ bucket[p][k] # nextId
               /\ inst[bucket[p][k]].object = p
    <3>1. bucket[p] \in Seq(Ids) BY <1>2
    <3>2. bucket[p][k] \in Ids BY <3>1
    <3>3. bucket[p][k] < nextId /\ inst[bucket[p][k]].object = p BY DEF IInv, ListsInv
    <3> QED BY <3>2, <3>3, <1>2 DEF Ids
  <2>3. ASSUME NEW p \in Objects, p # o
        PROVE  /\ \A k \in 1 .. Len(bucket'[p]) :
                     bucket'[p][k] < nextId' /\ inst'[bucket'[p][k]].object = p
               /\ \A k, m \in 1 .. Len(bucket'[p]) : bucket'[p][k] = bucket'[p][m] => k = m
    <3>1. bucket'[p] = bucket[p] BY <2>3, <1>5
    <3>2. ASSUME NEW k \in 1 .. Len(bucket[p])
          PROVE  bucket[p][k] < nextId' /\ inst'[bucket[p][k]].object = p
      <4>1. inst'[bucket[p][k]].object = p BY <2>2, <1>8
      <4>2. bucket[p][k] < nextId + 1 BY <2>2, <1>2 DEF Ids
      <4> QED BY <4>1, <4>2, <1>1
    <3> QED BY <3>1, <3>2 DEF IInv, ListsInv
  <2>4. ASSUME NEW k \in 1 .. Len(bucket'[o])
        PROVE  /\ bucket'[o][k] < nextId' /\ inst'[bucket'[o][k]].object = o
               /\ bucket'[o][k] = nextId <=> k = Len(bucket[o]) + 1
               /\ k # Len(bucket[o]) + 1 => k \in 1 .. Len(bucket[o]) /\ bucket'[o][k] = bucket[o][k]
    <3>1. CASE k = Len(bucket[o]) + 1 BY <3>1, <1>1, <1>2, <1>6, <1>8
    <3>2. CASE k # Len(bucket[o]) + 1
      <4>1. k \in 1 .. Len(bucket[o]) BY <3>2, <1>6
      <4>2. bucket'[o][k] = bucket[o][k] BY <4>1, <1>6
      <4>3. inst'[bucket[o][k]].object = o BY <4>1, <2>2, <1>8
      <4>4. bucket[o][k] < nextId + 1 BY <4>1, <2>2, <1>2 DEF Ids
      <4> QED BY <3>2, <4>1, <4>2, <4>3, <4>4, <2>2, <1>1
    <3> QED BY <3>1, <3>2
  <2>5. ASSUME NEW k \in 1 .. Len(bucket'[o]), NEW m \in 1 .. Len(bucket'[o]), bucket'[o][k] = bucket'[o][m]
        PROVE  k = m
    <3>1. CASE k = Len(bucket[o]) + 1 BY <3>1, <2>4, <2>5
    <3>2. CASE k # Len(bucket[o]) + 1
      <4>1. m # Len(bucket[o]) + 1 BY <3>2, <2>4, <2>5
      <4>2. k \in 1 .. Len(bucket[o]) /\ m \in 1 .. Len(bucket[o]) /\ bucket[o][k] = bucket[o][m]
        BY <3>2, <4>1, <2>4, <2>5
      <4> QED BY <4>2 DEF IInv, ListsInv
    <3> QED BY <3>1, <3>2
  <2> QED BY <2>1, <2>3, <2>4, <2>5 DEF ListsInv
<1>11. /\ UNCHANGED <<pendingRoom, ticks, changed>> /\ pendingRoom' \in BOOLEAN /\ changed' \subseteq Ids
  BY <1>1 DEF history, IInv, FlagsType, HistoryType
<1>12. ArenaType' /\ ScratchType' /\ FlagsType' /\ HistoryType' /\ AgendaOK(agenda')
  BY <1>1, <1>11, CodeKeeps
<1>13. StackInv'
  <2>1. UNCHANGED <<stack, arena, scratch, scratchEpoch>>
    BY <1>1 DEF SameStack, arenaVars, scratchVars
  <2>2. ASSUME NEW f \in Frame, FrameOK(f, instances, scratch, scratchEpoch)
        PROVE  FrameOK(f, instances', scratch, scratchEpoch)
    <3>1. CASE f.kind # "loop" BY <3>1 DEF FrameOK
    <3>2. CASE f.kind = "loop"
      <4>1. Len(f.snap) \in Nat BY <3>2, LoopIs
      <4>2. f.event \in ListForAll => /\ Len(f.snap) <= Len(instances')
                                      /\ \A j \in 1 .. Len(f.snap) : f.snap[j] = instances'[j]
        <5> SUFFICES ASSUME f.event \in ListForAll
                     PROVE  /\ Len(f.snap) <= Len(instances')
                            /\ \A j \in 1 .. Len(f.snap) : f.snap[j] = instances'[j]
          OBVIOUS
        <5>1. Len(f.snap) <= Len(instances) /\ \A j \in 1 .. Len(f.snap) : f.snap[j] = instances[j]
          BY <2>2, <3>2 DEF FrameOK
        <5>2. \A j \in 1 .. Len(f.snap) : j \in 1 .. Len(instances) BY <5>1, <4>1, <1>4
        <5> QED BY <5>1, <5>2, <4>1, <1>4
      <4> QED BY <4>2, <2>2, <3>2 DEF FrameOK
    <3> QED BY <3>1, <3>2
  <2>3. stack \in Seq(Frame) /\ FramesOK(stack, instances, scratch, scratchEpoch) /\ ArenaOK(stack, arena)
    BY DEF IInv, StackInv, World
  <2>4. \A k \in 1 .. Len(stack) : stack[k] \in Frame BY <2>3
  <2>5. FramesOK(stack, instances', scratch, scratchEpoch) BY <2>2, <2>3, <2>4 DEF FramesOK
  <2> QED BY <2>1, <2>3, <2>5 DEF StackInv, World
<1> QED BY <1>9, <1>10, <1>12, <1>13 DEF IInv

LEMMA InstanceDestroyStep ==
    ASSUME IInv, NEW i \in Ids, InstanceDestroy(i) PROVE IInv'
<1>1. /\ Does("destroy") /\ inst' = [inst EXCEPT ![i].destroyed = TRUE, ![i].active = FALSE]
      /\ SameStack /\ InCode /\ UNCHANGED <<instances, bucket, nextId, pendingRoom, history>>
  BY DEF InstanceDestroy
<1>2. inst' \in [Ids -> Instance] /\ \A j \in Ids : inst'[j].object = inst[j].object
  BY <1>1 DEF IInv, ListsType, Instance
<1>3. ListsType' /\ ListsInv' BY <1>1, <1>2, FieldsChange
<1>4. /\ UNCHANGED <<pendingRoom, ticks, changed>> /\ pendingRoom' \in BOOLEAN /\ changed' \subseteq Ids
  BY <1>1 DEF history, IInv, FlagsType, HistoryType
<1> QED BY <1>1, <1>3, <1>4, CodeKeeps DEF IInv

LEMMA SetActiveStep ==
    ASSUME IInv, NEW i \in Ids, NEW b \in BOOLEAN, SetActive(i, b) PROVE IInv'
<1>1. /\ Does(IF b THEN "wake" ELSE "sleep") /\ inst' = [inst EXCEPT ![i].active = b]
      /\ SameStack /\ InCode /\ UNCHANGED <<instances, bucket, nextId, pendingRoom, history>>
  BY DEF SetActive
<1>2. inst' \in [Ids -> Instance] /\ \A j \in Ids : inst'[j].object = inst[j].object
  BY <1>1 DEF IInv, ListsType, Instance
<1>3. ListsType' /\ ListsInv' BY <1>1, <1>2, FieldsChange
<1>4. /\ UNCHANGED <<pendingRoom, ticks, changed>> /\ pendingRoom' \in BOOLEAN /\ changed' \subseteq Ids
  BY <1>1 DEF history, IInv, FlagsType, HistoryType
<1> QED BY <1>1, <1>3, <1>4, CodeKeeps DEF IInv

LEMMA AlarmSetStep ==
    ASSUME IInv, NEW i \in Ids, NEW n \in 0 .. 2, AlarmSet(i, n) PROVE IInv'
<1>1. /\ Does("alarm") /\ inst' = [inst EXCEPT ![i].alarm = n, ![i].mask = n > 0]
      /\ SameStack /\ InCode /\ UNCHANGED <<instances, bucket, nextId, pendingRoom, history>>
  BY DEF AlarmSet
<1>2. inst' \in [Ids -> Instance] /\ \A j \in Ids : inst'[j].object = inst[j].object
  <2>1. n \in Int /\ (n > 0) \in BOOLEAN OBVIOUS
  <2> DEFINE b == n > 0
  <2> HIDE DEF b
  <2>2. b \in BOOLEAN BY DEF b
  <2>3. inst' = [inst EXCEPT ![i].alarm = n, ![i].mask = b] BY <1>1 DEF b
  <2> QED BY <2>1, <2>2, <2>3 DEF IInv, ListsType, Instance
<1>3. ListsType' /\ ListsInv' BY <1>1, <1>2, FieldsChange
<1>4. /\ UNCHANGED <<pendingRoom, ticks, changed>> /\ pendingRoom' \in BOOLEAN /\ changed' \subseteq Ids
  BY <1>1 DEF history, IInv, FlagsType, HistoryType
<1> QED BY <1>1, <1>3, <1>4, CodeKeeps DEF IInv

LEMMA RoomGotoStep == ASSUME IInv, RoomGoto PROVE IInv'
<1>1. /\ Does("goto") /\ pendingRoom' = TRUE
      /\ SameStack /\ InCode /\ UNCHANGED <<lists, history>>
  BY DEF RoomGoto
<1>2. ListsType' /\ ListsInv' /\ UNCHANGED instances BY <1>1, Kept DEF lists
<1>3. /\ UNCHANGED ticks /\ pendingRoom' \in BOOLEAN /\ changed' \subseteq Ids
  BY <1>1 DEF history, IInv, HistoryType
<1> QED BY <1>1, <1>2, <1>3, CodeKeeps DEF IInv

LEMMA InstanceChangeStep ==
    ASSUME IInv, NEW i \in Ids, NEW o \in Objects, InstanceChange(i, o) PROVE IInv'
<1> DEFINE q == inst[i].object
<1>1. /\ Does("change") /\ i \in Known /\ q # o
      /\ bucket' = [bucket EXCEPT ![q] = Without(@, i), ![o] = Append(@, i)]
      /\ inst' = [inst EXCEPT ![i].object = o]
      /\ changed' = changed \cup {i}
      /\ SameStack /\ InCode /\ UNCHANGED <<instances, nextId, pendingRoom, ticks>>
  BY DEF InstanceChange
<1>2. /\ bucket \in [Objects -> Seq(Ids)] /\ inst \in [Ids -> Instance] /\ nextId \in Nat \ {0}
      /\ q \in Objects
  BY DEF IInv, ListsType, Instance
<1>3. i < nextId BY <1>1, KnownIs
<1> HIDE DEF q
<1>4. /\ \A p \in Objects : p # q /\ p # o => bucket'[p] = bucket[p]
      /\ bucket'[q] = Without(bucket[q], i) /\ bucket'[o] = Append(bucket[o], i)
      /\ DOMAIN bucket' = Objects
  BY <1>1, <1>2
<1>5. ASSUME NEW p \in Objects
      PROVE  /\ bucket[p] \in Seq(Ids) /\ DOMAIN bucket[p] = 1 .. Len(bucket[p])
             /\ \A k \in 1 .. Len(bucket[p]) :
                   bucket[p][k] \in Ids /\ bucket[p][k] < nextId /\ inst[bucket[p][k]].object = p
             /\ \A k, m \in DOMAIN bucket[p] : bucket[p][k] = bucket[p][m] => k = m
  <2>1. bucket[p] \in Seq(Ids) /\ DOMAIN bucket[p] = 1 .. Len(bucket[p]) BY <1>2, LenProperties
  <2>2. \A k \in 1 .. Len(bucket[p]) : bucket[p][k] \in Ids BY <2>1
  <2> QED BY <2>1, <2>2 DEF IInv, ListsInv
<1>6. inst' \in [Ids -> Instance] /\ inst'[i].object = o /\ \A j \in Ids : j # i => inst'[j] = inst[j]
  BY <1>1, <1>2 DEF Instance
<1>7. /\ bucket'[q] \in Seq(Ids)
      /\ \A k \in 1 .. Len(bucket'[q]) :
            /\ bucket'[q][k] < nextId /\ inst'[bucket'[q][k]].object = q
      /\ \A k, m \in 1 .. Len(bucket'[q]) : bucket'[q][k] = bucket'[q][m] => k = m
  <2> DEFINE w == Without(bucket[q], i)
  <2>1. /\ w \in Seq(Ids)
        /\ \A k \in DOMAIN w : w[k] # i /\ \E n \in DOMAIN bucket[q] : w[k] = bucket[q][n]
        /\ \A k, m \in DOMAIN w : w[k] = w[m] => k = m
    BY <1>2, <1>5, WithoutIs
  <2>2. w = bucket'[q] BY <1>4
  <2> HIDE DEF w
  <2>3. DOMAIN w = 1 .. Len(w) BY <2>1, LenProperties
  <2>4. ASSUME NEW k \in 1 .. Len(w) PROVE w[k] < nextId /\ inst'[w[k]].object = q
    <3>1. PICK n \in DOMAIN bucket[q] : w[k] = bucket[q][n] BY <2>1, <2>3
    <3>2. w[k] # i BY <2>1, <2>3
    <3>3. n \in 1 .. Len(bucket[q]) BY <1>2, <1>5
    <3>4. bucket[q][n] \in Ids /\ bucket[q][n] < nextId /\ inst[bucket[q][n]].object = q
      BY <3>3, <1>2, <1>5
    <3> QED BY <3>1, <3>2, <3>4, <1>6
  <2> QED BY <2>1, <2>2, <2>3, <2>4
<1>8. /\ bucket'[o] \in Seq(Ids)
      /\ \A k \in 1 .. Len(bucket'[o]) :
            /\ bucket'[o][k] < nextId /\ inst'[bucket'[o][k]].object = o
      /\ \A k, m \in 1 .. Len(bucket'[o]) : bucket'[o][k] = bucket'[o][m] => k = m
  <2> DEFINE w == bucket'[o]
             b == bucket[o]
  <2>1. /\ b \in Seq(Ids) /\ Len(b) \in Nat
        /\ \A k \in 1 .. Len(b) : b[k] \in Ids /\ b[k] < nextId /\ b[k] # i /\ inst[b[k]].object = o
        /\ \A k, m \in 1 .. Len(b) : b[k] = b[m] => k = m
    BY <1>1, <1>5, LenProperties DEF q
  <2>2. /\ w \in Seq(Ids) /\ Len(w) = Len(b) + 1 /\ w[Len(b) + 1] = i
        /\ \A k \in 1 .. Len(b) : w[k] = b[k]
    BY <2>1, <1>4, AppendProperties
  <2> HIDE DEF w, b
  <2>3. \A k \in 1 .. Len(w) : k = Len(b) + 1 \/ k \in 1 .. Len(b) BY <2>1, <2>2
  <2>4. ASSUME NEW k \in 1 .. Len(w) PROVE w[k] < nextId /\ inst'[w[k]].object = o
    <3>1. CASE k = Len(b) + 1 BY <3>1, <2>2, <1>3, <1>6
    <3>2. CASE k \in 1 .. Len(b) BY <3>2, <2>1, <2>2, <1>6
    <3> QED BY <3>1, <3>2, <2>3
  <2>5. ASSUME NEW k \in 1 .. Len(w), NEW m \in 1 .. Len(w), w[k] = w[m] PROVE k = m
    BY <2>1, <2>2, <2>3, <2>5
  <2> QED BY <2>2, <2>4, <2>5 DEF w
<1>9. ASSUME NEW p \in Objects, p # q, p # o
      PROVE  /\ bucket'[p] \in Seq(Ids)
             /\ \A k \in 1 .. Len(bucket'[p]) :
                   bucket'[p][k] < nextId /\ inst'[bucket'[p][k]].object = p
             /\ \A k, m \in 1 .. Len(bucket'[p]) : bucket'[p][k] = bucket'[p][m] => k = m
  <2>1. bucket'[p] = bucket[p] BY <1>4, <1>9
  <2>2. \A k \in 1 .. Len(bucket[p]) : bucket[p][k] # i BY <1>5, <1>9 DEF q
  <2> QED BY <2>1, <2>2, <1>5, <1>6
<1>10. ListsType'
  <2>1. \A p \in Objects : bucket'[p] \in Seq(Ids) BY <1>7, <1>8, <1>9
  <2>2. bucket' \in [Objects -> Seq(Ids)] BY <2>1, <1>1, <1>4
  <2> QED BY <2>2, <1>1, <1>6 DEF IInv, ListsType
<1>11. ListsInv'
  <2>1. \A k \in 1 .. Len(instances') : instances'[k] < nextId' BY <1>1 DEF IInv, ListsInv
  <2>2. ASSUME NEW p \in Objects
        PROVE  /\ \A k \in 1 .. Len(bucket'[p]) :
                     bucket'[p][k] < nextId' /\ inst'[bucket'[p][k]].object = p
               /\ \A k, m \in 1 .. Len(bucket'[p]) : bucket'[p][k] = bucket'[p][m] => k = m
    <3>1. nextId' = nextId BY <1>1
    <3>2. CASE p = q BY <3>1, <3>2, <1>7
    <3>3. CASE p = o BY <3>1, <3>3, <1>8
    <3>4. CASE p # q /\ p # o BY <3>1, <3>4, <1>9
    <3> QED BY <3>2, <3>3, <3>4
  <2> QED BY <2>1, <2>2 DEF ListsInv
<1>12. /\ UNCHANGED <<instances, ticks>> /\ pendingRoom' \in BOOLEAN /\ changed' \subseteq Ids
  BY <1>1 DEF IInv, FlagsType, HistoryType
<1> QED BY <1>1, <1>10, <1>11, <1>12, CodeKeeps DEF IInv

LEMMA AssignLivesStep ==
    ASSUME IInv, NEW b \in BOOLEAN, AssignLives(b) PROVE IInv'
<1>1. /\ Does("lives") /\ SetLives(b, stack)
      /\ InCode /\ UNCHANGED <<lists, arenaVars, pendingRoom, history>>
  BY DEF AssignLives
<1>2. /\ lives' \in BOOLEAN /\ ScratchType' /\ stack' \in Seq(Frame)
      /\ World(stack', arena, instances, scratch', scratchEpoch')
  BY <1>1, SetLivesStep DEF IInv, StackInv, FlagsType
<1>3. ListsType' /\ ListsInv' /\ ArenaType' /\ AgendaOK(agenda') BY <1>1, Kept DEF InCode
<1>4. FlagsType' BY <1>1, <1>2 DEF InCode, IInv, FlagsType
<1>5. HistoryType' BY <1>1 DEF IInv, HistoryType, Does, InCode, history
<1>6. StackInv' BY <1>1, <1>2 DEF StackInv, lists, arenaVars
<1> QED BY <1>2, <1>3, <1>4, <1>5, <1>6 DEF IInv

LEMMA WriteAllStep ==
    ASSUME IInv, NEW o \in Objects, WriteAll(o) PROVE IInv'
<1> DEFINE f == LoopOf("Write", o, "arena", Len(arena), bucket[o])
<1>1. /\ Does("writeAll") /\ Push(bucket[o]) /\ stack' = <<f>> \o stack
      /\ InCode /\ UNCHANGED <<lists, scratchVars, lives, pendingRoom, history>>
  BY DEF WriteAll
<1>2. bucket[o] \in Seq(Ids) /\ Len(arena) \in Nat
  BY LenProperties DEF IInv, ListsType, ArenaType
<1>3. /\ f \in Loop /\ f.via = "arena" /\ f.event = "Write" /\ f.targets = <<>> /\ f.base = Len(arena)
      /\ f.snap = bucket[o] /\ f.pos = 1
  <2>1. "Write" \in LoopEvents /\ o \in LoopObjects BY DEF LoopEvents, LoopObjects
  <2>2. f = LoopOf("Write", o, "arena", Len(arena), bucket[o]) OBVIOUS
  <2> HIDE DEF f
  <2> QED BY <2>1, <2>2, <1>2, LoopOfIs
<1> HIDE DEF f
<1>4. f.event \notin ForAll /\ f.event # "Hit" BY <1>3, ForAllEvents
<1>5. /\ ArenaType' /\ stack' \in Seq(Frame)
      /\ World(stack', arena', instances, scratch, scratchEpoch)
  BY <1>1, <1>2, <1>3, <1>4, PushLoopStep DEF IInv, StackInv
<1>6. ListsType' /\ ListsInv' /\ ScratchType' /\ AgendaOK(agenda') BY <1>1, Kept DEF InCode
<1>7. FlagsType' BY <1>1 DEF InCode, IInv, FlagsType
<1>8. HistoryType' BY <1>1 DEF IInv, HistoryType, Does, InCode, history
<1>9. StackInv' BY <1>1, <1>5 DEF StackInv, lists, scratchVars
<1> QED BY <1>5, <1>6, <1>7, <1>8, <1>9 DEF IInv

LEMMA QueryStep == ASSUME IInv, NEW o \in Objects, Query(o) PROVE IInv'
<1> DEFINE need == Len(arena) + Len(bucket[o])
<1>1. /\ Does("query")
      /\ arenaCap' = Capacity(arenaCap, need) /\ arenaEpoch' = Epoch(arenaEpoch, arenaCap, need)
      /\ InCode /\ UNCHANGED <<lists, arena, scratchVars, lives, pendingRoom, stack, history>>
  BY DEF Query
<1>2. Len(arena) \in Nat /\ Len(bucket[o]) \in Nat
  BY LenProperties DEF IInv, ListsType, ArenaType
<1>3. need \in Nat BY <1>2
<1> HIDE DEF need
<1>4. /\ arenaCap' \in Nat /\ arenaCap <= arenaCap' /\ arenaEpoch' \in Nat
  BY <1>1, <1>3, CapacityIs DEF IInv, ArenaType
<1>5. ArenaType' BY <1>1, <1>2, <1>4 DEF IInv, ArenaType
<1>6. ListsType' /\ ListsInv' /\ ScratchType' /\ AgendaOK(agenda') BY <1>1, Kept DEF InCode
<1>7. FlagsType' BY <1>1 DEF InCode, IInv, FlagsType
<1>8. HistoryType' BY <1>1 DEF IInv, HistoryType, Does, InCode, history
<1>9. StackInv' BY <1>1, Kept DEF lists, scratchVars
<1> QED BY <1>5, <1>6, <1>7, <1>8, <1>9 DEF IInv

\* Only the stack changes.
LEMMA StackStep ==
    ASSUME IInv, UNCHANGED <<lists, arenaVars, scratchVars, lives, pendingRoom, agenda, crashed>>,
           UNCHANGED <<frames, ops, history>>,
           stack' \in Seq(Frame), World(stack', arena, instances, scratch, scratchEpoch)
    PROVE  IInv'
<1>1. /\ ListsType' /\ ListsInv' /\ ArenaType' /\ ScratchType' /\ FlagsType' /\ AgendaOK(agenda')
      /\ HistoryType'
  BY Kept
<1>2. StackInv' BY DEF StackInv, lists, arenaVars, scratchVars
<1> QED BY <1>1, <1>2 DEF IInv

LEMMA CodeReturnStep == ASSUME IInv, CodeReturn PROVE IInv'
<1>1. /\ stack # <<>> /\ Top.kind = "code" /\ stack' = Below
      /\ UNCHANGED <<lists, arenaVars, scratchVars, lives, pendingRoom, agenda, crashed>>
      /\ UNCHANGED <<frames, ops, history>>
  BY DEF CodeReturn, Running
<1>2. ~ InArena(Top) BY <1>1 DEF InArena
<1>3. stack' \in Seq(Frame) /\ World(stack', arena, instances, scratch, scratchEpoch)
  BY <1>1, <1>2, TopIs DEF World
<1> QED BY <1>1, <1>3, StackStep

LEMMA GameCodeStep == ASSUME IInv, GameCode PROVE IInv'
<1>1. CASE \E o \in Objects : \/ InstanceCreate(o) \/ WriteAll(o) \/ Query(o)
                              \/ \E i \in Ids : InstanceChange(i, o)
  BY <1>1, InstanceCreateStep, WriteAllStep, QueryStep, InstanceChangeStep
<1>2. CASE \E i \in Ids : \/ InstanceDestroy(i) \/ \E b \in BOOLEAN : SetActive(i, b)
                          \/ \E n \in 0 .. 2 : AlarmSet(i, n)
  BY <1>2, InstanceDestroyStep, SetActiveStep, AlarmSetStep
<1>3. CASE RoomGoto BY <1>3, RoomGotoStep
<1>4. CASE \E b \in BOOLEAN : AssignLives(b) BY <1>4, AssignLivesStep
<1>5. CASE CodeReturn BY <1>5, CodeReturnStep
<1> QED BY <1>1, <1>2, <1>3, <1>4, <1>5 DEF GameCode

-------------------------------------------------------------------------------
(* The agenda of a step                                                     *)

NoAlarm(ag) == \A k \in 1 .. Len(ag) : ag[k][1] # "Alarm"

LEMMA AgendaConcat ==
    ASSUME NEW x, NEW y, AgendaOK(x), AgendaOK(y), NoAlarm(y)
    PROVE  AgendaOK(x \o y) /\ (NoAlarm(x) => NoAlarm(x \o y))
<1> DEFINE z == x \o y
<1>1. x \in Seq(Entry) /\ y \in Seq(Entry) /\ Len(x) \in Nat /\ Len(y) \in Nat
  BY LenProperties DEF AgendaOK
<1>2. /\ z \in Seq(Entry) /\ Len(z) = Len(x) + Len(y)
      /\ \A k \in 1 .. Len(x) + Len(y) : z[k] = IF k <= Len(x) THEN x[k] ELSE y[k - Len(x)]
  BY <1>1, ConcatProperties
<1> HIDE DEF z
<1>3. ASSUME NEW k \in 1 .. Len(z)
      PROVE  \/ k \in 1 .. Len(x) /\ z[k] = x[k]
             \/ k - Len(x) \in 1 .. Len(y) /\ z[k] = y[k - Len(x)]
  BY <1>1, <1>2
<1>4. \A k \in 1 .. Len(z) : EntryOK(z[k]) BY <1>3 DEF AgendaOK
<1>5. ASSUME NEW k \in 1 .. Len(z), z[k][1] = "Alarm" PROVE k \in 1 .. Len(x) /\ z[k] = x[k]
  BY <1>3, <1>5 DEF NoAlarm
<1>6. ASSUME NEW k \in 1 .. Len(z), NEW m \in 1 .. Len(z), z[k][1] = "Alarm", z[m][1] = "Alarm"
      PROVE  k = m
  BY <1>5, <1>6 DEF AgendaOK
<1>7. NoAlarm(x) => NoAlarm(z) BY <1>5 DEF NoAlarm
<1> QED BY <1>2, <1>4, <1>6, <1>7 DEF AgendaOK, z

LEMMA AlarmsSecond ==
    ASSUME NEW x, NEW y, AgendaOK(x), AgendaOK(y), NoAlarm(x)
    PROVE  AgendaOK(x \o y)
<1> DEFINE z == x \o y
<1>1. x \in Seq(Entry) /\ y \in Seq(Entry) /\ Len(x) \in Nat /\ Len(y) \in Nat
  BY LenProperties DEF AgendaOK
<1>2. /\ z \in Seq(Entry) /\ Len(z) = Len(x) + Len(y)
      /\ \A k \in 1 .. Len(x) + Len(y) : z[k] = IF k <= Len(x) THEN x[k] ELSE y[k - Len(x)]
  BY <1>1, ConcatProperties
<1> HIDE DEF z
<1>3. ASSUME NEW k \in 1 .. Len(z)
      PROVE  \/ k \in 1 .. Len(x) /\ z[k] = x[k]
             \/ k - Len(x) \in 1 .. Len(y) /\ z[k] = y[k - Len(x)]
  BY <1>1, <1>2
<1>4. \A k \in 1 .. Len(z) : EntryOK(z[k]) BY <1>3 DEF AgendaOK
<1>5. ASSUME NEW k \in 1 .. Len(z), z[k][1] = "Alarm"
      PROVE  k - Len(x) \in 1 .. Len(y) /\ z[k] = y[k - Len(x)]
  BY <1>3, <1>5 DEF NoAlarm
<1>6. ASSUME NEW k \in 1 .. Len(z), NEW m \in 1 .. Len(z), z[k][1] = "Alarm", z[m][1] = "Alarm"
      PROVE  k = m
  <2>1. k - Len(x) = m - Len(x) BY <1>5, <1>6 DEF AgendaOK
  <2> QED BY <2>1, <1>1, <1>2
<1> QED BY <1>2, <1>4, <1>6 DEF AgendaOK, z

LEMMA AgendaOne ==
    ASSUME NEW e \in Events \cup {"Cleanup"}, NEW S, S # {},
           (S = {Everyone} /\ e # "Alarm") \/ S \subseteq Objects
    PROVE  AgendaOK(<<<<e, S>>>>) /\ (e # "Alarm" => NoAlarm(<<<<e, S>>>>))
<1> DEFINE x == <<e, S>>
<1>1. x[1] = e /\ x[2] = S /\ x \in Entry BY DEF Entry, LoopObjects
<1> HIDE DEF x
<1>2. <<x>> \in Seq(Entry) /\ Len(<<x>>) = 1 /\ <<x>>[1] = x BY <1>1
<1>3. EntryOK(x) BY <1>1 DEF EntryOK
<1> QED BY <1>1, <1>2, <1>3 DEF AgendaOK, NoAlarm, x

LEMMA AgendaNone == AgendaOK(<<>>) /\ NoAlarm(<<>>)
<1>1. <<>> \in Seq(Entry) /\ Len(<<>>) = 0 BY EmptySeq
<1> QED BY <1>1 DEF AgendaOK, NoAlarm

LEMMA OnceIs ==
    ASSUME NEW event \in Events, event # "Alarm"
    PROVE  AgendaOK(Once(event)) /\ NoAlarm(Once(event))
<1>1. CASE Handlers[event] = {} BY <1>1, AgendaNone DEF Once
<1>2. CASE Handlers[event] # {}
  <2>1. Once(event) = <<<<event, {Everyone}>>>> BY <1>2 DEF Once
  <2> QED BY <2>1, AgendaOne
<1> QED BY <1>1, <1>2

LEMMA PerObjectIs ==
    ASSUME NEW event \in Events
    PROVE  AgendaOK(PerObject(event)) /\ (event # "Alarm" => NoAlarm(PerObject(event)))
<1>1. CASE Handlers[event] = {} BY <1>1, AgendaNone DEF PerObject
<1>2. CASE Handlers[event] # {}
  <2>1. PerObject(event) = <<<<event, Handlers[event]>>>> BY <1>2 DEF PerObject
  <2>2. Handlers[event] \subseteq Objects BY DispatchAssumption
  <2> QED BY <2>1, <2>2, <1>2, AgendaOne
<1> QED BY <1>1, <1>2

LEMMA StepAgendaIs == AgendaOK(StepAgenda)
<1> DEFINE mouse == IF HandlesMouse THEN <<<<"MouseEnter", {Everyone}>>>> ELSE <<>>
           cleanup == <<<<"Cleanup", {Everyone}>>>>
           a1 == Once("BeginStep") \o PerObject("Alarm")
           a2 == a1 \o Once("Keyboard")
           a3 == a2 \o Once("Timeline")
           a4 == a3 \o Once("GlobalMouse")
           a5 == a4 \o mouse
           a6 == a5 \o Once("Step")
           a7 == a6 \o PerObject("OutsideRoom")
           a8 == a7 \o Once("Async")
           a9 == a8 \o PerObject("Collision")
           a10 == a9 \o Once("EndStep")
           a11 == a10 \o cleanup
<1>1. {"BeginStep", "Alarm", "Keyboard", "Timeline", "GlobalMouse", "Step", "OutsideRoom", "Async",
       "Collision", "EndStep", "MouseEnter"} \subseteq Events
  BY ForAllEvents DEF ForAll, BucketForAll, ListForAll, BucketLoops
<1>2. StepAgenda = a11 BY DEF StepAgenda
<1>3. AgendaOK(mouse) /\ NoAlarm(mouse)
  <2>1. CASE HandlesMouse
    <3>1. mouse = <<<<"MouseEnter", {Everyone}>>>> BY <2>1
    <3> QED BY <3>1, <1>1, AgendaOne
  <2>2. CASE ~ HandlesMouse BY <2>2, AgendaNone
  <2> QED BY <2>1, <2>2
<1>4. AgendaOK(cleanup) /\ NoAlarm(cleanup) BY AgendaOne
<1>5. AgendaOK(a1)
  <2>1. AgendaOK(Once("BeginStep")) /\ NoAlarm(Once("BeginStep")) /\ AgendaOK(PerObject("Alarm"))
    BY <1>1, OnceIs, PerObjectIs
  <2> QED BY <2>1, AlarmsSecond
<1> HIDE DEF mouse, cleanup, a1
<1>6. AgendaOK(a2) BY <1>1, <1>5, OnceIs, AgendaConcat
<1> HIDE DEF a2
<1>7. AgendaOK(a3) BY <1>1, <1>6, OnceIs, AgendaConcat
<1> HIDE DEF a3
<1>8. AgendaOK(a4) BY <1>1, <1>7, OnceIs, AgendaConcat
<1> HIDE DEF a4
<1>9. AgendaOK(a5) BY <1>3, <1>8, AgendaConcat
<1> HIDE DEF a5
<1>10. AgendaOK(a6) BY <1>1, <1>9, OnceIs, AgendaConcat
<1> HIDE DEF a6
<1>11. AgendaOK(a7) BY <1>1, <1>10, PerObjectIs, AgendaConcat
<1> HIDE DEF a7
<1>12. AgendaOK(a8) BY <1>1, <1>11, OnceIs, AgendaConcat
<1> HIDE DEF a8
<1>13. AgendaOK(a9) BY <1>1, <1>12, PerObjectIs, AgendaConcat
<1> HIDE DEF a9
<1>14. AgendaOK(a10) BY <1>1, <1>13, OnceIs, AgendaConcat
<1> HIDE DEF a10
<1>15. AgendaOK(a11) BY <1>4, <1>14, AgendaConcat
<1> HIDE DEF a11
<1> QED BY <1>2, <1>15

LEMMA AgendaTail ==
    ASSUME NEW ag, AgendaOK(ag), ag # <<>>
    PROVE  /\ Head(ag) \in Entry /\ EntryOK(Head(ag)) /\ AgendaOK(Tail(ag))
           /\ Head(ag)[1] = "Alarm" => NoAlarm(Tail(ag))
<1>1. /\ ag \in Seq(Entry) /\ Len(ag) \in Nat \ {0} /\ Tail(ag) \in Seq(Entry)
      /\ Len(Tail(ag)) = Len(ag) - 1 /\ Head(ag) = ag[1] /\ Head(ag) \in Entry
      /\ \A k \in 1 .. Len(ag) - 1 : Tail(ag)[k] = ag[k + 1]
  BY TailIs DEF AgendaOK
<1>2. 1 \in 1 .. Len(ag) /\ \A k \in 1 .. Len(Tail(ag)) : k + 1 \in 1 .. Len(ag) /\ k + 1 # 1
                                                       /\ Tail(ag)[k] = ag[k + 1]
  BY <1>1
<1>3. EntryOK(Head(ag)) BY <1>1, <1>2 DEF AgendaOK
<1>4. \A k \in 1 .. Len(Tail(ag)) : EntryOK(Tail(ag)[k]) BY <1>2 DEF AgendaOK
<1>5. ASSUME NEW k \in 1 .. Len(Tail(ag)), NEW m \in 1 .. Len(Tail(ag)),
             Tail(ag)[k][1] = "Alarm", Tail(ag)[m][1] = "Alarm"
      PROVE  k = m
  <2>1. k + 1 = m + 1 BY <1>2, <1>5 DEF AgendaOK
  <2> QED BY <2>1, <1>1
<1>6. ASSUME Head(ag)[1] = "Alarm", NEW k \in 1 .. Len(Tail(ag)) PROVE Tail(ag)[k][1] # "Alarm"
  BY <1>1, <1>2, <1>6 DEF AgendaOK
<1> QED BY <1>1, <1>3, <1>4, <1>5, <1>6 DEF AgendaOK, NoAlarm

LEMMA LeastIs ==
    ASSUME NEW e \in Entry, EntryOK(e)
    PROVE  Least(e[2]) \in e[2] /\ Least(e[2]) \in LoopObjects /\ e[2] \subseteq LoopObjects
<1>1. e[2] \subseteq LoopObjects BY DEF Entry
<1>2. \E o \in e[2] : \A p \in e[2] : o <= p
  <2>1. CASE e[2] = {Everyone}
    <3>1. Everyone <= Everyone BY DEF Everyone
    <3> QED BY <2>1, <3>1
  <2>2. CASE e[2] \subseteq Objects
    <3>1. ObjectCount \in Nat BY DispatchAssumption
    <3>2. e[2] \in SUBSET Nat BY <2>2, <3>1 DEF Objects
    <3>3. e[2] # {} BY DEF EntryOK
    <3> QED BY <3>2, <3>3, LeastOf
  <2> QED BY <2>1, <2>2 DEF EntryOK
<1> DEFINE S == e[2]
<1> HIDE DEF S
<1>3. \E o \in S : \A p \in S : o <= p BY <1>2 DEF S
<1>4. Least(S) \in S BY <1>3, Zenon DEF Least
<1> QED BY <1>1, <1>4 DEF S

\* What is left of an entry when its least object is taken.
LEMMA AgendaRest ==
    ASSUME NEW ag, AgendaOK(ag), ag # <<>>, NEW o \in Head(ag)[2]
    PROVE  LET others == Head(ag)[2] \ {o} IN
           AgendaOK((IF others = {} THEN <<>> ELSE <<<<Head(ag)[1], others>>>>) \o Tail(ag))
<1> DEFINE e == Head(ag)
           others == e[2] \ {o}
           x == IF others = {} THEN <<>> ELSE <<<<e[1], others>>>>
<1>1. /\ e \in Entry /\ EntryOK(e) /\ AgendaOK(Tail(ag))
      /\ e[1] = "Alarm" => NoAlarm(Tail(ag))
  BY AgendaTail
<1> HIDE DEF e
<1>2. CASE others = {}
  <2>1. x = <<>> BY <1>2
  <2>2. <<>> \o Tail(ag) = Tail(ag)
    <3>1. Tail(ag) \in Seq(Entry) BY <1>1 DEF AgendaOK
    <3> QED BY <3>1, ConcatEmptySeq
  <2> QED BY <2>1, <2>2, <1>1 DEF e
<1>3. CASE others # {}
  <2>1. x = <<<<e[1], others>>>> BY <1>3
  <2>2. e[1] \in Events \cup {"Cleanup"} BY <1>1 DEF Entry
  <2>3. others \subseteq Objects BY <1>1, <1>3 DEF EntryOK, e
  <2> HIDE DEF others, x
  <2>4. AgendaOK(x) /\ (e[1] # "Alarm" => NoAlarm(x)) BY <2>1, <2>2, <2>3, <1>3, AgendaOne
  <2>5. AgendaOK(x \o Tail(ag))
    <3>1. CASE e[1] = "Alarm" BY <3>1, <2>4, <1>1, AgendaConcat
    <3>2. CASE e[1] # "Alarm" BY <3>2, <2>4, <1>1, AlarmsSecond
    <3> QED BY <3>1, <3>2
  <2> QED BY <2>5 DEF x, others, e
<1> QED BY <1>2, <1>3

-------------------------------------------------------------------------------
(* Actions of the loops                                                     *)

LEMMA BeginFrameStep == ASSUME IInv, BeginFrame PROVE IInv'
<1>1. /\ agenda' = StepAgenda /\ frames' = frames + 1
      /\ ticks' = [i \in Ids |-> 0] /\ changed' = {}
      /\ UNCHANGED <<lists, arenaVars, scratchVars, lives, pendingRoom, crashed, stack, ops>>
  BY DEF BeginFrame
<1>2. ListsType' /\ ListsInv' /\ ArenaType' /\ ScratchType' /\ FlagsType' BY <1>1, Kept
<1>3. AgendaOK(agenda') BY <1>1, StepAgendaIs
<1>4. HistoryType' BY <1>1 DEF IInv, HistoryType
<1>5. StackInv' BY <1>1, Kept DEF lists, arenaVars, scratchVars
<1> QED BY <1>2, <1>3, <1>4, <1>5 DEF IInv

LEMMA ListOfIs ==
    ASSUME ListsType, NEW object \in LoopObjects PROVE ListOf(object) \in Seq(Ids)
<1>1. CASE object = Everyone BY <1>1 DEF ListOf, ListsType
<1>2. CASE object # Everyone BY <1>2 DEF ListOf, ListsType, LoopObjects
<1> QED BY <1>1, <1>2

LEMMA StartLoopStep == ASSUME IInv, StartLoop PROVE IInv'
<1> DEFINE event == Head(agenda)[1]
           object == Least(Head(agenda)[2])
           others == Head(agenda)[2] \ {object}
           list == ListOf(object)
<1>1. /\ stack = <<>> /\ agenda # <<>> /\ event # "Cleanup"
      /\ agenda' = (IF others = {} THEN <<>> ELSE <<<<event, others>>>>) \o Tail(agenda)
      /\ IF event \in ForAll THEN ExecuteEventForAll(event, <<>>) /\ UNCHANGED arenaVars
         ELSE IF list = <<>> \/ (event = "MouseEnter" /\ pendingRoom)
         THEN UNCHANGED <<stack, arenaVars, scratchVars>>
         ELSE /\ Push(list)
              /\ stack' = <<LoopOf(event, object, "arena", Len(arena), list)>>
              /\ UNCHANGED scratchVars
      /\ Undisturbed /\ UNCHANGED <<lists, history>>
  BY DEF StartLoop
<1>2. Head(agenda) \in Entry /\ EntryOK(Head(agenda)) BY <1>1, AgendaTail DEF IInv
<1>3. object \in Head(agenda)[2] /\ object \in LoopObjects BY <1>2, LeastIs
<1>4. AgendaOK(agenda') BY <1>1, <1>3, AgendaRest DEF IInv
<1>5. event \in Events BY <1>1, <1>2 DEF Entry
<1>6. list \in Seq(Ids) BY <1>3, ListOfIs DEF IInv
<1> HIDE DEF event, object, others, list
<1>7. ListsType' /\ ListsInv' /\ FlagsType' /\ HistoryType'
  BY <1>1, Kept DEF Undisturbed
<1>8. instances' = instances BY <1>1 DEF lists
<1>9. World(<<>>, arena, instances, scratch, scratchEpoch) /\ <<>> \in Seq(Frame)
  BY <1>1 DEF IInv, StackInv
<1>10. CASE event \in ForAll
  <2>1. ExecuteEventForAll(event, <<>>) /\ UNCHANGED arenaVars BY <1>1, <1>10
  <2>2. /\ ScratchType' /\ stack' \in Seq(Frame)
        /\ World(stack', arena, instances, scratch', scratchEpoch')
    BY <2>1, <1>9, <1>10, ExecuteForAllStep DEF IInv
  <2>3. ArenaType' BY <2>1, Kept
  <2>4. StackInv' BY <2>1, <2>2, <1>8 DEF StackInv, arenaVars
  <2> QED BY <2>2, <2>3, <2>4, <1>4, <1>7 DEF IInv
<1>11. CASE event \notin ForAll /\ (list = <<>> \/ (event = "MouseEnter" /\ pendingRoom))
  <2>1. UNCHANGED <<stack, arenaVars, scratchVars>> BY <1>1, <1>11
  <2>2. ArenaType' /\ ScratchType' BY <2>1, Kept
  <2>3. StackInv' BY <2>1, <1>8, Kept DEF arenaVars, scratchVars
  <2> QED BY <2>2, <2>3, <1>4, <1>7 DEF IInv
<1>12. CASE event \notin ForAll /\ ~ (list = <<>> \/ (event = "MouseEnter" /\ pendingRoom))
  <2> DEFINE f == LoopOf(event, object, "arena", Len(arena), list)
  <2>1. Push(list) /\ stack' = <<f>> /\ UNCHANGED scratchVars BY <1>1, <1>12
  <2>2. event \in LoopEvents /\ event # "Hit" BY <1>5, ForAllEvents DEF LoopEvents
  <2>3. Len(arena) \in Nat BY LenProperties DEF IInv, ArenaType
  <2>4. f = LoopOf(event, object, "arena", Len(arena), list) OBVIOUS
  <2> HIDE DEF f
  <2>5. /\ f \in Loop /\ f.via = "arena" /\ f.event = event /\ f.targets = <<>>
        /\ f.base = Len(arena) /\ f.snap = list /\ f.pos = 1
    BY <2>2, <2>3, <2>4, <1>3, <1>6, LoopOfIs
  <2>6. /\ ArenaType' /\ <<f>> \o <<>> \in Seq(Frame)
        /\ World(<<f>> \o <<>>, arena', instances, scratch, scratchEpoch)
    BY <2>1, <2>2, <2>5, <1>6, <1>9, <1>12, PushLoopStep DEF IInv
  <2>7. <<f>> \o <<>> = <<f>> OBVIOUS
  <2>8. ScratchType' BY <2>1, Kept
  <2>9. StackInv' BY <2>1, <2>6, <2>7, <1>8 DEF StackInv, scratchVars
  <2> QED BY <2>6, <2>8, <2>9, <1>4, <1>7 DEF IInv
<1> QED BY <1>10, <1>11, <1>12

LEMMA CrashStep == ASSUME IInv, Crash PROVE IInv'
<1>1. /\ crashed' = TRUE
      /\ UNCHANGED <<lists, arenaVars, scratchVars, lives, pendingRoom, agenda, stack, frames, ops, history>>
  BY DEF Crash
<1>2. /\ ListsType' /\ ListsInv' /\ ArenaType' /\ ScratchType' /\ AgendaOK(agenda') /\ HistoryType'
  BY <1>1, Kept
<1>3. FlagsType' BY <1>1 DEF IInv, FlagsType
<1>4. StackInv' BY <1>1, Kept DEF lists, arenaVars, scratchVars
<1> QED BY <1>2, <1>3, <1>4 DEF IInv

LEMMA VisitKeeps ==
    ASSUME IInv, Visited, UNCHANGED <<lists, scratchVars, history>>,
           stack' \in Seq(Frame), World(stack', arena, instances, scratch, scratchEpoch)
    PROVE  IInv'
BY StackStep DEF Visited, Undisturbed

\* What a loop on top of the stack is, when it visits an instance.
LEMMA VisitingIs ==
    ASSUME IInv, NEW events, Visiting(events)
    PROVE  /\ stack # <<>> /\ Top.kind = "loop" /\ Top.event \in events /\ Read(Top) \in Ids
           /\ Top \in Frame /\ FrameOK(Top, instances, scratch, scratchEpoch)
           /\ Advanced \in Seq(Frame) /\ World(Advanced, arena, instances, scratch, scratchEpoch)
<1>1. Running("loop") /\ Top.event \in events /\ Top.pos <= Len(Top.snap) BY DEF Visiting
<1>2. stack # <<>> /\ Top.kind = "loop" BY <1>1 DEF Running
<1> QED BY <1>1, <1>2, ReadIs, AdvancedIs, TopIs

\* The top loop goes on, and may run the event.
LEMMA VisitStep ==
    ASSUME IInv, NEW events, Visiting(events), events \subseteq Events,
           stack' = Advanced \/ stack' = Execute(Read(Top), Top.event, Advanced)
    PROVE  stack' \in Seq(Frame) /\ World(stack', arena, instances, scratch, scratchEpoch)
<1>1. /\ Top.event \in Events /\ Read(Top) \in Ids
      /\ Advanced \in Seq(Frame) /\ World(Advanced, arena, instances, scratch, scratchEpoch)
  BY VisitingIs
<1>2. arena \in Seq(Ids) BY DEF IInv, ArenaType
<1> QED BY <1>1, <1>2, ExecuteIs

LEMMA VisitEachStep == ASSUME IInv, VisitEach PROVE IInv'
<1>1. /\ Visiting(ForAll) /\ Visited /\ UNCHANGED <<lists, scratchVars, history>>
      /\ stack' = Advanced \/ stack' = Execute(Read(Top), Top.event, Advanced)
  BY DEF VisitEach
<1>2. ForAll \subseteq Events BY ForAllEvents
<1> QED BY <1>1, <1>2, VisitStep, VisitKeeps

LEMMA VisitMouseStep == ASSUME IInv, VisitMouse PROVE IInv'
<1>1. /\ Visiting(ToSet(MouseStages)) /\ Visited /\ UNCHANGED <<lists, scratchVars, history>>
      /\ stack' = Advanced \/ stack' = Execute(Read(Top), Top.event, Advanced)
  BY DEF VisitMouse, VisitSome
<1>2. ToSet(MouseStages) \subseteq Events BY ForAllEvents
<1> QED BY <1>1, <1>2, VisitStep, VisitKeeps

LEMMA VisitOutsideStep == ASSUME IInv, VisitOutside PROVE IInv'
<1>1. /\ Visiting({"OutsideRoom"}) /\ Visited /\ UNCHANGED <<lists, scratchVars, history>>
      /\ stack' = Advanced \/ stack' = Execute(Read(Top), Top.event, Advanced)
  BY DEF VisitOutside, VisitSome
<1>2. {"OutsideRoom"} \subseteq Events BY ForAllEvents DEF BucketLoops
<1> QED BY <1>1, <1>2, VisitStep, VisitKeeps

LEMMA VisitTimelineStep == ASSUME IInv, VisitTimeline PROVE IInv'
<1>1. /\ Visiting({"Timeline"}) /\ Visited /\ UNCHANGED <<lists, scratchVars, history>>
      /\ stack' = Advanced \/ stack' = Execute(Read(Top), Top.event, Advanced)
  BY DEF VisitTimeline, VisitSome
<1>2. {"Timeline"} \subseteq Events BY ForAllEvents
<1> QED BY <1>1, <1>2, VisitStep, VisitKeeps

LEMMA VisitAlarmStep == ASSUME IInv, VisitAlarm PROVE IInv'
<1> DEFINE i == Read(Top)
<1>1. /\ Visiting({"Alarm"}) /\ Visited
      /\ UNCHANGED <<instances, bucket, nextId, scratchVars, changed>>
      /\ \/ stack' = Advanced /\ UNCHANGED <<inst, ticks>>
         \/ /\ ticks' = [ticks EXCEPT ![i] = @ + 1]
            /\ \/ inst' = AlarmOff(i) /\ stack' = Execute(i, Top.event, Advanced)
               \/ inst' = [inst EXCEPT ![i].alarm = @ - 1] /\ stack' = Advanced
  <2>1. Visiting({"Alarm"}) /\ Top.event = "Alarm" BY DEF VisitAlarm, Visiting
  <2> QED BY <2>1 DEF VisitAlarm
<1>2. {"Alarm"} \subseteq Events BY ForAllEvents DEF BucketLoops
<1>3. i \in Ids BY <1>1, VisitingIs
<1>4. stack' \in Seq(Frame) /\ World(stack', arena, instances, scratch, scratchEpoch)
  BY <1>1, <1>2, VisitStep
<1> HIDE DEF i
<1>5. ticks' \in [Ids -> Nat]
  <2>1. ticks \in [Ids -> Nat] BY DEF IInv, HistoryType
  <2> QED BY <2>1, <1>1, <1>3
<1>6. inst' \in [Ids -> Instance] /\ \A j \in Ids : inst'[j].object = inst[j].object
  <2>1. inst \in [Ids -> Instance] BY DEF IInv, ListsType
  <2>2. inst[i].alarm \in Int /\ inst[i].alarm - 1 \in Int BY <2>1, <1>3 DEF Instance
  <2>3. CASE UNCHANGED inst BY <2>1, <2>3
  <2>4. CASE inst' = AlarmOff(i)
    <3> DEFINE n == -1
               b == FALSE
    <3>1. n \in Int /\ b \in BOOLEAN OBVIOUS
    <3>2. inst' = [inst EXCEPT ![i].alarm = n, ![i].mask = b] BY <2>4 DEF AlarmOff
    <3> HIDE DEF n, b
    <3> QED BY <3>1, <3>2, <2>1, <1>3 DEF Instance
  <2>5. CASE inst' = [inst EXCEPT ![i].alarm = @ - 1]
    <3>1. inst' = [inst EXCEPT ![i].alarm = inst[i].alarm - 1] BY <2>1, <2>5, <1>3 DEF Instance
    <3> DEFINE n == inst[i].alarm - 1
    <3>2. n \in Int BY <2>2
    <3>3. inst' = [inst EXCEPT ![i].alarm = n] BY <3>1
    <3> HIDE DEF n
    <3> QED BY <3>2, <3>3, <2>1, <1>3 DEF Instance
  <2> QED BY <2>3, <2>4, <2>5, <1>1
<1>7. ListsType' /\ ListsInv' BY <1>1, <1>6, FieldsChange
<1>8. ArenaType' /\ ScratchType' /\ FlagsType' /\ AgendaOK(agenda')
  BY <1>1, Kept DEF Visited, Undisturbed
<1>9. HistoryType' BY <1>1, <1>5 DEF IInv, HistoryType, Visited, Undisturbed
<1>10. StackInv' BY <1>1, <1>4 DEF StackInv, Visited, arenaVars, scratchVars
<1> QED BY <1>7, <1>8, <1>9, <1>10 DEF IInv

\* The top loop changes, but neither its copy nor where that is.
LEMMA TopStep ==
    ASSUME IInv, stack # <<>>, Top.kind = "loop", NEW g \in Loop, g.via = Top.via,
           g.event = Top.event, g.base = Top.base, g.snap = Top.snap, g.epoch = Top.epoch,
           g.overrun = Top.overrun, g.pos >= 1,
           g.event = "Hit" \/ g.targets # <<>> => g.self \in Ids
    PROVE  <<g>> \o Below \in Seq(Frame) /\ World(<<g>> \o Below, arena, instances, scratch, scratchEpoch)
<1>1. FrameOK(Top, instances, scratch, scratchEpoch) BY TopIs
<1>2. g \in Frame /\ g.kind = "loop" BY DEF Frame, Loop
<1>3. FrameOK(g, instances, scratch, scratchEpoch) BY <1>1, <1>2 DEF FrameOK
<1>4. /\ InArena(g) <=> InArena(Head(stack))
      /\ InArena(g) => g.base = Head(stack).base /\ g.snap = Head(stack).snap
  BY <1>2 DEF InArena, Top
<1> QED BY <1>2, <1>3, <1>4, WorldSetTop DEF IInv, StackInv, Below

LEMMA VisitColliderStep == ASSUME IInv, VisitCollider PROVE IInv'
<1> DEFINE i == Read(Top)
           t == CollidesWith[inst[i].object]
           g == [Top EXCEPT !.pos = @ + 1, !.self = i, !.targets = t]
<1>1. /\ Visiting({"Collision"}) /\ Visited /\ UNCHANGED <<lists, scratchVars, history>>
      /\ stack' = Advanced \/ stack' = <<g>> \o Below
  BY DEF VisitCollider
<1>2. /\ i \in Ids /\ stack # <<>> /\ Top.kind = "loop" /\ Top \in Frame
      /\ FrameOK(Top, instances, scratch, scratchEpoch)
      /\ Advanced \in Seq(Frame) /\ World(Advanced, arena, instances, scratch, scratchEpoch)
  BY <1>1, VisitingIs
<1>3. t \in Seq(Objects) BY <1>2, DispatchAssumption DEF IInv, ListsType, Instance
<1>4. Top \in Loop /\ Top.pos \in Nat BY <1>2, LoopIs
<1>5. Top.pos + 1 \in Nat /\ Top.pos + 1 >= 1 BY <1>4
<1> HIDE DEF i, t
<1>6. g = [Top EXCEPT !.pos = Top.pos + 1, !.self = i, !.targets = t] OBVIOUS
<1> HIDE DEF g
<1>7. /\ g \in Loop /\ g.via = Top.via /\ g.event = Top.event /\ g.base = Top.base
      /\ g.snap = Top.snap /\ g.epoch = Top.epoch /\ g.overrun = Top.overrun
      /\ g.pos = Top.pos + 1 /\ g.self = i
  BY <1>2, <1>3, <1>4, <1>5, <1>6 DEF Loop
<1>8. g.pos >= 1 /\ g.self \in Ids BY <1>2, <1>5, <1>7
<1>9. <<g>> \o Below \in Seq(Frame) /\ World(<<g>> \o Below, arena, instances, scratch, scratchEpoch)
  BY <1>2, <1>7, <1>8, TopStep
<1>10. stack' \in Seq(Frame) /\ World(stack', arena, instances, scratch, scratchEpoch)
  BY <1>1, <1>2, <1>9
<1> QED BY <1>1, <1>10, VisitKeeps

LEMMA NextTargetStep == ASSUME IInv, NextTarget PROVE IInv'
<1> DEFINE o == Head(Top.targets)
           list == ByObjectAndId(bucket[o])
           h == LoopOf("Hit", o, "arena", Len(arena), list)
           f == [h EXCEPT !.self = Top.self]
           g == [Top EXCEPT !.targets = Tail(@)]
<1>1. /\ Running("loop") /\ Top.targets # <<>> /\ Push(list)
      /\ stack' = <<f, g>> \o Below
      /\ UNCHANGED <<lists, scratchVars, agenda, history>> /\ Undisturbed
  BY DEF NextTarget
<1>2. stack # <<>> /\ Top.kind = "loop" BY <1>1 DEF Running
<1>3. Top \in Frame /\ Below \in Seq(Frame) /\ FrameOK(Top, instances, scratch, scratchEpoch)
  BY <1>2, TopIs
<1>4. Top \in Loop /\ Top.targets \in Seq(Objects) /\ Top.pos \in Nat BY <1>2, <1>3, LoopIs
<1>5. o \in Objects /\ Tail(Top.targets) \in Seq(Objects) BY <1>1, <1>4, HeadTailProperties
<1>6. Top.self \in Ids /\ Top.pos >= 1 BY <1>1, <1>2, <1>3 DEF FrameOK
<1>7. list \in Seq(Ids)
  <2>1. bucket[o] \in Seq(Ids) BY <1>5 DEF IInv, ListsType
  <2> QED BY <2>1, SortedIs
<1>8. Len(arena) \in Nat BY LenProperties DEF IInv, ArenaType
<1> HIDE DEF o, list
<1>9. /\ f \in Loop /\ f.via = "arena" /\ f.event = "Hit" /\ f.targets = <<>>
      /\ f.base = Len(arena) /\ f.snap = list /\ f.pos = 1 /\ f.self = Top.self
  <2>1. "Hit" \in LoopEvents /\ o \in LoopObjects BY <1>5 DEF LoopEvents, LoopObjects
  <2>2. h = LoopOf("Hit", o, "arena", Len(arena), list) OBVIOUS
  <2> HIDE DEF h
  <2>3. /\ h \in Loop /\ h.via = "arena" /\ h.event = "Hit" /\ h.targets = <<>>
        /\ h.base = Len(arena) /\ h.snap = list /\ h.pos = 1
    BY <2>1, <2>2, <1>7, <1>8, LoopOfIs
  <2> QED BY <2>3, <1>6 DEF Loop
<1> HIDE DEF f, h
<1>10. g = [Top EXCEPT !.targets = Tail(Top.targets)] OBVIOUS
<1> DEFINE t == Tail(Top.targets)
<1> HIDE DEF t, g
<1>11. g = [Top EXCEPT !.targets = t] /\ t \in Seq(Objects) BY <1>5, <1>10 DEF t
<1>12. /\ g \in Loop /\ g.via = Top.via /\ g.event = Top.event /\ g.base = Top.base
       /\ g.snap = Top.snap /\ g.epoch = Top.epoch /\ g.overrun = Top.overrun
       /\ g.pos = Top.pos /\ g.self = Top.self
  BY <1>4, <1>11 DEF Loop
<1>13. g.pos >= 1 /\ g.self \in Ids BY <1>6, <1>12
<1> DEFINE rest == <<g>> \o Below
<1>14. rest \in Seq(Frame) /\ World(rest, arena, instances, scratch, scratchEpoch)
  BY <1>2, <1>12, <1>13, TopStep
<1>15. g \in Frame /\ f \in Frame BY <1>9, <1>12 DEF Frame
<1>16. <<f, g>> \o Below = <<f>> \o rest BY <1>3, <1>15, TwoOnTop
<1> HIDE DEF rest
<1>17. f.event \notin ForAll /\ (f.event = "Hit" => f.self \in Ids) BY <1>6, <1>9, ForAllEvents
<1>18. /\ ArenaType' /\ <<f>> \o rest \in Seq(Frame)
       /\ World(<<f>> \o rest, arena', instances, scratch, scratchEpoch)
  BY <1>1, <1>7, <1>9, <1>14, <1>17, PushLoopStep DEF IInv
<1>19. ListsType' /\ ListsInv' /\ ScratchType' /\ FlagsType' /\ AgendaOK(agenda') /\ HistoryType'
  BY <1>1, Kept DEF Undisturbed
<1>20. StackInv' BY <1>1, <1>16, <1>18 DEF StackInv, lists, scratchVars
<1> QED BY <1>18, <1>19, <1>20 DEF IInv

LEMMA VisitOtherStep == ASSUME IInv, VisitOther PROVE IInv'
<1> DEFINE other == Read(Top)
           w == [kind |-> "solid", self |-> Top.self, other |-> other]
<1>1. /\ Visiting({"Hit"}) /\ Visited /\ UNCHANGED <<lists, scratchVars, history>>
      /\ \/ stack' = Advanced
         \/ stack' = Execute(Top.self, "Collision", Advanced)
         \/ stack' = Execute(Top.self, "Collision", <<w>> \o Advanced)
  BY DEF VisitOther
<1>2. /\ other \in Ids /\ stack # <<>> /\ Top.kind = "loop" /\ Top.event = "Hit"
      /\ FrameOK(Top, instances, scratch, scratchEpoch)
      /\ Advanced \in Seq(Frame) /\ World(Advanced, arena, instances, scratch, scratchEpoch)
  BY <1>1, VisitingIs
<1> HIDE DEF other
<1>3. Top.self \in Ids BY <1>2 DEF FrameOK
<1>4. w \in Frame /\ w.kind # "loop" BY <1>2, <1>3 DEF Frame, Solid
<1> HIDE DEF w
<1>5. arena \in Seq(Ids) /\ "Collision" \in Events BY ForAllEvents DEF IInv, ArenaType, BucketLoops
<1>6. /\ <<w>> \o Advanced \in Seq(Frame)
      /\ World(<<w>> \o Advanced, arena, instances, scratch, scratchEpoch)
  BY <1>2, <1>4, <1>5, WorldPush
<1>7. stack' \in Seq(Frame) /\ World(stack', arena, instances, scratch, scratchEpoch)
  <2>1. CASE stack' = Advanced BY <2>1, <1>2
  <2>2. CASE stack' = Execute(Top.self, "Collision", Advanced) BY <2>2, <1>2, <1>3, <1>5, ExecuteIs
  <2>3. CASE stack' = Execute(Top.self, "Collision", <<w>> \o Advanced)
    BY <2>3, <1>3, <1>5, <1>6, ExecuteIs
  <2> QED BY <2>1, <2>2, <2>3, <1>1
<1> QED BY <1>1, <1>7, VisitKeeps

LEMMA SymmetricStep == ASSUME IInv, Symmetric PROVE IInv'
<1>1. /\ Running("solid") /\ Visited /\ UNCHANGED <<lists, scratchVars, history>>
      /\ stack' = Below \/ stack' = Execute(Top.other, "Collision", Below)
  BY DEF Symmetric
<1>2. stack # <<>> /\ Top.kind = "solid" BY <1>1 DEF Running
<1>3. ~ InArena(Top) BY <1>2 DEF InArena
<1>4. Below \in Seq(Frame) /\ World(Below, arena, instances, scratch, scratchEpoch)
  BY <1>2, <1>3, TopIs DEF World
<1>5. Top.other \in Ids
  <2>1. Top \in Solid BY <1>2, TopIs, FrameIs
  <2> QED BY <2>1 DEF Solid
<1>6. arena \in Seq(Ids) /\ "Collision" \in Events BY ForAllEvents DEF IInv, ArenaType, BucketLoops
<1>7. stack' \in Seq(Frame) /\ World(stack', arena, instances, scratch, scratchEpoch)
  BY <1>1, <1>4, <1>5, <1>6, ExecuteIs
<1> QED BY <1>1, <1>7, VisitKeeps

LEMMA VisitWriteStep == ASSUME IInv, VisitWrite PROVE IInv'
<1>1. /\ Visiting({"Write"})
      /\ SetLives(FALSE, Advanced) \/ (stack' = Advanced /\ UNCHANGED <<lives, scratchVars>>)
      /\ UNCHANGED <<lists, arenaVars, agenda, pendingRoom, crashed, frames, ops, history>>
  BY DEF VisitWrite
<1>2. Advanced \in Seq(Frame) /\ World(Advanced, arena, instances, scratch, scratchEpoch)
  BY <1>1, VisitingIs
<1>3. /\ lives' \in BOOLEAN /\ ScratchType' /\ stack' \in Seq(Frame)
      /\ World(stack', arena, instances, scratch', scratchEpoch')
  <2>1. CASE SetLives(FALSE, Advanced)
    BY <2>1, <1>2, SetLivesStep DEF IInv, FlagsType
  <2>2. CASE stack' = Advanced /\ UNCHANGED <<lives, scratchVars>>
    <3>1. ScratchType' /\ lives' \in BOOLEAN BY <2>2, Kept DEF IInv, FlagsType
    <3> QED BY <3>1, <2>2, <1>2 DEF scratchVars
  <2> QED BY <2>1, <2>2, <1>1
<1>4. ListsType' /\ ListsInv' /\ ArenaType' /\ AgendaOK(agenda') /\ HistoryType' BY <1>1, Kept
<1>5. FlagsType' BY <1>1, <1>3 DEF IInv, FlagsType
<1>6. StackInv' BY <1>1, <1>3 DEF StackInv, lists, arenaVars
<1> QED BY <1>3, <1>4, <1>5, <1>6 DEF IInv

LEMMA NextStage ==
    ASSUME NEW e \in ToSet(MouseStages), StageOf(e) < Len(MouseStages)
    PROVE  MouseStages[StageOf(e) + 1] \in ToSet(MouseStages)
<1>1. DOMAIN MouseStages = 1 .. 3 /\ Len(MouseStages) = 3 BY DEF MouseStages
<1>2. \E k \in DOMAIN MouseStages : MouseStages[k] = e BY DEF ToSet
<1>3. StageOf(e) \in DOMAIN MouseStages BY <1>2, Zenon DEF StageOf
<1>4. StageOf(e) + 1 \in DOMAIN MouseStages BY <1>1, <1>3
<1> QED BY <1>4 DEF ToSet

LEMMA EndLoopStep == ASSUME IInv, EndLoop PROVE IInv'
<1>1. /\ Running("loop") /\ Top.targets = <<>>
      /\ UNCHANGED <<lists, scratchVars, agenda, history>> /\ Undisturbed
  BY DEF EndLoop
<1>2. stack # <<>> /\ Top.kind = "loop" BY <1>1 DEF Running
<1>3. /\ Top \in Frame /\ Below \in Seq(Frame) /\ FrameOK(Top, instances, scratch, scratchEpoch)
      /\ FramesOK(Below, instances, scratch, scratchEpoch)
      /\ ~ InArena(Top) => ArenaOK(Below, arena)
  BY <1>2, TopIs
<1>4. Top \in Loop /\ Top.via \in {"arena", "pointer", "scratch"} BY <1>2, <1>3, LoopIs
<1>5. ListsType' /\ ListsInv' /\ ScratchType' /\ FlagsType' /\ AgendaOK(agenda') /\ HistoryType'
  BY <1>1, Kept DEF Undisturbed
<1>6. CASE Top.event \in ToSet(MouseStages) /\ StageOf(Top.event) < Len(MouseStages)
  <2> DEFINE e == MouseStages[StageOf(Top.event) + 1]
             g == [Top EXCEPT !.event = e, !.pos = 1, !.via = "pointer", !.epoch = arenaEpoch]
  <2>1. stack' = <<g>> \o Below /\ UNCHANGED arenaVars BY <1>6 DEF EndLoop
  <2>2. e \in ToSet(MouseStages) BY <1>6, NextStage
  <2>3. arenaEpoch \in Nat BY DEF IInv, ArenaType
  <2>4. e \in Events /\ e \notin ForAll /\ e # "Hit" /\ Top.event \notin ForAll
    BY <2>2, <1>6, ForAllEvents
  <2> HIDE DEF e
  <2>5. /\ g \in Loop /\ g.kind = "loop" /\ g.via = "pointer" /\ g.event = e /\ g.base = Top.base
        /\ g.snap = Top.snap /\ g.pos = 1 /\ g.targets = Top.targets
    BY <2>3, <2>4, <1>4 DEF Loop
  <2> HIDE DEF g
  <2>6. g.targets = <<>> BY <2>5, <1>1
  <2>7. Top.via # "scratch" BY <2>4, <1>2, <1>3 DEF FrameOK
  <2>8. g \in Frame BY <2>5 DEF Frame
  <2>9. FrameOK(g, instances, scratch, scratchEpoch)
    <3>1. g.event \notin ListForAll BY <2>4, <2>5 DEF ForAll
    <3> QED BY <3>1, <2>4, <2>5, <2>6 DEF FrameOK
  <2>10. /\ InArena(g) <=> InArena(Head(stack))
         /\ InArena(g) => g.base = Head(stack).base /\ g.snap = Head(stack).snap
    BY <2>5, <2>7, <1>2, <1>4 DEF InArena, Top
  <2>11. /\ <<g>> \o Below \in Seq(Frame)
         /\ World(<<g>> \o Below, arena, instances, scratch, scratchEpoch)
    BY <2>8, <2>9, <2>10, <1>2, WorldSetTop DEF IInv, StackInv, Below
  <2>12. ArenaType' BY <2>1, Kept
  <2>13. StackInv' BY <2>1, <2>11, <1>1 DEF StackInv, lists, arenaVars, scratchVars
  <2> QED BY <2>12, <2>13, <1>5 DEF IInv
<1>7. CASE ~ (Top.event \in ToSet(MouseStages) /\ StageOf(Top.event) < Len(MouseStages))
  <2>1. stack' = Below /\ IF Top.via = "scratch" THEN UNCHANGED arenaVars ELSE Pop(Top.base)
    BY <1>7 DEF EndLoop
  <2>2. ArenaType' /\ ArenaOK(Below, arena')
    <3>1. CASE Top.via = "scratch"
      <4>1. UNCHANGED arenaVars /\ ~ InArena(Top) BY <2>1, <3>1 DEF InArena
      <4> QED BY <4>1, <1>3, Kept DEF arenaVars
    <3>2. CASE Top.via # "scratch"
      <4>1. Pop(Top.base) /\ InArena(Top) BY <2>1, <3>2, <1>2, <1>4 DEF InArena
      <4> QED BY <4>1, <1>2, PopStep
    <3> QED BY <3>1, <3>2
  <2>3. StackInv' BY <2>1, <2>2, <1>1, <1>3 DEF StackInv, World, lists, scratchVars
  <2> QED BY <2>2, <2>3, <1>5 DEF IInv
<1> QED BY <1>6, <1>7

LEMMA EarlyReturnStep == ASSUME IInv, EarlyReturn PROVE IInv'
<1>1. /\ Running("loop") /\ ReturnsEarly(Top) /\ stack' = Below /\ Pop(Top.base)
      /\ agenda' = agenda \/ (agenda # <<>> /\ agenda' = Tail(agenda))
      /\ UNCHANGED <<lists, scratchVars, history>> /\ Undisturbed
  BY DEF EarlyReturn, GivenUp
<1>2. stack # <<>> /\ Top.kind = "loop" BY <1>1 DEF Running
<1>3. /\ Top \in Frame /\ Below \in Seq(Frame) /\ FrameOK(Top, instances, scratch, scratchEpoch)
      /\ FramesOK(Below, instances, scratch, scratchEpoch)
  BY <1>2, TopIs
<1>4. InArena(Top)
  <2>1. Top.via \in {"arena", "pointer", "scratch"} BY <1>2, <1>3, LoopIs
  <2>2. Top.event \notin ForAll BY <1>1, ForAllEvents DEF ReturnsEarly
  <2> QED BY <2>1, <2>2, <1>2, <1>3 DEF FrameOK, InArena
<1>5. ArenaType' /\ ArenaOK(Below, arena') BY <1>1, <1>2, <1>4, PopStep
<1>6. AgendaOK(agenda') BY <1>1, AgendaTail DEF IInv
<1>7. ListsType' /\ ListsInv' /\ ScratchType' /\ FlagsType' /\ HistoryType'
  BY <1>1, Kept DEF Undisturbed
<1>8. StackInv' BY <1>1, <1>3, <1>5 DEF StackInv, World, lists, scratchVars
<1> QED BY <1>5, <1>6, <1>7, <1>8 DEF IInv

LEMMA CleanupStep == ASSUME IInv, CleanupDestroyed PROVE IInv'
<1> DEFINE Alive(list) == {k \in DOMAIN list : ~ inst[list[k]].destroyed}
<1>1. /\ stack = <<>>
      /\ instances' = Entries(instances, Alive(instances))
      /\ bucket' = [o \in Objects |-> Entries(bucket[o], Alive(bucket[o]))]
      /\ agenda' = <<>>
      /\ UNCHANGED <<inst, nextId, arenaVars, scratchVars, stack, history>> /\ Undisturbed
  BY DEF CleanupDestroyed
<1>2. instances \in Seq(Ids) /\ bucket \in [Objects -> Seq(Ids)] BY DEF IInv, ListsType
<1>3. \A list : Alive(list) \in SUBSET (DOMAIN list) OBVIOUS
<1> HIDE DEF Alive
<1>4. /\ instances' \in Seq(Ids)
      /\ \A k \in DOMAIN instances' : \E n \in Alive(instances) : instances'[k] = instances[n]
  BY <1>1, <1>2, <1>3, EntriesAre
<1>5. \A k \in 1 .. Len(instances') : instances'[k] < nextId'
  <2>1. ASSUME NEW k \in 1 .. Len(instances') PROVE instances'[k] < nextId'
    <3>1. k \in DOMAIN instances' BY <1>4, LenProperties
    <3>2. PICK n \in Alive(instances) : instances'[k] = instances[n] BY <3>1, <1>4
    <3>3. n \in 1 .. Len(instances) BY <3>2, <1>2, <1>3, LenProperties
    <3> QED BY <3>2, <3>3, <1>1 DEF IInv, ListsInv
  <2> QED BY <2>1
<1>6. ASSUME NEW o \in Objects
      PROVE  /\ bucket'[o] \in Seq(Ids)
             /\ \A k \in 1 .. Len(bucket'[o]) :
                   bucket'[o][k] < nextId' /\ inst'[bucket'[o][k]].object = o
             /\ \A k, m \in 1 .. Len(bucket'[o]) : bucket'[o][k] = bucket'[o][m] => k = m
  <2> DEFINE b == bucket[o]
             w == bucket'[o]
  <2>1. b \in Seq(Ids) /\ DOMAIN b = 1 .. Len(b) BY <1>2, LenProperties
  <2>2. w = Entries(b, Alive(b)) BY <1>1
  <2>3. /\ \A k \in 1 .. Len(b) : b[k] < nextId /\ inst[b[k]].object = o
        /\ \A k, m \in DOMAIN b : b[k] = b[m] => k = m
    BY <2>1 DEF IInv, ListsInv
  <2> HIDE DEF b, w
  <2>4. /\ w \in Seq(Ids)
        /\ \A k \in DOMAIN w : \E n \in Alive(b) : w[k] = b[n]
        /\ \A k, m \in DOMAIN w : w[k] = w[m] => k = m
    <3> DEFINE S == Alive(b)
    <3>1. S \in SUBSET (DOMAIN b) BY <1>3
    <3> HIDE DEF S
    <3>2. /\ Entries(b, S) \in Seq(Ids)
          /\ \A k \in DOMAIN Entries(b, S) : \E n \in S : Entries(b, S)[k] = b[n]
      BY <2>1, <3>1, EntriesAre
    <3>3. \A k, m \in DOMAIN Entries(b, S) : Entries(b, S)[k] = Entries(b, S)[m] => k = m
      BY <2>1, <2>3, <3>1, EntriesAre
    <3>4. w = Entries(b, S) BY <2>2 DEF S
    <3> QED BY <3>2, <3>3, <3>4 DEF S
  <2>5. DOMAIN w = 1 .. Len(w) BY <2>4, LenProperties
  <2>6. ASSUME NEW k \in 1 .. Len(w) PROVE w[k] < nextId' /\ inst'[w[k]].object = o
    <3>1. PICK n \in Alive(b) : w[k] = b[n] BY <2>4, <2>5
    <3>2. n \in 1 .. Len(b) BY <3>1, <2>1, <1>3
    <3> QED BY <3>1, <3>2, <2>3, <1>1
  <2> QED BY <2>4, <2>5, <2>6 DEF w
<1>7. ListsType'
  <2>1. bucket' \in [Objects -> Seq(Ids)] BY <1>1, <1>6
  <2> QED BY <2>1, <1>1, <1>4 DEF IInv, ListsType
<1>8. ListsInv' BY <1>5, <1>6 DEF ListsInv
<1>9. AgendaOK(agenda') BY <1>1, AgendaNone
<1>10. ArenaType' /\ ScratchType' /\ FlagsType' /\ HistoryType' BY <1>1, Kept DEF Undisturbed
<1>11. StackInv'
  <2>1. Len(<<>>) = 0 BY EmptySeq
  <2>2. FramesOK(<<>>, instances', scratch, scratchEpoch) BY <2>1 DEF FramesOK
  <2> QED BY <2>2, <1>1 DEF IInv, StackInv, World, arenaVars, scratchVars
<1> QED BY <1>7, <1>8, <1>9, <1>10, <1>11 DEF IInv

-------------------------------------------------------------------------------
(* The invariant holds                                                      *)

LEMMA InitIs == Init => IInv
<1> SUFFICES ASSUME Init PROVE IInv OBVIOUS
<1> DEFINE N == Len(ObjectOf)
           At(o) == {k \in DOMAIN ObjectOf : ObjectOf[k] = o}
<1>1. /\ ObjectOf \in Seq(Objects) /\ MaxId \in Nat /\ N <= MaxId /\ N \in Nat
      /\ DOMAIN ObjectOf = 1 .. N
  BY DispatchAssumption, LenProperties
<1>2. /\ instances = [k \in 1 .. N |-> k]
      /\ bucket = [o \in Objects |-> Entries(instances, At(o))]
      /\ inst \in [Ids -> [object : Objects, active : {TRUE}, destroyed : {FALSE},
                           alarm : {-1, 1}, mask : BOOLEAN]]
      /\ \A i \in Ids : i <= N => inst[i].object = ObjectOf[i]
      /\ nextId = N + 1
  BY DEF Init
<1> HIDE DEF N
<1>3. /\ instances \in Seq(Ids) /\ DOMAIN instances = 1 .. N /\ Len(instances) = N
      /\ \A k \in 1 .. N : instances[k] = k /\ k \in Ids /\ k < nextId
  <2>1. \A k \in 1 .. N : k \in Ids /\ k < nextId BY <1>1, <1>2 DEF Ids
  <2>2. instances \in [1 .. N -> Ids] BY <2>1, <1>2
  <2> QED BY <2>1, <2>2, <1>1, <1>2
<1>4. \A o : At(o) \in SUBSET (1 .. N) /\ \A k \in At(o) : ObjectOf[k] = o BY <1>1
<1> HIDE DEF At
<1>5. ASSUME NEW o \in Objects
      PROVE  /\ bucket[o] \in Seq(Ids)
             /\ \A k \in 1 .. Len(bucket[o]) :
                   bucket[o][k] < nextId /\ inst[bucket[o][k]].object = o
             /\ \A k, m \in 1 .. Len(bucket[o]) : bucket[o][k] = bucket[o][m] => k = m
  <2> DEFINE S == At(o)
             w == bucket[o]
  <2>1. w = Entries(instances, S) BY <1>2
  <2>2. S \in SUBSET (DOMAIN instances) /\ \A k \in S : ObjectOf[k] = o BY <1>3, <1>4
  <2>3. \A k, m \in DOMAIN instances : instances[k] = instances[m] => k = m BY <1>3
  <2> HIDE DEF S, w
  <2>4. /\ w \in Seq(Ids)
        /\ \A k \in DOMAIN w : \E n \in S : w[k] = instances[n]
    BY <2>1, <2>2, <1>3, EntriesAre
  <2>5. \A k, m \in DOMAIN w : w[k] = w[m] => k = m
    BY <2>1, <2>2, <2>3, <1>3, EntriesAre
  <2>6. DOMAIN w = 1 .. Len(w) BY <2>4, LenProperties
  <2>7. ASSUME NEW k \in 1 .. Len(w) PROVE w[k] < nextId /\ inst[w[k]].object = o
    <3>1. PICK n \in S : w[k] = instances[n] BY <2>4, <2>6
    <3>2. n \in 1 .. N /\ ObjectOf[n] = o BY <2>2, <1>3
    <3>3. n <= N BY <3>2, <1>1
    <3> QED BY <3>1, <3>2, <3>3, <1>2, <1>3
  <2> QED BY <2>4, <2>5, <2>6, <2>7 DEF w
<1>6. ListsType
  <2>1. bucket \in [Objects -> Seq(Ids)] BY <1>2, <1>5
  <2>2. inst \in [Ids -> Instance]
    <3>1. [object : Objects, active : {TRUE}, destroyed : {FALSE}, alarm : {-1, 1}, mask : BOOLEAN]
             \subseteq Instance
      <4> DEFINE A == {-1, 1}
      <4>1. A \subseteq Int OBVIOUS
      <4> HIDE DEF A
      <4>2. [object : Objects, active : {TRUE}, destroyed : {FALSE}, alarm : A, mask : BOOLEAN]
               \subseteq Instance
        BY <4>1 DEF Instance
      <4> QED BY <4>2 DEF A
    <3> QED BY <3>1, <1>2
  <2>3. nextId \in Nat \ {0} BY <1>1, <1>2
  <2> QED BY <2>1, <2>2, <2>3, <1>3 DEF ListsType
<1>7. ListsInv BY <1>3, <1>5 DEF ListsInv
<1>8. <<>> \in Seq(Ids) /\ <<>> \in Seq(Frame) /\ Len(<<>>) = 0 BY EmptySeq
<1>9. ArenaType /\ ScratchType /\ FlagsType /\ HistoryType
  <2>1. ArenaType BY <1>8 DEF Init, ArenaType
  <2>2. ScratchType BY <1>8 DEF Init, ScratchType
  <2>3. FlagsType BY DEF Init, FlagsType
  <2>4. frames = 0 /\ ops = 0 /\ ticks = [i \in Ids |-> 0] /\ changed = {} BY DEF Init
  <2>5. HistoryType BY <2>4 DEF HistoryType
  <2> QED BY <2>1, <2>2, <2>3, <2>5
<1>10. AgendaOK(agenda) BY AgendaNone DEF Init
<1>11. StackInv
  <2>1. stack = <<>> /\ arena = <<>> BY DEF Init
  <2>2. FramesOK(stack, instances, scratch, scratchEpoch) BY <2>1, <1>8 DEF FramesOK
  <2>3. ArenaOK(stack, arena) BY <2>1, <1>8 DEF ArenaOK
  <2> QED BY <2>1, <2>2, <2>3, <1>8 DEF StackInv, World
<1> QED BY <1>6, <1>7, <1>9, <1>10, <1>11 DEF IInv

LEMMA StutterStep == ASSUME IInv, UNCHANGED vars PROVE IInv'
<1>1. /\ UNCHANGED <<lists, arenaVars, scratchVars, lives, pendingRoom, agenda, crashed>>
      /\ UNCHANGED <<frames, ops, history>> /\ UNCHANGED stack
  BY DEF vars
<1>2. stack' \in Seq(Frame) /\ World(stack', arena, instances, scratch, scratchEpoch)
  BY <1>1 DEF IInv, StackInv
<1> QED BY <1>1, <1>2, StackStep

LEMMA NextStep == IInv /\ [Next]_vars => IInv'
<1> SUFFICES ASSUME IInv, [Next]_vars PROVE IInv' OBVIOUS
<1>1. CASE GameCode BY <1>1, GameCodeStep
<1>2. CASE BeginFrame BY <1>2, BeginFrameStep
<1>3. CASE StartLoop BY <1>3, StartLoopStep
<1>4. CASE Crash BY <1>4, CrashStep
<1>5. CASE VisitEach BY <1>5, VisitEachStep
<1>6. CASE VisitMouse BY <1>6, VisitMouseStep
<1>7. CASE VisitOutside BY <1>7, VisitOutsideStep
<1>8. CASE VisitTimeline BY <1>8, VisitTimelineStep
<1>9. CASE VisitAlarm BY <1>9, VisitAlarmStep
<1>10. CASE VisitCollider BY <1>10, VisitColliderStep
<1>11. CASE NextTarget BY <1>11, NextTargetStep
<1>12. CASE VisitOther BY <1>12, VisitOtherStep
<1>13. CASE Symmetric BY <1>13, SymmetricStep
<1>14. CASE VisitWrite BY <1>14, VisitWriteStep
<1>15. CASE EndLoop BY <1>15, EndLoopStep
<1>16. CASE EarlyReturn BY <1>16, EarlyReturnStep
<1>17. CASE CleanupDestroyed BY <1>17, CleanupStep
<1>18. CASE Stopped BY <1>18, StutterStep DEF Stopped
<1>19. CASE UNCHANGED vars BY <1>19, StutterStep
<1> QED BY <1>1, <1>2, <1>3, <1>4, <1>5, <1>6, <1>7, <1>8, <1>9, <1>10, <1>11, <1>12, <1>13,
           <1>14, <1>15, <1>16, <1>17, <1>18, <1>19 DEF Next, Engine

LEMMA IInvHolds == Spec => []IInv
BY InitIs, NextStep, PTL DEF Spec

\* Every variable keeps its type: lists, arrays and capacities, the agenda and each frame of
\* the C stack.
THEOREM TypeCorrect == Spec => []TypeOK
BY IInvHolds, TypesFollow, PTL

\* Whatever game code does to the lists inside the loops of Runner_step, and however deep
\* dispatches nest, the arena holds the copies of the running loops one after the other, and a
\* loop over the scratch array reads what it copied unless the array was reallocated or, in a
\* loop over the buckets of objects, another event was dispatched inside it.
THEOREM CopiesKept == Spec => []LoopsReadTheirCopies
BY IInvHolds, CopiesFollow, PTL

-------------------------------------------------------------------------------
(* Alarms                                                                   *)

IsAlarm(f) == f.kind = "loop" /\ f.event = "Alarm"

\* The object's alarms are still to be done in this step.
PendingIn(ag, o) == \E k \in 1 .. Len(ag) : ag[k][1] = "Alarm" /\ o \in ag[k][2]

\* A loop over the alarms of an object has a copy of its bucket, that was not done before; it is
\* the outermost loop.
AlarmLoopOK(f) ==
    /\ \A j \in 1 .. Len(f.snap) :
          /\ f.snap[j] < nextId
          /\ f.snap[j] \notin changed => inst[f.snap[j]].object = f.object
    /\ \A j, m \in 1 .. Len(f.snap) : f.snap[j] = f.snap[m] => j = m
    /\ ~ PendingIn(agenda, f.object)
AlarmLoops == \A k \in 1 .. Len(stack) : IsAlarm(stack[k]) => k = Len(stack) /\ AlarmLoopOK(stack[k])

\* An instance whose alarm was decremented in this step is not met again, unless it changed.
Ticked(i) ==
    /\ i < nextId
    /\ i \notin changed =>
          /\ ~ PendingIn(agenda, inst[i].object)
          /\ \A k \in 1 .. Len(stack) : IsAlarm(stack[k]) =>
                \A j \in 1 .. Len(stack[k].snap) : j >= stack[k].pos => stack[k].snap[j] # i
AlarmTicks == \A i \in Ids : ticks[i] # 0 => Ticked(i)
AlarmOnce == \A i \in Ids : ticks[i] > 1 => i \in changed
Masks == \A i \in Ids : inst[i].mask = (inst[i].alarm > 0)

AlarmInv == AlarmLoops /\ AlarmTicks /\ AlarmOnce /\ Masks

\* In the stack t an alarm loop is the outermost loop, and is one of s that did not go back.
Follows(s, t) ==
    \A k \in 1 .. Len(t) : IsAlarm(t[k]) =>
       /\ k = Len(t)
       /\ \E m \in 1 .. Len(s) : /\ IsAlarm(s[m]) /\ t[k].snap = s[m].snap
                                 /\ t[k].object = s[m].object /\ t[k].pos >= s[m].pos
AlarmBottom(s) == \A k \in 1 .. Len(s) : IsAlarm(s[k]) => k = Len(s)

LEMMA FollowsSame ==
    ASSUME NEW s \in Seq(Frame), AlarmBottom(s) PROVE Follows(s, s)
<1>1. \A k \in 1 .. Len(s) : s[k] \in Frame OBVIOUS
<1>2. ASSUME NEW k \in 1 .. Len(s), IsAlarm(s[k]) PROVE s[k].pos >= s[k].pos
  <2>1. s[k].pos \in Nat BY <1>1, <1>2, LoopIs DEF IsAlarm
  <2> QED BY <2>1
<1> QED BY <1>2 DEF Follows, AlarmBottom

LEMMA FollowsPush ==
    ASSUME NEW s, NEW t \in Seq(Frame), NEW f \in Frame, ~ IsAlarm(f), Follows(s, t)
    PROVE  Follows(s, <<f>> \o t)
<1> DEFINE c == <<f>> \o t
<1>1. Len(t) \in Nat BY LenProperties
<1>2. Len(c) = Len(t) + 1 /\ c[1] = f /\ \A k \in 1 .. Len(t) : c[k + 1] = t[k] BY ConsIs
<1> HIDE DEF c
<1>3. ASSUME NEW k \in 1 .. Len(c), IsAlarm(c[k])
      PROVE  k - 1 \in 1 .. Len(t) /\ c[k] = t[k - 1]
  <2>1. k # 1 BY <1>2, <1>3
  <2>2. k - 1 \in 1 .. Len(t) /\ (k - 1) + 1 = k BY <2>1, <1>1, <1>2
  <2> QED BY <2>2, <1>2
<1>4. ASSUME NEW k \in 1 .. Len(c), IsAlarm(c[k])
      PROVE  /\ k = Len(c)
             /\ \E m \in 1 .. Len(s) : /\ IsAlarm(s[m]) /\ c[k].snap = s[m].snap
                                       /\ c[k].object = s[m].object /\ c[k].pos >= s[m].pos
  <2>1. k - 1 \in 1 .. Len(t) /\ c[k] = t[k - 1] BY <1>3, <1>4
  <2>2. /\ k - 1 = Len(t)
        /\ \E m \in 1 .. Len(s) : /\ IsAlarm(s[m]) /\ c[k].snap = s[m].snap
                                  /\ c[k].object = s[m].object /\ c[k].pos >= s[m].pos
    BY <2>1, <1>4 DEF Follows
  <2> QED BY <2>2, <1>1, <1>2
<1> QED BY <1>4 DEF Follows, c

LEMMA FollowsTail ==
    ASSUME NEW s \in Seq(Frame), s # <<>>, AlarmBottom(s) PROVE Follows(s, Tail(s))
<1> DEFINE c == Tail(s)
<1>1. /\ Len(s) \in Nat \ {0} /\ Len(c) = Len(s) - 1 /\ DOMAIN s = 1 .. Len(s)
      /\ \A k \in 1 .. Len(s) - 1 : c[k] = s[k + 1]
  BY TailIs
<1> HIDE DEF c
<1>2. ASSUME NEW k \in 1 .. Len(c), IsAlarm(c[k])
      PROVE  /\ k = Len(c)
             /\ \E m \in 1 .. Len(s) : /\ IsAlarm(s[m]) /\ c[k].snap = s[m].snap
                                       /\ c[k].object = s[m].object /\ c[k].pos >= s[m].pos
  <2>1. k + 1 \in 1 .. Len(s) /\ c[k] = s[k + 1] BY <1>1
  <2>2. k + 1 = Len(s) BY <2>1, <1>2 DEF AlarmBottom
  <2>3. s[k + 1] \in Frame BY <2>1, <1>1
  <2>4. c[k].pos >= s[k + 1].pos
    <3>1. s[k + 1].pos \in Nat BY <2>1, <2>3, <1>2, LoopIs DEF IsAlarm
    <3> QED BY <3>1, <2>1
  <2> QED BY <2>1, <2>2, <2>4, <1>1, <1>2
<1> QED BY <1>2 DEF Follows, c

LEMMA FollowsSetTop ==
    ASSUME NEW s \in Seq(Frame), s # <<>>, AlarmBottom(s), NEW g \in Frame,
           IsAlarm(g) => /\ IsAlarm(Head(s)) /\ g.snap = Head(s).snap
                         /\ g.object = Head(s).object /\ g.pos >= Head(s).pos
    PROVE  Follows(s, <<g>> \o Tail(s))
<1> DEFINE r == Tail(s)
           c == <<g>> \o r
<1>1. /\ Len(s) \in Nat \ {0} /\ Head(s) = s[1] /\ r \in Seq(Frame) /\ Len(r) = Len(s) - 1
  BY TailIs
<1>2. Len(c) = Len(r) + 1 /\ c[1] = g /\ \A k \in 1 .. Len(r) : c[k + 1] = r[k]
  BY <1>1, ConsIs
<1>3. Follows(s, r) BY FollowsTail
<1> HIDE DEF c, r
<1>4. ASSUME NEW k \in 1 .. Len(c), IsAlarm(c[k])
      PROVE  /\ k = Len(c)
             /\ \E m \in 1 .. Len(s) : /\ IsAlarm(s[m]) /\ c[k].snap = s[m].snap
                                       /\ c[k].object = s[m].object /\ c[k].pos >= s[m].pos
  <2>1. CASE k = 1
    <3>1. 1 \in 1 .. Len(s) BY <1>1
    <3>2. IsAlarm(s[1]) BY <2>1, <1>1, <1>2, <1>4
    <3>3. 1 = Len(s) BY <3>1, <3>2 DEF AlarmBottom
    <3>4. k = Len(c) BY <2>1, <3>3, <1>1, <1>2
    <3> QED BY <2>1, <3>1, <3>2, <3>4, <1>1, <1>2, <1>4
  <2>2. CASE k # 1
    <3>1. k - 1 \in 1 .. Len(r) /\ (k - 1) + 1 = k BY <2>2, <1>1, <1>2
    <3>2. c[k] = r[k - 1] BY <3>1, <1>2
    <3>3. k - 1 = Len(r) BY <3>1, <3>2, <1>3, <1>4 DEF Follows
    <3>4. k = Len(c) BY <3>3, <1>1, <1>2
    <3> QED BY <3>1, <3>2, <3>4, <1>3, <1>4 DEF Follows
  <2> QED BY <2>1, <2>2
<1> QED BY <1>4 DEF Follows, c, r

LEMMA FollowsOverrun ==
    ASSUME NEW s, NEW t \in Seq(Frame), Follows(s, t) PROVE Follows(s, Overrun(t))
<1> DEFINE c == Overrun(t)
<1>1. /\ Len(c) = Len(t)
      /\ \A k \in 1 .. Len(t) :
            /\ c[k].kind = t[k].kind
            /\ t[k].kind = "loop" => /\ c[k].event = t[k].event /\ c[k].object = t[k].object
                                     /\ c[k].snap = t[k].snap /\ c[k].pos = t[k].pos
  BY OverrunIs
<1> HIDE DEF c
<1>2. \A k \in 1 .. Len(t) : IsAlarm(c[k]) =>
          /\ IsAlarm(t[k]) /\ c[k].snap = t[k].snap /\ c[k].object = t[k].object /\ c[k].pos = t[k].pos
  BY <1>1 DEF IsAlarm
<1> QED BY <1>1, <1>2 DEF Follows, c

LEMMA FollowsExecute ==
    ASSUME NEW s, NEW rest \in Seq(Frame), Follows(s, rest), NEW i \in Ids, NEW e \in Events
    PROVE  Follows(s, Execute(i, e, rest))
<1>1. CASE Blocked(e) BY <1>1 DEF Execute
<1>2. CASE ~ Blocked(e)
  <2> DEFINE f == [kind |-> "code", self |-> i, event |-> e]
  <2>1. f \in Frame /\ ~ IsAlarm(f) BY DEF Frame, Code, IsAlarm
  <2>2. Execute(i, e, rest) = <<f>> \o rest BY <1>2 DEF Execute
  <2> HIDE DEF f
  <2> QED BY <2>1, <2>2, FollowsPush
<1> QED BY <1>1, <1>2

LEMMA FollowsForAll ==
    ASSUME ListsType, ScratchType, NEW s, NEW event \in ForAll, NEW rest \in Seq(Frame),
           Follows(s, rest), ExecuteEventForAll(event, rest)
    PROVE  Follows(s, stack')
<1> DEFINE list == Dispatched(event)
<1>1. list \in Seq(Ids) BY RespondersIs DEF Dispatched, ListsType
<1> HIDE DEF list
<1>2. CASE Handlers[event] = {} \/ list = <<>>
  <2>1. stack' = rest BY <1>2 DEF ExecuteEventForAll, list
  <2> QED BY <2>1
<1>3. CASE ~ (Handlers[event] = {} \/ list = <<>>)
  <2> DEFINE h == LoopOf(event, Everyone, "scratch", 0, list)
             f == [h EXCEPT !.epoch = scratchEpoch']
             t == Overrun(rest)
  <2>1. stack' = <<f>> \o t /\ scratchEpoch' = Epoch(scratchEpoch, scratchCap, Len(list))
    BY <1>3 DEF ExecuteEventForAll, list
  <2>2. scratchEpoch' \in Nat
    <3>1. Len(list) \in Nat BY <1>1, LenProperties
    <3> QED BY <2>1, <3>1, CapacityIs DEF ScratchType
  <2>3. h \in Loop /\ h.event = event
    <3>1. /\ event \in Events \cup {"Hit", "Write"} /\ Everyone \in Objects \cup {Everyone}
          /\ 0 \in Nat /\ <<>> \in Seq(Objects)
      BY ForAllEvents, EmptySeq
    <3> QED BY <3>1, <1>1 DEF LoopOf, Loop
  <2>4. f \in Loop /\ f.event = event
    <3> HIDE DEF h
    <3> QED BY <2>2, <2>3 DEF Loop
  <2> HIDE DEF f, t
  <2>5. f \in Frame /\ ~ IsAlarm(f) BY <2>4, ForAllEvents DEF Frame, IsAlarm
  <2>6. t \in Seq(Frame) /\ Follows(s, t) BY OverrunIs, FollowsOverrun DEF t
  <2> QED BY <2>1, <2>5, <2>6, FollowsPush
<1> QED BY <1>2, <1>3

LEMMA FollowsSetLives ==
    ASSUME ListsType, ScratchType, NEW s, NEW positive \in BOOLEAN, NEW rest \in Seq(Frame),
           Follows(s, rest), SetLives(positive, rest)
    PROVE  Follows(s, stack')
<1>1. CASE lives /\ ~ positive
  <2>1. ExecuteEventForAll("NoMoreLives", rest) BY <1>1 DEF SetLives
  <2>2. "NoMoreLives" \in ForAll BY DEF ForAll, ListForAll
  <2> QED BY <2>1, <2>2, FollowsForAll
<1>2. CASE ~ (lives /\ ~ positive)
  <2>1. stack' = rest BY <1>2 DEF SetLives
  <2> QED BY <2>1
<1> QED BY <1>1, <1>2

\* A step in which no alarm loop starts.
LEMMA AlarmsMove ==
    ASSUME IInv, AlarmLoops, IInv', Follows(stack, stack'), changed \subseteq changed',
           nextId' >= nextId,
           \A o \in LoopObjects : PendingIn(agenda', o) => PendingIn(agenda, o),
           \A i \in Ids : i < nextId /\ i \notin changed' => inst'[i].object = inst[i].object
    PROVE  AlarmLoops' /\ \A i \in Ids : Ticked(i) => Ticked(i)'
<1>1. /\ nextId \in Nat /\ nextId' \in Nat /\ inst \in [Ids -> Instance]
      /\ stack \in Seq(Frame) /\ \A k \in 1 .. Len(stack) : stack[k] \in Frame
      /\ stack' \in Seq(Frame) /\ \A k \in 1 .. Len(stack') : stack'[k] \in Frame
  BY DEF IInv, ListsType, StackInv
<1>2. ASSUME NEW k \in 1 .. Len(stack'), IsAlarm(stack'[k])
      PROVE  /\ k = Len(stack')
             /\ \E m \in 1 .. Len(stack) :
                   /\ IsAlarm(stack[m]) /\ stack'[k].snap = stack[m].snap
                   /\ stack'[k].object = stack[m].object /\ stack'[k].pos >= stack[m].pos
  BY <1>2 DEF Follows
<1>3. AlarmLoops'
  <2> SUFFICES ASSUME NEW k \in 1 .. Len(stack'), IsAlarm(stack'[k])
               PROVE  k = Len(stack') /\ AlarmLoopOK(stack[k])'
    BY DEF AlarmLoops
  <2>1. PICK m \in 1 .. Len(stack) :
                   /\ IsAlarm(stack[m]) /\ stack'[k].snap = stack[m].snap
                   /\ stack'[k].object = stack[m].object /\ stack'[k].pos >= stack[m].pos
    BY <1>2
  <2> DEFINE f == stack[m]
  <2>2. AlarmLoopOK(f) BY <2>1 DEF AlarmLoops
  <2>3. f \in Frame /\ f.kind = "loop" BY <2>1, <1>1 DEF IsAlarm
  <2>4. f.object \in LoopObjects /\ f.snap \in Seq(Ids) BY <2>3, LoopIs DEF LoopObjects
  <2> HIDE DEF f
  <2>5. \A j \in 1 .. Len(f.snap) :
          /\ f.snap[j] \in Ids /\ f.snap[j] < nextId
          /\ f.snap[j] \notin changed => inst[f.snap[j]].object = f.object
    BY <2>2, <2>4 DEF AlarmLoopOK
  <2>6. \A j \in 1 .. Len(f.snap) :
          /\ f.snap[j] < nextId'
          /\ f.snap[j] \notin changed' => inst'[f.snap[j]].object = f.object
    <3>1. ASSUME NEW j \in 1 .. Len(f.snap) PROVE f.snap[j] < nextId'
      <4> DEFINE i == f.snap[j]
                 now == nextId
                 then == nextId'
      <4>1. i \in Nat /\ i < now BY <2>5 DEF Ids
      <4>2. now \in Nat /\ then \in Nat /\ then >= now BY <1>1
      <4> HIDE DEF i, now, then
      <4>3. i < then BY <4>1, <4>2
      <4> QED BY <4>3 DEF i, then
    <3>2. ASSUME NEW j \in 1 .. Len(f.snap), f.snap[j] \notin changed'
          PROVE  inst'[f.snap[j]].object = f.object
      <4> DEFINE i == f.snap[j]
      <4>1. i \in Ids /\ i < nextId /\ i \notin changed' BY <2>5, <3>2
      <4>2. inst[i].object = f.object BY <2>5, <4>1
      <4> HIDE DEF i
      <4>3. inst'[i].object = inst[i].object BY <4>1
      <4> QED BY <4>2, <4>3 DEF i
    <3> QED BY <3>1, <3>2
  <2>7. ~ PendingIn(agenda', f.object) BY <2>2, <2>4 DEF AlarmLoopOK
  <2>8. \A j, n \in 1 .. Len(f.snap) : f.snap[j] = f.snap[n] => j = n BY <2>2 DEF AlarmLoopOK
  <2>9. stack'[k].snap = f.snap /\ stack'[k].object = f.object BY <2>1 DEF f
  <2>10. AlarmLoopOK(stack[k])' BY <2>6, <2>7, <2>8, <2>9 DEF AlarmLoopOK
  <2> QED BY <2>10, <1>2
<1>4. ASSUME NEW i \in Ids, Ticked(i) PROVE Ticked(i)'
  <2>1. i < nextId /\ i \in Nat BY <1>4 DEF Ticked, Ids
  <2>2. i < nextId' BY <2>1, <1>1
  <2>3. ASSUME i \notin changed'
        PROVE  /\ ~ PendingIn(agenda', inst'[i].object)
               /\ \A k \in 1 .. Len(stack') : IsAlarm(stack'[k]) =>
                     \A j \in 1 .. Len(stack'[k].snap) :
                        j >= stack'[k].pos => stack'[k].snap[j] # i
    <3>1. i \notin changed /\ inst'[i].object = inst[i].object BY <2>1, <2>3
    <3>2. inst[i].object \in LoopObjects BY <1>1 DEF Instance, LoopObjects
    <3>3. ~ PendingIn(agenda', inst'[i].object) BY <3>1, <3>2, <1>4 DEF Ticked
    <3>4. ASSUME NEW k \in 1 .. Len(stack'), IsAlarm(stack'[k]),
                 NEW j \in 1 .. Len(stack'[k].snap), j >= stack'[k].pos
          PROVE  stack'[k].snap[j] # i
      <4>1. PICK m \in 1 .. Len(stack) :
                   /\ IsAlarm(stack[m]) /\ stack'[k].snap = stack[m].snap
                   /\ stack'[k].object = stack[m].object /\ stack'[k].pos >= stack[m].pos
        BY <1>2, <3>4
      <4> DEFINE f == stack[m]
                 p == stack'[k].pos
      <4>2. f \in Frame /\ f.kind = "loop" BY <4>1, <1>1 DEF IsAlarm
      <4>3. f.pos \in Nat BY <4>2, LoopIs
      <4>4. \A n \in 1 .. Len(f.snap) : n >= f.pos => f.snap[n] # i
        BY <3>1, <4>1, <1>4 DEF Ticked
      <4>5. j \in 1 .. Len(f.snap) /\ stack'[k].snap[j] = f.snap[j] BY <4>1, <3>4
      <4>6. j >= f.pos
        <5>1. stack'[k] \in Frame /\ stack'[k].kind = "loop" BY <3>4, <1>1 DEF IsAlarm
        <5>2. p \in Nat BY <5>1, LoopIs
        <5>3. p >= f.pos /\ j >= p BY <4>1, <3>4
        <5> HIDE DEF p, f
        <5> QED BY <4>3, <5>2, <5>3
      <4> QED BY <4>4, <4>5, <4>6
    <3> QED BY <3>3, <3>4
  <2> QED BY <2>2, <2>3 DEF Ticked
<1> QED BY <1>3, <1>4

\* A step in which, besides, no alarm is decremented.
LEMMA AlarmsKept ==
    ASSUME IInv, AlarmInv, IInv', Follows(stack, stack'), UNCHANGED ticks, changed \subseteq changed',
           nextId' >= nextId,
           \A o \in LoopObjects : PendingIn(agenda', o) => PendingIn(agenda, o),
           \A i \in Ids : i < nextId /\ i \notin changed' => inst'[i].object = inst[i].object,
           Masks'
    PROVE  AlarmInv'
<1>1. AlarmLoops /\ AlarmTicks /\ AlarmOnce BY DEF AlarmInv
<1>2. AlarmLoops' /\ \A i \in Ids : Ticked(i) => Ticked(i)' BY <1>1, AlarmsMove
<1>3. AlarmTicks' BY <1>1, <1>2 DEF AlarmTicks
<1>4. AlarmOnce' BY <1>1 DEF AlarmOnce
<1> QED BY <1>2, <1>3, <1>4 DEF AlarmInv

-------------------------------------------------------------------------------
(* Alarms: steps in which none is decremented                               *)

LEMMA BottomIs == ASSUME IInv, AlarmInv PROVE stack \in Seq(Frame) /\ AlarmBottom(stack)
BY DEF IInv, StackInv, AlarmInv, AlarmLoops, AlarmBottom

\* Only the stack and the arrays change.
LEMMA AlarmsStay ==
    ASSUME IInv, AlarmInv, IInv', Follows(stack, stack'), UNCHANGED <<lists, agenda, history>>
    PROVE  AlarmInv'
<1>1. UNCHANGED <<inst, nextId, agenda, ticks, changed>> BY DEF lists, history
<1>2. Masks' BY <1>1 DEF AlarmInv, Masks
<1>3. nextId' >= nextId
  <2>1. nextId \in Nat BY DEF IInv, ListsType
  <2> QED BY <2>1, <1>1
<1> QED BY <1>1, <1>2, <1>3, AlarmsKept

\* Only instances change.
LEMMA AlarmsOfInstances ==
    ASSUME IInv, AlarmInv, IInv', UNCHANGED <<stack, agenda, ticks>>, changed \subseteq changed',
           nextId' >= nextId,
           \A i \in Ids : i < nextId /\ i \notin changed' => inst'[i].object = inst[i].object,
           \A i \in Ids : inst'[i].mask = (inst'[i].alarm > 0)
    PROVE  AlarmInv'
<1>1. Follows(stack, stack) BY BottomIs, FollowsSame
<1>2. Follows(stack, stack') BY <1>1
<1>3. Masks' BY DEF Masks
<1> QED BY <1>2, <1>3, AlarmsKept

LEMMA CreateAlarms ==
    ASSUME IInv, AlarmInv, IInv', NEW o \in Objects, InstanceCreate(o) PROVE AlarmInv'
<1>1. /\ nextId <= MaxId /\ inst' = [inst EXCEPT ![nextId].object = o] /\ nextId' = nextId + 1
      /\ SameStack /\ InCode /\ UNCHANGED history
  BY DEF InstanceCreate
<1>2. nextId \in Nat \ {0} /\ inst \in [Ids -> Instance] /\ MaxId \in Nat
  BY DispatchAssumption DEF IInv, ListsType
<1>3. nextId' >= nextId BY <1>1, <1>2
<1>4. \A i \in Ids : /\ inst'[i].mask = inst[i].mask /\ inst'[i].alarm = inst[i].alarm
                     /\ i # nextId => inst'[i].object = inst[i].object
  BY <1>1, <1>2 DEF Instance
<1>5. \A i \in Ids : i < nextId => i # nextId BY <1>2 DEF Ids
<1>6. \A i \in Ids : inst'[i].mask = (inst'[i].alarm > 0) BY <1>4 DEF AlarmInv, Masks
<1>7. UNCHANGED <<stack, agenda, ticks, changed>> BY <1>1 DEF SameStack, InCode, history
<1> QED BY <1>3, <1>4, <1>5, <1>6, <1>7, AlarmsOfInstances

LEMMA DestroyAlarms ==
    ASSUME IInv, AlarmInv, IInv', NEW i \in Ids, InstanceDestroy(i) PROVE AlarmInv'
<1>1. /\ inst' = [inst EXCEPT ![i].destroyed = TRUE, ![i].active = FALSE]
      /\ SameStack /\ InCode /\ UNCHANGED <<nextId, history>>
  BY DEF InstanceDestroy
<1>2. nextId \in Nat /\ inst \in [Ids -> Instance] BY DEF IInv, ListsType
<1>3. \A j \in Ids : /\ inst'[j].mask = inst[j].mask /\ inst'[j].alarm = inst[j].alarm
                     /\ inst'[j].object = inst[j].object
  BY <1>1, <1>2 DEF Instance
<1>4. \A j \in Ids : inst'[j].mask = (inst'[j].alarm > 0) BY <1>3 DEF AlarmInv, Masks
<1>5. UNCHANGED <<stack, agenda, ticks, changed>> BY <1>1 DEF SameStack, InCode, history
<1>6. nextId' >= nextId BY <1>1, <1>2
<1> QED BY <1>3, <1>4, <1>5, <1>6, AlarmsOfInstances

LEMMA SetActiveAlarms ==
    ASSUME IInv, AlarmInv, IInv', NEW i \in Ids, NEW b \in BOOLEAN, SetActive(i, b) PROVE AlarmInv'
<1>1. inst' = [inst EXCEPT ![i].active = b] /\ SameStack /\ InCode /\ UNCHANGED <<nextId, history>>
  BY DEF SetActive
<1>2. nextId \in Nat /\ inst \in [Ids -> Instance] BY DEF IInv, ListsType
<1>3. \A j \in Ids : /\ inst'[j].mask = inst[j].mask /\ inst'[j].alarm = inst[j].alarm
                     /\ inst'[j].object = inst[j].object
  BY <1>1, <1>2 DEF Instance
<1>4. \A j \in Ids : inst'[j].mask = (inst'[j].alarm > 0) BY <1>3 DEF AlarmInv, Masks
<1>5. UNCHANGED <<stack, agenda, ticks, changed>> BY <1>1 DEF SameStack, InCode, history
<1>6. nextId' >= nextId BY <1>1, <1>2
<1> QED BY <1>3, <1>4, <1>5, <1>6, AlarmsOfInstances

LEMMA ChangeAlarms ==
    ASSUME IInv, AlarmInv, IInv', NEW i \in Ids, NEW o \in Objects, InstanceChange(i, o)
    PROVE  AlarmInv'
<1>1. /\ inst' = [inst EXCEPT ![i].object = o] /\ changed' = changed \cup {i}
      /\ SameStack /\ InCode /\ UNCHANGED <<nextId, ticks>>
  BY DEF InstanceChange
<1>2. nextId \in Nat /\ inst \in [Ids -> Instance] BY DEF IInv, ListsType
<1>3. \A j \in Ids : /\ inst'[j].mask = inst[j].mask /\ inst'[j].alarm = inst[j].alarm
                     /\ j # i => inst'[j].object = inst[j].object
  BY <1>1, <1>2 DEF Instance
<1>4. \A j \in Ids : inst'[j].mask = (inst'[j].alarm > 0) BY <1>3 DEF AlarmInv, Masks
<1>5. UNCHANGED <<stack, agenda>> BY <1>1 DEF SameStack, InCode
<1>6. nextId' >= nextId BY <1>1, <1>2
<1>7. i \in changed' /\ changed \subseteq changed' BY <1>1
<1>8. \A j \in Ids : j < nextId /\ j \notin changed' => inst'[j].object = inst[j].object
  BY <1>3, <1>7
<1> QED BY <1>1, <1>4, <1>5, <1>6, <1>7, <1>8, AlarmsOfInstances

LEMMA AlarmSetAlarms ==
    ASSUME IInv, AlarmInv, IInv', NEW i \in Ids, NEW n \in 0 .. 2, AlarmSet(i, n) PROVE AlarmInv'
<1> DEFINE b == n > 0
<1>1. /\ inst' = [inst EXCEPT ![i].alarm = n, ![i].mask = b]
      /\ SameStack /\ InCode /\ UNCHANGED <<nextId, history>>
  BY DEF AlarmSet
<1>2. nextId \in Nat /\ inst \in [Ids -> Instance] BY DEF IInv, ListsType
<1>3. n \in Int /\ b \in BOOLEAN OBVIOUS
<1> HIDE DEF b
<1>4. /\ inst'[i].mask = b /\ inst'[i].alarm = n /\ inst'[i].object = inst[i].object
      /\ \A j \in Ids : j # i => inst'[j] = inst[j]
  BY <1>1, <1>2, <1>3 DEF Instance
<1>5. \A j \in Ids : inst'[j].mask = (inst'[j].alarm > 0)
  <2>1. inst'[i].mask = (inst'[i].alarm > 0) BY <1>4, Zenon DEF b
  <2> QED BY <2>1, <1>4 DEF AlarmInv, Masks
<1>6. UNCHANGED <<stack, agenda, ticks, changed>> BY <1>1 DEF SameStack, InCode, history
<1>7. nextId' >= nextId BY <1>1, <1>2
<1>8. \A j \in Ids : inst'[j].object = inst[j].object BY <1>4
<1> QED BY <1>5, <1>6, <1>7, <1>8, AlarmsOfInstances

LEMMA AssignLivesAlarms ==
    ASSUME IInv, AlarmInv, IInv', NEW b \in BOOLEAN, AssignLives(b) PROVE AlarmInv'
<1>1. SetLives(b, stack) /\ UNCHANGED <<lists, agenda, history>> BY DEF AssignLives, InCode
<1>2. stack \in Seq(Frame) /\ Follows(stack, stack) BY BottomIs, FollowsSame
<1>3. Follows(stack, stack') BY <1>1, <1>2, FollowsSetLives DEF IInv
<1> QED BY <1>1, <1>3, AlarmsStay

LEMMA WriteAllAlarms ==
    ASSUME IInv, AlarmInv, IInv', NEW o \in Objects, WriteAll(o) PROVE AlarmInv'
<1> DEFINE f == LoopOf("Write", o, "arena", Len(arena), bucket[o])
<1>1. stack' = <<f>> \o stack /\ UNCHANGED <<lists, agenda, history>> BY DEF WriteAll, InCode
<1>2. bucket[o] \in Seq(Ids) /\ Len(arena) \in Nat
  BY LenProperties DEF IInv, ListsType, ArenaType
<1>3. f \in Loop /\ f.event = "Write"
  <2>1. "Write" \in LoopEvents /\ o \in LoopObjects BY DEF LoopEvents, LoopObjects
  <2>2. f = LoopOf("Write", o, "arena", Len(arena), bucket[o]) OBVIOUS
  <2> HIDE DEF f
  <2> QED BY <2>1, <2>2, <1>2, LoopOfIs
<1> HIDE DEF f
<1>4. f \in Frame /\ ~ IsAlarm(f) BY <1>3 DEF Frame, IsAlarm
<1>5. stack \in Seq(Frame) /\ Follows(stack, stack) BY BottomIs, FollowsSame
<1>6. Follows(stack, stack') BY <1>1, <1>4, <1>5, FollowsPush
<1> QED BY <1>1, <1>6, AlarmsStay

LEMMA GameCodeAlarms == ASSUME IInv, AlarmInv, IInv', GameCode PROVE AlarmInv'
<1>1. ASSUME NEW o \in Objects, Query(o) PROVE AlarmInv'
  <2>1. UNCHANGED <<stack, lists, agenda, history>> BY <1>1 DEF Query, InCode
  <2>2. Follows(stack, stack) BY BottomIs, FollowsSame
  <2>3. Follows(stack, stack') BY <2>1, <2>2
  <2> QED BY <2>1, <2>3, AlarmsStay
<1>2. CASE RoomGoto
  <2>1. UNCHANGED <<stack, lists, agenda, history>> BY <1>2 DEF RoomGoto, InCode, SameStack
  <2>2. Follows(stack, stack) BY BottomIs, FollowsSame
  <2>3. Follows(stack, stack') BY <2>1, <2>2
  <2> QED BY <2>1, <2>3, AlarmsStay
<1>3. CASE CodeReturn
  <2>1. stack # <<>> /\ stack' = Tail(stack) /\ UNCHANGED <<lists, agenda, history>>
    BY <1>3 DEF CodeReturn, Running, Below
  <2>2. Follows(stack, stack') BY <2>1, BottomIs, FollowsTail
  <2> QED BY <2>1, <2>2, AlarmsStay
<1>4. CASE \E o \in Objects : \/ InstanceCreate(o) \/ WriteAll(o) \/ Query(o)
                              \/ \E i \in Ids : InstanceChange(i, o)
  BY <1>1, <1>4, CreateAlarms, WriteAllAlarms, ChangeAlarms
<1>5. CASE \E i \in Ids : \/ InstanceDestroy(i) \/ \E b \in BOOLEAN : SetActive(i, b)
                          \/ \E n \in 0 .. 2 : AlarmSet(i, n)
  BY <1>5, DestroyAlarms, SetActiveAlarms, AlarmSetAlarms
<1>6. CASE \E b \in BOOLEAN : AssignLives(b) BY <1>6, AssignLivesAlarms
<1> QED BY <1>2, <1>3, <1>4, <1>5, <1>6 DEF GameCode

\* The top loop goes on.
LEMMA AdvancedFollows ==
    ASSUME IInv, AlarmInv, Running("loop")
    PROVE  /\ Advanced \in Seq(Frame) /\ Follows(stack, Advanced)
           /\ stack # <<>> /\ Len(Advanced) = Len(stack) /\ Len(stack) \in Nat \ {0}
           /\ Advanced[1].snap = Top.snap /\ Advanced[1].pos = Top.pos + 1
<1>1. stack # <<>> /\ Top.kind = "loop" /\ stack \in Seq(Frame) /\ AlarmBottom(stack)
  BY BottomIs DEF Running
<1>2. Top \in Frame BY <1>1, TopIs
<1>3. Top \in Loop /\ Top.pos \in Nat BY <1>1, <1>2, LoopIs
<1> DEFINE g == [Top EXCEPT !.pos = @ + 1]
           r == Tail(stack)
<1>4. /\ g \in Loop /\ g.kind = "loop" /\ g.event = Top.event /\ g.object = Top.object
      /\ g.snap = Top.snap /\ g.pos = Top.pos + 1
  BY <1>3, MovedIs
<1>5. Advanced = <<g>> \o r BY DEF Advanced, Below
<1> HIDE DEF g
<1>6. g.pos >= Top.pos BY <1>3, <1>4
<1>7. g \in Frame BY <1>4 DEF Frame
<1>8. IsAlarm(g) => /\ IsAlarm(Head(stack)) /\ g.snap = Head(stack).snap
                    /\ g.object = Head(stack).object /\ g.pos >= Head(stack).pos
  BY <1>1, <1>4, <1>6 DEF IsAlarm, Top
<1>9. Follows(stack, <<g>> \o Tail(stack)) BY <1>1, <1>7, <1>8, FollowsSetTop
<1>10. r \in Seq(Frame) /\ Len(r) = Len(stack) - 1 /\ Len(stack) \in Nat \ {0} BY <1>1, TailIs
<1>11. Follows(stack, Advanced) BY <1>5, <1>9
<1> HIDE DEF r
<1>12. <<g>> \o r \in Seq(Frame) /\ Len(<<g>> \o r) = Len(r) + 1 /\ (<<g>> \o r)[1] = g
  BY <1>7, <1>10, ConsIs
<1>13. Len(r) + 1 = Len(stack) BY <1>10
<1> QED BY <1>1, <1>4, <1>5, <1>10, <1>11, <1>12, <1>13

\* The top loop goes on, and may run game code.
LEMMA VisitAlarms ==
    ASSUME IInv, AlarmInv, IInv', NEW events, Visiting(events), NEW i \in Ids, NEW e \in Events,
           stack' = Advanced \/ stack' = Execute(i, e, Advanced),
           Visited, UNCHANGED <<lists, history>>
    PROVE  AlarmInv'
<1>1. Running("loop") BY DEF Visiting
<1>2. Advanced \in Seq(Frame) /\ Follows(stack, Advanced) BY <1>1, AdvancedFollows
<1>3. Follows(stack, stack') BY <1>2, FollowsExecute
<1> QED BY <1>3, AlarmsStay DEF Visited

LEMMA VisitsAlarms ==
    ASSUME IInv, AlarmInv, IInv', VisitEach \/ VisitMouse \/ VisitOutside \/ VisitTimeline
    PROVE  AlarmInv'
<1>1. \E events \in SUBSET Events :
         /\ Visiting(events)
         /\ stack' = Advanced \/ stack' = Execute(Read(Top), Top.event, Advanced)
         /\ Visited /\ UNCHANGED <<lists, history>>
  <2>1. /\ ForAll \in SUBSET Events /\ ToSet(MouseStages) \in SUBSET Events
        /\ {"OutsideRoom"} \in SUBSET Events /\ {"Timeline"} \in SUBSET Events
    BY ForAllEvents DEF BucketLoops
  <2>2. CASE VisitEach BY <2>1, <2>2 DEF VisitEach
  <2>3. CASE VisitMouse BY <2>1, <2>3 DEF VisitMouse, VisitSome
  <2>4. CASE VisitOutside BY <2>1, <2>4 DEF VisitOutside, VisitSome
  <2>5. CASE VisitTimeline BY <2>1, <2>5 DEF VisitTimeline, VisitSome
  <2> QED BY <2>2, <2>3, <2>4, <2>5
<1>2. PICK events \in SUBSET Events :
         /\ Visiting(events)
         /\ stack' = Advanced \/ stack' = Execute(Read(Top), Top.event, Advanced)
         /\ Visited /\ UNCHANGED <<lists, history>>
  BY <1>1
<1>3. Read(Top) \in Ids /\ Top.event \in Events BY <1>2, VisitingIs
<1> QED BY <1>2, <1>3, VisitAlarms

LEMMA ColliderAlarms == ASSUME IInv, AlarmInv, IInv', VisitCollider PROVE AlarmInv'
<1> DEFINE i == Read(Top)
           t == CollidesWith[inst[i].object]
           g == [Top EXCEPT !.pos = @ + 1, !.self = i, !.targets = t]
<1>1. /\ Visiting({"Collision"}) /\ Visited /\ UNCHANGED <<lists, history>>
      /\ stack' = Advanced \/ stack' = <<g>> \o Tail(stack)
  BY DEF VisitCollider, Below
<1>2. /\ i \in Ids /\ stack # <<>> /\ Top.kind = "loop" /\ Top.event = "Collision" /\ Top \in Frame
  BY <1>1, VisitingIs
<1>3. t \in Seq(Objects) BY <1>2, DispatchAssumption DEF IInv, ListsType, Instance
<1>4. Top \in Loop /\ Top.pos + 1 \in Nat BY <1>2, LoopIs
<1> HIDE DEF i, t
<1>5. g = [Top EXCEPT !.pos = Top.pos + 1, !.self = i, !.targets = t] OBVIOUS
<1> HIDE DEF g
<1>6. g \in Loop /\ g.event = "Collision" BY <1>2, <1>3, <1>4, <1>5 DEF Loop
<1>7. g \in Frame /\ ~ IsAlarm(g) BY <1>6 DEF Frame, IsAlarm
<1>8. Follows(stack, <<g>> \o Tail(stack)) BY <1>2, <1>7, BottomIs, FollowsSetTop
<1>9. Follows(stack, Advanced)
  <2>1. Running("loop") BY <1>1 DEF Visiting
  <2> QED BY <2>1, AdvancedFollows
<1>10. Follows(stack, stack') BY <1>1, <1>8, <1>9
<1> QED BY <1>1, <1>10, AlarmsStay DEF Visited

\* The top loop keeps its place, and another than for alarms starts above it.
LEMMA TargetAlarms == ASSUME IInv, AlarmInv, IInv', NextTarget PROVE AlarmInv'
<1> DEFINE o == Head(Top.targets)
           list == ByObjectAndId(bucket[o])
           h == LoopOf("Hit", o, "arena", Len(arena), list)
           f == [h EXCEPT !.self = Top.self]
           t == Tail(Top.targets)
           g == [Top EXCEPT !.targets = t]
           r == Tail(stack)
<1>1. /\ Running("loop") /\ Top.targets # <<>> /\ stack' = <<f, g>> \o r
      /\ UNCHANGED <<lists, agenda, history>>
  BY DEF NextTarget, Below
<1>2. stack # <<>> /\ Top.kind = "loop" BY <1>1 DEF Running
<1>3. /\ Top \in Frame /\ r \in Seq(Frame) /\ FrameOK(Top, instances, scratch, scratchEpoch)
  BY <1>2, TopIs DEF Below
<1>4. Top \in Loop /\ Top.targets \in Seq(Objects) /\ Top.pos \in Nat BY <1>2, <1>3, LoopIs
<1>5. o \in Objects /\ t \in Seq(Objects) BY <1>1, <1>4, HeadTailProperties
<1>6. Top.self \in Ids BY <1>1, <1>2, <1>3 DEF FrameOK
<1>7. list \in Seq(Ids) /\ Len(arena) \in Nat
  <2>1. bucket[o] \in Seq(Ids) BY <1>5 DEF IInv, ListsType
  <2> QED BY <2>1, SortedIs, LenProperties DEF IInv, ArenaType
<1> HIDE DEF o, list, t
<1>8. f \in Loop /\ f.event = "Hit"
  <2>1. "Hit" \in LoopEvents /\ o \in LoopObjects BY <1>5 DEF LoopEvents, LoopObjects
  <2>2. h = LoopOf("Hit", o, "arena", Len(arena), list) OBVIOUS
  <2> HIDE DEF h
  <2>3. h \in Loop /\ h.event = "Hit" BY <2>1, <2>2, <1>7, LoopOfIs
  <2> QED BY <2>3, <1>6 DEF Loop
<1> HIDE DEF f, h
<1>9. /\ g \in Loop /\ g.kind = "loop" /\ g.event = Top.event /\ g.snap = Top.snap /\ g.pos = Top.pos
      /\ g.object = Top.object
  BY <1>4, <1>5 DEF Loop
<1> HIDE DEF g
<1>10. g \in Frame /\ f \in Frame /\ ~ IsAlarm(f) BY <1>8, <1>9 DEF Frame, IsAlarm
<1>11. Follows(stack, <<g>> \o r)
  <2>1. g.pos >= Top.pos BY <1>4, <1>9
  <2>2. IsAlarm(g) => /\ IsAlarm(Head(stack)) /\ g.snap = Head(stack).snap
                      /\ g.object = Head(stack).object /\ g.pos >= Head(stack).pos
    BY <2>1, <1>2, <1>9 DEF IsAlarm, Top
  <2> QED BY <2>2, <1>2, <1>10, BottomIs, FollowsSetTop
<1> HIDE DEF r
<1>12. <<g>> \o r \in Seq(Frame) BY <1>3, <1>10, ConsIs
<1>13. Follows(stack, <<f>> \o (<<g>> \o r)) BY <1>10, <1>11, <1>12, FollowsPush
<1>14. <<f, g>> \o r = <<f>> \o (<<g>> \o r) BY <1>3, <1>10, TwoOnTop
<1>15. Follows(stack, stack') BY <1>1, <1>13, <1>14
<1> QED BY <1>1, <1>15, AlarmsStay

LEMMA OtherAlarms == ASSUME IInv, AlarmInv, IInv', VisitOther PROVE AlarmInv'
<1> DEFINE other == Read(Top)
           w == [kind |-> "solid", self |-> Top.self, other |-> other]
<1>1. /\ Visiting({"Hit"}) /\ Visited /\ UNCHANGED <<lists, history>>
      /\ \/ stack' = Advanced
         \/ stack' = Execute(Top.self, "Collision", Advanced)
         \/ stack' = Execute(Top.self, "Collision", <<w>> \o Advanced)
  BY DEF VisitOther
<1>2. /\ other \in Ids /\ Top.kind = "loop" /\ Top.event = "Hit"
      /\ FrameOK(Top, instances, scratch, scratchEpoch)
  BY <1>1, VisitingIs
<1> HIDE DEF other
<1>3. Top.self \in Ids BY <1>2 DEF FrameOK
<1>4. w \in Frame /\ ~ IsAlarm(w) BY <1>2, <1>3 DEF Frame, Solid, IsAlarm
<1> HIDE DEF w
<1>5. Advanced \in Seq(Frame) /\ Follows(stack, Advanced)
  <2>1. Running("loop") BY <1>1 DEF Visiting
  <2> QED BY <2>1, AdvancedFollows
<1>6. <<w>> \o Advanced \in Seq(Frame) /\ Follows(stack, <<w>> \o Advanced)
  BY <1>4, <1>5, ConsIs, FollowsPush
<1>7. "Collision" \in Events BY ForAllEvents DEF BucketLoops
<1>8. Follows(stack, stack') BY <1>1, <1>3, <1>5, <1>6, <1>7, FollowsExecute
<1> QED BY <1>1, <1>8, AlarmsStay DEF Visited

LEMMA SymmetricAlarms == ASSUME IInv, AlarmInv, IInv', Symmetric PROVE AlarmInv'
<1>1. /\ Running("solid") /\ Visited /\ UNCHANGED <<lists, history>>
      /\ stack' = Tail(stack) \/ stack' = Execute(Top.other, "Collision", Tail(stack))
  BY DEF Symmetric, Below
<1>2. stack # <<>> /\ Top.kind = "solid" BY <1>1 DEF Running
<1>3. Tail(stack) \in Seq(Frame) /\ Follows(stack, Tail(stack))
  BY <1>2, BottomIs, FollowsTail, TailIs
<1>4. Top.other \in Ids
  <2>1. Top \in Solid BY <1>2, TopIs, FrameIs
  <2> QED BY <2>1 DEF Solid
<1>5. "Collision" \in Events BY ForAllEvents DEF BucketLoops
<1>6. Follows(stack, stack') BY <1>1, <1>3, <1>4, <1>5, FollowsExecute
<1> QED BY <1>1, <1>6, AlarmsStay DEF Visited

LEMMA WriteAlarms == ASSUME IInv, AlarmInv, IInv', VisitWrite PROVE AlarmInv'
<1>1. /\ Visiting({"Write"})
      /\ SetLives(FALSE, Advanced) \/ stack' = Advanced
      /\ UNCHANGED <<lists, agenda, history>>
  BY DEF VisitWrite
<1>2. Advanced \in Seq(Frame) /\ Follows(stack, Advanced)
  <2>1. Running("loop") BY <1>1 DEF Visiting
  <2> QED BY <2>1, AdvancedFollows
<1>3. Follows(stack, stack') BY <1>1, <1>2, FollowsSetLives DEF IInv
<1> QED BY <1>1, <1>3, AlarmsStay

LEMMA EndAlarms == ASSUME IInv, AlarmInv, IInv', EndLoop PROVE AlarmInv'
<1>1. Running("loop") /\ UNCHANGED <<lists, agenda, history>> BY DEF EndLoop
<1>2. stack # <<>> /\ Top.kind = "loop" BY <1>1 DEF Running
<1>3. CASE Top.event \in ToSet(MouseStages) /\ StageOf(Top.event) < Len(MouseStages)
  <2> DEFINE e == MouseStages[StageOf(Top.event) + 1]
             g == [Top EXCEPT !.event = e, !.pos = 1, !.via = "pointer", !.epoch = arenaEpoch]
  <2>1. stack' = <<g>> \o Tail(stack) BY <1>3 DEF EndLoop, Below
  <2>2. e \in ToSet(MouseStages) BY <1>3, NextStage
  <2>3. arenaEpoch \in Nat BY DEF IInv, ArenaType
  <2>4. e \in Events /\ e # "Alarm" BY <2>2, ForAllEvents
  <2>5. Top \in Loop BY <1>2, TopIs, LoopIs
  <2> HIDE DEF e
  <2>6. g \in Loop /\ g.event = e BY <2>3, <2>4, <2>5 DEF Loop
  <2> HIDE DEF g
  <2>7. g \in Frame /\ ~ IsAlarm(g) BY <2>4, <2>6 DEF Frame, IsAlarm
  <2>8. Follows(stack, stack') BY <2>1, <2>7, <1>2, BottomIs, FollowsSetTop
  <2> QED BY <2>8, <1>1, AlarmsStay
<1>4. CASE ~ (Top.event \in ToSet(MouseStages) /\ StageOf(Top.event) < Len(MouseStages))
  <2>1. stack' = Tail(stack) BY <1>4 DEF EndLoop, Below
  <2>2. Follows(stack, stack') BY <2>1, <1>2, BottomIs, FollowsTail
  <2> QED BY <2>2, <1>1, AlarmsStay
<1> QED BY <1>3, <1>4

-------------------------------------------------------------------------------
(* Alarms: the agenda                                                       *)

LEMMA PendingTail ==
    ASSUME NEW ag, AgendaOK(ag), ag # <<>>, NEW o, PendingIn(Tail(ag), o)
    PROVE  PendingIn(ag, o)
<1>1. /\ ag \in Seq(Entry) /\ Len(ag) \in Nat \ {0} /\ Len(Tail(ag)) = Len(ag) - 1
      /\ \A k \in 1 .. Len(ag) - 1 : Tail(ag)[k] = ag[k + 1]
  BY TailIs DEF AgendaOK
<1>2. PICK k \in 1 .. Len(Tail(ag)) : Tail(ag)[k][1] = "Alarm" /\ o \in Tail(ag)[k][2]
  BY DEF PendingIn
<1>3. k + 1 \in 1 .. Len(ag) /\ Tail(ag)[k] = ag[k + 1] BY <1>1
<1> QED BY <1>2, <1>3 DEF PendingIn

\* The agenda when an object is taken off its first entry: the others stay due, and no more.
Rest(ag, o) ==
    (IF Head(ag)[2] \ {o} = {} THEN <<>> ELSE <<<<Head(ag)[1], Head(ag)[2] \ {o}>>>>) \o Tail(ag)

LEMMA PendingRest ==
    ASSUME NEW ag, AgendaOK(ag), ag # <<>>, NEW o \in Head(ag)[2]
    PROVE  /\ \A p : PendingIn(Rest(ag, o), p) => PendingIn(ag, p)
           /\ Head(ag)[1] = "Alarm" => PendingIn(ag, o) /\ ~ PendingIn(Rest(ag, o), o)
<1> DEFINE e == Head(ag)
           y == Tail(ag)
           others == e[2] \ {o}
           x == IF others = {} THEN <<>> ELSE <<<<e[1], others>>>>
           z == Rest(ag, o)
<1>0. z = x \o y BY DEF Rest
<1> HIDE DEF z
<1>1. /\ e \in Entry /\ EntryOK(e) /\ AgendaOK(y)
      /\ e[1] = "Alarm" => NoAlarm(y)
  BY AgendaTail
<1>2. /\ ag \in Seq(Entry) /\ Len(ag) \in Nat \ {0} /\ e = ag[1] /\ y \in Seq(Entry) /\ Len(y) \in Nat
  BY TailIs, LenProperties DEF AgendaOK
<1>3. 1 \in 1 .. Len(ag) BY <1>2
<1>4. \A p : PendingIn(y, p) => PendingIn(ag, p) BY PendingTail
<1>5. \A p : e[1] = "Alarm" /\ p \in e[2] => PendingIn(ag, p) BY <1>2, <1>3 DEF PendingIn
<1>6. others = e[2] \ {o} /\ o \in e[2] OBVIOUS
<1>7. \A p : PendingIn(z, p) => \/ PendingIn(y, p)
                                \/ e[1] = "Alarm" /\ p \in others
  <2>1. CASE others = {}
    <3>1. z = y
      <4>1. x = <<>> BY <2>1
      <4> HIDE DEF x, y
      <4> QED BY <4>1, <1>0, <1>2, ConcatEmptySeq
    <3> QED BY <3>1
  <2>2. CASE others # {}
    <3> DEFINE a == <<e[1], others>>
    <3>1. x = <<a>> /\ a[1] = e[1] /\ a[2] = others BY <2>2
    <3>2. a \in Entry
      <4> HIDE DEF e
      <4>1. e[1] \in Events \cup {"Cleanup"} /\ e[2] \subseteq LoopObjects BY <1>1 DEF Entry
      <4> QED BY <4>1, <1>6 DEF Entry
    <3> HIDE DEF a, e, y
    <3>3. /\ Len(<<a>> \o y) = Len(y) + 1 /\ (<<a>> \o y)[1] = a
          /\ \A k \in 1 .. Len(y) : (<<a>> \o y)[k + 1] = y[k]
      BY <3>2, <1>2, ConsIs
    <3>4. z = <<a>> \o y
      <4> HIDE DEF x
      <4> QED BY <3>1, <1>0
    <3>5. ASSUME NEW p, NEW k \in 1 .. Len(z), z[k][1] = "Alarm", p \in z[k][2]
          PROVE  PendingIn(y, p) \/ (e[1] = "Alarm" /\ p \in others)
      <4>1. CASE k = 1 BY <4>1, <3>1, <3>3, <3>4, <3>5
      <4>2. CASE k # 1
        <5>1. k - 1 \in 1 .. Len(y) /\ (k - 1) + 1 = k BY <4>2, <1>2, <3>3, <3>4
        <5>2. z[k] = y[k - 1] BY <5>1, <3>3, <3>4
        <5> QED BY <5>1, <5>2, <3>5 DEF PendingIn
      <4> QED BY <4>1, <4>2
    <3> QED BY <3>5 DEF PendingIn
  <2> QED BY <2>1, <2>2
<1>8. \A p : PendingIn(z, p) => PendingIn(ag, p) BY <1>4, <1>5, <1>6, <1>7
<1>9. ASSUME e[1] = "Alarm" PROVE PendingIn(ag, o) /\ ~ PendingIn(z, o)
  <2>1. ~ PendingIn(y, o) BY <1>1, <1>9 DEF NoAlarm, PendingIn
  <2> QED BY <2>1, <1>5, <1>6, <1>7, <1>9
<1> QED BY <1>8, <1>9 DEF z

LEMMA EarlyReturnAlarms == ASSUME IInv, AlarmInv, IInv', EarlyReturn PROVE AlarmInv'
<1>1. /\ Running("loop") /\ stack' = Tail(stack)
      /\ agenda' = agenda \/ (agenda # <<>> /\ agenda' = Tail(agenda))
      /\ UNCHANGED <<lists, history>>
  BY DEF EarlyReturn, GivenUp, Below
<1>2. Follows(stack, stack') BY <1>1, BottomIs, FollowsTail DEF Running
<1>3. \A o \in LoopObjects : PendingIn(agenda', o) => PendingIn(agenda, o)
  BY <1>1, PendingTail DEF IInv
<1>4. UNCHANGED <<inst, nextId, ticks, changed>> BY <1>1 DEF lists, history
<1>5. Masks' BY <1>4 DEF AlarmInv, Masks
<1>6. nextId' >= nextId
  <2>1. nextId \in Nat BY DEF IInv, ListsType
  <2> QED BY <2>1, <1>4
<1> QED BY <1>2, <1>3, <1>4, <1>5, <1>6, AlarmsKept

LEMMA CleanupAlarms == ASSUME IInv, AlarmInv, IInv', CleanupDestroyed PROVE AlarmInv'
<1>1. /\ agenda' = <<>> /\ UNCHANGED <<inst, nextId, stack, ticks, changed>>
  BY DEF CleanupDestroyed, history
<1>2. \A o \in LoopObjects : ~ PendingIn(agenda', o)
  <2>1. Len(<<>>) = 0 BY EmptySeq
  <2> QED BY <2>1, <1>1 DEF PendingIn
<1>3. Follows(stack, stack) BY BottomIs, FollowsSame
<1>4. Follows(stack, stack') BY <1>1, <1>3
<1>5. Masks' BY <1>1 DEF AlarmInv, Masks
<1>6. nextId' >= nextId
  <2>1. nextId \in Nat BY DEF IInv, ListsType
  <2> QED BY <2>1, <1>1
<1> QED BY <1>1, <1>2, <1>4, <1>5, <1>6, AlarmsKept

LEMMA BeginAlarms == ASSUME IInv, AlarmInv, BeginFrame PROVE AlarmInv'
<1>1. /\ stack = <<>> /\ ticks' = [i \in Ids |-> 0] /\ UNCHANGED <<stack, inst>>
  BY DEF BeginFrame, lists
<1>2. Len(stack') = 0 BY <1>1, EmptySeq
<1>3. AlarmLoops' BY <1>2 DEF AlarmLoops
<1>4. \A i \in Ids : ticks'[i] = 0 BY <1>1
<1>5. AlarmTicks' BY <1>4 DEF AlarmTicks
<1>6. AlarmOnce'
  <2>1. ~ (0 > 1) OBVIOUS
  <2>2. \A i \in Ids : ~ (ticks'[i] > 1) BY <2>1, <1>4
  <2> QED BY <2>2 DEF AlarmOnce
<1>7. Masks' BY <1>1 DEF AlarmInv, Masks
<1> QED BY <1>3, <1>5, <1>6, <1>7 DEF AlarmInv

\* An alarm loop starts over the bucket of an object whose alarms were not done before.
LEMMA StartAlarms == ASSUME IInv, AlarmInv, IInv', StartLoop PROVE AlarmInv'
<1> DEFINE event == Head(agenda)[1]
           object == Least(Head(agenda)[2])
           others == Head(agenda)[2] \ {object}
           x == IF others = {} THEN <<>> ELSE <<<<event, others>>>>
           list == ListOf(object)
           f == LoopOf(event, object, "arena", Len(arena), list)
<1>1. /\ stack = <<>> /\ agenda # <<>> /\ agenda' = x \o Tail(agenda)
      /\ IF event \in ForAll THEN ExecuteEventForAll(event, <<>>)
         ELSE stack' = <<>> \/ (stack' = <<f>> /\ event # "Cleanup")
      /\ UNCHANGED <<lists, history>>
  BY DEF StartLoop
<1>2. Head(agenda) \in Entry /\ EntryOK(Head(agenda)) BY <1>1, AgendaTail DEF IInv
<1>3. object \in Head(agenda)[2] /\ object \in LoopObjects BY <1>2, LeastIs
<1>4. /\ \A p : PendingIn(agenda', p) => PendingIn(agenda, p)
      /\ event = "Alarm" => PendingIn(agenda, object) /\ ~ PendingIn(agenda', object)
  <2>1. agenda' = Rest(agenda, object) BY <1>1 DEF Rest
  <2>2. AgendaOK(agenda) /\ agenda # <<>> /\ object \in Head(agenda)[2] BY <1>1, <1>3 DEF IInv
  <2> HIDE DEF object
  <2> QED BY <2>1, <2>2, PendingRest
<1>5. list \in Seq(Ids) /\ Len(arena) \in Nat
  BY <1>3, ListOfIs, LenProperties DEF IInv, ArenaType
<1>6. event \in Events \cup {"Cleanup"} BY <1>2 DEF Entry
<1>7. event = "Alarm" => object \in Objects /\ list = bucket[object]
  <2>1. ASSUME event = "Alarm" PROVE object \in Objects BY <2>1, <1>2, <1>3 DEF EntryOK
  <2>2. Everyone \notin Objects
    <3>1. ObjectCount \in Nat BY DispatchAssumption
    <3> QED BY <3>1 DEF Everyone, Objects
  <2> QED BY <2>1, <2>2 DEF ListOf
<1>8. UNCHANGED <<inst, bucket, nextId, ticks, changed>> BY <1>1 DEF lists, history
<1> HIDE DEF event, object, others, x, list
<1>9. Masks' BY <1>8 DEF AlarmInv, Masks
<1>10. <<>> \in Seq(Frame) /\ Len(<<>>) = 0 BY EmptySeq
<1>11. Follows(stack, <<>>) BY <1>10 DEF Follows
<1>12. nextId' >= nextId
  <2>1. nextId \in Nat BY DEF IInv, ListsType
  <2> QED BY <2>1, <1>8
<1>13. ASSUME Follows(stack, stack') PROVE AlarmInv'
  BY <1>4, <1>8, <1>9, <1>12, <1>13, AlarmsKept
<1>14. CASE event \in ForAll
  <2>1. ExecuteEventForAll(event, <<>>) BY <1>1, <1>14
  <2>2. Follows(stack, stack') BY <2>1, <1>10, <1>11, <1>14, FollowsForAll DEF IInv
  <2> QED BY <2>2, <1>13
<1>15. CASE event \notin ForAll /\ stack' = <<>> BY <1>11, <1>13, <1>15
<1>16. CASE event \notin ForAll /\ stack' = <<f>> /\ event # "Cleanup"
  <2>1. event \in LoopEvents BY <1>6, <1>16 DEF LoopEvents
  <2>2. f = LoopOf(event, object, "arena", Len(arena), list) OBVIOUS
  <2> HIDE DEF f
  <2>3. /\ f \in Loop /\ f.kind = "loop" /\ f.event = event /\ f.object = object /\ f.snap = list
        /\ f.pos = 1
    BY <2>1, <2>2, <1>3, <1>5, LoopOfIs
  <2>4. f \in Frame BY <2>3 DEF Frame
  <2>5. /\ stack' = <<f>> /\ Len(stack') = 1 /\ \A k \in 1 .. 1 : k = 1 /\ stack'[k] = f
    BY <1>16
  <2>6. CASE event # "Alarm"
    <3>1. ~ IsAlarm(f) BY <2>3, <2>6 DEF IsAlarm
    <3>2. Follows(stack, stack') BY <3>1, <2>5 DEF Follows
    <3> QED BY <3>2, <1>13
  <2>7. CASE event = "Alarm"
    <3>1. /\ object \in Objects /\ f.snap = bucket[object]
          /\ PendingIn(agenda, object) /\ ~ PendingIn(agenda', object)
      BY <2>3, <2>7, <1>4, <1>7
    <3>2. /\ bucket[object] \in Seq(Ids)
          /\ \A j \in 1 .. Len(bucket[object]) :
                bucket[object][j] < nextId /\ inst[bucket[object][j]].object = object
          /\ \A j, m \in 1 .. Len(bucket[object]) : bucket[object][j] = bucket[object][m] => j = m
      BY <3>1 DEF IInv, ListsType, ListsInv
    <3>4. AlarmLoops'
      <4>1. ASSUME NEW k \in 1 .. Len(stack') PROVE k = Len(stack') /\ AlarmLoopOK(stack[k])'
        <5>1. k = Len(stack') /\ stack'[k].snap = bucket[object] /\ stack'[k].object = object
          BY <2>3, <2>5, <3>1
        <5>2. AlarmLoopOK(stack[k])' BY <5>1, <3>1, <3>2, <1>8 DEF AlarmLoopOK
        <5> QED BY <5>1, <5>2
      <4> QED BY <4>1 DEF AlarmLoops
    <3>5. ASSUME NEW i \in Ids, Ticked(i) PROVE Ticked(i)'
      <4>1. i < nextId' BY <3>5, <1>8 DEF Ticked
      <4>2. ASSUME i \notin changed'
            PROVE  /\ ~ PendingIn(agenda', inst'[i].object)
                   /\ \A k \in 1 .. Len(stack') : IsAlarm(stack'[k]) =>
                         \A j \in 1 .. Len(stack'[k].snap) :
                            j >= stack'[k].pos => stack'[k].snap[j] # i
        <5>1. ~ PendingIn(agenda, inst[i].object) BY <3>5, <4>2, <1>8 DEF Ticked
        <5>2. ~ PendingIn(agenda', inst'[i].object) BY <5>1, <1>4, <1>8
        <5>3. inst[i].object # object BY <5>1, <3>1
        <5>4. \A j \in 1 .. Len(f.snap) : f.snap[j] # i BY <5>3, <3>1, <3>2
        <5>5. \A k \in 1 .. Len(stack') : stack'[k] = f BY <2>5
        <5> QED BY <5>2, <5>4, <5>5
      <4> QED BY <4>1, <4>2 DEF Ticked
    <3>6. AlarmTicks' BY <3>5, <1>8 DEF AlarmInv, AlarmTicks
    <3>7. AlarmOnce' BY <1>8 DEF AlarmInv, AlarmOnce
    <3> QED BY <3>4, <3>6, <3>7, <1>9 DEF AlarmInv
  <2> QED BY <2>6, <2>7
<1> QED BY <1>1, <1>14, <1>15, <1>16

\* An alarm is decremented: the loop is the outermost, and goes past the instance.
LEMMA AlarmAlarms == ASSUME IInv, AlarmInv, IInv', VisitAlarm PROVE AlarmInv'
<1> DEFINE p == Top.pos
<1>0. PICK i \in Ids : i = Read(Top)
  <2>1. Visiting({"Alarm"}) BY DEF VisitAlarm
  <2> QED BY <2>1, VisitingIs
<1>1. /\ Visiting({"Alarm"}) /\ Visited /\ UNCHANGED <<instances, bucket, nextId, changed>>
      /\ \/ stack' = Advanced /\ UNCHANGED <<inst, ticks>>
         \/ /\ inst[i].mask /\ ticks' = [ticks EXCEPT ![i] = @ + 1]
            /\ stack' = Advanced \/ stack' = Execute(i, "Alarm", Advanced)
            /\ \/ inst' = AlarmOff(i)
               \/ inst[i].alarm # 1 /\ inst' = [inst EXCEPT ![i].alarm = @ - 1]
  BY <1>0 DEF VisitAlarm
<1>2. Running("loop") /\ Top.event = "Alarm" /\ Top.pos <= Len(Top.snap) BY <1>1 DEF Visiting
<1>3. /\ stack # <<>> /\ Top.kind = "loop" /\ Top \in Frame
      /\ FrameOK(Top, instances, scratch, scratchEpoch)
  BY <1>1, VisitingIs
<1>4. i = Top.snap[p] /\ p \in 1 .. Len(Top.snap)
  <2>1. "Alarm" \notin ForAll BY ForAllEvents
  <2>2. Top.via # "scratch" BY <2>1, <1>2, <1>3 DEF FrameOK
  <2> QED BY <2>2, <1>0, <1>2, ReadIs
<1>5. /\ stack \in Seq(Frame) /\ Len(stack) \in Nat \ {0} /\ Top = stack[1] /\ AlarmBottom(stack)
      /\ 1 \in 1 .. Len(stack)
  <2>1. stack \in Seq(Frame) /\ AlarmBottom(stack) BY BottomIs
  <2>2. Len(stack) \in Nat \ {0} /\ Top = stack[1] BY <2>1, <1>3, TailIs DEF Top
  <2> QED BY <2>1, <2>2
<1>6. IsAlarm(stack[1]) BY <1>2, <1>3, <1>5 DEF IsAlarm
<1>7. AlarmLoopOK(Top) /\ Len(stack) = 1
  <2>1. 1 = Len(stack) /\ AlarmLoopOK(stack[1]) BY <1>5, <1>6 DEF AlarmInv, AlarmLoops
  <2> QED BY <2>1, <1>5
<1>8. p \in Nat /\ Len(Top.snap) \in Nat BY <1>3, LoopIs
<1>9. "Alarm" \in Events BY ForAllEvents DEF BucketLoops
<1>10. /\ Advanced \in Seq(Frame) /\ Follows(stack, Advanced) /\ Len(Advanced) = Len(stack)
       /\ Advanced[1].snap = Top.snap /\ Advanced[1].pos = Top.pos + 1
  BY <1>2, AdvancedFollows
<1>11. UNCHANGED <<agenda, nextId, changed>> BY <1>1 DEF Visited
<1>12. CASE stack' = Advanced /\ UNCHANGED <<inst, ticks>>
  <2>1. UNCHANGED <<lists, agenda, history>> BY <1>1, <1>11, <1>12 DEF lists, history
  <2> QED BY <2>1, <1>10, <1>12, AlarmsStay
<1>13. CASE /\ inst[i].mask /\ ticks' = [ticks EXCEPT ![i] = @ + 1]
            /\ stack' = Advanced \/ stack' = Execute(i, "Alarm", Advanced)
            /\ \/ inst' = AlarmOff(i)
               \/ inst[i].alarm # 1 /\ inst' = [inst EXCEPT ![i].alarm = @ - 1]
  <2>1. inst \in [Ids -> Instance] /\ ticks \in [Ids -> Nat] /\ nextId \in Nat
    BY DEF IInv, ListsType, HistoryType
  <2>2. /\ inst'[i].object = inst[i].object /\ inst'[i].mask = (inst'[i].alarm > 0)
        /\ \A j \in Ids : j # i => inst'[j] = inst[j]
    <3>1. inst[i] \in Instance /\ inst[i].alarm \in Int /\ inst[i].mask = (inst[i].alarm > 0)
      BY <2>1, <1>3 DEF AlarmInv, Masks, Instance
    <3>2. CASE inst' = AlarmOff(i)
      <4> DEFINE n == -1
                 b == FALSE
      <4>1. n \in Int /\ b \in BOOLEAN /\ b = (n > 0) OBVIOUS
      <4>2. inst' = [inst EXCEPT ![i].alarm = n, ![i].mask = b] BY <3>2 DEF AlarmOff
      <4> HIDE DEF n, b
      <4>3. /\ inst'[i].object = inst[i].object /\ inst'[i].mask = b /\ inst'[i].alarm = n
            /\ \A j \in Ids : j # i => inst'[j] = inst[j]
        BY <4>1, <4>2, <2>1, <1>3 DEF Instance
      <4> QED BY <4>1, <4>3
    <3>3. CASE inst[i].alarm # 1 /\ inst' = [inst EXCEPT ![i].alarm = @ - 1]
      <4> DEFINE a == inst[i].alarm
                 n == a - 1
      <4>1. inst' = [inst EXCEPT ![i].alarm = n] BY <3>3, <2>1, <1>3 DEF Instance
      <4>2. n \in Int BY <3>1
      <4>3. n > 0
        <5>1. a > 0 /\ a # 1 /\ a \in Int BY <3>1, <3>3, <1>13
        <5> HIDE DEF a
        <5> QED BY <5>1
      <4>4. inst[i].mask = TRUE BY <3>1, <1>13
      <4> HIDE DEF n, a
      <4>5. /\ inst'[i].object = inst[i].object /\ inst'[i].mask = inst[i].mask /\ inst'[i].alarm = n
            /\ \A j \in Ids : j # i => inst'[j] = inst[j]
        BY <4>1, <4>2, <2>1, <1>3 DEF Instance
      <4> QED BY <4>3, <4>4, <4>5
    <3> QED BY <3>2, <3>3, <1>13
  <2>3. Masks' BY <2>2 DEF AlarmInv, Masks
  <2>4. Follows(stack, stack') BY <1>3, <1>9, <1>10, <1>13, FollowsExecute
  <2>5. nextId' >= nextId BY <2>1, <1>11
  <2>6. \A j \in Ids : inst'[j].object = inst[j].object BY <2>2
  <2>7. AlarmLoops' /\ \A j \in Ids : Ticked(j) => Ticked(j)'
    BY <2>4, <2>5, <2>6, <1>11, AlarmsMove DEF AlarmInv
  <2>8. ticks' \in [Ids -> Nat] /\ ticks'[i] = ticks[i] + 1 /\ \A j \in Ids : j # i => ticks'[j] = ticks[j]
    BY <2>1, <1>3, <1>13
  <2>9. i < nextId /\ (i \notin changed => inst[i].object = Top.object) /\ ~ PendingIn(agenda, Top.object)
    BY <1>4, <1>7 DEF AlarmLoopOK
  <2>10. Follows(Advanced, stack')
    <3>1. AlarmBottom(Advanced) BY <1>10 DEF Follows, AlarmBottom
    <3>2. Follows(Advanced, Advanced) BY <3>1, <1>10, FollowsSame
    <3> QED BY <3>2, <1>3, <1>9, <1>10, <1>13, FollowsExecute
  <2>11. Ticked(i)'
    <3>1. i < nextId' BY <2>9, <1>11
    <3>2. i \notin changed' => ~ PendingIn(agenda', inst'[i].object) BY <2>6, <2>9, <1>3, <1>11
    <3>3. ASSUME NEW k \in 1 .. Len(stack'), IsAlarm(stack'[k]),
                 NEW j \in 1 .. Len(stack'[k].snap), j >= stack'[k].pos
          PROVE  stack'[k].snap[j] # i
      <4>1. PICK m \in 1 .. Len(Advanced) : /\ stack'[k].snap = Advanced[m].snap
                                            /\ stack'[k].pos >= Advanced[m].pos
        BY <2>10, <3>3 DEF Follows
      <4>2. m = 1 BY <4>1, <1>7, <1>10
      <4> DEFINE q == stack'[k].pos
      <4>3. j \in 1 .. Len(Top.snap) /\ stack'[k].snap = Top.snap /\ q >= p + 1 /\ j >= q
        BY <4>1, <4>2, <3>3, <1>10
      <4>4. q \in Nat
        <5>1. stack' \in Seq(Frame) BY DEF IInv, StackInv
        <5>2. stack'[k] \in Frame /\ stack'[k].kind = "loop" BY <5>1, <3>3 DEF IsAlarm
        <5> QED BY <5>2, LoopIs
      <4> HIDE DEF q
      <4>5. j # p
        <5> HIDE DEF p
        <5> QED BY <4>3, <4>4, <1>8
      <4> QED BY <4>3, <4>5, <1>4, <1>7 DEF AlarmLoopOK
    <3> QED BY <3>1, <3>2, <3>3 DEF Ticked
  <2>12. AlarmTicks'
    <3>1. ASSUME NEW j \in Ids, ticks'[j] # 0 PROVE Ticked(j)'
      <4>1. CASE j = i BY <4>1, <2>11
      <4>2. CASE j # i
        <5>1. Ticked(j) BY <4>2, <3>1, <2>8 DEF AlarmInv, AlarmTicks
        <5> QED BY <5>1, <2>7
      <4> QED BY <4>1, <4>2
    <3> QED BY <3>1 DEF AlarmTicks
  <2>13. AlarmOnce'
    <3>1. ASSUME NEW j \in Ids, ticks'[j] > 1 PROVE j \in changed'
      <4>1. CASE j # i BY <4>1, <3>1, <2>8, <1>11 DEF AlarmInv, AlarmOnce
      <4>2. CASE j = i
        <5>1. ticks[i] # 0
          <6>1. ticks[i] \in Nat /\ ticks[i] + 1 > 1 BY <4>2, <3>1, <2>1, <2>8, <1>3
          <6> QED BY <6>1
        <5>2. Ticked(i) BY <5>1, <1>3 DEF AlarmInv, AlarmTicks
        <5>3. p >= p BY <1>8
        <5>4. i \in changed BY <5>2, <5>3, <1>4, <1>5, <1>6 DEF Ticked
        <5> QED BY <5>4, <4>2, <1>11
      <4> QED BY <4>1, <4>2
    <3> QED BY <3>1 DEF AlarmOnce
  <2> QED BY <2>3, <2>7, <2>12, <2>13 DEF AlarmInv
<1> QED BY <1>1, <1>12, <1>13

-------------------------------------------------------------------------------
(* Alarms: every step                                                       *)

LEMMA AlarmInit == Init => AlarmInv
<1> SUFFICES ASSUME Init PROVE AlarmInv OBVIOUS
<1>1. stack = <<>> /\ ticks = [i \in Ids |-> 0] /\ \A i \in Ids : inst[i].mask = (inst[i].alarm > 0)
  BY DEF Init
<1>2. Len(stack) = 0 BY <1>1, EmptySeq
<1>3. AlarmLoops BY <1>2 DEF AlarmLoops
<1>4. \A i \in Ids : ticks[i] = 0 BY <1>1
<1>5. AlarmTicks BY <1>4 DEF AlarmTicks
<1>6. AlarmOnce
  <2>1. ~ (0 > 1) OBVIOUS
  <2>2. \A i \in Ids : ~ (ticks[i] > 1) BY <2>1, <1>4
  <2> QED BY <2>2 DEF AlarmOnce
<1>7. Masks BY <1>1 DEF Masks
<1> QED BY <1>3, <1>5, <1>6, <1>7 DEF AlarmInv

LEMMA AlarmStep == IInv /\ IInv' /\ AlarmInv /\ [Next]_vars => AlarmInv'
<1> SUFFICES ASSUME IInv, IInv', AlarmInv, [Next]_vars PROVE AlarmInv' OBVIOUS
<1>1. ASSUME UNCHANGED <<stack, lists, agenda, history>> PROVE AlarmInv'
  <2>1. Follows(stack, stack) BY BottomIs, FollowsSame
  <2>2. Follows(stack, stack') BY <2>1, <1>1
  <2> QED BY <2>2, <1>1, AlarmsStay
<1>2. CASE GameCode BY <1>2, GameCodeAlarms
<1>3. CASE BeginFrame BY <1>3, BeginAlarms
<1>4. CASE StartLoop BY <1>4, StartAlarms
<1>5. CASE Crash BY <1>1, <1>5 DEF Crash
<1>6. CASE VisitEach \/ VisitMouse \/ VisitOutside \/ VisitTimeline BY <1>6, VisitsAlarms
<1>7. CASE VisitAlarm BY <1>7, AlarmAlarms
<1>8. CASE VisitCollider BY <1>8, ColliderAlarms
<1>9. CASE NextTarget BY <1>9, TargetAlarms
<1>10. CASE VisitOther BY <1>10, OtherAlarms
<1>11. CASE Symmetric BY <1>11, SymmetricAlarms
<1>12. CASE VisitWrite BY <1>12, WriteAlarms
<1>13. CASE EndLoop BY <1>13, EndAlarms
<1>14. CASE EarlyReturn BY <1>14, EarlyReturnAlarms
<1>15. CASE CleanupDestroyed BY <1>15, CleanupAlarms
<1>16. CASE UNCHANGED vars BY <1>1, <1>16 DEF vars
<1> QED BY <1>2, <1>3, <1>4, <1>5, <1>6, <1>7, <1>8, <1>9, <1>10, <1>11, <1>12, <1>13, <1>14,
           <1>15, <1>16 DEF Next, Engine, Stopped

LEMMA AlarmsFollow == AlarmInv => AlarmOncePerStep
BY DEF AlarmInv, AlarmOnce, Masks, AlarmOncePerStep

\* In one step of the game the alarm of an instance is decremented once at most, unless the
\* instance changes object in that step; and the mask by which Runner_step skips idle
\* instances is set when the alarm is, whatever the code of alarms and other events does.
THEOREM AlarmsOnce == Spec => []AlarmOncePerStep
<1>1. Spec => []IInv BY IInvHolds
<1>2. Init => AlarmInv BY AlarmInit
<1>3. IInv /\ IInv' /\ AlarmInv /\ [Next]_vars => AlarmInv' BY AlarmStep
<1>4. AlarmInv => AlarmOncePerStep BY AlarmsFollow
<1> QED BY <1>1, <1>2, <1>3, <1>4, PTL DEF Spec
===============================================================================
