------------------------------ MODULE FilesProofs ------------------------------
(* Theorems about Files, for any files, names, contents and handles: types,   *)
(* inis that agree with their files, and, for a bundle that cannot be written *)
(* and the overlay of the desktop, that game code sees one directory.         *)
EXTENDS Files, WellFoundedInduction, SequenceTheorems, TLAPS

Disks == [Areas -> [Paths -> Contents \cup {Absent}]]

\* What waits in the buffer of a FILE fits behind its position, and waits only where the
\* FILE may be written.
Buffered ==
    \A h \in BinSlots : bins[h] # NoFile =>
        /\ bins[h].pos + Len(bins[h].pending) <= MaxLen
        /\ bins[h].pending # <<>> => bins[h].mode # "read"

\* The inductive invariant.
IInv == TypeOK /\ Buffered /\ IniAgreesWithFile

-------------------------------------------------------------------------------
(* Lemmas about sequences and the disk                                      *)

LEMMA LeastOf ==
    ASSUME NEW S \in SUBSET Nat, S # {}
    PROVE  \E x \in S : \A y \in S : x <= y
<1> DEFINE R == OpToRel(<, Nat)
<1>1. IsWellFoundedOn(R, Nat) BY NatLessThanWellFounded
<1>2. \A x, y \in Nat : <<x, y>> \in R <=> x < y BY DEF OpToRel
<1> HIDE DEF R
<1>3. PICK x \in S : \A y \in S : ~(<<y, x>> \in R) BY <1>1, WFMin
<1>4. \A y \in S : ~(y < x) BY <1>2, <1>3
<1>5. x \in Int /\ S \subseteq Int OBVIOUS
<1> QED BY <1>4, <1>5, SMT

LEMMA Greatest == \A a, b \in Nat : Max({a, b}) = IF a >= b THEN a ELSE b
<1> SUFFICES ASSUME NEW a \in Nat, NEW b \in Nat
             PROVE  Max({a, b}) = IF a >= b THEN a ELSE b
  OBVIOUS
<1> DEFINE m == IF a >= b THEN a ELSE b
<1>1. m \in {a, b} /\ \A y \in {a, b} : m >= y OBVIOUS
<1>2. \A x \in {a, b} : (\A y \in {a, b} : x >= y) => x = m OBVIOUS
<1> QED BY <1>1, <1>2 DEF Max

LEMMA Bounded ==
    ASSUME NEW S
    PROVE  \A s : s \in BoundedSeq(S, MaxLen) <=> s \in Seq(S) /\ Len(s) <= MaxLen
<1>1. MaxLen \in Nat BY FilesAssumption
<1>2. ASSUME NEW s \in BoundedSeq(S, MaxLen) PROVE s \in Seq(S) /\ Len(s) <= MaxLen
  <2>1. PICK m \in 0 .. MaxLen : s \in [1 .. m -> S] BY <1>2 DEF BoundedSeq, SeqOf
  <2> QED BY <2>1, <1>1
<1>3. ASSUME NEW s \in Seq(S), Len(s) <= MaxLen PROVE s \in BoundedSeq(S, MaxLen)
  <2>1. Len(s) \in 0 .. MaxLen /\ s \in [1 .. Len(s) -> S] BY <1>1, <1>3
  <2> QED BY <2>1 DEF BoundedSeq, SeqOf
<1> QED BY <1>2, <1>3

LEMMA SavesAreContents ==
    /\ Saves \subseteq Contents /\ <<>> \in Saves
    /\ \A s \in Saves, v \in Values : Len(s) < MaxLen =>
          Append(s, v) \in Saves /\ Append(s, v) = s \o <<v>> /\ Len(Append(s, v)) = Len(s) + 1
          /\ Append(s, v) # <<>>
    /\ \A s \in Contents : s \in Seq(Values \cup {Zero}) /\ Len(s) \in Nat /\ Len(s) <= MaxLen
    /\ \A s \in Saves : s \in Seq(Values) /\ Len(s) \in Nat /\ Len(s) <= MaxLen
<1>1. MaxLen \in Nat \ {0} BY FilesAssumption
<1>2. Saves \subseteq Contents
  <2>1. \A s \in Seq(Values) : s \in Seq(Values \cup {Zero}) OBVIOUS
  <2> QED BY <2>1, Bounded DEF Saves, Contents
<1>3. <<>> \in Saves
  <2>1. <<>> \in Seq(Values) /\ Len(<<>>) <= MaxLen BY <1>1
  <2> QED BY <2>1, Bounded DEF Saves
<1>4. ASSUME NEW s \in Saves, NEW v \in Values, Len(s) < MaxLen
      PROVE  /\ Append(s, v) \in Saves /\ Append(s, v) = s \o <<v>>
             /\ Len(Append(s, v)) = Len(s) + 1 /\ Append(s, v) # <<>>
  <2>1. s \in Seq(Values) BY Bounded DEF Saves
  <2>2. Append(s, v) \in Seq(Values) /\ Len(Append(s, v)) = Len(s) + 1 BY <2>1
  <2>3. Len(Append(s, v)) <= MaxLen BY <2>1, <2>2, <1>1, <1>4
  <2>4. Append(s, v) = s \o <<v>> BY <2>1
  <2>5. Append(s, v) # <<>> BY <2>1, AppendProperties
  <2> QED BY <2>2, <2>3, <2>4, <2>5, Bounded DEF Saves
<1>5. \A s \in Contents : s \in Seq(Values \cup {Zero}) /\ Len(s) \in Nat /\ Len(s) <= MaxLen
  BY Bounded DEF Contents
<1>6. \A s \in Saves : s \in Seq(Values) /\ Len(s) \in Nat /\ Len(s) <= MaxLen
  BY Bounded DEF Saves
<1> QED BY <1>2, <1>3, <1>4, <1>5, <1>6

\* Writing into a file leaves a file that is not longer than the bound.
LEMMA OverwriteType ==
    ASSUME NEW c \in Contents, NEW pos \in 0 .. MaxLen, NEW s \in Saves, pos + Len(s) <= MaxLen
    PROVE  Overwrite(c, pos, s) \in Contents
<1>1. MaxLen \in Nat /\ pos \in Nat BY FilesAssumption
<1>2. /\ c \in Seq(Values \cup {Zero}) /\ Len(c) \in Nat /\ Len(c) <= MaxLen
      /\ s \in Seq(Values) /\ Len(s) \in Nat
  BY SavesAreContents
<1>3. CASE s = <<>> BY <1>3 DEF Overwrite
<1>4. CASE s # <<>>
  <2> DEFINE n == Max({Len(c), pos + Len(s)})
             o == [i \in 1 .. n |->
                      IF i > pos /\ i <= pos + Len(s) THEN s[i - pos]
                      ELSE IF i <= Len(c) THEN c[i] ELSE Zero]
  <2>1. n \in Nat /\ n <= MaxLen
    <3>1. pos + Len(s) \in Nat BY <1>1, <1>2
    <3>2. n = IF Len(c) >= pos + Len(s) THEN Len(c) ELSE pos + Len(s) BY <3>1, <1>2, Greatest
    <3> QED BY <3>1, <3>2, <1>2
  <2> HIDE DEF n
  <2>2. ASSUME NEW i \in 1 .. n PROVE o[i] \in Values \cup {Zero}
    <3>1. CASE i > pos /\ i <= pos + Len(s)
      <4>1. i - pos \in 1 .. Len(s) BY <3>1, <1>1, <1>2, <2>1
      <4>2. s[i - pos] \in Values BY <4>1, <1>2
      <4> QED BY <4>2, <3>1
    <3>2. CASE ~ (i > pos /\ i <= pos + Len(s)) /\ i <= Len(c)
      <4>1. i \in 1 .. Len(c) BY <3>2, <2>1, <1>2
      <4>2. c[i] \in Values \cup {Zero} BY <4>1, <1>2
      <4> QED BY <4>2, <3>2
    <3>3. CASE ~ (i > pos /\ i <= pos + Len(s)) /\ ~ (i <= Len(c)) BY <3>3
    <3> QED BY <3>1, <3>2, <3>3
  <2>3. o \in [1 .. n -> Values \cup {Zero}] BY <2>2
  <2>4. o \in Seq(Values \cup {Zero}) /\ Len(o) <= MaxLen
    <3> HIDE DEF o
    <3> QED BY <2>1, <2>3
  <2>5. Overwrite(c, pos, s) = o BY <1>4 DEF Overwrite, n
  <2> QED BY <2>4, <2>5, Bounded DEF Contents
<1> QED BY <1>3, <1>4

\* One file of the disk is replaced.
LEMMA Put ==
    ASSUME NEW d \in Disks, NEW a \in Areas, NEW p \in Paths, NEW c \in Contents \cup {Absent}
    PROVE  /\ [d EXCEPT ![a][p] = c] \in Disks
           /\ \A b \in Areas, q \in Paths :
                 [d EXCEPT ![a][p] = c][b][q] = IF b = a /\ q = p THEN c ELSE d[b][q]
<1>1. [d[a] EXCEPT ![p] = c] \in [Paths -> Contents \cup {Absent}] BY DEF Disks
<1>2. [d EXCEPT ![a][p] = c] \in Disks BY <1>1 DEF Disks
<1>3. ASSUME NEW b \in Areas, NEW q \in Paths
      PROVE  [d EXCEPT ![a][p] = c][b][q] = IF b = a /\ q = p THEN c ELSE d[b][q]
  BY DEF Disks
<1> QED BY <1>2, <1>3

LEMMA FlushedIs ==
    ASSUME NEW d \in Disks, NEW b \in Bin, b.pos + Len(b.pending) <= MaxLen,
           b.linked => d[b.area][b.path] # Absent
    PROVE  /\ FlushedTo(d, b) \in Disks
           /\ \A a \in Areas, p \in Paths :
                 /\ d[a][p] # Absent => FlushedTo(d, b)[a][p] # Absent
                 /\ FlushedTo(d, b)[a][p] # d[a][p] =>
                       b.linked /\ b.area = a /\ b.path = p /\ b.pending # <<>>
<1>1. /\ b.area \in Areas /\ b.path \in Paths /\ b.linked \in BOOLEAN
      /\ b.pos \in 0 .. MaxLen /\ b.pending \in Saves
  BY DEF Bin
<1>2. CASE ~ b.linked BY <1>2 DEF FlushedTo
<1>3. CASE b.linked
  <2> DEFINE c == d[b.area][b.path]
             o == Overwrite(c, b.pos, b.pending)
  <2>1. c \in Contents BY <1>1, <1>3 DEF Disks
  <2>2. o \in Contents BY <2>1, <1>1, OverwriteType
  <2>3. o # Absent BY <2>2, FilesAssumption
  <2>4. b.pending = <<>> => o = c BY DEF Overwrite
  <2>5. FlushedTo(d, b) = [d EXCEPT ![b.area][b.path] = o] BY <1>3 DEF FlushedTo
  <2> HIDE DEF o, c
  <2> DEFINE e == [d EXCEPT ![b.area][b.path] = o]
  <2>6. e \in Disks /\ \A a \in Areas, p \in Paths :
           e[a][p] = IF a = b.area /\ p = b.path THEN o ELSE d[a][p]
    BY <1>1, <2>2, Put
  <2>7. FlushedTo(d, b) = e BY <2>5
  <2> HIDE DEF e
  <2>8. c = d[b.area][b.path] BY DEF c
  <2> QED BY <2>3, <2>4, <2>6, <2>7, <2>8, <1>3
<1> QED BY <1>1, <1>2, <1>3

-------------------------------------------------------------------------------
(* Closing all FILEs, one after the other                                   *)

ClosedOnce(d, k) == IF bins[k] = NoFile THEN d ELSE FlushedTo(d, bins[k])
IsClosing(f, n) == f = [k \in 0 .. n |-> IF k = 0 THEN disk ELSE ClosedOnce(f[k - 1], k)]

LEMMA ClosingExists == \A n \in Nat : \E f : IsClosing(f, n)
<1> DEFINE Bad == {n \in Nat : ~ \E f : IsClosing(f, n)}
<1>1. SUFFICES ASSUME Bad # {} PROVE FALSE OBVIOUS
<1>2. PICK m \in Bad : \A n \in Bad : m <= n BY <1>1, LeastOf
<1>3. m \in Nat /\ ~ \E f : IsClosing(f, m) OBVIOUS
<1>4. CASE m = 0
  <2> DEFINE f == [k \in 0 .. 0 |-> disk]
  <2>1. f = [k \in 0 .. 0 |-> IF k = 0 THEN disk ELSE ClosedOnce(f[k - 1], k)] OBVIOUS
  <2>2. IsClosing(f, m) BY <2>1, <1>4 DEF IsClosing
  <2> QED BY <2>2, <1>3
<1>5. CASE m # 0
  <2>1. m - 1 \in Nat /\ ~ (m <= m - 1) BY <1>3, <1>5
  <2>2. m - 1 \notin Bad BY <2>1, <1>2
  <2>3. PICK f : IsClosing(f, m - 1) BY <2>1, <2>2
  <2> DEFINE g == [k \in 0 .. m |-> IF k = m THEN ClosedOnce(f[m - 1], m) ELSE f[k]]
  <2>4. ASSUME NEW k \in 0 .. m
        PROVE  g[k] = IF k = 0 THEN disk ELSE ClosedOnce(g[k - 1], k)
    <3>1. CASE k = 0
      <4>1. 0 \in 0 .. m - 1 BY <2>1
      <4>2. f[0] = disk BY <4>1, <2>3 DEF IsClosing
      <4> QED BY <3>1, <4>2, <1>5
    <3>2. CASE k # 0 /\ k # m
      <4>1. k \in 0 .. m - 1 /\ k - 1 \in 0 .. m /\ k - 1 # m BY <3>2, <1>3
      <4>2. f[k] = ClosedOnce(f[k - 1], k) BY <4>1, <3>2, <2>3 DEF IsClosing
      <4>3. g[k] = f[k] /\ g[k - 1] = f[k - 1] BY <4>1, <3>2
      <4> QED BY <4>2, <4>3, <3>2
    <3>3. CASE k = m
      <4>1. m - 1 \in 0 .. m /\ m - 1 # m BY <2>1, <1>3
      <4>2. g[m] = ClosedOnce(f[m - 1], m) /\ g[m - 1] = f[m - 1] BY <4>1, <1>3
      <4> QED BY <4>2, <3>3, <1>5
    <3> QED BY <3>1, <3>2, <3>3
  <2>5. g = [k \in 0 .. m |-> IF k = 0 THEN disk ELSE ClosedOnce(g[k - 1], k)] BY <2>4
  <2> HIDE DEF g
  <2>6. IsClosing(g, m) BY <2>5 DEF IsClosing
  <2> QED BY <2>6, <1>3
<1> QED BY <1>4, <1>5

LEMMA ClosedSteps ==
    /\ Closed[0] = disk
    /\ \A k \in 1 .. MaxBin : Closed[k] = ClosedOnce(Closed[k - 1], k)
<1>1. MaxBin \in Nat BY FilesAssumption
<1>2. PICK f : IsClosing(f, MaxBin) BY <1>1, ClosingExists
<1>3. f = [k \in 0 .. MaxBin |-> IF k = 0 THEN disk
              ELSE IF bins[k] = NoFile THEN f[k - 1] ELSE FlushedTo(f[k - 1], bins[k])]
  BY <1>2 DEF IsClosing, ClosedOnce
<1>4. Closed = [k \in 0 .. MaxBin |-> IF k = 0 THEN disk
              ELSE IF bins[k] = NoFile THEN Closed[k - 1] ELSE FlushedTo(Closed[k - 1], bins[k])]
  BY <1>3, Zenon DEF Closed
<1>5. 0 \in 0 .. MaxBin BY <1>1
<1>6. Closed[0] = disk BY <1>4, <1>5, Zenon
<1>7. ASSUME NEW k \in 1 .. MaxBin PROVE Closed[k] = ClosedOnce(Closed[k - 1], k)
  <2>1. k \in 0 .. MaxBin /\ k # 0 OBVIOUS
  <2> QED BY <1>4, <2>1, Zenon DEF ClosedOnce
<1> QED BY <1>6, <1>7

\* Closing the FILEs loses no file, and changes those only that have a buffer to be written.
LEMMA ClosedIs ==
    ASSUME TypeOK, Buffered
    PROVE  /\ Closed[MaxBin] \in Disks
           /\ \A a \in Areas, p \in Paths :
                 /\ disk[a][p] # Absent => Closed[MaxBin][a][p] # Absent
                 /\ Closed[MaxBin][a][p] # disk[a][p] =>
                       \E h \in BinSlots : /\ bins[h] # NoFile /\ bins[h].linked
                                           /\ bins[h].area = a /\ bins[h].path = p
                                           /\ bins[h].pending # <<>>
<1> DEFINE Kept(d) ==
              /\ d \in Disks
              /\ \A a \in Areas, p \in Paths :
                    /\ disk[a][p] # Absent => d[a][p] # Absent
                    /\ d[a][p] # disk[a][p] =>
                          \E h \in BinSlots : /\ bins[h] # NoFile /\ bins[h].linked
                                              /\ bins[h].area = a /\ bins[h].path = p
                                              /\ bins[h].pending # <<>>
           Bad == {k \in 0 .. MaxBin : ~ Kept(Closed[k])}
<1>1. MaxBin \in Nat BY FilesAssumption
<1>2. Kept(disk) BY DEF TypeOK, Disks
<1>3. ASSUME NEW d, Kept(d), NEW k \in 1 .. MaxBin PROVE Kept(ClosedOnce(d, k))
  <2>1. CASE bins[k] = NoFile BY <1>3, <2>1 DEF ClosedOnce
  <2>2. CASE bins[k] # NoFile
    <3> DEFINE b == bins[k]
               e == FlushedTo(d, b)
    <3>1. k \in BinSlots /\ b \in Bin BY <2>2 DEF TypeOK, BinSlots
    <3>2. b.pos + Len(b.pending) <= MaxLen BY <3>1, <2>2 DEF Buffered
    <3>3. b.linked => disk[b.area][b.path] # Absent BY <3>1, <2>2 DEF TypeOK
    <3>4. b.area \in Areas /\ b.path \in Paths BY <3>1 DEF Bin
    <3>5. b.linked => d[b.area][b.path] # Absent BY <3>3, <3>4, <1>3
    <3>6. /\ e \in Disks
          /\ \A a \in Areas, p \in Paths :
                /\ d[a][p] # Absent => e[a][p] # Absent
                /\ e[a][p] # d[a][p] => b.linked /\ b.area = a /\ b.path = p /\ b.pending # <<>>
      BY <1>3, <3>1, <3>2, <3>5, FlushedIs
    <3>7. ClosedOnce(d, k) = e BY <2>2 DEF ClosedOnce
    <3> HIDE DEF e
    <3>8. Kept(e) BY <1>3, <3>1, <3>6, <2>2
    <3> QED BY <3>7, <3>8
  <2> QED BY <2>1, <2>2
<1> HIDE DEF Kept
<1>4. Bad = {}
  <2>1. SUFFICES ASSUME Bad # {} PROVE FALSE OBVIOUS
  <2>2. PICK m \in Bad : \A n \in Bad : m <= n
    <3>1. Bad \in SUBSET Nat BY <1>1
    <3> HIDE DEF Bad
    <3> QED BY <2>1, <3>1, LeastOf
  <2>3. m \in 0 .. MaxBin /\ ~ Kept(Closed[m]) OBVIOUS
  <2>4. m # 0 BY <2>3, <1>2, ClosedSteps
  <2>5. m \in 1 .. MaxBin /\ m - 1 \in 0 .. MaxBin /\ ~ (m <= m - 1) BY <2>3, <2>4, <1>1
  <2>6. Kept(Closed[m - 1]) BY <2>2, <2>5
  <2>7. Kept(ClosedOnce(Closed[m - 1], m)) BY <2>5, <2>6, <1>3
  <2> QED BY <2>3, <2>5, <2>7, ClosedSteps
<1>5. MaxBin \in 0 .. MaxBin BY <1>1
<1>6. Kept(Closed[MaxBin]) BY <1>4, <1>5
<1> QED BY <1>6, Zenon DEF Kept

-------------------------------------------------------------------------------
(* Types                                                                    *)

\* What is true of an open FILE b over the disk d.
Handle(b, d) ==
    /\ b \in Bin
    /\ b.pos + Len(b.pending) <= MaxLen /\ (b.pending # <<>> => b.mode # "read")
    /\ b.linked => d[b.area][b.path] # Absent
Handles(bs, d) ==
    /\ bs \in [BinSlots -> Bin \cup {NoFile}]
    /\ \A h \in BinSlots : bs[h] # NoFile => Handle(bs[h], d)
NothingLost(d, e) == \A a \in Areas, p \in Paths : d[a][p] # Absent => e[a][p] # Absent

Memory ==
    /\ currentIni \in IniFile \cup {NoIni} /\ cachedIni \in IniFile \cup {NoIni}
    /\ strays \subseteq Names
Resolutions == [Names -> Areas \cup {NoArea}]
Texts == [TextSlots -> Text \cup {NoFile}]

\* The invariant of types in parts, each of which most actions leave alone.
LEMMA Parts ==
    TypeOK /\ Buffered <=>
        disk \in Disks /\ resolved \in Resolutions /\ texts \in Texts /\ Memory /\ Handles(bins, disk)
<1>1. ASSUME TypeOK, Buffered PROVE Handles(bins, disk)
  <2>1. bins \in [BinSlots -> Bin \cup {NoFile}] BY <1>1 DEF TypeOK
  <2>2. ASSUME NEW h \in BinSlots, bins[h] # NoFile PROVE Handle(bins[h], disk)
    BY <1>1, <2>1, <2>2 DEF TypeOK, Buffered, Handle
  <2> QED BY <2>1, <2>2 DEF Handles
<1>2. ASSUME Handles(bins, disk) PROVE Buffered BY <1>2 DEF Handles, Handle, Buffered
<1>3. TypeOK => disk \in Disks /\ resolved \in Resolutions /\ texts \in Texts /\ Memory
  BY DEF TypeOK, Disks, Resolutions, Texts, Memory
<1>4. ASSUME disk \in Disks, resolved \in Resolutions, texts \in Texts, Memory, Handles(bins, disk)
      PROVE  TypeOK
  BY <1>4 DEF TypeOK, Disks, Resolutions, Texts, Memory, Handles, Handle
<1> QED BY <1>1, <1>2, <1>3, <1>4

LEMMA PartsNext ==
    ASSUME disk' \in Disks, resolved' \in Resolutions, texts' \in Texts, Memory',
           Handles(bins', disk')
    PROVE  TypeOK' /\ Buffered'
<1>1. ASSUME NEW h \in BinSlots, bins'[h] # NoFile PROVE Handle(bins'[h], disk')
  BY <1>1 DEF Handles
<1>2. Buffered' BY <1>1 DEF Handle, Buffered
<1>3. bins' \in [BinSlots -> Bin \cup {NoFile}] BY DEF Handles
<1>4. \A h \in BinSlots : bins'[h] # NoFile /\ bins'[h].linked
                             => disk'[bins'[h].area][bins'[h].path] # Absent
  BY <1>1 DEF Handle
<1>5. TypeOK' BY <1>3, <1>4 DEF TypeOK, Disks, Resolutions, Texts, Memory
<1> QED BY <1>2, <1>5

LEMMA HandlesKept ==
    ASSUME NEW bs, NEW d, NEW e, Handles(bs, d), NothingLost(d, e)
    PROVE  Handles(bs, e)
<1>1. ASSUME NEW h \in BinSlots, bs[h] # NoFile PROVE Handle(bs[h], e)
  <2>1. Handle(bs[h], d) BY <1>1 DEF Handles
  <2>2. bs[h].area \in Areas /\ bs[h].path \in Paths BY <2>1 DEF Handle, Bin
  <2> QED BY <2>1, <2>2 DEF Handle, NothingLost
<1> QED BY <1>1 DEF Handles

LEMMA HandleSet ==
    ASSUME NEW bs, NEW d, Handles(bs, d), NEW h \in BinSlots, NEW b,
           b = NoFile \/ Handle(b, d)
    PROVE  Handles([bs EXCEPT ![h] = b], d)
<1>1. b \in Bin \cup {NoFile} BY DEF Handle
<1>2. [bs EXCEPT ![h] = b] \in [BinSlots -> Bin \cup {NoFile}] BY <1>1 DEF Handles
<1>3. ASSUME NEW k \in BinSlots, [bs EXCEPT ![h] = b][k] # NoFile
      PROVE  Handle([bs EXCEPT ![h] = b][k], d)
  <2>1. CASE k = h
    <3>1. [bs EXCEPT ![h] = b][k] = b BY <2>1 DEF Handles
    <3> QED BY <3>1, <1>3
  <2>2. CASE k # h
    <3>1. [bs EXCEPT ![h] = b][k] = bs[k] BY <2>2 DEF Handles
    <3> QED BY <3>1, <1>3 DEF Handles
  <2> QED BY <2>1, <2>2
<1> QED BY <1>2, <1>3 DEF Handles

\* A file is opened, its FILE or none at hand.
LEMMA OpenedIs ==
    ASSUME NEW a \in Areas, NEW p \in Paths, NEW m \in Modes, NEW d, d[a][p] # Absent
    PROVE  /\ Handle(Opened(a, p, m), d) /\ Opened(a, p, m).mode = m
           /\ Opened(a, p, m).area = a /\ Opened(a, p, m).path = p /\ Opened(a, p, m).linked
<1>1. MaxLen \in Nat /\ <<>> \in Saves BY FilesAssumption, SavesAreContents
<1>2. 0 \in 0 .. MaxLen /\ 0 + Len(<<>>) <= MaxLen BY <1>1
<1>3. Opened(a, p, m) \in Bin BY <1>1, <1>2 DEF Opened, Bin
<1> QED BY <1>2, <1>3 DEF Opened, Handle

LEMMA NamesAre ==
    ASSUME resolved \in Resolutions, NEW n \in Names
    PROVE  n.path \in Paths /\ n.full \in BOOLEAN /\ AreaForRead(n) \in Areas /\ AreaForWrite(n) \in Areas
<1>1. n.path \in Paths /\ n.full \in BOOLEAN BY FilesAssumption
<1>2. AreaForWrite(n) \in Areas BY DEF AreaForWrite, Areas
<1>3. AreaForRead(n) \in Areas BY DEF AreaForRead, Areas, Resolutions
<1> QED BY <1>1, <1>2, <1>3

\* Looking a file up changes nothing that is read.
LEMMA RecallKeeps ==
    ASSUME resolved \in Resolutions, NEW n \in Names, disk' = disk, Recall(n, AreaForRead(n))
    PROVE  resolved' \in Resolutions /\ \A m \in Names : Read(m)' = Read(m)
<1>1. AreaForRead(n) \in Areas /\ AreaForRead(n) # NoArea BY NamesAre, FilesAssumption
<1>2. CASE ~ Cached
  <2>1. resolved' = resolved BY <1>2 DEF Recall
  <2> QED BY <2>1, <1>2 DEF Read, AreaForRead
<1>3. CASE Cached
  <2>1. resolved' = [resolved EXCEPT ![n] = AreaForRead(n)] BY <1>3 DEF Recall
  <2>2. resolved' \in Resolutions BY <2>1, <1>1 DEF Resolutions
  <2>3. ASSUME NEW m \in Names PROVE AreaForRead(m)' = AreaForRead(m)
    <3>1. CASE m = n
      <4>1. resolved'[m] = AreaForRead(n) BY <3>1, <2>1 DEF Resolutions
      <4>2. AreaForRead(m)' = resolved'[m] BY <4>1, <1>1, <1>3 DEF AreaForRead
      <4> QED BY <4>1, <4>2, <3>1
    <3>2. CASE m # n
      <4>1. resolved'[m] = resolved[m] BY <3>2, <2>1 DEF Resolutions
      <4> QED BY <4>1 DEF AreaForRead
    <3> QED BY <3>1, <3>2
  <2> QED BY <2>2, <2>3 DEF Read
<1> QED BY <1>2, <1>3

\* A file that is written is what is read then.
LEMMA WrittenIs ==
    ASSUME disk \in Disks, resolved \in Resolutions, NEW n \in Names, NEW c \in Contents,
           WriteFile(n, c)
    PROVE  /\ disk' \in Disks /\ resolved' \in Resolutions /\ NothingLost(disk, disk')
           /\ Writable(AreaForWrite(n)) =>
                 /\ disk'[AreaForWrite(n)][n.path] = c /\ c # Absent
                 /\ Read(n)' = c
                 /\ \A a \in Areas, p \in Paths :
                       disk'[a][p] = IF a = AreaForWrite(n) /\ p = n.path THEN c ELSE disk[a][p]
<1> DEFINE w == AreaForWrite(n)
<1>1. w \in Areas /\ n.path \in Paths /\ n.full \in BOOLEAN BY NamesAre, FilesAssumption
<1>2. c # Absent BY FilesAssumption
<1>3. CASE ~ Writable(w) BY <1>3 DEF WriteFile, store, NothingLost
<1>4. CASE Writable(w)
  <2>1. disk' = [disk EXCEPT ![w][n.path] = c] /\ Recall(n, w) BY <1>4 DEF WriteFile
  <2>c. c \in Contents \cup {Absent} OBVIOUS
  <2>0. w \in Areas /\ n.path \in Paths BY <1>1
  <2> HIDE DEF w
  <2> DEFINE e == [disk EXCEPT ![w][n.path] = c]
  <2>e. /\ e \in Disks
        /\ \A a \in Areas, p \in Paths : e[a][p] = IF a = w /\ p = n.path THEN c ELSE disk[a][p]
    BY <2>0, <2>c, Put
  <2>d. disk' = e BY <2>1
  <2> HIDE DEF e
  <2>2. /\ disk' \in Disks
        /\ \A a \in Areas, p \in Paths :
              disk'[a][p] = IF a = w /\ p = n.path THEN c ELSE disk[a][p]
    BY <2>e, <2>d
  <2>3. resolved' \in Resolutions BY <2>1, <1>1 DEF Recall, Resolutions
  <2>4. disk'[w][n.path] = c BY <2>2, <1>1
  <2>5. AreaForRead(n)' = w
    <3>1. CASE Cached
      <4>1. resolved'[n] = w BY <2>1, <3>1 DEF Recall, Resolutions
      <4>2. w # NoArea BY <1>1, FilesAssumption
      <4> QED BY <3>1, <4>1, <4>2 DEF AreaForRead
    <3>2. CASE ~ Cached /\ n.full BY <3>2 DEF AreaForRead, w, AreaForWrite
    <3>3. CASE ~ Cached /\ ~ n.full
      <4>1. w = "save" BY <3>3 DEF w, AreaForWrite
      <4>2. disk'["save"][n.path] # Absent BY <4>1, <2>4, <1>2
      <4> QED BY <3>3, <4>1, <4>2 DEF AreaForRead
    <3> QED BY <3>1, <3>2, <3>3
  <2>6. Read(n)' = c BY <2>4, <2>5 DEF Read
  <2>7. NothingLost(disk, disk') BY <2>2, <1>2 DEF NothingLost
  <2> QED BY <2>2, <2>3, <2>4, <2>6, <2>7, <1>2 DEF w
<1> QED BY <1>3, <1>4

\* The buffer of a FILE is written out.
LEMMA FlushStep ==
    ASSUME TypeOK, Buffered, NEW h \in BinSlots, bins[h] # NoFile
    PROVE  /\ Flushed(bins[h]) \in Disks /\ NothingLost(disk, Flushed(bins[h]))
           /\ Handles(bins, Flushed(bins[h])) /\ Handle(bins[h], Flushed(bins[h]))
           /\ \A a \in Areas, p \in Paths : Flushed(bins[h])[a][p] # disk[a][p] =>
                 bins[h].linked /\ bins[h].area = a /\ bins[h].path = p /\ bins[h].mode # "read"
<1> DEFINE b == bins[h]
           e == Flushed(b)
<1>1. disk \in Disks /\ Handles(bins, disk) /\ Handle(b, disk) BY Parts DEF Handles
<1>2. b \in Bin /\ b.pos + Len(b.pending) <= MaxLen /\ (b.linked => disk[b.area][b.path] # Absent)
      /\ (b.pending # <<>> => b.mode # "read")
  BY <1>1 DEF Handle
<1>3. e = FlushedTo(disk, b) BY DEF Flushed
<1>4. /\ e \in Disks
      /\ \A a \in Areas, p \in Paths :
            /\ disk[a][p] # Absent => e[a][p] # Absent
            /\ e[a][p] # disk[a][p] => b.linked /\ b.area = a /\ b.path = p /\ b.pending # <<>>
  BY <1>1, <1>2, <1>3, FlushedIs
<1> HIDE DEF e
<1>5. NothingLost(disk, e) BY <1>4 DEF NothingLost
<1>6. Handles(bins, e) BY <1>1, <1>5, HandlesKept
<1>7. Handle(b, e) BY <1>6 DEF Handles
<1> QED BY <1>2, <1>4, <1>5, <1>6, <1>7 DEF e

\* A FILE takes the lowest free slot.
LEMMA Opening ==
    ASSUME NEW d, Handles(bins, d), NEW b, Handle(b, d), OpensAs(b)
    PROVE  Handles(bins', d)
<1>1. PICK h \in BinSlots : bins' = [bins EXCEPT ![h] = b] BY DEF OpensAs, FreeBin
<1>2. Handles([bins EXCEPT ![h] = b], d) BY HandleSet
<1> QED BY <1>1, <1>2

-------------------------------------------------------------------------------
(* The invariant, action by action                                          *)

LEMMA ParseIs ==
    /\ \A c \in Contents \cup {Absent} : Parse(c) \in Values \cup {Zero, Nothing}
    /\ \A v \in Values \cup {Zero, Nothing} : Serialize(v) \in Contents /\ Parse(Serialize(v)) = v
<1>1. ASSUME NEW c \in Contents, c # <<>> PROVE Parse(c) \in Values \cup {Zero, Nothing}
  <2>1. c \in Seq(Values \cup {Zero}) /\ c # Absent BY SavesAreContents, FilesAssumption
  <2>2. Len(c) \in 1 .. Len(c) BY <2>1, <1>1
  <2>3. c[Len(c)] \in Values \cup {Zero} BY <2>1, <2>2
  <2> QED BY <2>1, <2>3, <1>1 DEF Parse, Last
<1>2. Parse(Absent) = Nothing /\ Parse(<<>>) = Nothing BY DEF Parse
<1>3. \A c \in Contents \cup {Absent} : Parse(c) \in Values \cup {Zero, Nothing}
  BY <1>1, <1>2
<1>4. ASSUME NEW v \in Values \cup {Zero, Nothing}
      PROVE  Serialize(v) \in Contents /\ Parse(Serialize(v)) = v
  <2>1. CASE v = Nothing
    <3>1. Serialize(v) = <<>> /\ Serialize(v) \in Contents BY <2>1, SavesAreContents DEF Serialize
    <3> QED BY <3>1, <1>2, <2>1
  <2>2. CASE v # Nothing
    <3>1. Serialize(v) = <<v>> BY <2>2 DEF Serialize
    <3>2. <<v>> \in Seq(Values \cup {Zero}) /\ Len(<<v>>) = 1 /\ <<v>>[1] = v BY <2>2
    <3>3. 1 <= MaxLen BY FilesAssumption
    <3>4. <<v>> \in Contents BY <3>2, <3>3, Bounded DEF Contents
    <3>5. <<v>> # Absent BY <3>4, FilesAssumption
    <3>6. <<v>> # <<>> BY <3>2
    <3>7. Parse(<<v>>) = v BY <3>2, <3>5, <3>6 DEF Parse, Last
    <3> QED BY <3>1, <3>4, <3>7
  <2> QED BY <2>1, <2>2
<1> QED BY <1>3, <1>4

LEMMA ReadIs ==
    ASSUME disk \in Disks, resolved \in Resolutions, NEW n \in Names
    PROVE  Read(n) \in Contents \cup {Absent}
<1>1. AreaForRead(n) \in Areas /\ n.path \in Paths BY NamesAre
<1> QED BY <1>1 DEF Read, Disks

LEMMA IniIs ==
    ASSUME NEW ini \in IniFile
    PROVE  /\ ini.name \in Names \cup {NoName} /\ ini.value \in Values \cup {Zero, Nothing}
           /\ ini.dirty \in BOOLEAN /\ ini # NoIni
  BY FilesAssumption DEF IniFile

\* A step that leaves the inis in memory alone, and counts what it changes among the strays.
LEMMA InisKept ==
    ASSUME IInv, UNCHANGED <<currentIni, cachedIni>>,
           disk' \in Disks, resolved' \in Resolutions, texts' \in Texts, Handles(bins', disk'),
           strays \subseteq strays', strays' \subseteq Names,
           \A n \in Names : n \notin strays' => Read(n)' = Read(n)
    PROVE  IInv'
<1>1. Memory BY Parts DEF IInv
<1>2. Memory' BY <1>1 DEF Memory
<1>3. TypeOK' /\ Buffered' BY <1>2, PartsNext
<1>4. ASSUME NEW ini \in {currentIni, cachedIni}', ini # NoIni, ini.name \notin strays'
      PROVE  Agrees(ini)'
  <2>1. ini \in {currentIni, cachedIni} /\ ini.name \notin strays BY <1>4
  <2>2. Agrees(ini) BY <2>1, <1>4 DEF IInv, IniAgreesWithFile
  <2>3. ini \in IniFile BY <2>1, <1>1, <1>4 DEF Memory
  <2>4. CASE ini.dirty \/ ini.name = NoName BY <2>4 DEF Agrees
  <2>5. CASE ~ ini.dirty /\ ini.name # NoName
    <3>1. ini.name \in Names BY <2>3, <2>5, IniIs
    <3>2. Read(ini.name)' = Read(ini.name) BY <3>1, <1>4
    <3>3. ini.value = Parse(Read(ini.name)) BY <2>2, <2>5, <1>4 DEF Agrees
    <3>4. ini.value = Parse(Read(ini.name)') BY <3>2, <3>3
    <3> QED BY <3>4 DEF Agrees, Parse
  <2> QED BY <2>4, <2>5
<1>5. OneCopyOfIni' BY DEF IInv, IniAgreesWithFile, OneCopyOfIni
<1>6. IniAgreesWithFile' BY <1>4, <1>5 DEF IniAgreesWithFile
<1> QED BY <1>3, <1>6 DEF IInv

\* A step that writes to the disk and counts every name that reads differently then.
LEMMA StraysCounted ==
    ASSUME IInv, UNCHANGED <<currentIni, cachedIni>>,
           disk' \in Disks, resolved' \in Resolutions, texts' \in Texts, Handles(bins', disk'),
           strays' = strays \cup Changed
    PROVE  IInv'
<1>1. strays \subseteq Names BY DEF IInv, TypeOK
<1>2. Changed \subseteq Names /\ \A n \in Names : n \notin Changed => Read(n)' = Read(n)
  BY DEF Changed
<1>3. strays \subseteq strays' /\ strays' \subseteq Names BY <1>1, <1>2
<1>4. \A n \in Names : n \notin strays' => Read(n)' = Read(n) BY <1>2
<1> QED BY <1>3, <1>4, InisKept

\* A step that changes open files only.
LEMMA DiskKept ==
    ASSUME IInv, UNCHANGED <<store, currentIni, cachedIni, strays>>,
           texts' \in Texts, Handles(bins', disk)
    PROVE  IInv'
<1>1. disk' = disk /\ resolved' = resolved BY DEF store
<1>2. disk' \in Disks /\ resolved' \in Resolutions /\ strays \subseteq Names
  BY <1>1, Parts DEF IInv, Memory
<1>3. \A n \in Names : Read(n)' = Read(n) BY <1>1 DEF Read, AreaForRead
<1> QED BY <1>1, <1>2, <1>3, InisKept

LEMMA TextOpenReadKeeps ==
    ASSUME IInv, NEW n \in Names, TextOpenRead(n) PROVE IInv'
<1>1. /\ disk \in Disks /\ resolved \in Resolutions /\ texts \in Texts
      /\ Handles(bins, disk) /\ strays \subseteq Names
  BY Parts DEF IInv, Memory
<1>2. /\ texts' = [texts EXCEPT ![LowestFree] = Reader] /\ Recall(n, AreaForRead(n))
      /\ UNCHANGED <<disk, currentIni, cachedIni, bins, strays>>
  BY DEF TextOpenRead
<1>3. Reader \in Text BY SavesAreContents DEF Reader, Text
<1>4. texts' \in Texts BY <1>1, <1>2, <1>3 DEF Texts
<1>5. resolved' \in Resolutions /\ \A m \in Names : Read(m)' = Read(m) BY <1>1, <1>2, RecallKeeps
<1> QED BY <1>1, <1>2, <1>4, <1>5, InisKept

LEMMA TextOpenWriteKeeps ==
    ASSUME IInv, NEW n \in Names, TextOpenWrite(n) PROVE IInv'
<1>1. texts \in Texts /\ Handles(bins, disk) BY Parts DEF IInv
<1>2. [name |-> n, text |-> <<>>] \in Text BY SavesAreContents DEF Text
<1>3. texts' \in Texts BY <1>1, <1>2 DEF TextOpenWrite, Texts
<1> QED BY <1>1, <1>3, DiskKept DEF TextOpenWrite

LEMMA WriterIs ==
    ASSUME texts \in Texts, NEW h \in TextSlots, IsWriter(h)
    PROVE  /\ texts[h] \in Text /\ texts[h].name \in Names /\ texts[h].text \in Saves
           /\ texts[h] # NoFile
<1>1. texts[h] \in Text BY DEF Texts, IsWriter
<1> QED BY <1>1 DEF Text, IsWriter

LEMMA TextWriteKeeps ==
    ASSUME IInv, NEW h \in TextSlots, NEW v \in Values, TextWrite(h, v) PROVE IInv'
<1>1. texts \in Texts /\ Handles(bins, disk) BY Parts DEF IInv
<1>2. texts[h] \in Text /\ texts[h].text \in Saves BY <1>1, WriterIs DEF TextWrite
<1>3. Append(texts[h].text, v) \in Saves BY <1>2, SavesAreContents DEF TextWrite
<1>4. [texts[h] EXCEPT !.text = Append(@, v)] \in Text BY <1>2, <1>3 DEF Text
<1>5. texts' \in Texts BY <1>1, <1>4 DEF TextWrite, Texts
<1> QED BY <1>1, <1>5, DiskKept DEF TextWrite

LEMMA TextCloseKeeps ==
    ASSUME IInv, NEW h \in TextSlots, TextClose(h) PROVE IInv'
<1>1. /\ disk \in Disks /\ resolved \in Resolutions /\ texts \in Texts /\ Handles(bins, disk)
  BY Parts DEF IInv
<1>2. texts' \in Texts BY <1>1 DEF TextClose, Texts
<1>3. disk' \in Disks /\ resolved' \in Resolutions /\ NothingLost(disk, disk')
  <2>1. CASE IsWriter(h)
    <3>1. texts[h].name \in Names /\ texts[h].text \in Contents
      BY <2>1, <1>1, WriterIs, SavesAreContents
    <3>2. WriteFile(texts[h].name, texts[h].text) BY <2>1 DEF TextClose
    <3> QED BY <1>1, <3>1, <3>2, WrittenIs
  <2>2. CASE ~ IsWriter(h) BY <2>2, <1>1 DEF TextClose, store, NothingLost
  <2> QED BY <2>1, <2>2
<1>4. Handles(bins', disk')
  <2>1. Handles(bins, disk') BY <1>1, <1>3, HandlesKept
  <2> QED BY <2>1 DEF TextClose
<1> QED BY <1>2, <1>3, <1>4, StraysCounted DEF TextClose

\* The parts of the invariant that an action on FILEs starts from.
LEMMA FilesAre ==
    ASSUME IInv
    PROVE  /\ disk \in Disks /\ resolved \in Resolutions /\ texts \in Texts /\ Handles(bins, disk)
           /\ \A h \in BinSlots : bins[h] # NoFile =>
                 /\ bins[h] \in Bin /\ Handle(bins[h], disk)
                 /\ bins[h].area \in Areas /\ bins[h].path \in Paths /\ bins[h].mode \in Modes
                 /\ bins[h].pos \in 0 .. MaxLen /\ bins[h].pending \in Saves
                 /\ bins[h].linked \in BOOLEAN
<1>1. disk \in Disks /\ resolved \in Resolutions /\ texts \in Texts /\ Handles(bins, disk)
  BY Parts DEF IInv
<1>2. \A h \in BinSlots : bins[h] # NoFile => bins[h] \in Bin /\ Handle(bins[h], disk)
  BY <1>1 DEF Handles, Handle
<1> QED BY <1>1, <1>2 DEF Bin

LEMMA BinOpenReadKeeps ==
    ASSUME IInv, NEW n \in Names, BinOpenRead(n) PROVE IInv'
<1>1. AreaForRead(n) \in Areas /\ n.path \in Paths BY FilesAre, NamesAre
<1>2. disk[AreaForRead(n)][n.path] # Absent BY DEF BinOpenRead, Read
<1>3. Handle(Opened(AreaForRead(n), n.path, "read"), disk) BY <1>1, <1>2, OpenedIs DEF Modes
<1>4. Handles(bins', disk) BY <1>3, FilesAre, Opening DEF BinOpenRead
<1>5. texts' \in Texts BY FilesAre DEF BinOpenRead
<1> QED BY <1>4, <1>5, DiskKept DEF BinOpenRead

\* A file is truncated, or created, and opened.
LEMMA TruncatedIs ==
    ASSUME IInv, NEW n \in Names, NEW m \in Modes, Writable(AreaForWrite(n)), WriteFile(n, <<>>),
           OpensAs(Opened(AreaForWrite(n), n.path, m))
    PROVE  disk' \in Disks /\ resolved' \in Resolutions /\ Handles(bins', disk')
<1>1. AreaForWrite(n) \in Areas /\ n.path \in Paths BY FilesAre, NamesAre
<1>2. <<>> \in Contents BY SavesAreContents
<1>3. /\ disk' \in Disks /\ resolved' \in Resolutions /\ NothingLost(disk, disk')
      /\ disk'[AreaForWrite(n)][n.path] = <<>> /\ <<>> # Absent
  BY <1>2, FilesAre, WrittenIs
<1>4. Handle(Opened(AreaForWrite(n), n.path, m), disk') BY <1>1, <1>3, OpenedIs
<1>5. Handles(bins, disk') BY <1>3, FilesAre, HandlesKept
<1>6. Handles(bins', disk') BY <1>4, <1>5, Opening
<1> QED BY <1>3, <1>6

LEMMA BinOpenWriteKeeps ==
    ASSUME IInv, NEW n \in Names, BinOpenWrite(n) PROVE IInv'
<1>1. disk' \in Disks /\ resolved' \in Resolutions /\ Handles(bins', disk')
  BY TruncatedIs DEF BinOpenWrite, Modes
<1>2. texts' \in Texts BY FilesAre DEF BinOpenWrite
<1> QED BY <1>1, <1>2, StraysCounted DEF BinOpenWrite

LEMMA BinOpenUpdateKeeps ==
    ASSUME IInv, NEW n \in Names, BinOpenUpdate(n) PROVE IInv'
<1>1. disk' \in Disks /\ resolved' \in Resolutions /\ Handles(bins', disk')
  <2>1. CASE Read(n) # Absent /\ Writable(AreaForRead(n))
    <3>1. AreaForRead(n) \in Areas /\ n.path \in Paths BY FilesAre, NamesAre
    <3>2. Handle(Opened(AreaForRead(n), n.path, "update"), disk) BY <2>1, <3>1, OpenedIs DEF Read, Modes
    <3>3. OpensAs(Opened(AreaForRead(n), n.path, "update")) /\ UNCHANGED store
      BY <2>1 DEF BinOpenUpdate
    <3>4. Handles(bins', disk) BY <3>2, <3>3, FilesAre, Opening
    <3> QED BY <3>3, <3>4, FilesAre DEF store
  <2>2. CASE ~ (Read(n) # Absent /\ Writable(AreaForRead(n)))
    BY <2>2, TruncatedIs DEF BinOpenUpdate, Modes
  <2> QED BY <2>1, <2>2
<1>2. texts' \in Texts BY FilesAre DEF BinOpenUpdate
<1> QED BY <1>1, <1>2, StraysCounted DEF BinOpenUpdate

LEMMA BinWriteKeeps ==
    ASSUME IInv, NEW h \in BinSlots, NEW v \in Values, BinWrite(h, v) PROVE IInv'
<1> DEFINE b == bins[h]
           c == [b EXCEPT !.pending = Append(@, v)]
<1>1. /\ b \in Bin /\ Handle(b, disk) /\ b.pos \in 0 .. MaxLen /\ b.pending \in Saves
      /\ b.pos + Len(b.pending) < MaxLen /\ b.mode # "read"
  BY FilesAre DEF BinWrite
<1>2. MaxLen \in Nat /\ Len(b.pending) \in Nat /\ b.pos \in Nat
  BY <1>1, FilesAssumption, SavesAreContents
<1>3. Len(b.pending) < MaxLen BY <1>1, <1>2
<1>4. Append(b.pending, v) \in Saves /\ Len(Append(b.pending, v)) = Len(b.pending) + 1
  BY <1>1, <1>3, SavesAreContents
<1>5. c \in Bin /\ c.pos = b.pos /\ c.pending = Append(b.pending, v) /\ c.mode = b.mode
      /\ c.linked = b.linked /\ c.area = b.area /\ c.path = b.path
  BY <1>1, <1>4 DEF Bin
<1>6. c.pos + Len(c.pending) <= MaxLen BY <1>1, <1>2, <1>4, <1>5
<1>7. Handle(c, disk) BY <1>1, <1>5, <1>6 DEF Handle
<1>8. bins' = [bins EXCEPT ![h] = c] BY FilesAre DEF BinWrite, Handles
<1> HIDE DEF c
<1>9. Handles(bins', disk) BY <1>7, <1>8, FilesAre, HandleSet
<1>10. texts' \in Texts BY FilesAre DEF BinWrite
<1> QED BY <1>9, <1>10, DiskKept DEF BinWrite

\* What is left of a FILE when its buffer has been written out.
LEMMA EmptiedIs ==
    ASSUME NEW d, NEW b, Handle(b, d), NEW pos \in 0 .. MaxLen
    PROVE  Handle([b EXCEPT !.pos = pos, !.pending = <<>>], d)
<1> DEFINE c == [b EXCEPT !.pos = pos, !.pending = <<>>]
<1>1. b \in Bin BY DEF Handle
<1>2. c \in Bin /\ c.pos = pos /\ c.pending = <<>> /\ c.linked = b.linked
      /\ c.area = b.area /\ c.path = b.path
  BY <1>1, SavesAreContents DEF Bin
<1>3. c.pos + Len(c.pending) <= MaxLen
  <2>1. MaxLen \in Nat BY FilesAssumption
  <2> QED BY <2>1, <1>2
<1> HIDE DEF c
<1>4. Handle(c, d) BY <1>2, <1>3 DEF Handle
<1> QED BY <1>4 DEF c

LEMMA FlushKeeps ==
    ASSUME IInv, NEW h \in BinSlots, Flush(h) PROVE IInv'
<1> DEFINE b == bins[h]
           pos == b.pos + Len(b.pending)
           c == [b EXCEPT !.pos = pos, !.pending = <<>>]
<1>1. bins[h] # NoFile /\ disk' = Flushed(bins[h]) BY DEF Flush
<1>2. disk' \in Disks /\ Handles(bins, disk') /\ Handle(b, disk') BY <1>1, FlushStep DEF IInv
<1>3. pos \in 0 .. MaxLen
  <2>1. b.pos \in Nat /\ Len(b.pending) \in Nat /\ MaxLen \in Nat
    BY <1>1, FilesAre, SavesAreContents, FilesAssumption
  <2>2. b.pos + Len(b.pending) <= MaxLen BY <1>2 DEF Handle
  <2> QED BY <2>1, <2>2
<1>4. Handle(c, disk')
  <2> HIDE DEF pos
  <2> QED BY <1>2, <1>3, EmptiedIs
<1>5. bins' = [bins EXCEPT ![h] = c] BY FilesAre DEF Flush, Handles
<1> HIDE DEF c
<1>6. Handles(bins', disk') BY <1>2, <1>4, <1>5, HandleSet
<1>7. texts' \in Texts /\ resolved' \in Resolutions BY FilesAre DEF Flush
<1> QED BY <1>2, <1>6, <1>7, StraysCounted DEF Flush

LEMMA BinSeekKeeps ==
    ASSUME IInv, NEW h \in BinSlots, NEW pos \in 0 .. MaxLen, BinSeek(h, pos) PROVE IInv'
<1> DEFINE b == bins[h]
           c == [b EXCEPT !.pos = pos, !.pending = <<>>]
<1>1. bins[h] # NoFile /\ disk' = Flushed(bins[h]) BY DEF BinSeek
<1>2. disk' \in Disks /\ Handles(bins, disk') /\ Handle(b, disk') BY <1>1, FlushStep DEF IInv
<1>3. Handle(c, disk') BY <1>2, EmptiedIs
<1>4. bins' = [bins EXCEPT ![h] = c] BY FilesAre DEF BinSeek, Handles
<1> HIDE DEF c
<1>5. Handles(bins', disk') BY <1>2, <1>3, <1>4, HandleSet
<1>6. texts' \in Texts /\ resolved' \in Resolutions BY FilesAre DEF BinSeek
<1> QED BY <1>2, <1>5, <1>6, StraysCounted DEF BinSeek

LEMMA RewrittenIs ==
    ASSUME IInv, NEW h \in BinSlots, BinRewrite(h)
    PROVE  /\ disk' \in Disks /\ Handles(bins', disk') /\ NothingLost(disk, disk') /\ <<>> # Absent
           /\ \A a \in Areas, p \in Paths :
                 disk'[a][p] = IF a = bins[h].area /\ p = bins[h].path THEN <<>>
                               ELSE disk[a][p]
<1> DEFINE b == bins[h]
           d == Flushed(b)
           e == [d EXCEPT ![b.area][b.path] = <<>>]
<1>1. bins[h] # NoFile /\ b.area \in Areas /\ b.path \in Paths BY FilesAre DEF BinRewrite
<1>2. /\ d \in Disks /\ NothingLost(disk, d) /\ Handles(bins, d)
      /\ \A a \in Areas, p \in Paths : d[a][p] # disk[a][p] => b.area = a /\ b.path = p
  BY <1>1, FlushStep DEF IInv
<1>3. <<>> \in Contents \cup {Absent} /\ <<>> # Absent BY SavesAreContents, FilesAssumption
<1> HIDE DEF d
<1>4. /\ e \in Disks
      /\ \A a \in Areas, p \in Paths :
            e[a][p] = IF a = b.area /\ p = b.path THEN <<>> ELSE d[a][p]
  BY <1>1, <1>2, <1>3, Put
<1>5. disk' = e BY DEF BinRewrite, d
<1> HIDE DEF e
<1>6. NothingLost(d, e) /\ NothingLost(disk, e) BY <1>2, <1>3, <1>4 DEF NothingLost
<1>7. Handles(bins, e) BY <1>2, <1>6, HandlesKept
<1>8. e[b.area][b.path] # Absent BY <1>1, <1>3, <1>4
<1>9. Handle(Opened(b.area, b.path, "write"), e) BY <1>1, <1>8, OpenedIs DEF Modes
<1>10. Handles([bins EXCEPT ![h] = Opened(b.area, b.path, "write")], e) BY <1>7, <1>9, HandleSet
<1>11. bins' = [bins EXCEPT ![h] = Opened(b.area, b.path, "write")] BY DEF BinRewrite
<1> QED BY <1>2, <1>3, <1>4, <1>5, <1>6, <1>10, <1>11

LEMMA BinRewriteKeeps ==
    ASSUME IInv, NEW h \in BinSlots, BinRewrite(h) PROVE IInv'
<1>1. disk' \in Disks /\ Handles(bins', disk') BY RewrittenIs
<1>2. texts' \in Texts /\ resolved' \in Resolutions BY FilesAre DEF BinRewrite
<1> QED BY <1>1, <1>2, StraysCounted DEF BinRewrite

LEMMA BinCloseKeeps ==
    ASSUME IInv, NEW h \in BinSlots, BinClose(h) PROVE IInv'
<1>1. bins[h] # NoFile /\ disk' = Flushed(bins[h]) BY DEF BinClose
<1>2. disk' \in Disks /\ Handles(bins, disk') BY <1>1, FlushStep DEF IInv
<1>3. Handles(bins', disk') BY <1>2, HandleSet DEF BinClose
<1>4. texts' \in Texts /\ resolved' \in Resolutions BY FilesAre DEF BinClose
<1> QED BY <1>2, <1>3, <1>4, StraysCounted DEF BinClose

LEMMA BufferSaveKeeps ==
    ASSUME IInv, NEW n \in Names, NEW c \in Saves, BufferSave(n, c) PROVE IInv'
<1>1. c \in Contents BY SavesAreContents
<1>2. disk' \in Disks /\ resolved' \in Resolutions /\ NothingLost(disk, disk')
  BY <1>1, FilesAre, WrittenIs DEF BufferSave
<1>3. Handles(bins', disk')
  <2>1. Handles(bins, disk') BY <1>2, FilesAre, HandlesKept
  <2> QED BY <2>1 DEF BufferSave
<1>4. texts' \in Texts BY FilesAre DEF BufferSave
<1> QED BY <1>2, <1>3, <1>4, StraysCounted DEF BufferSave

LEMMA DeletedIs ==
    ASSUME IInv, NEW n \in Names, FileDelete(n)
    PROVE  /\ disk' \in Disks
           /\ \A a \in Areas, p \in Paths :
                 disk'[a][p] = IF a = AreaForWrite(n) /\ p = n.path THEN Absent ELSE disk[a][p]
<1> DEFINE w == AreaForWrite(n)
           e == [disk EXCEPT ![w][n.path] = Absent]
<1>1. w \in Areas /\ n.path \in Paths BY FilesAre, NamesAre
<1>2. disk' = e BY DEF FileDelete
<1> HIDE DEF w
<1>3. /\ e \in Disks
      /\ \A a \in Areas, p \in Paths : e[a][p] = IF a = w /\ p = n.path THEN Absent ELSE disk[a][p]
  BY <1>1, FilesAre, Put
<1> HIDE DEF e
<1> QED BY <1>2, <1>3 DEF w

LEMMA FileDeleteKeeps ==
    ASSUME IInv, NEW n \in Names, FileDelete(n) PROVE IInv'
<1> DEFINE w == AreaForWrite(n)
           Gone(h) == bins[h] # NoFile /\ bins[h].area = w /\ bins[h].path = n.path
<1>1. bins' = [h \in BinSlots |-> IF Gone(h) THEN [bins[h] EXCEPT !.linked = FALSE] ELSE bins[h]]
  BY DEF FileDelete
<1>2. \A h \in BinSlots : bins'[h] = IF Gone(h) THEN [bins[h] EXCEPT !.linked = FALSE] ELSE bins[h]
  BY <1>1
<1>3. ASSUME NEW h \in BinSlots
      PROVE  bins'[h] = NoFile \/ Handle(bins'[h], disk')
  <2>1. CASE Gone(h)
    <3> DEFINE b == bins[h]
               c == [b EXCEPT !.linked = FALSE]
    <3>1. b \in Bin /\ Handle(b, disk) BY <2>1, FilesAre
    <3>2. c \in Bin /\ c.pos = b.pos /\ c.pending = b.pending /\ c.mode = b.mode /\ ~ c.linked
      BY <3>1 DEF Bin
    <3>3. Handle(c, disk') BY <3>1, <3>2 DEF Handle
    <3> QED BY <3>3, <2>1, <1>2
  <2>2. CASE bins[h] # NoFile /\ ~ Gone(h)
    <3>1. bins[h] \in Bin /\ Handle(bins[h], disk) /\ bins[h].area \in Areas /\ bins[h].path \in Paths
      BY <2>2, FilesAre
    <3>2. disk'[bins[h].area][bins[h].path] = disk[bins[h].area][bins[h].path]
      BY <3>1, <2>2, DeletedIs
    <3>3. Handle(bins[h], disk') BY <3>1, <3>2 DEF Handle
    <3> QED BY <3>3, <2>2, <1>2
  <2>3. CASE bins[h] = NoFile BY <2>3, <1>2
  <2> QED BY <2>1, <2>2, <2>3
<1>4. bins' \in [BinSlots -> Bin \cup {NoFile}]
  <2>1. \A h \in BinSlots : bins'[h] \in Bin \cup {NoFile} BY <1>3 DEF Handle
  <2> QED BY <1>1, <2>1
<1>5. Handles(bins', disk') BY <1>3, <1>4 DEF Handles
<1>6. disk' \in Disks BY DeletedIs
<1>7. texts' \in Texts BY FilesAre DEF FileDelete
<1>8. resolved' \in Resolutions BY FilesAre DEF FileDelete, Recall, Resolutions, Areas
<1> QED BY <1>5, <1>6, <1>7, <1>8, StraysCounted DEF FileDelete

-------------------------------------------------------------------------------
(* Inis in memory                                                           *)

LEMMA InisAre ==
    ASSUME IInv
    PROVE  /\ currentIni \in IniFile \cup {NoIni} /\ cachedIni \in IniFile \cup {NoIni}
           /\ strays \subseteq Names
           /\ \A ini \in {currentIni, cachedIni} : ini # NoIni =>
                 /\ ini \in IniFile /\ ini.name \in Names \cup {NoName}
                 /\ ini.value \in Values \cup {Zero, Nothing} /\ ini.dirty \in BOOLEAN
                 /\ ini.name \notin strays => Agrees(ini)
           /\ OneCopyOfIni
<1>1. Memory BY Parts DEF IInv
<1>2. \A ini \in {currentIni, cachedIni} : ini # NoIni => ini \in IniFile BY <1>1 DEF Memory
<1>3. \A ini \in {currentIni, cachedIni} : ini # NoIni /\ ini.name \notin strays => Agrees(ini)
  BY DEF IInv, IniAgreesWithFile
<1>4. OneCopyOfIni BY DEF IInv, IniAgreesWithFile
<1> QED BY <1>1, <1>2, <1>3, <1>4, IniIs DEF Memory

LEMMA IniMade ==
    ASSUME NEW n \in Names \cup {NoName}, NEW v \in Values \cup {Zero, Nothing}, NEW d \in BOOLEAN
    PROVE  /\ Ini(n, v, d) \in IniFile /\ Ini(n, v, d) # NoIni
           /\ Ini(n, v, d).name = n /\ Ini(n, v, d).value = v /\ Ini(n, v, d).dirty = d
<1>1. Ini(n, v, d) \in IniFile BY DEF Ini, IniFile
<1> QED BY <1>1, IniIs DEF Ini

\* A step on inis that leaves the open files alone.
LEMMA InisChange ==
    ASSUME IInv, disk' \in Disks, resolved' \in Resolutions, NothingLost(disk, disk'),
           UNCHANGED <<texts, bins>>, Memory', IniAgreesWithFile'
    PROVE  IInv'
<1>1. Handles(bins, disk') BY FilesAre, HandlesKept
<1>2. Handles(bins', disk') BY <1>1
<1>3. texts' \in Texts BY FilesAre
<1>4. TypeOK' /\ Buffered' BY <1>2, <1>3, PartsNext
<1> QED BY <1>4 DEF IInv

\* An ini that agreed with its file still does when the file reads the same.
LEMMA AgreementKept ==
    ASSUME NEW ini \in IniFile, Agrees(ini),
           ini.name \in Names => Read(ini.name)' = Read(ini.name)
    PROVE  Agrees(ini)'
<1>1. ini.name \in Names \cup {NoName} /\ ini # NoIni BY IniIs
<1>2. CASE ini.dirty \/ ini.name = NoName BY <1>2 DEF Agrees
<1>3. CASE ini.name \in Names /\ ini.value = Parse(Read(ini.name))
  <2>1. ini.value = Parse(Read(ini.name)') BY <1>3
  <2> QED BY <2>1 DEF Agrees, Parse
<1> QED BY <1>1, <1>2, <1>3 DEF Agrees

LEMMA IniOpenKeeps ==
    ASSUME IInv, NEW n \in Names, IniOpen(n) PROVE IInv'
<1>1. disk \in Disks /\ resolved \in Resolutions /\ NothingLost(disk, disk)
  BY FilesAre DEF NothingLost
<1>2. cachedIni' = NoIni /\ UNCHANGED <<disk, texts, bins>> BY DEF IniOpen
<1>3. CASE cachedIni # NoIni /\ cachedIni.name = n
  <2>1. currentIni' = cachedIni /\ UNCHANGED <<resolved, strays>> BY <1>3 DEF IniOpen
  <2>2. Memory' BY <1>2, <2>1, InisAre DEF Memory
  <2>3. \A m \in Names : Read(m)' = Read(m) BY <1>2, <2>1 DEF Read, AreaForRead
  <2>4. PICK k \in IniFile : k = cachedIni /\ (k.name \notin strays => Agrees(k))
    BY <1>3, InisAre
  <2>5. k.name \notin strays => Agrees(k)' BY <2>3, <2>4, AgreementKept
  <2>6. currentIni'.name \notin strays' => Agrees(currentIni)' BY <2>1, <2>4, <2>5 DEF Agrees
  <2>7. IniAgreesWithFile' BY <1>2, <2>6 DEF IniAgreesWithFile, OneCopyOfIni
  <2> QED BY <1>1, <1>2, <2>1, <2>2, <2>7, InisChange
<1>4. CASE ~ (cachedIni # NoIni /\ cachedIni.name = n)
  <2>1. /\ currentIni' = Ini(n, Parse(Read(n)), FALSE) /\ strays' = strays \ {n}
        /\ Recall(n, AreaForRead(n))
    BY <1>4 DEF IniOpen
  <2>2. resolved' \in Resolutions /\ \A m \in Names : Read(m)' = Read(m)
    BY <1>1, <1>2, <2>1, RecallKeeps
  <2>3. Parse(Read(n)) \in Values \cup {Zero, Nothing} BY <1>1, ReadIs, ParseIs
  <2>4. currentIni' \in IniFile /\ currentIni'.name = n /\ currentIni'.value = Parse(Read(n))
    BY <2>1, <2>3, IniMade
  <2>5. Memory' BY <1>2, <2>1, <2>4, InisAre DEF Memory
  <2>6. currentIni'.value = Parse(Read(n)') BY <2>2, <2>4
  <2>7. Agrees(currentIni)' BY <2>4, <2>6 DEF Agrees, Parse
  <2>8. IniAgreesWithFile' BY <1>2, <2>7 DEF IniAgreesWithFile, OneCopyOfIni
  <2> QED BY <1>1, <1>2, <2>2, <2>5, <2>8, InisChange
<1> QED BY <1>3, <1>4

\* The ini at hand is replaced by one that need not agree with a file.
LEMMA IniReplaced ==
    ASSUME IInv, UNCHANGED <<store, cachedIni, texts, bins, strays>>, NEW ini \in IniFile,
           currentIni' = ini, ini.dirty \/ ini.name = NoName,
           ini.name = NoName \/ (currentIni # NoIni /\ ini.name = currentIni.name)
    PROVE  IInv'
<1>1. disk' = disk /\ resolved' = resolved BY DEF store
<1>2. disk' \in Disks /\ resolved' \in Resolutions /\ NothingLost(disk, disk')
  BY <1>1, FilesAre DEF NothingLost
<1>3. Memory' BY InisAre DEF Memory
<1>4. \A m \in Names : Read(m)' = Read(m) BY <1>1 DEF Read, AreaForRead
<1>5. cachedIni # NoIni /\ cachedIni.name \notin strays => Agrees(cachedIni)'
  BY <1>4, InisAre, AgreementKept
<1>6. cachedIni' # NoIni /\ cachedIni'.name \notin strays' => Agrees(cachedIni)'
  BY <1>5
<1>7. Agrees(currentIni)' BY DEF Agrees
<1>8. OneCopyOfIni' BY InisAre DEF OneCopyOfIni
<1>9. IniAgreesWithFile' BY <1>6, <1>7, <1>8 DEF IniAgreesWithFile
<1> QED BY <1>2, <1>3, <1>9, InisChange

LEMMA IniOpenFromStringKeeps ==
    ASSUME IInv, NEW c \in Saves, IniOpenFromString(c) PROVE IInv'
<1>1. Parse(c) \in Values \cup {Zero, Nothing} BY SavesAreContents, ParseIs
<1>2. Ini(NoName, Parse(c), FALSE) \in IniFile /\ Ini(NoName, Parse(c), FALSE).name = NoName
  BY <1>1, IniMade
<1> QED BY <1>2, IniReplaced DEF IniOpenFromString

LEMMA IniWriteKeeps ==
    ASSUME IInv, NEW v \in Values, IniWrite(v) PROVE IInv'
<1>1. currentIni # NoIni /\ currentIni.name \in Names \cup {NoName}
  BY InisAre DEF IniWrite
<1>2. /\ Ini(currentIni.name, v, TRUE) \in IniFile /\ Ini(currentIni.name, v, TRUE).dirty
      /\ Ini(currentIni.name, v, TRUE).name = currentIni.name
  BY <1>1, IniMade
<1> QED BY <1>1, <1>2, IniReplaced DEF IniWrite

LEMMA IniCloseKeeps ==
    ASSUME IInv, IniClose PROVE IInv'
<1>p. PICK ini : ini = currentIni OBVIOUS
<1> DEFINE n == ini.name
           saves == ini.dirty /\ n # NoName
<1>q. PICK kept : kept = [ini EXCEPT !.dirty = FALSE] OBVIOUS
<1>1. ini # NoIni /\ currentIni' = NoIni /\ cachedIni' = kept /\ UNCHANGED <<texts, bins>>
  BY <1>p, <1>q DEF IniClose
<1>2. /\ ini \in IniFile /\ n \in Names \cup {NoName}
      /\ ini.value \in Values \cup {Zero, Nothing} /\ ini.dirty \in BOOLEAN
      /\ n \notin strays => Agrees(ini)
  BY <1>1, <1>p, InisAre
<1>3. kept \in IniFile /\ kept.name = n /\ kept.value = ini.value /\ ~ kept.dirty
  BY <1>2, <1>q DEF IniFile
<1>4. disk \in Disks /\ resolved \in Resolutions /\ strays \subseteq Names BY FilesAre, InisAre
<1>5. CASE saves
  <2> DEFINE c == Serialize(ini.value)
  <2>1. n \in Names /\ c \in Contents /\ Parse(c) = ini.value BY <1>2, <1>5, ParseIs
  <2>2. /\ WriteFile(n, c)
        /\ strays' = IF Writable(AreaForWrite(n)) THEN (strays \cup Changed) \ {n}
                                                  ELSE strays \cup {n}
    BY <1>5, <1>p DEF IniClose
  <2> HIDE DEF c
  <2>3. /\ disk' \in Disks /\ resolved' \in Resolutions /\ NothingLost(disk, disk')
        /\ Writable(AreaForWrite(n)) => Read(n)' = c
    BY <1>4, <2>1, <2>2, WrittenIs
  <2>4. Changed \subseteq Names BY DEF Changed
  <2>5. Memory' BY <1>1, <1>3, <1>4, <2>1, <2>2, <2>4 DEF Memory
  <2>6. kept.name \notin strays' => Agrees(kept)'
    <3>1. CASE Writable(AreaForWrite(n))
      <4>1. kept.value = Parse(Read(kept.name)') BY <1>3, <2>1, <2>3, <3>1
      <4> QED BY <4>1 DEF Agrees, Parse
    <3>2. CASE ~ Writable(AreaForWrite(n)) BY <3>2, <2>2, <1>3
    <3> QED BY <3>1, <3>2
  <2>7. cachedIni'.name \notin strays' => Agrees(cachedIni)' BY <2>6, <1>1 DEF Agrees
  <2>8. IniAgreesWithFile' BY <1>1, <2>7 DEF IniAgreesWithFile, OneCopyOfIni
  <2> QED BY <1>1, <2>3, <2>5, <2>8, InisChange
<1>6. CASE ~ saves
  <2>1. UNCHANGED <<store, strays>> BY <1>6, <1>p DEF IniClose
  <2>2. disk' = disk /\ resolved' = resolved /\ strays' = strays BY <2>1 DEF store
  <2>3. disk' \in Disks /\ resolved' \in Resolutions /\ NothingLost(disk, disk')
    BY <1>4, <2>2 DEF NothingLost
  <2>4. Memory' BY <1>1, <1>3, <1>4, <2>2 DEF Memory
  <2>5. \A m \in Names : Read(m)' = Read(m) BY <2>2 DEF Read, AreaForRead
  <2>6. n \notin strays => Agrees(kept)
    <3>1. n = NoName => Agrees(kept) BY <1>3 DEF Agrees
    <3>2. CASE n # NoName /\ n \notin strays
      <4>1. ~ ini.dirty BY <3>2, <1>6
      <4>2. ini.value = Parse(Read(n)) BY <1>1, <1>2, <3>2, <4>1 DEF Agrees
      <4>3. kept.value = Parse(Read(kept.name)) BY <1>3, <4>2
      <4> QED BY <4>3 DEF Agrees
    <3> QED BY <3>1, <3>2
  <2>7. n \notin strays => Agrees(kept)' BY <1>3, <2>5, <2>6, AgreementKept
  <2>8. cachedIni'.name \notin strays' => Agrees(cachedIni)' BY <1>1, <1>3, <2>2, <2>7 DEF Agrees
  <2>9. IniAgreesWithFile' BY <1>1, <2>8 DEF IniAgreesWithFile, OneCopyOfIni
  <2> QED BY <1>1, <2>3, <2>4, <2>9, InisChange
<1> QED BY <1>5, <1>6

-------------------------------------------------------------------------------
(* The end of a game                                                        *)

\* With no file open and no ini in memory, the invariant speaks of the disk only.
LEMMA ForgottenIs ==
    ASSUME disk' \in Disks, resolved' \in Resolutions, Forget
    PROVE  IInv'
<1>1. texts' \in Texts /\ Handles(bins', disk') /\ Memory'
  BY DEF Forget, Texts, Handles, Memory
<1>2. TypeOK' /\ Buffered' BY <1>1, PartsNext
<1>3. IniAgreesWithFile' BY DEF Forget, IniAgreesWithFile, OneCopyOfIni
<1> QED BY <1>2, <1>3 DEF IInv

LEMMA ResetKeeps ==
    ASSUME IInv, Reset PROVE IInv'
<1>1. disk' \in Disks BY ClosedIs DEF IInv, Reset
<1>2. resolved' \in Resolutions BY FilesAre DEF Reset
<1> QED BY <1>1, <1>2, ForgottenIs DEF Reset

LEMMA CrashKeeps ==
    ASSUME IInv, Crash PROVE IInv'
<1>1. disk' \in Disks /\ resolved' \in Resolutions BY FilesAre DEF Crash, Resolutions
<1> QED BY <1>1, ForgottenIs DEF Crash

LEMMA InitHolds ==
    ASSUME Init PROVE IInv
<1>1. disk \in Disks BY DEF Init, Disks
<1>2. resolved \in Resolutions /\ texts \in Texts /\ Memory /\ Handles(bins, disk)
  BY DEF Init, Resolutions, Texts, Memory, Handles
<1>3. IniAgreesWithFile BY DEF Init, IniAgreesWithFile, OneCopyOfIni
<1> QED BY <1>1, <1>2, <1>3, Parts DEF IInv

LEMMA StutterKeeps ==
    ASSUME IInv, UNCHANGED vars PROVE IInv'
<1>1. UNCHANGED <<store, currentIni, cachedIni, strays>> /\ texts' = texts /\ bins' = bins
  BY DEF vars
<1>2. texts' \in Texts /\ Handles(bins', disk) BY <1>1, FilesAre
<1> QED BY <1>1, <1>2, DiskKept

LEMMA StepHolds ==
    ASSUME IInv, [Next]_vars PROVE IInv'
<1>1. ASSUME NEW n \in Names,
             \/ IniOpen(n) \/ TextOpenRead(n) \/ TextOpenWrite(n) \/ FileDelete(n)
             \/ BinOpenRead(n) \/ BinOpenWrite(n) \/ BinOpenUpdate(n)
             \/ \E c \in Saves : BufferSave(n, c)
      PROVE  IInv'
  BY <1>1, IniOpenKeeps, TextOpenReadKeeps, TextOpenWriteKeeps, FileDeleteKeeps,
     BinOpenReadKeeps, BinOpenWriteKeeps, BinOpenUpdateKeeps, BufferSaveKeeps
<1>2. ASSUME NEW c \in Saves, IniOpenFromString(c) PROVE IInv'
  BY <1>2, IniOpenFromStringKeeps
<1>3. ASSUME NEW v \in Values, IniWrite(v) PROVE IInv' BY <1>3, IniWriteKeeps
<1>4. CASE IniClose BY <1>4, IniCloseKeeps
<1>5. ASSUME NEW h \in TextSlots, TextClose(h) \/ \E v \in Values : TextWrite(h, v)
      PROVE  IInv'
  BY <1>5, TextCloseKeeps, TextWriteKeeps
<1>6. ASSUME NEW h \in BinSlots,
             \/ Flush(h) \/ BinRewrite(h) \/ BinClose(h)
             \/ \E v \in Values : BinWrite(h, v)
             \/ \E pos \in 0 .. MaxLen : BinSeek(h, pos)
      PROVE  IInv'
  BY <1>6, FlushKeeps, BinRewriteKeeps, BinCloseKeeps, BinWriteKeeps, BinSeekKeeps
<1>7. CASE Reset BY <1>7, ResetKeeps
<1>8. CASE Crash BY <1>8, CrashKeeps
<1>9. CASE UNCHANGED vars BY <1>9, StutterKeeps
<1> QED BY <1>1, <1>2, <1>3, <1>4, <1>5, <1>6, <1>7, <1>8, <1>9 DEF Next

LEMMA InvariantHolds == Spec => []IInv
<1>1. Init => IInv BY InitHolds
<1>2. IInv /\ [Next]_vars => IInv' BY StepHolds
<1> QED BY <1>1, <1>2, PTL DEF Spec

\* Whatever game code does with its files, in whatever order: no file outgrows what was
\* written, and a FILE open for writing has a file unless that was deleted under it.
THEOREM TypeCorrect == Spec => []TypeOK
<1>1. IInv => TypeOK BY DEF IInv
<1> QED BY <1>1, InvariantHolds, PTL

\* ini_open, ini_close and the cache between them (vm_builtins.c) never leave in memory an
\* ini without changes of its own that says something else than its file, save for files
\* changed by other means or not writable; nor do they keep two copies of one ini.
THEOREM IniAgrees == Spec => []IniAgreesWithFile
<1>1. IInv => IniAgreesWithFile BY DEF IInv
<1> QED BY <1>1, InvariantHolds, PTL

-------------------------------------------------------------------------------
(* One directory                                                            *)

\* What game code sees of the state: files, texts being written, streams.
Fs == [p \in Paths |-> View(p)]
Ws == [h \in TextSlots |-> IF IsWriter(h) /\ ~ texts[h].name.full
                           THEN [path |-> texts[h].name.path, text |-> texts[h].text]
                           ELSE NoFile]
Ss == [h \in BinSlots |-> StreamOf(bins[h])]

\* The bundle stays as it was shipped, and only the save directory is written to.
Saved ==
    /\ disk["bundle"] = Bundled
    /\ \A h \in BinSlots : bins[h] # NoFile /\ bins[h].mode # "read" => bins[h].area = "save"
SInv == IInv /\ Saved

\* The desktop's overlay, and a bundle that cannot be written.
Desktop == ~ Cached /\ ~ BundleWritable

Step == [Game!GNext]_(Game!gvars)

LEMMA Stutters ==
    ASSUME Fs' = Fs, Ws' = Ws, Ss' = Ss PROVE Step
<1>1. Game!gvars = <<Fs, Ws, Ss>> BY DEF Game!gvars, Fs, Ws, Ss
<1>2. Game!gvars' = <<Fs', Ws', Ss'>> BY DEF Game!gvars, Fs, Ws, Ss
<1> QED BY <1>1, <1>2 DEF Step

LEMMA Stores ==
    ASSUME NEW p \in Paths, Fs'[p] # Absent, Fs' = [Fs EXCEPT ![p] = Fs'[p]], Ws' = Ws, Ss' = Ss
    PROVE  Step
<1>1. Game!Store(p) <=> /\ Fs'[p] # Absent /\ Fs' = [Fs EXCEPT ![p] = Fs'[p]]
                        /\ Ws' = Ws /\ Ss' = Ss
  BY DEF Game!Store, Fs, Ws, Ss
<1> QED BY <1>1 DEF Step, Game!GNext

LEMMA BeginsEmpty ==
    ASSUME NEW h \in BinSlots, NEW p \in Paths, Ss[h] # NoFile => Ss[h].path = p,
           Fs' = [Fs EXCEPT ![p] = <<>>], Ws' = Ws,
           Ss' = [Ss EXCEPT ![h] = [path |-> p, mode |-> "write"]]
    PROVE  Step
<1>1. Game!OpenEmpty(h, p) <=> /\ Ss[h] # NoFile => Ss[h].path = p
                               /\ Fs' = [Fs EXCEPT ![p] = <<>>]
                               /\ Ss' = [Ss EXCEPT ![h] = [path |-> p, mode |-> "write"]]
                               /\ Ws' = Ws
  BY DEF Game!OpenEmpty, Game!Begin, Fs, Ws, Ss
<1> QED BY <1>1 DEF Step, Game!GNext

LEMMA BeginsUpdate ==
    ASSUME NEW h \in BinSlots, NEW p \in Paths, Ss[h] = NoFile,
           Fs' = [Fs EXCEPT ![p] = IF Fs[p] = Absent THEN <<>> ELSE Fs[p]], Ws' = Ws,
           Ss' = [Ss EXCEPT ![h] = [path |-> p, mode |-> "update"]]
    PROVE  Step
<1>1. Game!OpenUpdate(h, p) <=> /\ Ss[h] = NoFile
                                /\ Fs' = [Fs EXCEPT ![p] = IF Fs[p] = Absent THEN <<>> ELSE Fs[p]]
                                /\ Ss' = [Ss EXCEPT ![h] = [path |-> p, mode |-> "update"]]
                                /\ Ws' = Ws
  BY DEF Game!OpenUpdate, Game!Begin, Fs, Ws, Ss
<1> QED BY <1>1 DEF Step, Game!GNext

LEMMA HidesShipped ==
    ASSUME NEW h \in BinSlots, NEW p \in Paths, Ss[h] = NoFile,
           Fs[p] = Bundled[p], Bundled[p] # Absent,
           Fs' = [Fs EXCEPT ![p] = <<>>], Ws' = Ws,
           Ss' = [Ss EXCEPT ![h] = [path |-> p, mode |-> "update"]]
    PROVE  Step
<1>1. Game!HideShipped(h, p) <=> /\ Ss[h] = NoFile
                                 /\ Fs[p] = Bundled[p] /\ Bundled[p] # Absent
                                 /\ Fs' = [Fs EXCEPT ![p] = <<>>]
                                 /\ Ss' = [Ss EXCEPT ![h] = [path |-> p, mode |-> "update"]]
                                 /\ Ws' = Ws
  BY DEF Game!HideShipped, Game!Begin, Fs, Ws, Ss
<1> QED BY <1>1 DEF Step, Game!GNext

LEMMA Writes ==
    ASSUME NEW h \in BinSlots, NEW p, Ss[h] # NoFile, Ss[h].path = p, Fs'[p] # Absent,
           Fs' = [Fs EXCEPT ![p] = Fs'[p]], Ws' = Ws,
           Ss' \in {Ss, [Ss EXCEPT ![h] = NoFile]}
    PROVE  Step
<1>1. Game!Write(h) <=> /\ Ss[h] # NoFile /\ Fs'[Ss[h].path] # Absent
                        /\ Fs' = [Fs EXCEPT ![Ss[h].path] = Fs'[Ss[h].path]]
                        /\ Ss' \in {Ss, [Ss EXCEPT ![h] = NoFile]}
                        /\ Ws' = Ws
  BY DEF Game!Write, Fs, Ws, Ss
<1> QED BY <1>1 DEF Step, Game!GNext

LEMMA Deletes ==
    ASSUME NEW p \in Paths, Fs' = [Fs EXCEPT ![p] = Bundled[p]], Ws' = Ws,
           Ss' = [h \in BinSlots |-> IF Ss[h] # NoFile /\ Ss[h].path = p THEN NoFile ELSE Ss[h]]
    PROVE  Step
<1>1. Game!Delete(p) <=> /\ Fs' = [Fs EXCEPT ![p] = Bundled[p]]
                         /\ Ss' = [h \in BinSlots |-> IF Ss[h] # NoFile /\ Ss[h].path = p
                                                       THEN NoFile ELSE Ss[h]]
                         /\ Ws' = Ws
  BY DEF Game!Delete, Fs, Ws, Ss
<1> QED BY <1>1 DEF Step, Game!GNext

LEMMA OpensWriter ==
    ASSUME NEW h \in TextSlots, NEW p \in Paths, Ws[h] = NoFile,
           Ws' = [Ws EXCEPT ![h] = [path |-> p, text |-> <<>>]], Fs' = Fs, Ss' = Ss
    PROVE  Step
<1>1. Game!OpenWriter(h, p) <=> /\ Ws[h] = NoFile
                                /\ Ws' = [Ws EXCEPT ![h] = [path |-> p, text |-> <<>>]]
                                /\ Fs' = Fs /\ Ss' = Ss
  BY DEF Game!OpenWriter, Fs, Ws, Ss
<1> QED BY <1>1 DEF Step, Game!GNext

LEMMA Extends ==
    ASSUME NEW h \in TextSlots, NEW v \in Values, Ws[h] # NoFile,
           Ws' = [Ws EXCEPT ![h].text = @ \o <<v>>], Fs' = Fs, Ss' = Ss
    PROVE  Step
<1>1. Game!Extend(h, v) <=> /\ Ws[h] # NoFile
                            /\ Ws' = [Ws EXCEPT ![h].text = @ \o <<v>>]
                            /\ Fs' = Fs /\ Ss' = Ss
  BY DEF Game!Extend, Fs, Ws, Ss
<1> QED BY <1>1 DEF Step, Game!GNext

LEMMA ClosesWriter ==
    ASSUME NEW h \in TextSlots, Ws[h] # NoFile, Fs' = [Fs EXCEPT ![Ws[h].path] = Ws[h].text],
           Ws' = [Ws EXCEPT ![h] = NoFile], Ss' = Ss
    PROVE  Step
<1>1. Game!CloseWriter(h) <=> /\ Ws[h] # NoFile
                              /\ Fs' = [Fs EXCEPT ![Ws[h].path] = Ws[h].text]
                              /\ Ws' = [Ws EXCEPT ![h] = NoFile] /\ Ss' = Ss
  BY DEF Game!CloseWriter, Fs, Ws, Ss
<1> QED BY <1>1 DEF Step, Game!GNext

LEMMA Halts ==
    ASSUME Ws' = [h \in TextSlots |-> NoFile], Ss' = [h \in BinSlots |-> NoFile],
           \A p \in Paths :
              \/ Fs'[p] = Fs[p]
              \/ /\ Fs'[p] # Absent
                 /\ \E h \in BinSlots : Ss[h] # NoFile /\ Ss[h].path = p
    PROVE  Step
<1>1. Game!Halt <=> /\ Ws' = [h \in TextSlots |-> NoFile] /\ Ss' = [h \in BinSlots |-> NoFile]
                    /\ \A p \in Paths :
                          \/ Fs'[p] = Fs[p]
                          \/ /\ Fs'[p] # Absent
                             /\ \E h \in BinSlots : Ss[h] # NoFile /\ Ss[h].path = p
  BY DEF Game!Halt, Fs, Ws, Ss
<1> QED BY <1>1 DEF Step, Game!GNext

\* A name is the file of the save directory, or else the one that came with the game.
LEMMA ViewIs ==
    ASSUME Desktop, NEW p \in Paths
    PROVE  Fs[p] = IF disk["save"][p] # Absent THEN disk["save"][p] ELSE disk["bundle"][p]
<1> DEFINE n == [path |-> p, full |-> FALSE]
<1>1. n.path = p /\ ~ n.full OBVIOUS
<1>2. AreaForRead(n) = IF disk["save"][p] # Absent THEN "save" ELSE "bundle"
  BY <1>1 DEF AreaForRead, Desktop
<1>3. Fs[p] = Read(n) BY DEF Fs, View
<1> HIDE DEF n
<1> QED BY <1>1, <1>2, <1>3 DEF Read

LEMMA ViewIsNext ==
    ASSUME Desktop, NEW p \in Paths
    PROVE  Fs'[p] = IF disk'["save"][p] # Absent THEN disk'["save"][p] ELSE disk'["bundle"][p]
<1> DEFINE n == [path |-> p, full |-> FALSE]
<1>1. n.path = p /\ ~ n.full OBVIOUS
<1>2. AreaForRead(n)' = IF disk'["save"][p] # Absent THEN "save" ELSE "bundle"
  BY <1>1 DEF AreaForRead, Desktop
<1>3. Fs'[p] = Read(n)' BY DEF Fs, View
<1> HIDE DEF n
<1> QED BY <1>1, <1>2, <1>3 DEF Read

\* A step that touches one file of the save directory changes one file of the game's view.
LEMMA OneFileChanges ==
    ASSUME Desktop, NEW p \in Paths,
           \A q \in Paths : disk'["bundle"][q] = disk["bundle"][q]
                            /\ (q # p => disk'["save"][q] = disk["save"][q])
    PROVE  Fs' = [Fs EXCEPT ![p] = Fs'[p]]
<1>1. ASSUME NEW q \in Paths, q # p PROVE Fs'[q] = Fs[q] BY <1>1, ViewIs, ViewIsNext
<1>2. DOMAIN Fs = Paths /\ DOMAIN Fs' = Paths /\ Fs = [q \in Paths |-> Fs[q]]
      /\ Fs' = [q \in Paths |-> Fs'[q]]
  BY DEF Fs
<1>3. \A q \in Paths : [Fs EXCEPT ![p] = Fs'[p]][q] = Fs'[q] BY <1>1, <1>2
<1> QED BY <1>2, <1>3

LEMMA NoFileChanges ==
    ASSUME Desktop, disk' = disk PROVE Fs' = Fs
<1>1. ASSUME NEW q \in Paths PROVE Fs'[q] = Fs[q] BY ViewIs, ViewIsNext
<1>2. Fs = [q \in Paths |-> Fs[q]] /\ Fs' = [q \in Paths |-> Fs'[q]] BY DEF Fs
<1> QED BY <1>1, <1>2

\* The bundle as a whole, from its files.
LEMMA BundleKept ==
    ASSUME disk \in Disks, disk' \in Disks, disk["bundle"] = Bundled,
           \A p \in Paths : disk'["bundle"][p] = disk["bundle"][p]
    PROVE  disk'["bundle"] = Bundled
<1>1. disk["bundle"] \in [Paths -> Contents \cup {Absent}] BY DEF Disks, Areas
<1>2. disk'["bundle"] \in [Paths -> Contents \cup {Absent}] BY DEF Disks, Areas
<1> QED BY <1>1, <1>2

\* A file is written by name: under a relative name the view changes there, and under a full
\* one nothing does.
LEMMA WriteSeen ==
    ASSUME Desktop, SInv, NEW n \in Names, NEW c \in Contents, WriteFile(n, c)
    PROVE  /\ disk'["bundle"] = Bundled
           /\ n.full => disk' = disk /\ Fs' = Fs
           /\ ~ n.full => /\ Fs' = [Fs EXCEPT ![n.path] = Fs'[n.path]] /\ Fs'[n.path] = c
                          /\ c # Absent
<1>1. /\ disk \in Disks /\ resolved \in Resolutions /\ disk["bundle"] = Bundled
  BY FilesAre DEF SInv, Saved
<1>2. CASE n.full
  <2>1. ~ Writable(AreaForWrite(n)) BY <1>2 DEF Writable, AreaForWrite, Desktop
  <2>2. disk' = disk BY <2>1 DEF WriteFile, store
  <2> QED BY <1>1, <1>2, <2>2, NoFileChanges
<1>3. CASE ~ n.full
  <2>1. AreaForWrite(n) = "save" /\ Writable("save") BY <1>3 DEF AreaForWrite, Writable
  <2>2. n.path \in Paths BY <1>1, NamesAre
  <2>3. /\ disk' \in Disks /\ c # Absent
        /\ \A a \in Areas, p \in Paths :
              disk'[a][p] = IF a = "save" /\ p = n.path THEN c ELSE disk[a][p]
    BY <1>1, <2>1, WrittenIs
  <2>4. /\ \A q \in Paths : /\ disk'["bundle"][q] = disk["bundle"][q]
                            /\ q # n.path => disk'["save"][q] = disk["save"][q]
        /\ disk'["save"][n.path] = c
    BY <2>2, <2>3 DEF Areas
  <2>5. disk'["bundle"] = Bundled BY <1>1, <2>3, <2>4, BundleKept
  <2>6. Fs' = [Fs EXCEPT ![n.path] = Fs'[n.path]] BY <2>2, <2>4, OneFileChanges
  <2>7. Fs'[n.path] = c BY <2>2, <2>3, <2>4, ViewIsNext
  <2> QED BY <1>3, <2>3, <2>5, <2>6, <2>7
<1> QED BY <1>2, <1>3

LEMMA SameTexts ==
    ASSUME texts' = texts PROVE Ws' = Ws
  BY DEF Ws, IsWriter

LEMMA SameStreams ==
    ASSUME bins' = bins PROVE Ss' = Ss
  BY DEF Ss

\* Streams are the FILEs that may write to a file with a name.
LEMMA StreamIs ==
    ASSUME NEW b \in Bin
    PROVE  /\ StreamOf(b) = NoFile <=> ~ (b.linked /\ b.mode # "read")
           /\ StreamOf(b) # NoFile => StreamOf(b) = [path |-> b.path, mode |-> b.mode]
<1>1. b # NoFile /\ [path |-> b.path, mode |-> b.mode] \in [path : Paths, mode : Modes]
  BY FilesAssumption DEF Bin
<1>2. [path |-> b.path, mode |-> b.mode] # NoFile BY <1>1, FilesAssumption
<1> QED BY <1>1, <1>2 DEF StreamOf

LEMMA NoStreamOfNone == StreamOf(NoFile) = NoFile
  BY DEF StreamOf

\* One slot of the binary files changes, and one stream.
LEMMA OneStream ==
    ASSUME Handles(bins, disk), NEW h \in BinSlots, NEW b, bins' = [bins EXCEPT ![h] = b]
    PROVE  /\ Ss' = [Ss EXCEPT ![h] = StreamOf(b)]
           /\ Ss[h] = StreamOf(bins[h])
           /\ StreamOf(b) = StreamOf(bins[h]) => Ss' = Ss
<1>1. \A k \in BinSlots : bins'[k] = IF k = h THEN b ELSE bins[k] BY DEF Handles
<1>2. /\ Ss = [k \in BinSlots |-> StreamOf(bins[k])]
      /\ Ss' = [k \in BinSlots |-> StreamOf(bins'[k])]
  BY DEF Ss, StreamOf
<1>3. Ss' = [k \in BinSlots |-> IF k = h THEN StreamOf(b) ELSE StreamOf(bins[k])]
  BY <1>1, <1>2
<1> QED BY <1>2, <1>3

\* A FILE keeps to the save directory, if it may write.
LEMMA OneHandle ==
    ASSUME SInv, NEW h \in BinSlots, NEW b, bins' = [bins EXCEPT ![h] = b],
           disk'["bundle"] = Bundled, b = NoFile \/ b.mode = "read" \/ b.area = "save"
    PROVE  Saved'
<1>1. Handles(bins, disk) BY FilesAre DEF SInv
<1>2. \A k \in BinSlots : bins'[k] = IF k = h THEN b ELSE bins[k] BY <1>1 DEF Handles
<1> QED BY <1>2 DEF SInv, Saved

\* A slot changes, and nothing game code could see.
LEMMA UnseenStep ==
    ASSUME Desktop, SInv, NEW h \in BinSlots, NEW b, bins' = [bins EXCEPT ![h] = b],
           texts' = texts, Fs' = Fs, disk'["bundle"] = Bundled,
           StreamOf(b) = StreamOf(bins[h]), b = NoFile \/ b.mode = "read" \/ b.area = "save"
    PROVE  Saved' /\ Step
<1>1. Handles(bins, disk) BY FilesAre DEF SInv
<1>2. Ss' = Ss BY <1>1, OneStream
<1> QED BY <1>2, SameTexts, Stutters, OneHandle

\* A stream writes to its file, and may end with that.
LEMMA WriteStep ==
    ASSUME Desktop, SInv, NEW h \in BinSlots, NEW b, NEW p \in Paths,
           bins' = [bins EXCEPT ![h] = b], texts' = texts, disk'["bundle"] = Bundled,
           StreamOf(bins[h]) # NoFile, bins[h].path = p,
           StreamOf(b) \in {NoFile, StreamOf(bins[h])}, b = NoFile \/ b.area = "save",
           Fs'[p] # Absent, Fs' = [Fs EXCEPT ![p] = Fs'[p]]
    PROVE  Saved' /\ Step
<1>1. Handles(bins, disk) BY FilesAre DEF SInv
<1>2. /\ Ss' = [Ss EXCEPT ![h] = StreamOf(b)] /\ Ss[h] = StreamOf(bins[h])
      /\ StreamOf(b) = StreamOf(bins[h]) => Ss' = Ss
  BY <1>1, OneStream
<1>3. Ss[h] # NoFile /\ Ss[h].path = p BY <1>2 DEF StreamOf
<1>4. Ss' \in {Ss, [Ss EXCEPT ![h] = NoFile]} BY <1>2
<1>5. Ws' = Ws BY SameTexts
<1>6. Step BY <1>3, <1>4, <1>5, Writes
<1> QED BY <1>6, OneHandle

LEMMA FlushSeen ==
    ASSUME Desktop, SInv, NEW h \in BinSlots, bins[h] # NoFile, disk' = Flushed(bins[h])
    PROVE  /\ disk'["bundle"] = Bundled /\ bins[h].path \in Paths
           /\ ~ bins[h].linked => disk' = disk
           /\ StreamOf(bins[h]) = NoFile => Fs' = Fs
           /\ bins[h].linked => /\ Fs'[bins[h].path] # Absent
                                /\ Fs' = [Fs EXCEPT ![bins[h].path] = Fs'[bins[h].path]]
<1> DEFINE b == bins[h]
<1>1. /\ disk \in Disks /\ b.area \in Areas /\ b.path \in Paths
      /\ b.linked => disk[b.area][b.path] # Absent
  BY FilesAre DEF SInv, Handle
<1>2. disk["bundle"] = Bundled /\ (b.mode # "read" => b.area = "save") BY DEF SInv, Saved
<1>3. /\ disk' \in Disks /\ NothingLost(disk, disk')
      /\ \A a \in Areas, p \in Paths : disk'[a][p] # disk[a][p] =>
            b.linked /\ b.area = a /\ b.path = p /\ b.mode # "read"
  BY FlushStep DEF SInv, IInv
<1>4. \A q \in Paths : /\ disk'["bundle"][q] = disk["bundle"][q]
                       /\ q # b.path => disk'["save"][q] = disk["save"][q]
  BY <1>2, <1>3 DEF Areas
<1>5. disk'["bundle"] = Bundled BY <1>1, <1>2, <1>3, <1>4, BundleKept
<1>6. Fs' = [Fs EXCEPT ![b.path] = Fs'[b.path]] BY <1>1, <1>4, OneFileChanges
<1>7. ~ b.linked => disk' = disk BY DEF Flushed, FlushedTo
<1>8. b.linked => Fs'[b.path] # Absent
  <2>1. b.linked => disk'[b.area][b.path] # Absent BY <1>1, <1>3 DEF NothingLost
  <2> QED BY <1>1, <2>1, ViewIsNext DEF Areas
<1>9. ASSUME StreamOf(b) = NoFile PROVE Fs' = Fs
  <2>0. b \in Bin BY FilesAre DEF SInv
  <2>1. ~ (b.linked /\ b.mode # "read") BY <1>9, <2>0, StreamIs
  <2>2. \A q \in Paths : disk'["bundle"][q] = disk["bundle"][q] /\ disk'["save"][q] = disk["save"][q]
    BY <2>1, <1>3 DEF Areas
  <2>3. \A q \in Paths : Fs'[q] = Fs[q] BY <2>2, ViewIs, ViewIsNext
  <2>4. Fs = [q \in Paths |-> Fs[q]] /\ Fs' = [q \in Paths |-> Fs'[q]] BY DEF Fs
  <2> QED BY <2>3, <2>4
<1> QED BY <1>1, <1>5, <1>6, <1>7, <1>8, <1>9

-------------------------------------------------------------------------------
(* One directory, action by action                                          *)

LEMMA QuietSeen ==
    ASSUME Desktop, SInv, disk' = disk, texts' = texts, bins' = bins PROVE Saved' /\ Step
<1>1. Saved' BY DEF SInv, Saved
<1> QED BY <1>1, NoFileChanges, SameTexts, SameStreams, Stutters

LEMMA IniOpenSeen ==
    ASSUME Desktop, SInv, NEW n \in Names, IniOpen(n) PROVE Saved' /\ Step
  BY QuietSeen DEF IniOpen

LEMMA IniMemorySeen ==
    ASSUME Desktop, SInv,
           (\E c \in Saves : IniOpenFromString(c)) \/ (\E v \in Values : IniWrite(v))
    PROVE  Saved' /\ Step
  BY QuietSeen DEF IniOpenFromString, IniWrite, store

\* An ini or a buffer is written to a file.
LEMMA SaveSeen ==
    ASSUME Desktop, SInv, NEW n \in Names, NEW c \in Contents, WriteFile(n, c),
           texts' = texts, bins' = bins
    PROVE  Saved' /\ Step
<1>1. CASE n.full
  <2>1. disk' = disk BY <1>1, WriteSeen
  <2> QED BY <2>1, QuietSeen
<1>2. CASE ~ n.full
  <2>1. /\ disk'["bundle"] = Bundled /\ Fs' = [Fs EXCEPT ![n.path] = Fs'[n.path]]
        /\ Fs'[n.path] # Absent
    BY <1>2, WriteSeen
  <2>2. n.path \in Paths BY FilesAre, NamesAre DEF SInv
  <2>3. Step BY <2>1, <2>2, SameTexts, SameStreams, Stores
  <2>4. Saved' BY <2>1 DEF SInv, Saved
  <2> QED BY <2>3, <2>4
<1> QED BY <1>1, <1>2

LEMMA IniCloseSeen ==
    ASSUME Desktop, SInv, IniClose PROVE Saved' /\ Step
<1>1. CASE currentIni.dirty /\ currentIni.name # NoName
  <2>1. currentIni.name \in Names /\ Serialize(currentIni.value) \in Contents
    BY <1>1, InisAre, ParseIs DEF SInv, IniClose
  <2>2. /\ WriteFile(currentIni.name, Serialize(currentIni.value))
        /\ texts' = texts /\ bins' = bins
    BY <1>1 DEF IniClose
  <2> QED BY <2>1, <2>2, SaveSeen
<1>2. CASE ~ (currentIni.dirty /\ currentIni.name # NoName)
  <2>1. disk' = disk /\ texts' = texts /\ bins' = bins BY <1>2 DEF IniClose, store
  <2> QED BY <2>1, QuietSeen
<1> QED BY <1>1, <1>2

LEMMA BufferSaveSeen ==
    ASSUME Desktop, SInv, NEW n \in Names, NEW c \in Saves, BufferSave(n, c)
    PROVE  Saved' /\ Step
<1>1. c \in Contents BY SavesAreContents
<1> QED BY <1>1, SaveSeen DEF BufferSave

LEMMA SlotIs ==
    ASSUME texts \in Texts, FreeText # {}
    PROVE  LowestFree \in TextSlots /\ texts[LowestFree] = NoFile
<1>1. FreeText \in SUBSET Nat BY FilesAssumption DEF FreeText
<1>2. \E h \in FreeText : \A k \in FreeText : h <= k BY <1>1, LeastOf
<1>3. LowestFree \in FreeText BY <1>2 DEF LowestFree
<1> QED BY <1>3 DEF FreeText

\* What game code sees of a text file that is put in a slot.
LEMMA WriterSet ==
    ASSUME texts \in Texts, NEW h \in TextSlots, NEW t, texts' = [texts EXCEPT ![h] = t]
    PROVE  Ws' = [Ws EXCEPT ![h] = IF t # NoFile /\ t.name # NoName /\ ~ t.name.full
                                   THEN [path |-> t.name.path, text |-> t.text] ELSE NoFile]
<1> DEFINE F(x) == IF x # NoFile /\ x.name # NoName /\ ~ x.name.full
                   THEN [path |-> x.name.path, text |-> x.text] ELSE NoFile
<1>1. Ws = [k \in TextSlots |-> F(texts[k])] BY DEF Ws, IsWriter
<1>2. Ws' = [k \in TextSlots |-> F(texts'[k])] BY DEF Ws, IsWriter
<1>3. \A k \in TextSlots : texts'[k] = IF k = h THEN t ELSE texts[k] BY DEF Texts
<1> HIDE DEF F
<1>4. Ws' = [Ws EXCEPT ![h] = F(t)] BY <1>1, <1>2, <1>3
<1> QED BY <1>4 DEF F

LEMMA WriterSeen ==
    ASSUME NEW h \in TextSlots
    PROVE  Ws[h] = IF IsWriter(h) /\ ~ texts[h].name.full
                   THEN [path |-> texts[h].name.path, text |-> texts[h].text] ELSE NoFile
  BY DEF Ws

LEMMA WriterNotNone ==
    ASSUME texts \in Texts, NEW h \in TextSlots, IsWriter(h), ~ texts[h].name.full
    PROVE  Ws[h] # NoFile /\ Ws[h].path = texts[h].name.path /\ Ws[h].text = texts[h].text
<1>1. texts[h].name \in Names /\ texts[h].text \in Saves BY WriterIs
<1>2. texts[h].name.path \in Paths BY <1>1, FilesAssumption
<1>3. [path |-> texts[h].name.path, text |-> texts[h].text] # NoFile
  BY <1>1, <1>2, FilesAssumption
<1>4. Ws[h] = [path |-> texts[h].name.path, text |-> texts[h].text] BY WriterSeen
<1>5. Ws[h].path = texts[h].name.path /\ Ws[h].text = texts[h].text BY <1>4
<1> QED BY <1>3, <1>4, <1>5

LEMMA TextOpenReadSeen ==
    ASSUME Desktop, SInv, NEW n \in Names, TextOpenRead(n) PROVE Saved' /\ Step
<1>1. texts \in Texts BY FilesAre DEF SInv
<1>2. LowestFree \in TextSlots /\ texts[LowestFree] = NoFile BY <1>1, SlotIs DEF TextOpenRead
<1>3. texts' = [texts EXCEPT ![LowestFree] = Reader] /\ disk' = disk /\ bins' = bins
  BY DEF TextOpenRead
<1>4. PICK h \in TextSlots : h = LowestFree BY <1>2
<1>5. Reader.name = NoName BY DEF Reader
<1>6. Ws' = [Ws EXCEPT ![h] = NoFile] BY <1>1, <1>3, <1>4, <1>5, WriterSet
<1>7. Ws[h] = NoFile BY <1>2, <1>4, WriterSeen DEF IsWriter
<1>8. Ws' = Ws BY <1>6, <1>7 DEF Ws
<1>9. Saved' BY <1>3 DEF SInv, Saved
<1> QED BY <1>3, <1>8, <1>9, NoFileChanges, SameStreams, Stutters

LEMMA TextOpenWriteSeen ==
    ASSUME Desktop, SInv, NEW n \in Names, TextOpenWrite(n) PROVE Saved' /\ Step
<1>1. texts \in Texts /\ n.path \in Paths BY FilesAre, NamesAre DEF SInv
<1>2. LowestFree \in TextSlots /\ texts[LowestFree] = NoFile BY <1>1, SlotIs DEF TextOpenWrite
<1>3. PICK h \in TextSlots : h = LowestFree BY <1>2
<1>t. PICK t \in Text : t = [name |-> n, text |-> <<>>] BY SavesAreContents DEF Text
<1>4. texts' = [texts EXCEPT ![h] = t] /\ disk' = disk /\ bins' = bins
  BY <1>3, <1>t DEF TextOpenWrite, store
<1>5. t # NoFile /\ t.name = n /\ t.name # NoName /\ t.text = <<>> BY <1>t, FilesAssumption
<1>6. Ws' = [Ws EXCEPT ![h] = IF ~ n.full THEN [path |-> n.path, text |-> <<>>] ELSE NoFile]
  BY <1>1, <1>4, <1>5, WriterSet
<1>7. Ws[h] = NoFile BY <1>2, <1>3, WriterSeen DEF IsWriter
<1>8. Fs' = Fs /\ Ss' = Ss BY <1>4, NoFileChanges, SameStreams
<1>9. Saved' BY <1>4 DEF SInv, Saved
<1>10. CASE n.full
  <2>1. Ws' = Ws BY <1>6, <1>7, <1>10 DEF Ws
  <2> QED BY <1>8, <1>9, <2>1, Stutters
<1>11. CASE ~ n.full
  <2>1. Ws' = [Ws EXCEPT ![h] = [path |-> n.path, text |-> <<>>]] BY <1>6, <1>11
  <2> QED BY <1>1, <1>7, <1>8, <1>9, <2>1, OpensWriter
<1> QED BY <1>10, <1>11

LEMMA TextWriteSeen ==
    ASSUME Desktop, SInv, NEW h \in TextSlots, NEW v \in Values, TextWrite(h, v)
    PROVE  Saved' /\ Step
<1>1. texts \in Texts /\ IsWriter(h) BY FilesAre DEF SInv, TextWrite
<1>2. texts[h] \in Text /\ texts[h].name \in Names /\ texts[h].text \in Saves
      /\ texts[h] # NoFile
  BY <1>1, WriterIs
<1>3. Append(texts[h].text, v) = texts[h].text \o <<v>>
      /\ Append(texts[h].text, v) \in Saves
  BY <1>2, SavesAreContents DEF TextWrite
<1>4. PICK t : t = [texts[h] EXCEPT !.text = Append(@, v)] OBVIOUS
<1>5. t \in Text /\ t.name = texts[h].name /\ t.text = texts[h].text \o <<v>>
  BY <1>2, <1>3, <1>4 DEF Text
<1>6. texts' = [texts EXCEPT ![h] = t] /\ disk' = disk /\ bins' = bins
  BY <1>1, <1>4 DEF TextWrite, store, Texts
<1>7. t # NoFile /\ t.name # NoName BY <1>2, <1>5, FilesAssumption
<1>8. Ws' = [Ws EXCEPT ![h] = IF ~ t.name.full THEN [path |-> t.name.path, text |-> t.text]
                              ELSE NoFile]
  BY <1>1, <1>6, <1>7, WriterSet
<1>9. Fs' = Fs /\ Ss' = Ss BY <1>6, NoFileChanges, SameStreams
<1>10. Saved' BY <1>6 DEF SInv, Saved
<1>11. CASE t.name.full
  <2>1. Ws[h] = NoFile BY <1>5, <1>11, WriterSeen
  <2>2. Ws' = Ws BY <1>8, <1>11, <2>1 DEF Ws
  <2> QED BY <1>9, <1>10, <2>2, Stutters
<1>12. CASE ~ t.name.full
  <2>1. Ws[h] # NoFile BY <1>1, <1>5, <1>12, WriterNotNone
  <2>2. Ws[h] = [path |-> texts[h].name.path, text |-> texts[h].text]
    BY <1>1, <1>5, <1>12, WriterSeen
  <2>3. [Ws[h] EXCEPT !.text = @ \o <<v>>] = [path |-> t.name.path, text |-> t.text]
    <3>1. \A q, s, u : [[path |-> q, text |-> s] EXCEPT !.text = u] = [path |-> q, text |-> u]
      OBVIOUS
    <3>2. [Ws[h] EXCEPT !.text = @ \o <<v>>]
             = [[path |-> texts[h].name.path, text |-> texts[h].text]
                  EXCEPT !.text = texts[h].text \o <<v>>]
      BY <2>2
    <3>3. [Ws[h] EXCEPT !.text = @ \o <<v>>]
             = [path |-> texts[h].name.path, text |-> texts[h].text \o <<v>>]
      BY <3>1, <3>2, Zenon
    <3> QED BY <3>3, <1>5
  <2>4. Ws' = [Ws EXCEPT ![h] = [Ws[h] EXCEPT !.text = @ \o <<v>>]] BY <1>8, <1>12, <2>3
  <2>5. Ws' = [Ws EXCEPT ![h].text = @ \o <<v>>] BY <2>4 DEF Ws
  <2> QED BY <1>9, <1>10, <2>1, <2>5, Extends
<1> QED BY <1>11, <1>12

LEMMA TextCloseSeen ==
    ASSUME Desktop, SInv, NEW h \in TextSlots, TextClose(h) PROVE Saved' /\ Step
<1>1. texts \in Texts /\ texts' = [texts EXCEPT ![h] = NoFile] /\ bins' = bins
  BY FilesAre DEF SInv, TextClose
<1>2. Ws' = [Ws EXCEPT ![h] = NoFile] BY <1>1, WriterSet
<1>3. Ss' = Ss BY <1>1, SameStreams
<1>4. CASE IsWriter(h) /\ ~ texts[h].name.full
  <2>1. texts[h].name \in Names /\ texts[h].text \in Contents
    BY <1>1, <1>4, WriterIs, SavesAreContents
  <2>2. WriteFile(texts[h].name, texts[h].text) BY <1>4 DEF TextClose
  <2>3. /\ disk'["bundle"] = Bundled
        /\ Fs' = [Fs EXCEPT ![texts[h].name.path] = Fs'[texts[h].name.path]]
        /\ Fs'[texts[h].name.path] = texts[h].text
    BY <1>4, <2>1, <2>2, WriteSeen
  <2>4. Ws[h] # NoFile /\ Ws[h].path = texts[h].name.path /\ Ws[h].text = texts[h].text
    BY <1>1, <1>4, WriterNotNone
  <2>5. Fs' = [Fs EXCEPT ![Ws[h].path] = Ws[h].text] BY <2>3, <2>4
  <2>6. Saved' BY <1>1, <2>3 DEF SInv, Saved
  <2> QED BY <1>2, <1>3, <2>4, <2>5, <2>6, ClosesWriter
<1>5. CASE ~ (IsWriter(h) /\ ~ texts[h].name.full)
  <2>1. disk' = disk
    <3>1. CASE ~ IsWriter(h) BY <3>1 DEF TextClose, store
    <3>2. CASE IsWriter(h)
      <4>1. texts[h].name \in Names /\ texts[h].text \in Contents /\ texts[h].name.full
        BY <1>1, <1>5, <3>2, WriterIs, SavesAreContents, FilesAssumption
      <4>2. WriteFile(texts[h].name, texts[h].text) BY <3>2 DEF TextClose
      <4> QED BY <4>1, <4>2, WriteSeen
    <3> QED BY <3>1, <3>2
  <2>2. Ws[h] = NoFile BY <1>5, WriterSeen
  <2>3. Ws' = Ws BY <1>2, <2>2 DEF Ws
  <2>4. Saved' BY <1>1, <2>1 DEF SInv, Saved
  <2> QED BY <1>3, <2>1, <2>3, <2>4, NoFileChanges, Stutters
<1> QED BY <1>4, <1>5

LEMMA SameView ==
    ASSUME Desktop, disk' = disk, NEW p \in Paths
    PROVE  Fs' = [Fs EXCEPT ![p] = Fs'[p]] /\ Fs'[p] = Fs[p]
<1>1. Fs' = Fs BY NoFileChanges
<1> QED BY <1>1 DEF Fs

\* A FILE is opened on one name.
LEMMA OpeningIs ==
    ASSUME SInv, NEW a \in Areas, NEW p \in Paths, NEW m \in Modes, OpensAs(Opened(a, p, m)),
           disk'["bundle"] = Bundled, m = "read" \/ a = "save"
    PROVE  /\ Saved'
           /\ \E h \in BinSlots :
                 /\ Ss[h] = NoFile
                 /\ m = "read" => Ss' = Ss
                 /\ m # "read" => Ss' = [Ss EXCEPT ![h] = [path |-> p, mode |-> m]]
<1>1. PICK b : b = Opened(a, p, m) OBVIOUS
<1>2. b.area = a /\ b.path = p /\ b.mode = m /\ b.linked BY <1>1 DEF Opened
<1>3. b \in Bin
  <2>1. MaxLen \in Nat /\ <<>> \in Saves BY FilesAssumption, SavesAreContents
  <2>2. 0 \in 0 .. MaxLen BY <2>1
  <2> QED BY <1>1, <2>1, <2>2 DEF Opened, Bin
<1>4. PICK h \in BinSlots : bins[h] = NoFile /\ bins' = [bins EXCEPT ![h] = b]
  BY <1>1 DEF OpensAs, FreeBin
<1>5. Handles(bins, disk) BY FilesAre DEF SInv
<1>6. /\ Ss' = [Ss EXCEPT ![h] = StreamOf(b)] /\ Ss[h] = StreamOf(bins[h])
      /\ StreamOf(b) = StreamOf(bins[h]) => Ss' = Ss
  BY <1>4, <1>5, OneStream
<1>7. Ss[h] = NoFile /\ StreamOf(bins[h]) = NoFile BY <1>4, <1>6, NoStreamOfNone
<1>8. m = "read" => Ss' = Ss BY <1>2, <1>3, <1>6, <1>7, StreamIs
<1>9. m # "read" => Ss' = [Ss EXCEPT ![h] = [path |-> p, mode |-> m]]
  BY <1>2, <1>3, <1>6, StreamIs
<1>10. Saved' BY <1>2, <1>4, OneHandle
<1> QED BY <1>7, <1>8, <1>9, <1>10

LEMMA BinOpenReadSeen ==
    ASSUME Desktop, SInv, NEW n \in Names, BinOpenRead(n) PROVE Saved' /\ Step
<1>1. AreaForRead(n) \in Areas /\ n.path \in Paths BY FilesAre, NamesAre DEF SInv
<1>2. disk' = disk /\ texts' = texts /\ disk'["bundle"] = Bundled
  BY DEF BinOpenRead, store, SInv, Saved
<1>3. Saved' /\ Ss' = Ss BY <1>1, <1>2, OpeningIs DEF BinOpenRead, Modes
<1> QED BY <1>2, <1>3, NoFileChanges, SameTexts, Stutters

\* A file is opened empty: what a reader sees of it then.
LEMMA CreatedSeen ==
    ASSUME Desktop, SInv, NEW n \in Names, Writable(AreaForWrite(n)), WriteFile(n, <<>>),
           NEW p, p = n.path
    PROVE  /\ ~ n.full /\ AreaForWrite(n) = "save" /\ p \in Paths
           /\ disk'["bundle"] = Bundled /\ Fs' = [Fs EXCEPT ![p] = <<>>]
<1>1. p \in Paths /\ <<>> \in Contents BY FilesAre, NamesAre, SavesAreContents DEF SInv
<1>2. ~ n.full BY DEF Writable, AreaForWrite, Desktop
<1>3. AreaForWrite(n) = "save" BY <1>2 DEF AreaForWrite
<1>4. /\ disk'["bundle"] = Bundled /\ Fs' = [Fs EXCEPT ![p] = Fs'[p]]
      /\ Fs'[p] = <<>>
  BY <1>1, <1>2, WriteSeen
<1> QED BY <1>1, <1>2, <1>3, <1>4

LEMMA BinOpenWriteSeen ==
    ASSUME Desktop, SInv, NEW n \in Names, BinOpenWrite(n) PROVE Saved' /\ Step
<1>p. PICK p : p = n.path OBVIOUS
<1>1. /\ AreaForWrite(n) = "save" /\ p \in Paths /\ disk'["bundle"] = Bundled
      /\ Fs' = [Fs EXCEPT ![p] = <<>>]
  BY <1>p, CreatedSeen DEF BinOpenWrite
<1>2. OpensAs(Opened("save", p, "write")) BY <1>p, <1>1 DEF BinOpenWrite
<1>3. "save" \in Areas /\ "write" \in Modes BY DEF Areas, Modes
<1>4. /\ Saved'
      /\ \E h \in BinSlots :
            /\ Ss[h] = NoFile
            /\ Ss' = [Ss EXCEPT ![h] = [path |-> p, mode |-> "write"]]
  BY <1>1, <1>2, <1>3, OpeningIs
<1>5. Ws' = Ws BY SameTexts DEF BinOpenWrite
<1> QED BY <1>1, <1>4, <1>5, BeginsEmpty

\* A file that game code can write to is kept; one that is missing is created; one that
\* came with the game, and has no copy in the save directory, is hidden.
LEMMA BinOpenUpdateSeen ==
    ASSUME Desktop, SInv, NEW n \in Names, BinOpenUpdate(n) PROVE Saved' /\ Step
<1>p. PICK p : p = n.path OBVIOUS
<1>1. p \in Paths /\ "save" \in Areas /\ "update" \in Modes
  BY <1>p, FilesAre, NamesAre DEF SInv, Areas, Modes
<1>2. Ws' = Ws BY SameTexts DEF BinOpenUpdate
<1>3. CASE Read(n) # Absent /\ Writable(AreaForRead(n))
  <2>1. AreaForRead(n) = "save" BY <1>3 DEF Writable, Desktop
  <2>2. /\ disk' = disk /\ disk'["bundle"] = Bundled
        /\ OpensAs(Opened(AreaForRead(n), n.path, "update"))
    BY <1>3 DEF BinOpenUpdate, store, SInv, Saved
  <2>3. OpensAs(Opened("save", p, "update")) BY <1>p, <2>1, <2>2
  <2>4. /\ Saved'
        /\ \E h \in BinSlots :
              /\ Ss[h] = NoFile
              /\ Ss' = [Ss EXCEPT ![h] = [path |-> p, mode |-> "update"]]
    BY <1>1, <2>2, <2>3, OpeningIs
  <2>5. Fs[p] # Absent BY <1>p, <1>1, <1>3, <2>1, ViewIs DEF Read
  <2>6. Fs' = [Fs EXCEPT ![p] = IF Fs[p] = Absent THEN <<>> ELSE Fs[p]]
    BY <1>1, <2>2, <2>5, SameView
  <2> QED BY <1>1, <1>2, <2>4, <2>6, BeginsUpdate
<1>4. CASE ~ (Read(n) # Absent /\ Writable(AreaForRead(n)))
  <2>1. /\ Writable(AreaForWrite(n)) /\ WriteFile(n, <<>>)
        /\ OpensAs(Opened(AreaForWrite(n), n.path, "update"))
    BY <1>4 DEF BinOpenUpdate
  <2>2. /\ ~ n.full /\ AreaForWrite(n) = "save" /\ disk'["bundle"] = Bundled
        /\ Fs' = [Fs EXCEPT ![p] = <<>>]
    BY <1>p, <2>1, CreatedSeen
  <2>3. OpensAs(Opened("save", p, "update")) BY <1>p, <2>1, <2>2
  <2>4. /\ Saved'
        /\ \E h \in BinSlots :
              /\ Ss[h] = NoFile
              /\ Ss' = [Ss EXCEPT ![h] = [path |-> p, mode |-> "update"]]
    BY <1>1, <2>2, <2>3, OpeningIs
  <2>5. CASE Fs[p] = Absent
    <3>1. Fs' = [Fs EXCEPT ![p] = IF Fs[p] = Absent THEN <<>> ELSE Fs[p]]
      BY <2>2, <2>5
    <3> QED BY <1>1, <1>2, <2>4, <3>1, BeginsUpdate
  <2>6. CASE Fs[p] # Absent
    <3>1. disk["save"][p] = Absent
      <4>1. SUFFICES ASSUME disk["save"][p] # Absent PROVE FALSE OBVIOUS
      <4>2. AreaForRead(n) = "save" BY <1>p, <2>2, <4>1 DEF AreaForRead, Desktop
      <4> QED BY <1>p, <1>4, <4>1, <4>2 DEF Read, Writable
    <3>2. Fs[p] = Bundled[p] BY <1>1, <3>1, ViewIs DEF SInv, Saved
    <3> QED BY <1>1, <1>2, <2>2, <2>4, <2>6, <3>2, HidesShipped
  <2> QED BY <2>5, <2>6
<1> QED BY <1>3, <1>4

LEMMA BinWriteSeen ==
    ASSUME Desktop, SInv, NEW h \in BinSlots, NEW v \in Values, BinWrite(h, v)
    PROVE  Saved' /\ Step
<1>1. bins[h] \in Bin /\ bins[h] # NoFile /\ bins[h].pending \in Saves
      /\ bins[h].pos \in 0 .. MaxLen /\ bins[h].pos + Len(bins[h].pending) < MaxLen
  BY FilesAre DEF SInv, BinWrite
<1>2. Append(bins[h].pending, v) \in Saves
  <2>1. MaxLen \in Nat /\ bins[h].pos \in Nat /\ Len(bins[h].pending) \in Nat
    BY <1>1, FilesAssumption, SavesAreContents
  <2>2. Len(bins[h].pending) < MaxLen BY <1>1, <2>1
  <2> QED BY <1>1, <2>2, SavesAreContents
<1>3. PICK b : b = [bins[h] EXCEPT !.pending = Append(@, v)] OBVIOUS
<1>4. b \in Bin /\ b.area = bins[h].area /\ b.path = bins[h].path
      /\ b.mode = bins[h].mode /\ b.linked = bins[h].linked
  BY <1>1, <1>2, <1>3 DEF Bin
<1>5. bins' = [bins EXCEPT ![h] = b] BY <1>3, FilesAre DEF BinWrite, Handles, SInv
<1>6. disk' = disk /\ texts' = texts /\ disk'["bundle"] = Bundled
  BY DEF BinWrite, store, SInv, Saved
<1>7. Fs' = Fs BY <1>6, NoFileChanges
<1>8. StreamOf(b) = StreamOf(bins[h]) BY <1>1, <1>4, FilesAssumption DEF StreamOf
<1>9. b.mode = "read" \/ b.area = "save" BY <1>1, <1>4 DEF SInv, Saved
<1> QED BY <1>5, <1>6, <1>7, <1>8, <1>9, UnseenStep

\* The buffer of a FILE is written out, and the FILE stays open.
LEMMA FlushedSeen ==
    ASSUME Desktop, SInv, NEW h \in BinSlots, NEW pos \in 0 .. MaxLen, bins[h] # NoFile,
           disk' = Flushed(bins[h]), texts' = texts,
           bins' = [bins EXCEPT ![h] = [bins[h] EXCEPT !.pos = pos, !.pending = <<>>]]
    PROVE  Saved' /\ Step
<1>1. bins[h] \in Bin BY FilesAre DEF SInv
<1>2. PICK b : b = [bins[h] EXCEPT !.pos = pos, !.pending = <<>>] OBVIOUS
<1>3. b \in Bin /\ b.area = bins[h].area /\ b.path = bins[h].path
      /\ b.mode = bins[h].mode /\ b.linked = bins[h].linked
  BY <1>1, <1>2, SavesAreContents DEF Bin
<1>4. bins' = [bins EXCEPT ![h] = b] /\ b # NoFile BY <1>2, <1>3, FilesAssumption
<1>5. StreamOf(b) = StreamOf(bins[h]) BY <1>1, <1>3, <1>4, FilesAssumption DEF StreamOf
<1>6. b.mode = "read" \/ b.area = "save" BY <1>3 DEF SInv, Saved
<1>7. disk'["bundle"] = Bundled BY FlushSeen
<1>8. CASE StreamOf(bins[h]) = NoFile
  <2>1. Fs' = Fs BY <1>8, FlushSeen
  <2> QED BY <1>4, <1>5, <1>6, <1>7, <2>1, UnseenStep
<1>9. CASE StreamOf(bins[h]) # NoFile
  <2>p. PICK p : p = bins[h].path OBVIOUS
  <2>1. bins[h].linked /\ b.area = "save" BY <1>1, <1>3, <1>6, <1>9, StreamIs
  <2>2. p \in Paths /\ Fs'[p] # Absent /\ Fs' = [Fs EXCEPT ![p] = Fs'[p]]
    BY <2>1, <2>p, FlushSeen
  <2>3. bins[h].path = p BY <2>p
  <2>4. StreamOf(b) \in {NoFile, StreamOf(bins[h])} BY <1>5
  <2> QED BY <1>4, <1>7, <1>9, <2>1, <2>2, <2>3, <2>4, WriteStep
<1> QED BY <1>8, <1>9

LEMMA FlushActionSeen ==
    ASSUME Desktop, SInv, NEW h \in BinSlots, Flush(h) PROVE Saved' /\ Step
<1>1. bins[h] # NoFile /\ disk' = Flushed(bins[h]) /\ texts' = texts BY DEF Flush
<1>2. bins[h].pos + Len(bins[h].pending) \in 0 .. MaxLen
  <2>1. bins[h].pos \in Nat /\ Len(bins[h].pending) \in Nat /\ MaxLen \in Nat
        /\ bins[h].pos + Len(bins[h].pending) <= MaxLen
    BY <1>1, FilesAre, SavesAreContents, FilesAssumption DEF SInv, Handle
  <2> QED BY <2>1
<1>3. bins' = [bins EXCEPT ![h] = [bins[h] EXCEPT !.pos = bins[h].pos + Len(bins[h].pending),
                                                  !.pending = <<>>]]
  BY FilesAre DEF Flush, Handles, SInv
<1> QED BY <1>1, <1>2, <1>3, FlushedSeen

LEMMA BinSeekSeen ==
    ASSUME Desktop, SInv, NEW h \in BinSlots, NEW pos \in 0 .. MaxLen, BinSeek(h, pos)
    PROVE  Saved' /\ Step
<1>1. bins[h] # NoFile /\ disk' = Flushed(bins[h]) /\ texts' = texts BY DEF BinSeek
<1>2. bins' = [bins EXCEPT ![h] = [bins[h] EXCEPT !.pos = pos, !.pending = <<>>]]
  BY FilesAre DEF BinSeek, Handles, SInv
<1> QED BY <1>1, <1>2, FlushedSeen

LEMMA BinCloseSeen ==
    ASSUME Desktop, SInv, NEW h \in BinSlots, BinClose(h) PROVE Saved' /\ Step
<1>1. bins[h] # NoFile /\ disk' = Flushed(bins[h]) /\ texts' = texts
      /\ bins' = [bins EXCEPT ![h] = NoFile]
  BY DEF BinClose
<1>2. bins[h] \in Bin BY <1>1, FilesAre DEF SInv
<1>3. disk'["bundle"] = Bundled BY <1>1, FlushSeen
<1>4. CASE StreamOf(bins[h]) = NoFile
  <2>1. Fs' = Fs BY <1>1, <1>4, FlushSeen
  <2>2. StreamOf(NoFile) = StreamOf(bins[h]) BY <1>4, NoStreamOfNone
  <2> QED BY <1>1, <1>3, <2>1, <2>2, UnseenStep
<1>5. CASE StreamOf(bins[h]) # NoFile
  <2>p. PICK p : p = bins[h].path OBVIOUS
  <2>1. bins[h].linked BY <1>2, <1>5, StreamIs
  <2>2. p \in Paths /\ Fs'[p] # Absent /\ Fs' = [Fs EXCEPT ![p] = Fs'[p]]
    BY <1>1, <2>1, <2>p, FlushSeen
  <2>3. bins[h].path = p BY <2>p
  <2> QED BY <1>1, <1>3, <1>5, <2>2, <2>3, NoStreamOfNone, WriteStep
<1> QED BY <1>4, <1>5

LEMMA BinRewriteSeen ==
    ASSUME Desktop, SInv, NEW h \in BinSlots, BinRewrite(h) PROVE Saved' /\ Step
<1> DEFINE p == bins[h].path
<1>1. /\ bins[h].area = "save" /\ p \in Paths /\ "save" \in Areas /\ texts' = texts
      /\ bins[h] # NoFile
  BY FilesAre DEF BinRewrite, Writable, Desktop, Areas, SInv
<1>2. PICK b : b = Opened("save", p, "write") OBVIOUS
<1>3. /\ b.area = "save" /\ b.path = p /\ b.mode = "write" /\ b.linked
      /\ StreamOf(b) = [path |-> p, mode |-> "write"]
  <2>1. [path |-> p, mode |-> "write"] \in [path : Paths, mode : Modes] BY <1>1 DEF Modes
  <2>2. [path |-> p, mode |-> "write"] # NoFile BY <2>1, FilesAssumption
  <2>3. MaxLen \in Nat /\ <<>> \in Saves BY FilesAssumption, SavesAreContents
  <2>4. b \in Bin BY <1>1, <1>2, <2>3 DEF Opened, Bin, Modes
  <2>5. b # NoFile BY <2>4, FilesAssumption
  <2> QED BY <1>2, <2>2, <2>5 DEF Opened, StreamOf
<1>4. bins' = [bins EXCEPT ![h] = b] BY <1>1, <1>2 DEF BinRewrite
<1>5. disk \in Disks /\ disk["bundle"] = Bundled BY FilesAre DEF SInv, Saved
<1>6. /\ disk' \in Disks /\ <<>> # Absent
      /\ \A a \in Areas, q \in Paths :
            disk'[a][q] = IF a = "save" /\ q = p THEN <<>> ELSE disk[a][q]
  BY <1>1, RewrittenIs DEF SInv
<1>7. \A q \in Paths : disk'["bundle"][q] = disk["bundle"][q]
                       /\ (q # p => disk'["save"][q] = disk["save"][q])
  BY <1>6 DEF Areas
<1>8. disk'["bundle"] = Bundled BY <1>5, <1>6, <1>7, BundleKept
<1>9. Fs'[p] = <<>> BY <1>1, <1>6, ViewIsNext
<1>10. Fs' = [Fs EXCEPT ![p] = <<>>] BY <1>1, <1>7, <1>9, OneFileChanges
<1>11. Handles(bins, disk) /\ bins[h] \in Bin BY <1>1, FilesAre DEF SInv
<1>12. /\ Ss' = [Ss EXCEPT ![h] = [path |-> p, mode |-> "write"]]
       /\ Ss[h] = StreamOf(bins[h])
  <2>1. Ss' = [Ss EXCEPT ![h] = StreamOf(b)] /\ Ss[h] = StreamOf(bins[h])
    BY <1>4, <1>11, OneStream
  <2> HIDE DEF p
  <2> QED BY <1>3, <2>1
<1>13. Ss[h] # NoFile => Ss[h].path = p BY <1>11, <1>12, StreamIs
<1>14. Step BY <1>1, <1>10, <1>12, <1>13, SameTexts, BeginsEmpty
<1> QED BY <1>3, <1>4, <1>8, <1>14, OneHandle

LEMMA FileDeleteSeen ==
    ASSUME Desktop, SInv, NEW n \in Names, FileDelete(n) PROVE Saved' /\ Step
<1> DEFINE p == n.path
           Gone(h) == bins[h] # NoFile /\ bins[h].area = "save" /\ bins[h].path = p
<1>1. AreaForWrite(n) = "save" /\ p \in Paths
  BY FilesAre, NamesAre DEF FileDelete, AreaForWrite, Writable, Desktop, SInv
<1>2. disk \in Disks /\ disk["bundle"] = Bundled BY FilesAre DEF SInv, Saved
<1>3. /\ disk' \in Disks
      /\ \A a \in Areas, q \in Paths :
            disk'[a][q] = IF a = "save" /\ q = p THEN Absent ELSE disk[a][q]
  BY <1>1, DeletedIs DEF SInv
<1>4. /\ \A q \in Paths : disk'["bundle"][q] = disk["bundle"][q]
                          /\ (q # p => disk'["save"][q] = disk["save"][q])
      /\ disk'["save"][p] = Absent
  BY <1>1, <1>3 DEF Areas
<1>5. disk'["bundle"] = Bundled BY <1>2, <1>3, <1>4, BundleKept
<1>6. Fs'[p] = Bundled[p] BY <1>1, <1>4, <1>5, ViewIsNext
<1>7. Fs' = [Fs EXCEPT ![p] = Bundled[p]] BY <1>1, <1>4, <1>6, OneFileChanges
<1>8. bins' = [h \in BinSlots |-> IF Gone(h) THEN [bins[h] EXCEPT !.linked = FALSE] ELSE bins[h]]
  BY <1>1 DEF FileDelete
<1>9. ASSUME NEW h \in BinSlots
      PROVE  /\ Gone(h) => ~ bins'[h].linked /\ bins'[h].area = "save"
             /\ ~ Gone(h) => bins'[h] = bins[h]
  <2>1. CASE Gone(h)
    <3>1. bins[h] \in Bin BY <2>1, FilesAre DEF SInv
    <3>2. bins'[h] = [bins[h] EXCEPT !.linked = FALSE] BY <1>8, <2>1
    <3> QED BY <3>1, <3>2, <2>1 DEF Bin
  <2>2. CASE ~ Gone(h) BY <1>8, <2>2
  <2> QED BY <2>1, <2>2
<1>10. Saved' BY <1>5, <1>9 DEF SInv, Saved
<1>11. ASSUME NEW k \in BinSlots
       PROVE  Ss'[k] = IF Ss[k] # NoFile /\ Ss[k].path = p THEN NoFile ELSE Ss[k]
  <2>1. Ss[k] = StreamOf(bins[k]) /\ Ss'[k] = StreamOf(bins'[k]) BY DEF Ss, StreamOf
  <2>2. CASE Gone(k)
    <3>1. StreamOf(bins'[k]) = NoFile BY <1>9, <2>2 DEF StreamOf
    <3>2. Ss[k] # NoFile => Ss[k].path = p BY <2>1, <2>2 DEF StreamOf
    <3> QED BY <2>1, <3>1, <3>2
  <2>3. CASE ~ Gone(k)
    <3>1. bins'[k] = bins[k] BY <1>9, <2>3
    <3>2. bins[k] # NoFile /\ bins[k].mode # "read" => bins[k].area = "save" BY DEF SInv, Saved
    <3>3. Ss[k] # NoFile => bins[k] # NoFile /\ bins[k].mode # "read" /\ Ss[k].path = bins[k].path
      BY <2>1 DEF StreamOf
    <3> QED BY <2>1, <2>3, <3>1, <3>2, <3>3
  <2> QED BY <2>2, <2>3
<1>12. Ss' = [k \in BinSlots |-> Ss'[k]] BY DEF Ss
<1>13. Ss' = [k \in BinSlots |-> IF Ss[k] # NoFile /\ Ss[k].path = p THEN NoFile ELSE Ss[k]]
  BY <1>11, <1>12
<1>14. texts' = texts BY DEF FileDelete
<1> QED BY <1>1, <1>7, <1>10, <1>13, <1>14, SameTexts, Deletes

LEMMA ForgetSeen ==
    ASSUME Forget
    PROVE  Ws' = [h \in TextSlots |-> NoFile] /\ Ss' = [h \in BinSlots |-> NoFile]
  BY DEF Forget, Ws, Ss, IsWriter, StreamOf

LEMMA ResetSeen ==
    ASSUME Desktop, SInv, Reset PROVE Saved' /\ Step
<1>1. Ws' = [h \in TextSlots |-> NoFile] /\ Ss' = [h \in BinSlots |-> NoFile]
  BY ForgetSeen DEF Reset
<1>2. disk \in Disks /\ disk["bundle"] = Bundled BY FilesAre DEF SInv, Saved
<1>3. /\ disk' \in Disks
      /\ \A a \in Areas, p \in Paths :
            /\ disk[a][p] # Absent => disk'[a][p] # Absent
            /\ disk'[a][p] # disk[a][p] =>
                  \E h \in BinSlots : /\ bins[h] # NoFile /\ bins[h].linked
                                      /\ bins[h].area = a /\ bins[h].path = p
                                      /\ bins[h].pending # <<>>
  BY ClosedIs DEF SInv, IInv, Reset
<1>4. \A h \in BinSlots : bins[h] # NoFile /\ bins[h].pending # <<>> =>
                             bins[h].mode # "read" /\ bins[h].area = "save"
  BY DEF SInv, IInv, Saved, Buffered
<1>5. \A p \in Paths : disk'["bundle"][p] = disk["bundle"][p] BY <1>3, <1>4 DEF Areas
<1>6. disk'["bundle"] = Bundled BY <1>2, <1>3, <1>5, BundleKept
<1>7. ASSUME NEW p \in Paths
      PROVE  \/ Fs'[p] = Fs[p]
             \/ /\ Fs'[p] # Absent
                /\ \E h \in BinSlots : Ss[h] # NoFile /\ Ss[h].path = p
  <2>1. CASE disk'["save"][p] = disk["save"][p] BY <2>1, <1>5, ViewIs, ViewIsNext
  <2>2. CASE disk'["save"][p] # disk["save"][p]
    <3>1. "save" \in Areas BY DEF Areas
    <3>2. PICK h \in BinSlots : /\ bins[h] # NoFile /\ bins[h].linked
                                /\ bins[h].area = "save" /\ bins[h].path = p
                                /\ bins[h].pending # <<>>
      BY <3>1, <2>2, <1>3
    <3>3. bins[h] \in Bin /\ Ss[h] = StreamOf(bins[h]) BY <3>2, FilesAre DEF Ss, SInv
    <3>6. Ss[h] # NoFile /\ Ss[h].path = p BY <3>2, <3>3, <1>4, StreamIs
    <3>4. disk["save"][p] # Absent BY <3>2 DEF SInv, IInv, TypeOK
    <3>5. disk'["save"][p] # Absent BY <3>1, <3>4, <1>3
    <3> QED BY <3>5, <3>6, ViewIsNext
  <2> QED BY <2>1, <2>2
<1>8. Saved' BY <1>6 DEF Reset, Forget, Saved
<1> QED BY <1>1, <1>7, <1>8, Halts

LEMMA CrashSeen ==
    ASSUME Desktop, SInv, Crash PROVE Saved' /\ Step
<1>1. Ws' = [h \in TextSlots |-> NoFile] /\ Ss' = [h \in BinSlots |-> NoFile]
  BY ForgetSeen DEF Crash
<1>2. Fs' = Fs BY NoFileChanges DEF Crash
<1>3. Saved' BY DEF Crash, Forget, Saved, SInv
<1> QED BY <1>1, <1>2, <1>3, Halts

LEMMA InitSeen ==
    ASSUME Desktop, Init PROVE SInv /\ Game!GInit
<1>1. SInv BY InitHolds DEF SInv, Saved, Init
<1>2. ASSUME NEW p \in Paths, Fs[p] = Absent PROVE Bundled[p] = Absent
  BY <1>2, ViewIs DEF Init
<1>3. Ws = [h \in TextSlots |-> NoFile] /\ Ss = [h \in BinSlots |-> NoFile]
  BY DEF Init, Ws, Ss, IsWriter, StreamOf
<1>4. Game!GInit <=> /\ \A p \in Paths : Fs[p] = Absent => Bundled[p] = Absent
                     /\ Ws = [h \in TextSlots |-> NoFile] /\ Ss = [h \in BinSlots |-> NoFile]
  BY DEF Game!GInit, Fs, Ws, Ss
<1> QED BY <1>1, <1>2, <1>3, <1>4

LEMMA StepSeen ==
    ASSUME Desktop, SInv, [Next]_vars PROVE Saved' /\ Step
<1>1. ASSUME NEW n \in Names,
             \/ IniOpen(n) \/ TextOpenRead(n) \/ TextOpenWrite(n) \/ FileDelete(n)
             \/ BinOpenRead(n) \/ BinOpenWrite(n) \/ BinOpenUpdate(n)
             \/ \E c \in Saves : BufferSave(n, c)
      PROVE  Saved' /\ Step
  BY <1>1, IniOpenSeen, TextOpenReadSeen, TextOpenWriteSeen, FileDeleteSeen,
     BinOpenReadSeen, BinOpenWriteSeen, BinOpenUpdateSeen, BufferSaveSeen
<1>2. CASE (\E c \in Saves : IniOpenFromString(c)) \/ (\E v \in Values : IniWrite(v))
  BY <1>2, IniMemorySeen
<1>3. CASE IniClose BY <1>3, IniCloseSeen
<1>4. ASSUME NEW h \in TextSlots, TextClose(h) \/ \E v \in Values : TextWrite(h, v)
      PROVE  Saved' /\ Step
  BY <1>4, TextCloseSeen, TextWriteSeen
<1>5. ASSUME NEW h \in BinSlots,
             \/ Flush(h) \/ BinRewrite(h) \/ BinClose(h)
             \/ \E v \in Values : BinWrite(h, v)
             \/ \E pos \in 0 .. MaxLen : BinSeek(h, pos)
      PROVE  Saved' /\ Step
  BY <1>5, FlushActionSeen, BinRewriteSeen, BinCloseSeen, BinWriteSeen, BinSeekSeen
<1>6. CASE Reset BY <1>6, ResetSeen
<1>7. CASE Crash BY <1>7, CrashSeen
<1>8. CASE UNCHANGED vars
  <2>1. disk' = disk /\ texts' = texts /\ bins' = bins BY <1>8 DEF vars, store
  <2> QED BY <2>1, QuietSeen
<1> QED BY <1>1, <1>2, <1>3, <1>4, <1>5, <1>6, <1>7, <1>8 DEF Next

\* On the desktop, where reads fall through a save directory to a bundle that cannot be
\* written, game code sees one directory (GameFiles): texts appear whole, a file changes only
\* where it is stored to, under an open stream, or when one is opened on it; opening for
\* update keeps what is there, but for a file that came with the game; and deletion brings
\* that one back.
THEOREM OneDirectoryHolds ==
    ASSUME Desktop PROVE Spec => OneDirectory
<1>1. Init => SInv /\ Game!GInit BY InitSeen
<1>2. SInv /\ [Next]_vars => SInv' BY StepHolds, StepSeen DEF SInv
<1>3. SInv /\ [Next]_vars => [Game!GNext]_(Game!gvars) BY StepSeen DEF Step
<1> QED BY <1>1, <1>2, <1>3, PTL DEF Spec, OneDirectory, Game!GSpec
===============================================================================
