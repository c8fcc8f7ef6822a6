----------------------------- MODULE VMCallsProofs -----------------------------
(* Theorems about VMCalls: what a caller finds again when what it called has   *)
(* returned, for every nesting of code, with-blocks and try statements.        *)
EXTENDS VMCalls, FiniteSetTheorems, FunctionTheorems, TLAPS

-------------------------------------------------------------------------------
(* Sequences, as stacks                                                     *)

\* A prefix is a sequence of the first elements.
LEMMA PrefixOf ==
    ASSUME NEW S, NEW s \in Seq(S), NEW k \in 0 .. Len(s)
    PROVE  /\ SubSeq(s, 1, k) \in Seq(S) /\ Len(SubSeq(s, 1, k)) = k
           /\ \A i \in 1 .. k : SubSeq(s, 1, k)[i] = s[i]
OBVIOUS

\* Front drops the last element and keeps the others.
LEMMA FrontOf ==
    ASSUME NEW S, NEW s \in Seq(S), s # <<>>
    PROVE  /\ Front(s) \in Seq(S) /\ Len(Front(s)) = Len(s) - 1
           /\ Len(s) \in Nat /\ Len(s) >= 1
           /\ \A i \in 1 .. Len(s) - 1 : Front(s)[i] = s[i]
           /\ Last(s) = s[Len(s)] /\ Last(s) \in S
<1>1. Len(s) \in Nat /\ Len(s) >= 1 OBVIOUS
<1> DEFINE k == Len(s) - 1
<1>2. Front(s) = SubSeq(s, 1, k) BY DEF Front
<1>3. k \in 0 .. Len(s) BY <1>1
<1> HIDE DEF k
<1>4. /\ SubSeq(s, 1, k) \in Seq(S) /\ Len(SubSeq(s, 1, k)) = k
      /\ \A i \in 1 .. k : SubSeq(s, 1, k)[i] = s[i]
  BY <1>3, PrefixOf
<1>5. Last(s) = s[Len(s)] /\ s[Len(s)] \in S BY <1>1 DEF Last
<1> QED BY <1>1, <1>2, <1>4, <1>5 DEF k

\* The empty sequence is a sequence of anything.
LEMMA EmptyOf == ASSUME NEW S PROVE <<>> \in Seq(S)
OBVIOUS

\* Append adds one element after the others.
LEMMA AppendOf ==
    ASSUME NEW S, NEW s \in Seq(S), NEW e \in S
    PROVE  /\ Append(s, e) \in Seq(S) /\ Len(Append(s, e)) = Len(s) + 1 /\ Append(s, e) # <<>>
           /\ \A i \in 1 .. Len(s) : Append(s, e)[i] = s[i]
           /\ Append(s, e)[Len(s) + 1] = e /\ Last(Append(s, e)) = e /\ Len(s) \in Nat
BY DEF Last

\* The running code's frame is the last; an action replaces it and leaves the others.
LEMMA TopOf ==
    ASSUME NEW S, NEW s \in Seq(S), s # <<>>, NEW e \in S
    PROVE  LET t == [s EXCEPT ![Len(s)] = e] IN
           /\ t \in Seq(S) /\ Len(t) = Len(s) /\ t # <<>> /\ Last(t) = e /\ t[Len(s)] = e
           /\ \A i \in 1 .. Len(s) - 1 : t[i] = s[i]
BY DEF Last

-------------------------------------------------------------------------------
(* Frames                                                                   *)

\* What has a single last use: a landing that has not run its first instruction, a with
\* that has nobody to run for.
Special == {"caught", "landed", "skipped"}
Calm(f) == f.blocks # <<>> => Last(f.blocks).kind \notin Special

\* Only a with-block changes self and other.
Steady(f) ==
    \A m, k \in 0 .. Len(f.blocks) :
        m <= k /\ (\A j \in m + 1 .. k : ~IsWith(f.blocks[j])) =>
            SelfIn(f, k) = SelfIn(f, m) /\ OtherIn(f, k) = OtherIn(f, m)
\* Operands are pushed above those that were there when the block was entered.
Stacked(f) ==
    \A k, m \in 1 .. Len(f.blocks) : k <= m =>
        f.blocks[k].operands <= f.blocks[m].operands /\ f.blocks[m].operands <= f.operands
Orderly(f) ==
    \A k \in 1 .. Len(f.blocks) :
        /\ k < Len(f.blocks) => f.blocks[k].kind \notin Special
        /\ f.blocks[k].parked => f.blocks[k].kind = "finally"
\* A frame takes the caller's other, a script also its self.
Inherits(f) ==
    /\ f.kind = "script" => f.self = f.savedInstance
    /\ f.kind # "collision" => f.other = f.savedOther
GoodFrame == {f \in FrameRecord : Steady(f) /\ Stacked(f) /\ Orderly(f) /\ Inherits(f)}

\* The last block was entered with operands that are still there.
LEMMA LastBlock ==
    ASSUME NEW f \in GoodFrame, f.blocks # <<>>
    PROVE  /\ Last(f.blocks) \in BlockRecord /\ Last(f.blocks) = f.blocks[Len(f.blocks)]
           /\ Len(f.blocks) \in Nat /\ Len(f.blocks) >= 1
           /\ Last(f.blocks).operands \in Nat /\ f.operands \in Nat
           /\ Last(f.blocks).operands <= f.operands
<1>1. f \in FrameRecord /\ Stacked(f) BY DEF GoodFrame
<1>2. f.blocks \in Seq(BlockRecord) /\ f.operands \in Nat BY <1>1 DEF FrameRecord
<1>3. Last(f.blocks) \in BlockRecord /\ Last(f.blocks) = f.blocks[Len(f.blocks)]
      /\ Len(f.blocks) \in Nat /\ Len(f.blocks) >= 1
  BY <1>2, FrontOf
<1>4. Last(f.blocks).operands \in Nat BY <1>3 DEF BlockRecord
<1>5. Last(f.blocks).operands <= f.operands BY <1>1, <1>3 DEF Stacked
<1> QED BY <1>2, <1>3, <1>4, <1>5

\* A frame, with other operands or blocks.
WithOperands(f, m) == [f EXCEPT !.operands = m]
BlocksOf(f, blocks) == [f EXCEPT !.blocks = blocks]

\* Replacing a frame's blocks replaces nothing else.
LEMMA BlocksOfType ==
    ASSUME NEW f \in FrameRecord, NEW bs \in Seq(BlockRecord)
    PROVE  LET g == BlocksOf(f, bs) IN
           /\ g \in FrameRecord /\ g.blocks = bs /\ g.kind = f.kind /\ g.self = f.self
           /\ g.other = f.other /\ g.operands = f.operands /\ g.savedInstance = f.savedInstance
           /\ g.savedOther = f.savedOther /\ g.savedStack = f.savedStack
BY DEF BlocksOf, FrameRecord

\* A frame has entered a block: the new block sees the operands that are there, and self
\* and other unless it is a with-block.
LEMMA GoodEnter ==
    ASSUME NEW f \in GoodFrame, NEW b \in BlockRecord, Calm(f), b.operands = f.operands,
           ~b.parked, ~IsWith(b) => b.self = Self(f) /\ b.other = Other(f)
    PROVE  BlocksOf(f, Append(f.blocks, b)) \in GoodFrame
<1> DEFINE bs == f.blocks
           cs == Append(bs, b)
           g == BlocksOf(f, cs)
<1>1. f \in FrameRecord /\ Steady(f) /\ Stacked(f) /\ Orderly(f) /\ Inherits(f) BY DEF GoodFrame
<1>2. bs \in Seq(BlockRecord) /\ f.operands \in Nat BY <1>1 DEF FrameRecord
<1>3. /\ cs \in Seq(BlockRecord) /\ Len(cs) = Len(bs) + 1 /\ Len(bs) \in Nat
      /\ \A i \in 1 .. Len(bs) : cs[i] = bs[i]
      /\ cs[Len(bs) + 1] = b
  BY <1>2, AppendOf
<1>4. g \in FrameRecord /\ g.blocks = cs /\ g.kind = f.kind /\ g.self = f.self /\ g.other = f.other
      /\ g.operands = f.operands /\ g.savedInstance = f.savedInstance /\ g.savedOther = f.savedOther
  BY <1>1, <1>3, BlocksOfType
<1> HIDE DEF cs, g
<1>5. Inherits(g) BY <1>1, <1>4 DEF Inherits
<1>6. Orderly(g)
  <2> SUFFICES ASSUME NEW k \in 1 .. Len(cs)
               PROVE  (k < Len(cs) => cs[k].kind \notin Special) /\ (cs[k].parked => cs[k].kind = "finally")
    BY <1>4 DEF Orderly
  <2>1. CASE k <= Len(bs) - 1 BY <2>1, <1>1, <1>3, SMTT(30) DEF Orderly
  <2>2. CASE k = Len(bs)
    <3>1. bs # <<>> /\ Last(bs) = bs[k] BY <2>2, <1>2 DEF Last
    <3>2. bs[k].kind \notin Special BY <3>1 DEF Calm
    <3> QED BY <3>2, <2>2, <1>1, <1>3 DEF Orderly
  <2>3. CASE k = Len(bs) + 1 BY <2>3, <1>3
  <2> QED BY <2>1, <2>2, <2>3, <1>3
<1>7. Stacked(g)
  <2> SUFFICES ASSUME NEW k \in 1 .. Len(cs), NEW m \in 1 .. Len(cs), k <= m
               PROVE  cs[k].operands <= cs[m].operands /\ cs[m].operands <= f.operands
    BY <1>4 DEF Stacked
  <2>1. CASE m <= Len(bs) BY <2>1, <1>1, <1>3 DEF Stacked
  <2>2. CASE m = Len(bs) + 1 /\ k <= Len(bs)
    <3>1. bs[k].operands <= f.operands BY <2>2, <1>1, <1>3 DEF Stacked
    <3> QED BY <3>1, <2>2, <1>2, <1>3
  <2>3. CASE m = Len(bs) + 1 /\ k = Len(bs) + 1 BY <2>3, <1>2, <1>3
  <2> QED BY <2>1, <2>2, <2>3, <1>3
<1>8. Steady(g)
  <2>1. \A m \in 0 .. Len(bs) : SelfIn(g, m) = SelfIn(f, m) /\ OtherIn(g, m) = OtherIn(f, m)
    BY <1>3, <1>4 DEF SelfIn, OtherIn
  <2>2. SelfIn(g, Len(bs) + 1) = b.self /\ OtherIn(g, Len(bs) + 1) = b.other
    BY <1>3, <1>4 DEF SelfIn, OtherIn
  <2> SUFFICES ASSUME NEW m \in 0 .. Len(cs), NEW k \in 0 .. Len(cs), m <= k,
                      \A j \in m + 1 .. k : ~IsWith(cs[j])
               PROVE  SelfIn(g, k) = SelfIn(g, m) /\ OtherIn(g, k) = OtherIn(g, m)
    BY <1>4 DEF Steady
  <2>3. CASE k <= Len(bs)
    <3>1. \A j \in m + 1 .. k : ~IsWith(bs[j]) BY <2>3, <1>3
    <3>2. SelfIn(f, k) = SelfIn(f, m) /\ OtherIn(f, k) = OtherIn(f, m)
      BY <3>1, <2>3, <1>1, <1>3, SMTT(30) DEF Steady
    <3> QED BY <3>2, <2>1, <2>3, <1>3
  <2>4. CASE m = Len(bs) + 1 BY <2>4, <1>3
  <2>5. CASE m <= Len(bs) /\ k = Len(bs) + 1
    <3>1. ~IsWith(b) BY <2>5, <1>3
    <3>2. \A j \in m + 1 .. Len(bs) : ~IsWith(bs[j]) BY <2>5, <1>3
    <3>3. SelfIn(f, Len(bs)) = SelfIn(f, m) /\ OtherIn(f, Len(bs)) = OtherIn(f, m)
      BY <3>2, <2>5, <1>1, <1>3 DEF Steady
    <3> QED BY <3>1, <3>3, <2>1, <2>2, <2>5, <1>3 DEF Self, Other
  <2> QED BY <2>3, <2>4, <2>5, <1>3
<1> QED BY <1>4, <1>5, <1>6, <1>7, <1>8 DEF GoodFrame, g, cs

\* A frame has left its innermost blocks.
LEMMA GoodTruncate ==
    ASSUME NEW f \in GoodFrame, NEW n \in 0 .. Len(f.blocks)
    PROVE  BlocksOf(f, SubSeq(f.blocks, 1, n)) \in GoodFrame
<1> DEFINE bs == f.blocks
           cs == SubSeq(bs, 1, n)
           g == BlocksOf(f, cs)
<1>1. f \in FrameRecord /\ Steady(f) /\ Stacked(f) /\ Orderly(f) /\ Inherits(f) BY DEF GoodFrame
<1>2. bs \in Seq(BlockRecord) /\ Len(bs) \in Nat BY <1>1 DEF FrameRecord
<1>3. cs \in Seq(BlockRecord) /\ Len(cs) = n /\ \A i \in 1 .. n : cs[i] = bs[i]
  BY <1>2, PrefixOf
<1>4. g \in FrameRecord /\ g.blocks = cs /\ g.kind = f.kind /\ g.self = f.self /\ g.other = f.other
      /\ g.operands = f.operands /\ g.savedInstance = f.savedInstance /\ g.savedOther = f.savedOther
  BY <1>1, <1>3, BlocksOfType
<1> HIDE DEF cs, g
<1>5. Inherits(g) BY <1>1, <1>4 DEF Inherits
<1>6. Orderly(g) BY <1>1, <1>2, <1>3, <1>4 DEF Orderly
<1>7. Stacked(g) BY <1>1, <1>2, <1>3, <1>4 DEF Stacked
<1>8. Steady(g)
  <2>1. \A m \in 0 .. n : SelfIn(g, m) = SelfIn(f, m) /\ OtherIn(g, m) = OtherIn(f, m)
    BY <1>2, <1>3, <1>4 DEF SelfIn, OtherIn
  <2> SUFFICES ASSUME NEW m \in 0 .. n, NEW k \in 0 .. n, m <= k,
                      \A j \in m + 1 .. k : ~IsWith(cs[j])
               PROVE  SelfIn(g, k) = SelfIn(g, m) /\ OtherIn(g, k) = OtherIn(g, m)
    BY <1>3, <1>4 DEF Steady
  <2>2. \A j \in m + 1 .. k : ~IsWith(bs[j]) BY <1>3
  <2> QED BY <2>1, <2>2, <1>1, <1>2 DEF Steady
<1> QED BY <1>4, <1>5, <1>6, <1>7, <1>8 DEF GoodFrame, g, cs

\* A frame's last block has become another with the same operands; unless it is a
\* with-block, of the same self and other.
LEMMA GoodBecome ==
    ASSUME NEW f \in GoodFrame, f.blocks # <<>>, NEW b \in BlockRecord,
           b.operands = Last(f.blocks).operands, b.parked => b.kind = "finally",
           IsWith(b) \/ (~IsWith(Last(f.blocks)) /\ b.self = Self(f) /\ b.other = Other(f))
    PROVE  BlocksOf(f, Append(Front(f.blocks), b)) \in GoodFrame
<1> DEFINE bs == f.blocks
           n == Len(bs)
           cs == Append(Front(bs), b)
           g == BlocksOf(f, cs)
<1>1. f \in FrameRecord /\ Steady(f) /\ Stacked(f) /\ Orderly(f) /\ Inherits(f) BY DEF GoodFrame
<1>2. bs \in Seq(BlockRecord) /\ f.operands \in Nat BY <1>1 DEF FrameRecord
<1>3. n \in Nat /\ n >= 1 /\ Front(bs) \in Seq(BlockRecord) /\ Len(Front(bs)) = n - 1
      /\ Last(bs) = bs[n] /\ \A i \in 1 .. n - 1 : Front(bs)[i] = bs[i]
  BY <1>2, FrontOf
<1>4. cs \in Seq(BlockRecord) /\ Len(cs) = n /\ cs[n] = b /\ \A i \in 1 .. n - 1 : cs[i] = bs[i]
  BY <1>3, AppendOf
<1>5. g \in FrameRecord /\ g.blocks = cs /\ g.kind = f.kind /\ g.self = f.self /\ g.other = f.other
      /\ g.operands = f.operands /\ g.savedInstance = f.savedInstance /\ g.savedOther = f.savedOther
  BY <1>1, <1>4, BlocksOfType
<1> HIDE DEF cs, g
<1>6. Inherits(g) BY <1>1, <1>5 DEF Inherits
<1>7. Orderly(g) BY <1>1, <1>3, <1>4, <1>5 DEF Orderly
<1>8. Stacked(g) BY <1>1, <1>3, <1>4, <1>5 DEF Stacked
<1>9. Steady(g)
  <2>1. \A m \in 0 .. n - 1 : SelfIn(g, m) = SelfIn(f, m) /\ OtherIn(g, m) = OtherIn(f, m)
    BY <1>3, <1>4, <1>5, SMTT(30) DEF SelfIn, OtherIn
  <2>2. SelfIn(g, n) = b.self /\ OtherIn(g, n) = b.other
    BY <1>3, <1>4, <1>5 DEF SelfIn, OtherIn
  <2> SUFFICES ASSUME NEW m \in 0 .. n, NEW k \in 0 .. n, m <= k,
                      \A j \in m + 1 .. k : ~IsWith(cs[j])
               PROVE  SelfIn(g, k) = SelfIn(g, m) /\ OtherIn(g, k) = OtherIn(g, m)
    BY <1>4, <1>5 DEF Steady
  <2>3. CASE k <= n - 1
    <3>1. \A j \in m + 1 .. k : ~IsWith(bs[j]) BY <2>3, <1>3, <1>4
    <3> QED BY <3>1, <2>1, <2>3, <1>1, <1>3 DEF Steady
  <2>4. CASE m = n BY <2>4, <1>3
  <2>5. CASE m <= n - 1 /\ k = n
    <3>1. ~IsWith(b) BY <2>5, <1>3, <1>4
    <3>2. \A j \in m + 1 .. n : ~IsWith(bs[j]) BY <2>5, <1>3, <1>4, <3>1
    <3>3. SelfIn(f, n) = SelfIn(f, m) /\ OtherIn(f, n) = OtherIn(f, m)
      BY <3>2, <2>5, <1>1, <1>3 DEF Steady
    <3> QED BY <3>1, <3>3, <2>1, <2>2, <2>5, <1>3 DEF Self, Other
  <2> QED BY <2>3, <2>4, <2>5, <1>3
<1> QED BY <1>5, <1>6, <1>7, <1>8, <1>9 DEF GoodFrame, g, cs

\* A frame has other operands, those that its blocks were entered with among them.
LEMMA GoodOperands ==
    ASSUME NEW f \in GoodFrame, NEW m \in Nat, f.blocks # <<>> => Last(f.blocks).operands <= m
    PROVE  [f EXCEPT !.operands = m] \in GoodFrame
<1> DEFINE g == [f EXCEPT !.operands = m]
<1>1. f \in FrameRecord /\ Steady(f) /\ Stacked(f) /\ Orderly(f) /\ Inherits(f) BY DEF GoodFrame
<1>2. f.blocks \in Seq(BlockRecord) /\ Len(f.blocks) \in Nat BY <1>1 DEF FrameRecord
<1>3. g \in FrameRecord /\ g.blocks = f.blocks /\ g.kind = f.kind /\ g.self = f.self /\ g.other = f.other
      /\ g.operands = m /\ g.savedInstance = f.savedInstance /\ g.savedOther = f.savedOther
  BY <1>1 DEF FrameRecord
<1> HIDE DEF g
<1>4. Inherits(g) BY <1>1, <1>3 DEF Inherits
<1>5. Orderly(g) BY <1>1, <1>3 DEF Orderly
<1>6. Steady(g) BY <1>1, <1>3 DEF Steady, SelfIn, OtherIn
<1>7. Stacked(g)
  <2> SUFFICES ASSUME NEW k \in 1 .. Len(f.blocks), NEW l \in 1 .. Len(f.blocks), k <= l
               PROVE  f.blocks[k].operands <= f.blocks[l].operands /\ f.blocks[l].operands <= m
    BY <1>3 DEF Stacked
  <2>1. f.blocks # <<>> /\ Last(f.blocks) = f.blocks[Len(f.blocks)] BY <1>2 DEF Last
  <2>2. f.blocks[l].operands <= f.blocks[Len(f.blocks)].operands BY <1>1, <1>2 DEF Stacked
  <2>3. f.blocks[l] \in BlockRecord /\ f.blocks[Len(f.blocks)] \in BlockRecord BY <1>2
  <2>4. f.blocks[l].operands \in Nat /\ f.blocks[Len(f.blocks)].operands \in Nat
    BY <2>3 DEF BlockRecord
  <2> QED BY <2>1, <2>2, <2>4, <1>1 DEF Stacked
<1> QED BY <1>3, <1>4, <1>5, <1>6, <1>7 DEF GoodFrame, g

-------------------------------------------------------------------------------
(* The call depth                                                           *)

\* How many scripts and methods are among the first i frames.
DepthIn(fs, i) == Cardinality({j \in 1 .. i : IsCall(fs[j])})

\* The depth of a frame is that of the one below it, and one more for a script.
LEMMA DepthNext ==
    ASSUME NEW fs, NEW i \in Nat
    PROVE  /\ DepthIn(fs, 0) = 0 /\ DepthIn(fs, i) \in Nat
           /\ DepthIn(fs, i + 1) = DepthIn(fs, i) + (IF IsCall(fs[i + 1]) THEN 1 ELSE 0)
<1> DEFINE D(n) == {j \in 1 .. n : IsCall(fs[j])}
<1>1. IsFiniteSet(1 .. i) BY FS_Interval
<1>2. D(i) \in SUBSET (1 .. i) OBVIOUS
<1>3. IsFiniteSet(D(i)) BY <1>1, <1>2, FS_Subset
<1>4. Cardinality(D(i)) \in Nat BY <1>3, FS_CardinalityType
<1>5. D(0) = {} OBVIOUS
<1>6. Cardinality(D(0)) = 0 BY <1>5, FS_EmptySet
<1>7. D(i + 1) = IF IsCall(fs[i + 1]) THEN D(i) \cup {i + 1} ELSE D(i) OBVIOUS
<1>8. i + 1 \notin D(i) OBVIOUS
<1>9. Cardinality(D(i) \cup {i + 1}) = Cardinality(D(i)) + 1 BY <1>3, <1>8, FS_AddElement
<1> QED BY <1>4, <1>6, <1>7, <1>9 DEF DepthIn

\* The depth of a frame depends on the kinds of the frames up to it.
LEMMA DepthSame ==
    ASSUME NEW fs, NEW gs, NEW i \in Nat, \A j \in 1 .. i : gs[j].kind = fs[j].kind
    PROVE  DepthIn(gs, i) = DepthIn(fs, i)
<1>1. {j \in 1 .. i : IsCall(gs[j])} = {j \in 1 .. i : IsCall(fs[j])} BY DEF IsCall
<1> QED BY <1>1 DEF DepthIn

-------------------------------------------------------------------------------
(* Handlers                                                                 *)

\* The frames after the last one was replaced.
Replaced(fs, gs, g) == gs = [fs EXCEPT ![Len(fs)] = g]

\* The others are the same.
LEMMA TopFrame ==
    ASSUME NEW fs \in Seq(FrameRecord), fs # <<>>, NEW g \in FrameRecord,
           NEW gs, Replaced(fs, gs, g)
    PROVE  /\ gs \in Seq(FrameRecord) /\ Len(gs) = Len(fs) /\ gs # <<>> /\ Last(gs) = g
           /\ gs[Len(fs)] = g
           /\ \A i \in 1 .. Len(fs) - 1 : gs[i] = fs[i]
<1> DEFINE t == [fs EXCEPT ![Len(fs)] = g]
<1>1. t \in Seq(FrameRecord) BY TopOf
<1>2. Len(t) = Len(fs) /\ t # <<>> BY TopOf
<1>3. t[Len(fs)] = g BY TopOf
<1>6. Last(t) = t[Len(fs)] BY <1>2 DEF Last
<1>4. \A i \in 1 .. Len(fs) - 1 : t[i] = fs[i] BY TopOf
<1>5. gs = t BY DEF Replaced
<1> HIDE DEF t
<1> QED BY <1>1, <1>2, <1>3, <1>4, <1>5, <1>6

\* What was on the stack when the code of a frame began.
UnderOf(f) == IF IsCall(f) THEN f.savedStack ELSE <<>>

\* A handler knows the depth and the operands its try block was entered with.
Fits(fs, h) ==
    /\ h.frame \in 1 .. Len(fs) /\ h.block \in 1 .. Len(fs[h.frame].blocks)
    /\ Armed(fs[h.frame].blocks[h.block])
    /\ h.boundToCallDepth = DepthIn(fs, h.frame)
    /\ h.stackTop = Len(UnderOf(fs[h.frame])) + fs[h.frame].blocks[h.block].operands
Covered(fs, hs, i) ==
    \A k \in 1 .. Len(fs[i].blocks) : Armed(fs[i].blocks[k]) =>
        \E n \in 1 .. Len(hs) : hs[n].frame = i /\ hs[n].block = k
Before(h, j) == h.frame < j.frame \/ (h.frame = j.frame /\ h.block < j.block)
HandlersFit(fs, hs) ==
    /\ \A n \in 1 .. Len(hs) : Fits(fs, hs[n])
    /\ \A i \in 1 .. Len(fs) : Covered(fs, hs, i)
    /\ \A m, n \in 1 .. Len(hs) : m < n => Before(hs[m], hs[n])

\* What makes a handler fit is up to its own frame.
LEMMA FitsSame ==
    ASSUME NEW fs, NEW gs, NEW h \in HandlerRecord, Fits(fs, h), h.frame <= Len(gs), Len(gs) \in Nat,
           Len(fs) \in Nat,
           \A i \in 1 .. h.frame : gs[i].kind = fs[i].kind,
           gs[h.frame].savedStack = fs[h.frame].savedStack,
           h.block \in 1 .. Len(gs[h.frame].blocks),
           Armed(gs[h.frame].blocks[h.block]),
           gs[h.frame].blocks[h.block].operands = fs[h.frame].blocks[h.block].operands
    PROVE  Fits(gs, h)
<1>1. h.frame \in Nat /\ h.frame >= 1 BY DEF Fits, HandlerRecord
<1>2. DepthIn(gs, h.frame) = DepthIn(fs, h.frame) BY <1>1, DepthSame
<1>3. UnderOf(gs[h.frame]) = UnderOf(fs[h.frame]) BY <1>1 DEF UnderOf, IsCall
<1> QED BY <1>1, <1>2, <1>3 DEF Fits

\* New code has no try block yet.
LEMMA HandlersEnter ==
    ASSUME NEW fs \in Seq(FrameRecord), NEW hs \in Seq(HandlerRecord), HandlersFit(fs, hs),
           NEW f \in FrameRecord, f.blocks = <<>>
    PROVE  HandlersFit(Append(fs, f), hs)
<1> DEFINE gs == Append(fs, f)
<1>1. Len(gs) = Len(fs) + 1 /\ Len(fs) \in Nat /\ gs[Len(fs) + 1] = f
      /\ \A i \in 1 .. Len(fs) : gs[i] = fs[i]
  BY AppendOf
<1> HIDE DEF gs
<1>2. ASSUME NEW n \in 1 .. Len(hs) PROVE Fits(gs, hs[n])
  <2>1. Fits(fs, hs[n]) /\ hs[n] \in HandlerRecord BY DEF HandlersFit
  <2>2. hs[n].frame \in 1 .. Len(fs) BY <2>1 DEF Fits
  <2>3. gs[hs[n].frame] = fs[hs[n].frame] BY <2>2, <1>1
  <2>4. \A i \in 1 .. hs[n].frame : gs[i].kind = fs[i].kind BY <2>2, <1>1
  <2>5. hs[n].block \in 1 .. Len(gs[hs[n].frame].blocks) /\ Armed(gs[hs[n].frame].blocks[hs[n].block])
    BY <2>1, <2>3 DEF Fits
  <2> QED BY <1>1, <2>1, <2>2, <2>3, <2>4, <2>5, FitsSame, SMTT(30)
<1>3. ASSUME NEW i \in 1 .. Len(gs) PROVE Covered(gs, hs, i)
  <2>1. CASE i <= Len(fs)
    <3>1. Covered(fs, hs, i) BY <2>1, <1>1 DEF HandlersFit
    <3>2. gs[i] = fs[i] BY <2>1, <1>1
    <3> QED BY <3>1, <3>2 DEF Covered
  <2>2. CASE i = Len(fs) + 1 BY <2>2, <1>1 DEF Covered
  <2> QED BY <2>1, <2>2, <1>1
<1> QED BY <1>2, <1>3 DEF HandlersFit, gs

\* Code ends that has no try block left.
LEMMA HandlersLeave ==
    ASSUME NEW fs \in Seq(FrameRecord), fs # <<>>, NEW hs \in Seq(HandlerRecord), HandlersFit(fs, hs),
           \A k \in 1 .. Len(Last(fs).blocks) : ~Armed(Last(fs).blocks[k])
    PROVE  HandlersFit(Front(fs), hs)
<1> DEFINE gs == Front(fs)
<1>1. Len(gs) = Len(fs) - 1 /\ Len(fs) \in Nat /\ Len(fs) >= 1 /\ Last(fs) = fs[Len(fs)]
      /\ \A i \in 1 .. Len(fs) - 1 : gs[i] = fs[i]
  BY FrontOf
<1> HIDE DEF gs
<1>2. ASSUME NEW n \in 1 .. Len(hs) PROVE Fits(gs, hs[n])
  <2>1. Fits(fs, hs[n]) /\ hs[n] \in HandlerRecord BY DEF HandlersFit
  <2>2. hs[n].frame \in 1 .. Len(fs) /\ hs[n].frame # Len(fs) BY <2>1, <1>1 DEF Fits
  <2>3. gs[hs[n].frame] = fs[hs[n].frame] BY <2>2, <1>1
  <2>4. \A i \in 1 .. hs[n].frame : gs[i].kind = fs[i].kind BY <2>2, <1>1
  <2>5. hs[n].block \in 1 .. Len(gs[hs[n].frame].blocks) /\ Armed(gs[hs[n].frame].blocks[hs[n].block])
    BY <2>1, <2>3 DEF Fits
  <2>6. hs[n].frame <= Len(gs) /\ Len(gs) \in Nat BY <2>2, <1>1
  <2> QED BY <1>1, <2>1, <2>3, <2>4, <2>5, <2>6, FitsSame
<1>3. ASSUME NEW i \in 1 .. Len(gs) PROVE Covered(gs, hs, i)
  <2>1. Covered(fs, hs, i) BY <1>1 DEF HandlersFit
  <2>2. gs[i] = fs[i] BY <1>1
  <2> QED BY <2>1, <2>2 DEF Covered
<1> QED BY <1>2, <1>3 DEF HandlersFit, gs

\* The fields of a frame that nothing changes while its code runs.
Kin(f, g) ==
    /\ g.kind = f.kind /\ g.savedStack = f.savedStack
    /\ g.self = f.self /\ g.other = f.other
    /\ g.savedInstance = f.savedInstance /\ g.savedOther = f.savedOther
ArmedIn(f) == {k \in 1 .. Len(f.blocks) : Armed(f.blocks[k])}

\* The running code keeps its armed blocks, and the operands they were entered with.
LEMMA HandlersTop ==
    ASSUME NEW fs \in Seq(FrameRecord), fs # <<>>, NEW hs \in Seq(HandlerRecord), HandlersFit(fs, hs),
           NEW g \in FrameRecord, Kin(Last(fs), g), ArmedIn(g) = ArmedIn(Last(fs)),
           \A k \in ArmedIn(g) : g.blocks[k].operands = Last(fs).blocks[k].operands,
           NEW gs, Replaced(fs, gs, g)
    PROVE  HandlersFit(gs, hs)
<1>1. Len(gs) = Len(fs) /\ gs[Len(fs)] = g /\ \A i \in 1 .. Len(fs) - 1 : gs[i] = fs[i]
  BY TopFrame
<1>2. Len(fs) \in Nat /\ Len(fs) >= 1 /\ Last(fs) = fs[Len(fs)] BY FrontOf
<1>3. ASSUME NEW n \in 1 .. Len(hs) PROVE Fits(gs, hs[n])
  <2> DEFINE h == hs[n]
  <2>1. Fits(fs, h) /\ h \in HandlerRecord BY DEF HandlersFit
  <2> HIDE DEF h
  <2>2. h.frame \in 1 .. Len(fs) /\ h.block \in 1 .. Len(fs[h.frame].blocks)
        /\ Armed(fs[h.frame].blocks[h.block])
    BY <2>1 DEF Fits
  <2>3. \A i \in 1 .. Len(fs) : gs[i].kind = fs[i].kind /\ gs[i].savedStack = fs[i].savedStack
    BY <1>1, <1>2 DEF Kin
  <2>4. h.block \in 1 .. Len(gs[h.frame].blocks) /\ Armed(gs[h.frame].blocks[h.block])
        /\ gs[h.frame].blocks[h.block].operands = fs[h.frame].blocks[h.block].operands
    <3>1. CASE h.frame < Len(fs) BY <3>1, <2>2, <1>1, <1>2, SMTT(30)
    <3>2. CASE h.frame = Len(fs) BY <3>2, <2>2, <1>1, <1>2, ZenonT(30) DEF ArmedIn
    <3> QED BY <3>1, <3>2, <2>2, <1>2
  <2>5. \A i \in 1 .. h.frame : gs[i].kind = fs[i].kind BY <2>3, <2>2, <1>2
  <2>6. gs[h.frame].savedStack = fs[h.frame].savedStack BY <2>3, <2>2
  <2>7. h.frame <= Len(gs) BY <2>2, <1>1, <1>2
  <2>8. Fits(gs, h) BY <2>1, <2>4, <2>5, <2>6, <2>7, <1>1, <1>2, FitsSame
  <2> QED BY <2>8 DEF h
<1>4. ASSUME NEW i \in 1 .. Len(gs) PROVE Covered(gs, hs, i)
  <2>1. Covered(fs, hs, i) BY <1>1 DEF HandlersFit
  <2>2. CASE i < Len(fs)
    <3>1. gs[i] = fs[i] BY <2>2, <1>1
    <3> QED BY <2>1, <3>1 DEF Covered
  <2>3. CASE i = Len(fs)
    <3> SUFFICES ASSUME NEW k \in 1 .. Len(gs[i].blocks), Armed(gs[i].blocks[k])
                 PROVE  \E n \in 1 .. Len(hs) : hs[n].frame = i /\ hs[n].block = k
      BY DEF Covered
    <3>1. gs[i] = g /\ fs[i] = Last(fs) BY <2>3, <1>1, <1>2
    <3>2. k \in ArmedIn(Last(fs)) BY <3>1 DEF ArmedIn
    <3>3. k \in 1 .. Len(fs[i].blocks) /\ Armed(fs[i].blocks[k]) BY <3>1, <3>2 DEF ArmedIn
    <3> QED BY <2>1, <3>3 DEF Covered
  <2> QED BY <2>2, <2>3, <1>1, <1>2
<1> QED BY <1>3, <1>4 DEF HandlersFit

\* The innermost armed block of the running code has the last handler.
LEMMA LastHandler ==
    ASSUME NEW fs \in Seq(FrameRecord), fs # <<>>, NEW hs \in Seq(HandlerRecord), HandlersFit(fs, hs),
           NEW k \in ArmedIn(Last(fs)), \A j \in ArmedIn(Last(fs)) : j <= k
    PROVE  hs # <<>> /\ Last(hs).frame = Len(fs) /\ Last(hs).block = k
<1>1. Len(fs) \in Nat /\ Len(fs) >= 1 /\ Last(fs) = fs[Len(fs)] BY FrontOf
<1>2. PICK n \in 1 .. Len(hs) : hs[n].frame = Len(fs) /\ hs[n].block = k
  <2>1. Covered(fs, hs, Len(fs)) BY <1>1 DEF HandlersFit
  <2>2. k \in 1 .. Len(fs[Len(fs)].blocks) /\ Armed(fs[Len(fs)].blocks[k]) BY <1>1 DEF ArmedIn
  <2> QED BY <2>1, <2>2 DEF Covered
<1>3. hs # <<>> /\ Len(hs) \in Nat /\ Last(hs) = hs[Len(hs)] BY <1>2 DEF Last
<1>4. Fits(fs, Last(hs)) BY <1>2, <1>3 DEF HandlersFit
<1>5. Last(hs).frame \in 1 .. Len(fs) BY <1>4 DEF Fits
<1>6. CASE n = Len(hs) BY <1>6, <1>2, <1>3
<1>7. CASE n < Len(hs)
  <2>1. Before(hs[n], Last(hs)) BY <1>7, <1>2, <1>3 DEF HandlersFit
  <2>2. Last(hs).frame = Len(fs) /\ k < Last(hs).block BY <2>1, <1>2, <1>5, <1>1 DEF Before
  <2>3. Last(hs).block \in ArmedIn(Last(fs)) BY <2>2, <1>4, <1>1 DEF Fits, ArmedIn
  <2>4. k \in Nat /\ Last(hs).block \in Nat BY <2>3 DEF ArmedIn
  <2> QED BY <2>2, <2>3, <2>4
<1> QED BY <1>2, <1>3, <1>6, <1>7

\* Above the last handler's block the running code has no armed block; if the last
\* handler is of other code, it has none at all.
LEMMA NothingAbove ==
    ASSUME NEW fs \in Seq(FrameRecord), fs # <<>>, NEW hs \in Seq(HandlerRecord), HandlersFit(fs, hs),
           NEW k \in ArmedIn(Last(fs))
    PROVE  hs # <<>> /\ Last(hs).frame = Len(fs) /\ k <= Last(hs).block
<1>1. Len(fs) \in Nat /\ Len(fs) >= 1 /\ Last(fs) = fs[Len(fs)] BY FrontOf
<1>2. PICK n \in 1 .. Len(hs) : hs[n].frame = Len(fs) /\ hs[n].block = k
  <2>1. Covered(fs, hs, Len(fs)) BY <1>1 DEF HandlersFit
  <2>2. k \in 1 .. Len(fs[Len(fs)].blocks) /\ Armed(fs[Len(fs)].blocks[k]) BY <1>1 DEF ArmedIn
  <2> QED BY <2>1, <2>2 DEF Covered
<1>3. hs # <<>> /\ Len(hs) \in Nat /\ Last(hs) = hs[Len(hs)] BY <1>2 DEF Last
<1>4. Fits(fs, Last(hs)) BY <1>2, <1>3 DEF HandlersFit
<1>5. Last(hs).frame \in 1 .. Len(fs) /\ k \in Nat BY <1>4 DEF Fits, ArmedIn
<1>6. CASE n = Len(hs) BY <1>6, <1>2, <1>3, <1>5
<1>7. CASE n < Len(hs)
  <2>1. Before(hs[n], Last(hs)) BY <1>7, <1>2, <1>3 DEF HandlersFit
  <2>2. Last(hs).frame = Len(fs) /\ k < Last(hs).block BY <2>1, <1>2, <1>5, <1>1 DEF Before
  <2>3. Last(hs).block \in Nat BY <1>4 DEF Fits
  <2> QED BY <2>2, <2>3, <1>3, <1>5
<1> QED BY <1>2, <1>3, <1>6, <1>7

\* The running code has entered a try block.
LEMMA HandlersArm ==
    ASSUME NEW fs \in Seq(FrameRecord), fs # <<>>, NEW hs \in Seq(HandlerRecord), HandlersFit(fs, hs),
           NEW g \in FrameRecord, Kin(Last(fs), g),
           NEW b \in BlockRecord, Armed(b), g.blocks = Append(Last(fs).blocks, b),
           NEW h \in HandlerRecord, h.frame = Len(fs), h.block = Len(Last(fs).blocks) + 1,
           h.boundToCallDepth = DepthIn(fs, Len(fs)),
           h.stackTop = Len(UnderOf(Last(fs))) + b.operands,
           NEW gs, Replaced(fs, gs, g)
    PROVE  HandlersFit(gs, Append(hs, h))
<1> DEFINE js == Append(hs, h)
           L == Len(Last(fs).blocks)
<1>1. Len(gs) = Len(fs) /\ gs[Len(fs)] = g /\ \A i \in 1 .. Len(fs) - 1 : gs[i] = fs[i]
  BY TopFrame
<1>2. Len(fs) \in Nat /\ Len(fs) >= 1 /\ Last(fs) = fs[Len(fs)] /\ Last(fs) \in FrameRecord BY FrontOf
<1>3. Last(fs).blocks \in Seq(BlockRecord) BY <1>2 DEF FrameRecord
<1>4. /\ L \in Nat /\ Len(g.blocks) = L + 1 /\ g.blocks[L + 1] = b
      /\ \A k \in 1 .. L : g.blocks[k] = Last(fs).blocks[k]
  BY <1>3, AppendOf
<1>5. /\ Len(js) = Len(hs) + 1 /\ Len(hs) \in Nat /\ js[Len(hs) + 1] = h
      /\ \A n \in 1 .. Len(hs) : js[n] = hs[n]
  BY AppendOf
<1>6. h.block = L + 1 OBVIOUS
<1> HIDE DEF js, L
<1>7. \A i \in 1 .. Len(fs) : gs[i].kind = fs[i].kind /\ gs[i].savedStack = fs[i].savedStack
  BY <1>1, <1>2 DEF Kin
<1>8. Fits(gs, h)
  <2>1. DepthIn(gs, Len(fs)) = DepthIn(fs, Len(fs)) BY <1>2, <1>7, DepthSame
  <2>2. UnderOf(gs[Len(fs)]) = UnderOf(Last(fs)) BY <1>2, <1>7 DEF UnderOf, IsCall
  <2> QED BY <2>1, <2>2, <1>1, <1>2, <1>4, <1>6 DEF Fits
<1>9. ASSUME NEW n \in 1 .. Len(hs) PROVE Fits(gs, hs[n]) /\ Before(hs[n], h)
  <2> DEFINE j == hs[n]
  <2>1. Fits(fs, j) /\ j \in HandlerRecord BY DEF HandlersFit
  <2> HIDE DEF j
  <2>2. j.frame \in 1 .. Len(fs) /\ j.block \in 1 .. Len(fs[j.frame].blocks)
        /\ Armed(fs[j.frame].blocks[j.block])
    BY <2>1 DEF Fits
  <2>3. j.block \in 1 .. Len(gs[j.frame].blocks) /\ gs[j.frame].blocks[j.block] = fs[j.frame].blocks[j.block]
    <3>1. CASE j.frame < Len(fs)
      <4>1. j.frame \in 1 .. Len(fs) - 1 BY <3>1, <2>2, <1>2
      <4>2. gs[j.frame] = fs[j.frame] BY <4>1, <1>1
      <4> QED BY <4>2, <2>2
    <3>2. CASE j.frame = Len(fs)
      <4>1. gs[j.frame] = g /\ fs[j.frame] = Last(fs) /\ j.block \in 1 .. L
        BY <3>2, <2>2, <1>1, <1>2 DEF L
      <4> QED BY <4>1, <1>4
    <3> QED BY <3>1, <3>2, <2>2, <1>2
  <2>4. \A i \in 1 .. j.frame : gs[i].kind = fs[i].kind BY <1>7, <2>2, <1>2
  <2>5. gs[j.frame].savedStack = fs[j.frame].savedStack BY <1>7, <2>2
  <2>6. j.frame <= Len(gs) BY <2>2, <1>1, <1>2
  <2>7. Fits(gs, j) BY <2>1, <2>2, <2>3, <2>4, <2>5, <2>6, <1>1, <1>2, FitsSame
  <2>8. Before(j, h)
    <3>1. CASE j.frame < Len(fs) BY <3>1 DEF Before
    <3>2. CASE j.frame = Len(fs)
      <4>1. j.block \in 1 .. L BY <3>2, <2>2, <1>2 DEF L
      <4> QED BY <4>1, <3>2, <1>4, <1>6 DEF Before
    <3> QED BY <3>1, <3>2, <2>2, <1>2
  <2> QED BY <2>7, <2>8 DEF j
<1>10. \A n \in 1 .. Len(js) : Fits(gs, js[n]) BY <1>5, <1>8, <1>9
<1>11. ASSUME NEW i \in 1 .. Len(gs) PROVE Covered(gs, js, i)
  <2>1. Covered(fs, hs, i) BY <1>1 DEF HandlersFit
  <2> SUFFICES ASSUME NEW k \in 1 .. Len(gs[i].blocks), Armed(gs[i].blocks[k])
               PROVE  \E n \in 1 .. Len(js) : js[n].frame = i /\ js[n].block = k
    BY DEF Covered
  <2>2. CASE k \in 1 .. Len(fs[i].blocks) /\ Armed(fs[i].blocks[k])
    <3>1. PICK n \in 1 .. Len(hs) : hs[n].frame = i /\ hs[n].block = k
      BY <2>1, <2>2 DEF Covered
    <3>2. n \in 1 .. Len(js) /\ js[n] = hs[n] BY <3>1, <1>5
    <3> QED BY <3>1, <3>2
  <2>3. CASE i = Len(fs) /\ k = L + 1
    <3>1. Len(hs) + 1 \in 1 .. Len(js) /\ js[Len(hs) + 1] = h BY <1>5
    <3> QED BY <3>1, <2>3, <1>6
  <2>4. CASE i < Len(fs)
    <3>1. gs[i] = fs[i] BY <2>4, <1>1
    <3> QED BY <3>1, <2>2
  <2>5. CASE i = Len(fs) /\ k # L + 1
    <3>1. gs[i] = g /\ fs[i] = Last(fs) BY <2>5, <1>1, <1>2
    <3>2. k \in 1 .. L BY <3>1, <2>5, <1>4
    <3>3. k \in 1 .. Len(fs[i].blocks) /\ Armed(fs[i].blocks[k]) BY <3>1, <3>2, <1>4 DEF L
    <3> QED BY <3>3, <2>2
  <2> QED BY <2>3, <2>4, <2>5, <1>1, <1>2
<1>12. \A m, n \in 1 .. Len(js) : m < n => Before(js[m], js[n])
  <2> SUFFICES ASSUME NEW m \in 1 .. Len(js), NEW n \in 1 .. Len(js), m < n
               PROVE  Before(js[m], js[n])
    OBVIOUS
  <2>1. CASE n <= Len(hs)
    <3>1. m \in 1 .. Len(hs) /\ n \in 1 .. Len(hs) BY <2>1, <1>5
    <3>2. Before(hs[m], hs[n]) BY <3>1 DEF HandlersFit
    <3> QED BY <3>1, <3>2, <1>5
  <2>2. CASE n = Len(hs) + 1
    <3>1. m \in 1 .. Len(hs) BY <2>2, <1>5
    <3> QED BY <3>1, <2>2, <1>5, <1>9
  <2>3. n <= Len(hs) \/ n = Len(hs) + 1 BY <1>5
  <2> QED BY <2>1, <2>2, <2>3
<1> QED BY <1>10, <1>11, <1>12 DEF HandlersFit, js

\* The running code's innermost armed block is armed no more.
LEMMA HandlersDisarm ==
    ASSUME NEW fs \in Seq(FrameRecord), fs # <<>>, NEW hs \in Seq(HandlerRecord), HandlersFit(fs, hs),
           NEW g \in FrameRecord, Kin(Last(fs), g),
           NEW k \in ArmedIn(Last(fs)), \A j \in ArmedIn(Last(fs)) : j <= k,
           ArmedIn(g) = ArmedIn(Last(fs)) \ {k},
           \A j \in ArmedIn(g) : g.blocks[j].operands = Last(fs).blocks[j].operands,
           NEW gs, Replaced(fs, gs, g)
    PROVE  HandlersFit(gs, Front(hs))
<1> DEFINE js == Front(hs)
<1>1. Len(gs) = Len(fs) /\ gs[Len(fs)] = g /\ \A i \in 1 .. Len(fs) - 1 : gs[i] = fs[i]
  BY TopFrame
<1>2. Len(fs) \in Nat /\ Len(fs) >= 1 /\ Last(fs) = fs[Len(fs)] BY FrontOf
<1>3. hs # <<>> /\ Last(hs).frame = Len(fs) /\ Last(hs).block = k BY LastHandler
<1>4. /\ Len(js) = Len(hs) - 1 /\ Len(hs) \in Nat /\ Len(hs) >= 1 /\ Last(hs) = hs[Len(hs)]
      /\ \A n \in 1 .. Len(hs) - 1 : js[n] = hs[n]
  BY <1>3, FrontOf
<1> HIDE DEF js
<1>5. \A i \in 1 .. Len(fs) : gs[i].kind = fs[i].kind /\ gs[i].savedStack = fs[i].savedStack
  BY <1>1, <1>2 DEF Kin
<1>6. ASSUME NEW n \in 1 .. Len(js) PROVE Fits(gs, js[n])
  <2> DEFINE h == hs[n]
  <2>1. Fits(fs, h) /\ h \in HandlerRecord /\ js[n] = h BY <1>4 DEF HandlersFit
  <2>2. Before(h, Last(hs)) BY <1>4 DEF HandlersFit
  <2> HIDE DEF h
  <2>3. h.frame \in 1 .. Len(fs) /\ h.block \in 1 .. Len(fs[h.frame].blocks)
        /\ Armed(fs[h.frame].blocks[h.block])
    BY <2>1 DEF Fits
  <2>4. h.block \in 1 .. Len(gs[h.frame].blocks) /\ Armed(gs[h.frame].blocks[h.block])
        /\ gs[h.frame].blocks[h.block].operands = fs[h.frame].blocks[h.block].operands
    <3>1. CASE h.frame < Len(fs)
      <4>1. h.frame \in 1 .. Len(fs) - 1 BY <3>1, <2>3, <1>2
      <4>2. gs[h.frame] = fs[h.frame] BY <4>1, <1>1
      <4> QED BY <4>2, <2>3
    <3>2. CASE h.frame = Len(fs)
      <4>1. h.block < k BY <3>2, <2>2, <1>2, <1>3 DEF Before
      <4>2. h.block \in ArmedIn(Last(fs)) BY <3>2, <2>3, <1>2 DEF ArmedIn
      <4>3. h.block # k BY <4>1, <2>3, <4>2 DEF ArmedIn
      <4>4. h.block \in ArmedIn(g) BY <4>2, <4>3
      <4>5. gs[h.frame] = g /\ fs[h.frame] = Last(fs) BY <3>2, <1>1, <1>2
      <4>6. g.blocks[h.block].operands = Last(fs).blocks[h.block].operands BY <4>4
      <4>7. h.block \in 1 .. Len(g.blocks) /\ Armed(g.blocks[h.block]) BY <4>4 DEF ArmedIn
      <4> QED BY <4>5, <4>6, <4>7
    <3> QED BY <3>1, <3>2, <2>3, <1>2
  <2>5. \A i \in 1 .. h.frame : gs[i].kind = fs[i].kind BY <1>5, <2>3, <1>2
  <2>6. gs[h.frame].savedStack = fs[h.frame].savedStack BY <1>5, <2>3
  <2>7. h.frame <= Len(gs) BY <2>3, <1>1, <1>2, SMTT(30)
  <2>8. Fits(gs, h) BY <2>1, <2>4, <2>5, <2>6, <2>7, <1>1, <1>2, FitsSame
  <2> QED BY <2>1, <2>8
<1>7. ASSUME NEW i \in 1 .. Len(gs) PROVE Covered(gs, js, i)
  <2>1. Covered(fs, hs, i) BY <1>1 DEF HandlersFit
  <2> SUFFICES ASSUME NEW l \in 1 .. Len(gs[i].blocks), Armed(gs[i].blocks[l])
               PROVE  \E n \in 1 .. Len(js) : js[n].frame = i /\ js[n].block = l
    BY DEF Covered
  <2>2. l \in 1 .. Len(fs[i].blocks) /\ Armed(fs[i].blocks[l]) /\ ~(i = Len(fs) /\ l = k)
    <3>1. CASE i < Len(fs) BY <3>1, <1>1
    <3>2. CASE i = Len(fs)
      <4>1. gs[i] = g /\ fs[i] = Last(fs) BY <3>2, <1>1, <1>2
      <4>2. l \in ArmedIn(g) BY <4>1 DEF ArmedIn
      <4> QED BY <4>1, <4>2 DEF ArmedIn
    <3> QED BY <3>1, <3>2, <1>1, <1>2
  <2>3. PICK n \in 1 .. Len(hs) : hs[n].frame = i /\ hs[n].block = l
    BY <2>1, <2>2 DEF Covered
  <2>4. n # Len(hs) BY <2>2, <2>3, <1>3, <1>4
  <2>5. n \in 1 .. Len(js) /\ js[n] = hs[n] BY <2>4, <1>4
  <2> QED BY <2>3, <2>5
<1>8. \A m, n \in 1 .. Len(js) : m < n => Before(js[m], js[n])
  BY <1>4 DEF HandlersFit
<1> QED BY <1>6, <1>7, <1>8 DEF HandlersFit, js

-------------------------------------------------------------------------------
(* Operands                                                                 *)

\* A stack is another one and m values of the i-th frame above it.
Over(st, under, m, i) ==
    /\ Len(st) = Len(under) + m
    /\ \A j \in 1 .. Len(under) : st[j] = under[j]
    /\ \A j \in Len(under) + 1 .. Len(under) + m : st[j] = i

\* Each frame has its operands on the stack that its callee saved, the last one on the
\* stack; below them is what is of use to its callers.
OperandsFit(fs, st) ==
    /\ fs = <<>> => st = <<>>
    /\ \A i \in 1 .. Len(fs) : fs[i].savedStack \in Seq(1 .. i - 1)
    /\ \A i \in 1 .. Len(fs) - 1 : Over(fs[i + 1].savedStack, UnderOf(fs[i]), Held(fs[i]), i)
    /\ fs # <<>> => Over(st, UnderOf(Last(fs)), Held(Last(fs)), Len(fs))

\* New code begins with the stack as it is, or with an empty one.
LEMMA OperandsEnter ==
    ASSUME NEW fs \in Seq(FrameRecord), NEW st \in Seq(1 .. Len(fs)), OperandsFit(fs, st),
           NEW f \in FrameRecord, f.blocks = <<>>, f.operands = 0, f.savedStack = st
    PROVE  OperandsFit(Append(fs, f), IF IsCall(f) THEN st ELSE <<>>)
<1> DEFINE gs == Append(fs, f)
           n == Len(fs)
           tt == IF IsCall(f) THEN st ELSE <<>>
<1>1. Len(gs) = n + 1 /\ n \in Nat /\ gs[n + 1] = f /\ Last(gs) = f /\ gs # <<>>
      /\ \A i \in 1 .. n : gs[i] = fs[i]
  BY AppendOf
<1>2. tt = UnderOf(f) BY DEF UnderOf
<1>3. Held(f) = 0 BY DEF Held, Caught
<1>4. Over(tt, UnderOf(f), 0, n + 1)
  <2>1. Len(st) \in Nat /\ Len(<<>>) = 0 OBVIOUS
  <2>2. Len(tt) \in Nat BY <2>1
  <2> QED BY <2>2, <1>2 DEF Over
<1> HIDE DEF gs, tt
<1>5. \A i \in 1 .. Len(gs) : gs[i].savedStack \in Seq(1 .. i - 1)
  <2> SUFFICES ASSUME NEW i \in 1 .. Len(gs) PROVE gs[i].savedStack \in Seq(1 .. i - 1) OBVIOUS
  <2>1. CASE i <= n BY <2>1, <1>1 DEF OperandsFit
  <2>2. CASE i = n + 1 BY <2>2, <1>1
  <2> QED BY <2>1, <2>2, <1>1
<1>6. \A i \in 1 .. Len(gs) - 1 : Over(gs[i + 1].savedStack, UnderOf(gs[i]), Held(gs[i]), i)
  <2> SUFFICES ASSUME NEW i \in 1 .. n
               PROVE  Over(gs[i + 1].savedStack, UnderOf(gs[i]), Held(gs[i]), i)
    BY <1>1
  <2>1. CASE i < n
    <3>0. i \in 1 .. n /\ i + 1 \in 1 .. n BY <2>1, <1>1
    <3>1. gs[i + 1] = fs[i + 1] /\ gs[i] = fs[i] BY <3>0, <1>1
    <3>2. Over(fs[i + 1].savedStack, UnderOf(fs[i]), Held(fs[i]), i) BY <2>1, <1>1 DEF OperandsFit
    <3> QED BY <3>1, <3>2
  <2>2. CASE i = n
    <3>1. fs # <<>> /\ Last(fs) = fs[n] BY <2>2, <1>1 DEF Last
    <3>2. Over(st, UnderOf(fs[n]), Held(fs[n]), n) BY <3>1 DEF OperandsFit
    <3>3. gs[i + 1].savedStack = st /\ gs[i] = fs[n] BY <2>2, <1>1
    <3> QED BY <3>2, <3>3, <2>2
  <2> QED BY <2>1, <2>2, <1>1
<1> QED BY <1>1, <1>3, <1>4, <1>5, <1>6 DEF OperandsFit, gs, tt

\* Code ends, and its caller has the stack that it had.
LEMMA OperandsLeave ==
    ASSUME NEW fs \in Seq(FrameRecord), fs # <<>>, NEW st, OperandsFit(fs, st)
    PROVE  OperandsFit(Front(fs), Last(fs).savedStack)
<1> DEFINE gs == Front(fs)
           n == Len(fs)
           tt == Last(fs).savedStack
<1>1. gs \in Seq(FrameRecord) /\ Len(gs) = n - 1 /\ n \in Nat /\ n >= 1 /\ Last(fs) = fs[n]
      /\ \A i \in 1 .. n - 1 : gs[i] = fs[i]
  BY FrontOf
<1>2. tt \in Seq(1 .. n - 1) BY <1>1 DEF OperandsFit
<1>3. gs # <<>> => n >= 2 /\ Last(gs) = gs[n - 1] BY <1>1 DEF Last
<1>4. gs = <<>> => tt = <<>>
  <2> SUFFICES ASSUME gs = <<>> PROVE tt = <<>> OBVIOUS
  <2>1. n = 1 BY <1>1
  <2>2. 1 .. n - 1 = {} BY <2>1
  <2>3. tt \in Seq({}) BY <1>2, <2>2
  <2> QED BY <2>3
<1> HIDE DEF gs, tt
<1>5. \A i \in 1 .. Len(gs) : gs[i].savedStack \in Seq(1 .. i - 1)
  <2> SUFFICES ASSUME NEW i \in 1 .. Len(gs) PROVE gs[i].savedStack \in Seq(1 .. i - 1) OBVIOUS
  <2>1. i \in 1 .. n /\ gs[i] = fs[i] BY <1>1
  <2>2. fs[i].savedStack \in Seq(1 .. i - 1) BY <2>1 DEF OperandsFit
  <2> QED BY <2>1, <2>2
<1>6. \A i \in 1 .. n - 1 : Over(fs[i + 1].savedStack, UnderOf(fs[i]), Held(fs[i]), i)
  BY DEF OperandsFit
<1>7. \A i \in 1 .. Len(gs) - 1 : Over(gs[i + 1].savedStack, UnderOf(gs[i]), Held(gs[i]), i)
  <2> SUFFICES ASSUME NEW i \in 1 .. n - 2
               PROVE  Over(gs[i + 1].savedStack, UnderOf(gs[i]), Held(gs[i]), i)
    BY <1>1
  <2>1. gs[i + 1] = fs[i + 1] /\ gs[i] = fs[i] BY <1>1
  <2> QED BY <2>1, <1>1, <1>6
<1>8. gs # <<>> => Over(tt, UnderOf(Last(gs)), Held(Last(gs)), Len(gs))
  <2> SUFFICES ASSUME gs # <<>> PROVE Over(tt, UnderOf(Last(gs)), Held(Last(gs)), Len(gs)) OBVIOUS
  <2>1. n - 1 \in 1 .. n - 1 /\ n - 1 + 1 = n BY <1>1, <1>3
  <2>2. Over(fs[n].savedStack, UnderOf(fs[n - 1]), Held(fs[n - 1]), n - 1) BY <2>1, <1>6
  <2>3. Last(gs) = fs[n - 1] /\ tt = fs[n].savedStack BY <2>1, <1>1, <1>3 DEF tt
  <2> QED BY <2>2, <2>3, <1>1
<1> QED BY <1>4, <1>5, <1>7, <1>8 DEF OperandsFit, gs, tt

\* The running code has other blocks or operands, and the stack with it.
LEMMA OperandsTop ==
    ASSUME NEW fs \in Seq(FrameRecord), fs # <<>>, NEW st, OperandsFit(fs, st),
           NEW g \in FrameRecord, Kin(Last(fs), g),
           NEW tt, Over(tt, UnderOf(g), Held(g), Len(fs)),
           NEW gs, Replaced(fs, gs, g)
    PROVE  OperandsFit(gs, tt)
<1> DEFINE n == Len(fs)
<1>1. Len(gs) = n /\ gs[n] = g /\ gs # <<>> /\ Last(gs) = g /\ \A i \in 1 .. n - 1 : gs[i] = fs[i]
  BY TopFrame
<1>2. n \in Nat /\ n >= 1 /\ Last(fs) = fs[n] BY FrontOf
<1>3. \A i \in 1 .. n : gs[i].savedStack = fs[i].savedStack BY <1>1, <1>2 DEF Kin
<1>4. \A i \in 1 .. n - 1 : Over(fs[i + 1].savedStack, UnderOf(fs[i]), Held(fs[i]), i)
  BY DEF OperandsFit
<1>5. \A i \in 1 .. Len(gs) - 1 : Over(gs[i + 1].savedStack, UnderOf(gs[i]), Held(gs[i]), i)
  <2> SUFFICES ASSUME NEW i \in 1 .. n - 1
               PROVE  Over(gs[i + 1].savedStack, UnderOf(gs[i]), Held(gs[i]), i)
    BY <1>1
  <2>1. gs[i + 1].savedStack = fs[i + 1].savedStack /\ gs[i] = fs[i] BY <1>1, <1>2, <1>3
  <2> QED BY <2>1, <1>4
<1>6. \A i \in 1 .. Len(gs) : gs[i].savedStack \in Seq(1 .. i - 1) BY <1>1, <1>3 DEF OperandsFit
<1> QED BY <1>1, <1>5, <1>6 DEF OperandsFit

\* Values on the stack of a frame are of it or of frames below it.
LEMMA OverType ==
    ASSUME NEW n \in Nat, n >= 1, NEW st \in Seq(Nat), NEW under \in Seq(1 .. n - 1),
           NEW m \in Nat, Over(st, under, m, n)
    PROVE  st \in Seq(1 .. n)
<1>1. Len(under) \in Nat BY DEF Over
<1>2. \A j \in 1 .. Len(st) : st[j] \in 1 .. n
  <2> SUFFICES ASSUME NEW j \in 1 .. Len(st) PROVE st[j] \in 1 .. n OBVIOUS
  <2>1. CASE j <= Len(under)
    <3>1. j \in 1 .. Len(under) BY <2>1, <1>1
    <3>2. under[j] \in 1 .. n - 1 BY <3>1
    <3>3. st[j] = under[j] BY <3>1 DEF Over
    <3> QED BY <3>2, <3>3
  <2>2. CASE j > Len(under)
    <3>1. j \in Len(under) + 1 .. Len(under) + m BY <2>2, <1>1 DEF Over
    <3>2. st[j] = n BY <3>1 DEF Over
    <3> QED BY <3>2
  <2> QED BY <2>1, <2>2, <1>1
<1>3. Len(st) \in Nat /\ st = [j \in 1 .. Len(st) |-> st[j]] OBVIOUS
<1>4. st \in [1 .. Len(st) -> 1 .. n] BY <1>2, <1>3
<1> QED BY <1>3, <1>4

-------------------------------------------------------------------------------
(* Places in the code of all frames                                         *)

\* The blocks that have an environment frame, those that run for a parked exception.
WithBlocks == {b \in BlockRecord : IsWith(b)}
ParkedBlocks == {b \in BlockRecord : RunsForParked(b)}

\* The blocks of a kind, in a frame and in all of them.
In(f, B) == {k \in 1 .. Len(f.blocks) : f.blocks[k] \in B}
PlacesOf(fs, B) ==
    {p \in Nat \X Nat : p[1] \in 1 .. Len(fs) /\ p[2] \in In(fs[p[1]], B)}
\* How many places of a set there are up to one.
Rank(O, i, k) == Cardinality({p \in O : p[1] < i \/ (p[1] = i /\ p[2] <= k)})

\* Places are pairs of a frame and a block.
LEMMA PlaceIs ==
    ASSUME NEW fs \in Seq(FrameRecord), NEW B, NEW i, NEW k
    PROVE  <<i, k>> \in PlacesOf(fs, B) <=> i \in 1 .. Len(fs) /\ k \in In(fs[i], B)
BY DEF PlacesOf, In

\* Places in the running code are replaced, the others stay.
LEMMA PlacesTop ==
    ASSUME NEW fs \in Seq(FrameRecord), fs # <<>>, NEW g \in FrameRecord, NEW B,
           NEW gs, Replaced(fs, gs, g)
    PROVE  PlacesOf(gs, B)
            = {p \in PlacesOf(fs, B) : p[1] # Len(fs)} \cup {<<Len(fs), k>> : k \in In(g, B)}
<1> DEFINE n == Len(fs)
<1>1. Len(gs) = n /\ gs[n] = g /\ \A i \in 1 .. n - 1 : gs[i] = fs[i] BY TopFrame
<1>2. n \in Nat /\ n >= 1 BY FrontOf
<1> HIDE DEF n
<1>3. ASSUME NEW p \in PlacesOf(gs, B)
      PROVE  p \in {q \in PlacesOf(fs, B) : q[1] # n} \cup {<<n, k>> : k \in In(g, B)}
  <2>1. p \in Nat \X Nat /\ p[1] \in 1 .. n /\ p[2] \in In(gs[p[1]], B) BY <1>1 DEF PlacesOf
  <2>2. CASE p[1] = n
    <3>1. p[2] \in In(g, B) /\ p = <<n, p[2]>> BY <2>1, <2>2, <1>1
    <3> QED BY <3>1
  <2>3. CASE p[1] # n
    <3>1. p[1] \in 1 .. n - 1 BY <2>1, <2>3, <1>2
    <3>2. p \in PlacesOf(fs, B) BY <2>1, <3>1, <1>1 DEF PlacesOf, n
    <3> QED BY <3>2, <2>3
  <2> QED BY <2>2, <2>3
<1>4. ASSUME NEW p \in {q \in PlacesOf(fs, B) : q[1] # n} PROVE p \in PlacesOf(gs, B)
  <2>1. p \in Nat \X Nat /\ p[1] \in 1 .. n /\ p[2] \in In(fs[p[1]], B) /\ p[1] # n
    BY DEF PlacesOf, n
  <2>2. p[1] \in 1 .. n - 1 BY <2>1, <1>2
  <2> QED BY <2>1, <2>2, <1>1 DEF PlacesOf
<1>5. ASSUME NEW k \in In(g, B) PROVE <<n, k>> \in PlacesOf(gs, B)
  <2>1. k \in Nat BY DEF In
  <2> QED BY <2>1, <1>1, <1>2 DEF PlacesOf
<1> QED BY <1>3, <1>4, <1>5 DEF n

\* New code adds no place.
LEMMA PlacesEnter ==
    ASSUME NEW fs \in Seq(FrameRecord), NEW f \in FrameRecord, f.blocks = <<>>, NEW B
    PROVE  PlacesOf(Append(fs, f), B) = PlacesOf(fs, B)
<1> DEFINE gs == Append(fs, f)
<1>1. Len(gs) = Len(fs) + 1 /\ Len(fs) \in Nat /\ gs[Len(fs) + 1] = f
      /\ \A i \in 1 .. Len(fs) : gs[i] = fs[i]
  BY AppendOf
<1>2. In(f, B) = {} BY DEF In
<1> HIDE DEF gs
<1>3. ASSUME NEW p \in PlacesOf(gs, B) PROVE p \in PlacesOf(fs, B)
  <2>1. p \in Nat \X Nat /\ p[1] \in 1 .. Len(fs) + 1 /\ p[2] \in In(gs[p[1]], B)
    BY <1>1 DEF PlacesOf
  <2>2. p[1] # Len(fs) + 1 BY <2>1, <1>1, <1>2
  <2>3. p[1] \in 1 .. Len(fs) BY <2>1, <2>2, <1>1
  <2> QED BY <2>1, <2>3, <1>1 DEF PlacesOf
<1>4. ASSUME NEW p \in PlacesOf(fs, B) PROVE p \in PlacesOf(gs, B)
  BY <1>1 DEF PlacesOf
<1> QED BY <1>3, <1>4 DEF gs

\* Code ends, and its places are no more.
LEMMA PlacesLeave ==
    ASSUME NEW fs \in Seq(FrameRecord), fs # <<>>, NEW B
    PROVE  PlacesOf(Front(fs), B) = {p \in PlacesOf(fs, B) : p[1] # Len(fs)}
<1> DEFINE gs == Front(fs)
           n == Len(fs)
<1>1. Len(gs) = n - 1 /\ n \in Nat /\ n >= 1 /\ \A i \in 1 .. n - 1 : gs[i] = fs[i]
  BY FrontOf
<1> HIDE DEF gs, n
<1>2. ASSUME NEW p \in PlacesOf(gs, B) PROVE p \in PlacesOf(fs, B) /\ p[1] # n
  <2>1. p \in Nat \X Nat /\ p[1] \in 1 .. n - 1 /\ p[2] \in In(gs[p[1]], B) BY <1>1 DEF PlacesOf
  <2> QED BY <2>1, <1>1 DEF PlacesOf, n
<1>3. ASSUME NEW p \in PlacesOf(fs, B), p[1] # n PROVE p \in PlacesOf(gs, B)
  <2>1. p \in Nat \X Nat /\ p[1] \in 1 .. n /\ p[2] \in In(fs[p[1]], B) BY DEF PlacesOf, n
  <2>2. p[1] \in 1 .. n - 1 BY <2>1, <1>1, <1>3
  <2> QED BY <2>1, <2>2, <1>1 DEF PlacesOf
<1> QED BY <1>2, <1>3 DEF gs, n

\* The blocks of a frame are finitely many.
LEMMA InFinite ==
    ASSUME NEW bs \in Seq(BlockRecord), NEW W \in SUBSET (1 .. Len(bs))
    PROVE  IsFiniteSet(W) /\ Cardinality(W) \in Nat
<1>1. IsFiniteSet(1 .. Len(bs)) BY FS_Interval
<1>2. IsFiniteSet(W) BY <1>1, FS_Subset
<1> QED BY <1>2, FS_CardinalityType

\* Some blocks of the n-th frame, as places; how many are left without them.
Shifted(P, W, n, s) == \A p : p \in P <=> \E k \in W : p = <<n, k + s>>
TakenAway(O, P, W) ==
    IsFiniteSet(O \ P) /\ Cardinality(O \ P) = Cardinality(O) - Cardinality(W)

\* Taking away the places of some blocks of the running code takes away as many.
LEMMA TakeAway ==
    ASSUME NEW O, IsFiniteSet(O), NEW W \in SUBSET Nat, IsFiniteSet(W), NEW n, NEW s \in Nat,
           NEW P \in SUBSET O, Shifted(P, W, n, s)
    PROVE  TakenAway(O, P, W)
<1>1. IsFiniteSet(P) /\ Cardinality(P) = Cardinality(W)
  <2> DEFINE F == [k \in W |-> <<n, k + s>>]
  <2>1. F \in [W -> P] BY DEF Shifted
  <2>2. \A a, b \in W : F[a] = F[b] => a = b OBVIOUS
  <2>3. \A p \in P : \E k \in W : F[k] = p BY DEF Shifted
  <2> HIDE DEF F
  <2>4. F \in Bijection(W, P) BY <2>1, <2>2, <2>3, Fun_IsBij
  <2>5. ExistsBijection(W, P) BY <2>4, Fun_ExistsBij
  <2> QED BY <2>5, FS_Bijection
<1>2. O \cap P = P OBVIOUS
<1>3. IsFiniteSet(O \ P) /\ Cardinality(O \ P) = Cardinality(O) - Cardinality(O \cap P)
  BY FS_Difference
<1> QED BY <1>1, <1>2, <1>3 DEF TakenAway

\* A place is among those up to it, and the last place has all up to it.
LEMMA RankRange ==
    ASSUME NEW O \in SUBSET (Nat \X Nat), IsFiniteSet(O), NEW i \in Nat, NEW k \in Nat, <<i, k>> \in O
    PROVE  /\ Rank(O, i, k) \in 1 .. Cardinality(O)
           /\ (\A p \in O : p[1] < i \/ (p[1] = i /\ p[2] <= k)) => Rank(O, i, k) = Cardinality(O)
           /\ (\E p \in O : ~(p[1] < i \/ (p[1] = i /\ p[2] <= k))) => Rank(O, i, k) < Cardinality(O)
<1> DEFINE U == {p \in O : p[1] < i \/ (p[1] = i /\ p[2] <= k)}
<1>1. IsFiniteSet(U) /\ Cardinality(U) <= Cardinality(O) /\ (Cardinality(O) = Cardinality(U) => O = U)
  BY FS_Subset
<1>2. <<i, k>> \in U OBVIOUS
<1>3. Cardinality(U) \in Nat /\ Cardinality(O) \in Nat BY <1>1, FS_CardinalityType
<1>4. Cardinality(U) # 0 BY <1>1, <1>2, FS_EmptySet
<1>5. Rank(O, i, k) = Cardinality(U) BY DEF Rank
<1>6. (\A p \in O : p[1] < i \/ (p[1] = i /\ p[2] <= k)) => O = U OBVIOUS
<1>7. (\E p \in O : ~(p[1] < i \/ (p[1] = i /\ p[2] <= k))) => O # U OBVIOUS
<1> HIDE DEF U
<1> QED BY <1>1, <1>3, <1>4, <1>5, <1>6, <1>7

\* Where only places after it come and go, a place keeps its rank.
LEMMA RankSame ==
    ASSUME NEW O, NEW Q, NEW i, NEW k,
           \A p \in O \cup Q : p[1] < i \/ (p[1] = i /\ p[2] <= k) => (p \in O <=> p \in Q)
    PROVE  Rank(O, i, k) = Rank(Q, i, k)
<1>1. {p \in O : p[1] < i \/ (p[1] = i /\ p[2] <= k)} = {p \in Q : p[1] < i \/ (p[1] = i /\ p[2] <= k)}
  OBVIOUS
<1> QED BY <1>1 DEF Rank

-------------------------------------------------------------------------------
(* Contexts                                                                 *)

\* self and other of the running code.
SelfAfter(fs) == IF fs = <<>> THEN NoInstance ELSE Self(Last(fs))
OtherAfter(fs) == IF fs = <<>> THEN NoInstance ELSE Other(Last(fs))

\* Every with-block that is open has an environment frame, and more are those that
\* exceptions have left.
EnvsFit(fs, es, n) ==
    LET open == PlacesOf(fs, WithBlocks) IN
    IsFiniteSet(open) /\ Len(es) = Cardinality(open) + n

SavedFor(e, f, k) == e.savedInstance = SelfIn(f, k - 1) /\ e.savedOtherInstance = OtherIn(f, k - 1)
\* A frame saves the self and other of its caller, an environment frame those around its
\* with-block, and the registers have those of the running code.
Called(fs) ==
    \A i \in 1 .. Len(fs) :
        /\ fs[i].savedInstance = IF i = 1 THEN NoInstance ELSE Self(fs[i - 1])
        /\ fs[i].savedOther = IF i = 1 THEN NoInstance ELSE Other(fs[i - 1])
SavedIn(f, i, es, open) ==
    \A k \in In(f, WithBlocks) : SavedFor(es[Rank(open, i, k)], f, k)
SavedBelow(fs, n, es, open) == \A i \in 1 .. n : SavedIn(fs[i], i, es, open)
SavedAll(fs, es) == SavedBelow(fs, Len(fs), es, PlacesOf(fs, WithBlocks))
ContextFits(fs, es, self, other) ==
    /\ Called(fs) /\ SavedAll(fs, es)
    /\ self = SelfAfter(fs) /\ other = OtherAfter(fs)

\* New code saves the registers and takes its own self and other.
LEMMA ContextEnter ==
    ASSUME NEW fs \in Seq(FrameRecord), NEW es, NEW self, NEW other, ContextFits(fs, es, self, other),
           NEW f \in FrameRecord, f.blocks = <<>>, f.savedInstance = self, f.savedOther = other
    PROVE  ContextFits(Append(fs, f), es, f.self, f.other)
<1> DEFINE gs == Append(fs, f)
<1>1. Len(gs) = Len(fs) + 1 /\ Len(fs) \in Nat /\ gs[Len(fs) + 1] = f /\ gs # <<>> /\ Last(gs) = f
      /\ \A i \in 1 .. Len(fs) : gs[i] = fs[i]
  BY AppendOf
<1>2. PlacesOf(gs, WithBlocks) = PlacesOf(fs, WithBlocks) BY PlacesEnter
<1>3. fs # <<>> => Last(fs) = fs[Len(fs)] BY DEF Last
<1>4. Len(fs) = 0 <=> fs = <<>> OBVIOUS
<1> HIDE DEF gs
<1>5. Called(gs)
  <2> SUFFICES ASSUME NEW i \in 1 .. Len(gs)
               PROVE  /\ gs[i].savedInstance = IF i = 1 THEN NoInstance ELSE Self(gs[i - 1])
                      /\ gs[i].savedOther = IF i = 1 THEN NoInstance ELSE Other(gs[i - 1])
    BY DEF Called
  <2>1. CASE i <= Len(fs)
    <3>1. i \in 1 .. Len(fs) BY <2>1, <1>1
    <3>2. gs[i] = fs[i] /\ (i # 1 => gs[i - 1] = fs[i - 1])
      <4>1. i # 1 => i - 1 \in 1 .. Len(fs) BY <3>1, <1>1
      <4> QED BY <4>1, <3>1, <1>1
    <3>3. Called(fs) BY DEF ContextFits
    <3> QED BY <3>1, <3>2, <3>3 DEF Called
  <2>2. CASE i = Len(fs) + 1
    <3>1. gs[i] = f /\ i - 1 = Len(fs) BY <2>2, <1>1
    <3>2. self = SelfAfter(fs) /\ other = OtherAfter(fs) BY DEF ContextFits
    <3>3. CASE fs = <<>> BY <3>1, <3>2, <3>3, <1>4, <2>2 DEF SelfAfter, OtherAfter
    <3>4. CASE fs # <<>>
      <4>1. i # 1 /\ gs[i - 1] = fs[Len(fs)] BY <3>1, <3>4, <1>1, <1>4, <2>2
      <4> QED BY <3>1, <3>2, <3>4, <4>1, <1>3 DEF SelfAfter, OtherAfter
    <3> QED BY <3>3, <3>4
  <2> QED BY <2>1, <2>2, <1>1
<1>6. SavedAll(gs, es)
  <2> SUFFICES ASSUME NEW i \in 1 .. Len(gs)
               PROVE  SavedIn(gs[i], i, es, PlacesOf(fs, WithBlocks))
    BY <1>2 DEF SavedAll, SavedBelow
  <2>1. CASE i = Len(fs) + 1
    <3>1. In(gs[i], WithBlocks) = {} BY <2>1, <1>1 DEF In
    <3> QED BY <3>1 DEF SavedIn
  <2>2. CASE i # Len(fs) + 1
    <3>1. i \in 1 .. Len(fs) /\ gs[i] = fs[i] BY <2>2, <1>1
    <3> QED BY <3>1 DEF ContextFits, SavedAll, SavedBelow
  <2> QED BY <2>1, <2>2
<1>7. f.self = SelfAfter(gs) /\ f.other = OtherAfter(gs)
  BY <1>1 DEF SelfAfter, OtherAfter, Self, Other, SelfIn, OtherIn
<1> QED BY <1>5, <1>6, <1>7 DEF ContextFits, gs

\* Code ends that has no with-block left, and the registers are those of its caller.
LEMMA ContextLeave ==
    ASSUME NEW fs \in Seq(FrameRecord), fs # <<>>, NEW es, NEW self, NEW other,
           ContextFits(fs, es, self, other), In(Last(fs), WithBlocks) = {}
    PROVE  ContextFits(Front(fs), es, Last(fs).savedInstance, Last(fs).savedOther)
<1> DEFINE gs == Front(fs)
           n == Len(fs)
<1>1. gs \in Seq(FrameRecord) /\ Len(gs) = n - 1 /\ n \in Nat /\ n >= 1 /\ Last(fs) = fs[n]
      /\ \A i \in 1 .. n - 1 : gs[i] = fs[i]
  BY FrontOf
<1>2. PlacesOf(gs, WithBlocks) = PlacesOf(fs, WithBlocks)
  <2>1. PlacesOf(gs, WithBlocks) = {p \in PlacesOf(fs, WithBlocks) : p[1] # n} BY PlacesLeave
  <2>2. \A p \in PlacesOf(fs, WithBlocks) : p[1] # n BY <1>1 DEF PlacesOf
  <2> QED BY <2>1, <2>2
<1>3. gs = <<>> <=> n = 1 BY <1>1
<1>4. gs # <<>> => Last(gs) = gs[n - 1] BY <1>1 DEF Last
<1> HIDE DEF gs, n
<1>5. Called(gs)
  <2> SUFFICES ASSUME NEW i \in 1 .. n - 1
               PROVE  /\ gs[i].savedInstance = IF i = 1 THEN NoInstance ELSE Self(gs[i - 1])
                      /\ gs[i].savedOther = IF i = 1 THEN NoInstance ELSE Other(gs[i - 1])
    BY <1>1 DEF Called
  <2>1. i # 1 => i - 1 \in 1 .. n - 1 BY <1>1
  <2>2. gs[i] = fs[i] /\ (i # 1 => gs[i - 1] = fs[i - 1]) BY <2>1, <1>1
  <2>3. i \in 1 .. Len(fs) BY <1>1 DEF n
  <2> QED BY <2>2, <2>3 DEF ContextFits, Called
<1>6. SavedAll(gs, es)
  <2> SUFFICES ASSUME NEW i \in 1 .. n - 1
               PROVE  SavedIn(gs[i], i, es, PlacesOf(fs, WithBlocks))
    BY <1>1, <1>2 DEF SavedAll, SavedBelow
  <2>1. gs[i] = fs[i] /\ i \in 1 .. Len(fs) BY <1>1 DEF n
  <2> QED BY <2>1 DEF ContextFits, SavedAll, SavedBelow
<1>7. fs[n].savedInstance = SelfAfter(gs) /\ fs[n].savedOther = OtherAfter(gs)
  <2>1. n \in 1 .. Len(fs) BY <1>1 DEF n
  <2>2. /\ fs[n].savedInstance = IF n = 1 THEN NoInstance ELSE Self(fs[n - 1])
        /\ fs[n].savedOther = IF n = 1 THEN NoInstance ELSE Other(fs[n - 1])
    BY <2>1 DEF ContextFits, Called
  <2>3. n # 1 => gs[n - 1] = fs[n - 1]
    <3>1. n # 1 => n - 1 \in 1 .. n - 1 BY <1>1
    <3> QED BY <3>1, <1>1
  <2> QED BY <2>2, <2>3, <1>3, <1>4 DEF SelfAfter, OtherAfter
<1> QED BY <1>1, <1>5, <1>6, <1>7 DEF ContextFits, gs

\* The running code goes on in other blocks; each with-block that is open then has the
\* environment frame that saves what is around it.
LEMMA ContextTop ==
    ASSUME NEW fs \in Seq(FrameRecord), fs # <<>>, NEW es, NEW self, NEW other,
           ContextFits(fs, es, self, other),
           NEW g \in FrameRecord, Kin(Last(fs), g), NEW gs, Replaced(fs, gs, g), NEW ds,
           SavedBelow(fs, Len(fs) - 1, ds, PlacesOf(gs, WithBlocks)),
           SavedIn(g, Len(fs), ds, PlacesOf(gs, WithBlocks))
    PROVE  ContextFits(gs, ds, Self(g), Other(g))
<1> DEFINE n == Len(fs)
<1>1. Len(gs) = n /\ gs[n] = g /\ gs # <<>> /\ Last(gs) = g /\ \A i \in 1 .. n - 1 : gs[i] = fs[i]
  <2>1. Len(gs) = Len(fs) /\ gs # <<>> /\ Last(gs) = g /\ gs[Len(fs)] = g BY TopFrame
  <2>2. \A i \in 1 .. Len(fs) - 1 : gs[i] = fs[i] BY TopFrame
  <2> QED BY <2>1, <2>2
<1>2. n \in Nat /\ n >= 1 /\ Last(fs) = fs[n] BY FrontOf
<1>5. Called(gs)
  <2> SUFFICES ASSUME NEW i \in 1 .. n
               PROVE  /\ gs[i].savedInstance = IF i = 1 THEN NoInstance ELSE Self(gs[i - 1])
                      /\ gs[i].savedOther = IF i = 1 THEN NoInstance ELSE Other(gs[i - 1])
    BY <1>1 DEF Called
  <2>1. i # 1 => i - 1 \in 1 .. n - 1 BY <1>2
  <2>2. i # 1 => gs[i - 1] = fs[i - 1] BY <2>1, <1>1
  <2>3. gs[i].savedInstance = fs[i].savedInstance /\ gs[i].savedOther = fs[i].savedOther
    <3>1. CASE i = n BY <3>1, <1>1, <1>2 DEF Kin
    <3>2. CASE i # n
      <4>1. i \in 1 .. n - 1 BY <3>2, <1>2
      <4> QED BY <4>1, <1>1
    <3> QED BY <3>1, <3>2
  <2> QED BY <2>2, <2>3 DEF ContextFits, Called
<1>6. SavedAll(gs, ds)
  <2> SUFFICES ASSUME NEW i \in 1 .. n
               PROVE  SavedIn(gs[i], i, ds, PlacesOf(gs, WithBlocks))
    BY <1>1 DEF SavedAll, SavedBelow
  <2>1. CASE i = n BY <2>1, <1>1
  <2>2. CASE i # n
    <3>1. i \in 1 .. n - 1 BY <2>2, <1>2
    <3>2. gs[i] = fs[i] BY <3>1, <1>1
    <3> QED BY <3>1, <3>2 DEF SavedBelow
  <2> QED BY <2>1, <2>2
<1>7. Self(g) = SelfAfter(gs) /\ Other(g) = OtherAfter(gs) BY <1>1 DEF SelfAfter, OtherAfter
<1> QED BY <1>5, <1>6, <1>7 DEF ContextFits

\* The running code goes on with the same with-blocks and in the same context.
LEMMA ContextQuiet ==
    ASSUME NEW fs \in Seq(FrameRecord), fs # <<>>, NEW es, NEW self, NEW other,
           ContextFits(fs, es, self, other),
           NEW g \in FrameRecord, Kin(Last(fs), g), NEW gs, Replaced(fs, gs, g),
           PlacesOf(gs, WithBlocks) = PlacesOf(fs, WithBlocks),
           In(g, WithBlocks) = In(Last(fs), WithBlocks),
           \A k \in In(g, WithBlocks) : /\ SelfIn(g, k - 1) = SelfIn(Last(fs), k - 1)
                                        /\ OtherIn(g, k - 1) = OtherIn(Last(fs), k - 1),
           Self(g) = Self(Last(fs)), Other(g) = Other(Last(fs))
    PROVE  ContextFits(gs, es, self, other)
<1> DEFINE open == PlacesOf(fs, WithBlocks)
<1>1. Len(fs) \in Nat /\ Len(fs) >= 1 /\ Last(fs) = fs[Len(fs)] BY FrontOf
<1>2. SavedBelow(fs, Len(fs), es, open) BY DEF ContextFits, SavedAll
<1> HIDE DEF open
<1>3. SavedBelow(fs, Len(fs) - 1, es, open) BY <1>1, <1>2 DEF SavedBelow
<1>4. SavedIn(Last(fs), Len(fs), es, open) BY <1>1, <1>2 DEF SavedBelow
<1>5. SavedIn(g, Len(fs), es, open) BY <1>4 DEF SavedIn, SavedFor
<1>6. SavedBelow(fs, Len(fs) - 1, es, PlacesOf(gs, WithBlocks)) /\ SavedIn(g, Len(fs), es, PlacesOf(gs, WithBlocks))
  BY <1>3, <1>5 DEF open
<1>7. ContextFits(gs, es, Self(g), Other(g)) BY <1>6, ContextTop
<1>8. self = Self(Last(fs)) /\ other = Other(Last(fs)) BY DEF ContextFits, SelfAfter, OtherAfter
<1> QED BY <1>7, <1>8

-------------------------------------------------------------------------------
(* Parked exceptions                                                        *)

\* An exception is parked exactly while one block runs for it.
ParkedFit(fs, parked) ==
    /\ parked # NoException <=> PlacesOf(fs, ParkedBlocks) # {}
    /\ \A p, q \in PlacesOf(fs, ParkedBlocks) : p = q

-------------------------------------------------------------------------------
(* The running code's blocks                                                *)

\* A frame has entered a block.
LEMMA EnterBlockIs ==
    ASSUME NEW f \in FrameRecord, NEW b \in BlockRecord,
           NEW g, g = BlocksOf(f, Append(f.blocks, b))
    PROVE  /\ g \in FrameRecord /\ Kin(f, g) /\ g.operands = f.operands
           /\ g.blocks = Append(f.blocks, b) /\ Last(g.blocks) = b /\ g.blocks # <<>>
           /\ Len(g.blocks) = Len(f.blocks) + 1 /\ Len(f.blocks) \in Nat
           /\ g.blocks[Len(f.blocks) + 1] = b
           /\ \A k \in 1 .. Len(f.blocks) : g.blocks[k] = f.blocks[k]
           /\ \A m \in 0 .. Len(f.blocks) : SelfIn(g, m) = SelfIn(f, m) /\ OtherIn(g, m) = OtherIn(f, m)
           /\ Self(g) = b.self /\ Other(g) = b.other
<1>1. f.blocks \in Seq(BlockRecord) BY DEF FrameRecord
<1> DEFINE cs == Append(f.blocks, b)
<1>2. /\ cs \in Seq(BlockRecord) /\ Len(cs) = Len(f.blocks) + 1 /\ Len(f.blocks) \in Nat /\ cs # <<>>
      /\ cs[Len(f.blocks) + 1] = b /\ Last(cs) = b
      /\ \A k \in 1 .. Len(f.blocks) : cs[k] = f.blocks[k]
  BY <1>1, AppendOf
<1> HIDE DEF cs
<1>3. g = BlocksOf(f, cs) BY DEF cs
<1>4. g \in FrameRecord /\ g.blocks = cs /\ g.operands = f.operands /\ Kin(f, g)
  BY <1>2, <1>3, BlocksOfType DEF Kin
<1>5. \A m \in 0 .. Len(f.blocks) : SelfIn(g, m) = SelfIn(f, m) /\ OtherIn(g, m) = OtherIn(f, m)
  BY <1>2, <1>4 DEF SelfIn, OtherIn, Kin
<1>6. Self(g) = b.self /\ Other(g) = b.other BY <1>2, <1>4 DEF Self, Other, SelfIn, OtherIn
<1> QED BY <1>2, <1>4, <1>5, <1>6 DEF cs

\* A frame's last block has become another.
LEMMA BecomeBlockIs ==
    ASSUME NEW f \in FrameRecord, f.blocks # <<>>, NEW b \in BlockRecord,
           NEW g, g = BlocksOf(f, Append(Front(f.blocks), b))
    PROVE  /\ g \in FrameRecord /\ Kin(f, g) /\ g.operands = f.operands
           /\ Last(g.blocks) = b /\ g.blocks # <<>>
           /\ Len(g.blocks) = Len(f.blocks) /\ Len(f.blocks) \in Nat /\ Len(f.blocks) >= 1
           /\ g.blocks[Len(f.blocks)] = b
           /\ \A k \in 1 .. Len(f.blocks) - 1 : g.blocks[k] = f.blocks[k]
           /\ \A m \in 0 .. Len(f.blocks) - 1 : SelfIn(g, m) = SelfIn(f, m) /\ OtherIn(g, m) = OtherIn(f, m)
           /\ Self(g) = b.self /\ Other(g) = b.other
<1> DEFINE cs == Append(Front(f.blocks), b)
           n == Len(f.blocks)
<1>1. f.blocks \in Seq(BlockRecord) BY DEF FrameRecord
<1>2. n \in Nat /\ n >= 1 /\ Front(f.blocks) \in Seq(BlockRecord) /\ Len(Front(f.blocks)) = n - 1
      /\ \A k \in 1 .. n - 1 : Front(f.blocks)[k] = f.blocks[k]
  BY <1>1, FrontOf
<1>3. /\ cs \in Seq(BlockRecord) /\ Len(cs) = n /\ cs # <<>>
      /\ cs[n] = b /\ Last(cs) = b
      /\ \A k \in 1 .. n - 1 : cs[k] = f.blocks[k]
  BY <1>2, AppendOf
<1> HIDE DEF cs
<1>4. g = BlocksOf(f, cs) BY DEF cs
<1>5. g \in FrameRecord /\ g.blocks = cs /\ g.operands = f.operands /\ Kin(f, g)
  BY <1>3, <1>4, BlocksOfType DEF Kin
<1>6. \A m \in 0 .. n - 1 : SelfIn(g, m) = SelfIn(f, m) /\ OtherIn(g, m) = OtherIn(f, m)
  BY <1>2, <1>3, <1>5 DEF SelfIn, OtherIn, Kin
<1>7. Self(g) = b.self /\ Other(g) = b.other BY <1>2, <1>3, <1>5 DEF Self, Other, SelfIn, OtherIn
<1> QED BY <1>2, <1>3, <1>5, <1>6, <1>7

\* A frame is left with its n outermost blocks.
LEMMA TruncateIs ==
    ASSUME NEW f \in FrameRecord, NEW n \in 0 .. Len(f.blocks),
           NEW g, g = BlocksOf(f, SubSeq(f.blocks, 1, n))
    PROVE  /\ g \in FrameRecord /\ Kin(f, g) /\ g.operands = f.operands
           /\ Len(g.blocks) = n /\ Len(f.blocks) \in Nat
           /\ \A k \in 1 .. n : g.blocks[k] = f.blocks[k]
           /\ \A m \in 0 .. n : SelfIn(g, m) = SelfIn(f, m) /\ OtherIn(g, m) = OtherIn(f, m)
           /\ Self(g) = SelfIn(f, n) /\ Other(g) = OtherIn(f, n)
<1> DEFINE cs == SubSeq(f.blocks, 1, n)
<1>1. f.blocks \in Seq(BlockRecord) /\ Len(f.blocks) \in Nat BY DEF FrameRecord
<1>2. cs \in Seq(BlockRecord) /\ Len(cs) = n /\ \A k \in 1 .. n : cs[k] = f.blocks[k]
  BY <1>1, PrefixOf
<1> HIDE DEF cs
<1>3. g = BlocksOf(f, cs) BY DEF cs
<1>4. g \in FrameRecord /\ g.blocks = cs /\ g.operands = f.operands /\ Kin(f, g)
  BY <1>2, <1>3, BlocksOfType DEF Kin
<1>5. \A m \in 0 .. n : SelfIn(g, m) = SelfIn(f, m) /\ OtherIn(g, m) = OtherIn(f, m)
  BY <1>1, <1>2, <1>4 DEF SelfIn, OtherIn, Kin
<1>6. Self(g) = SelfIn(f, n) /\ Other(g) = OtherIn(f, n)
  <2>1. n \in 0 .. n BY <1>1
  <2> QED BY <2>1, <1>2, <1>4, <1>5 DEF Self, Other
<1> QED BY <1>1, <1>2, <1>4, <1>5, <1>6

\* Blocks of a kind, after the last one has become another.
LEMMA InBecome ==
    ASSUME NEW f, NEW g, NEW n \in Nat, n >= 1, Len(f.blocks) = n, Len(g.blocks) = n,
           \A k \in 1 .. n - 1 : g.blocks[k] = f.blocks[k], NEW B
    PROVE  /\ g.blocks[n] \in B => In(g, B) = In(f, B) \cup {n}
           /\ g.blocks[n] \notin B => In(g, B) = In(f, B) \ {n}
           /\ (f.blocks[n] \in B <=> g.blocks[n] \in B) => In(g, B) = In(f, B)
<1>1. \A k \in 1 .. n : k = n \/ (k \in 1 .. n - 1 /\ g.blocks[k] = f.blocks[k]) OBVIOUS
<1> QED BY <1>1 DEF In

\* Blocks of a kind, after another one was entered.
LEMMA InEnter ==
    ASSUME NEW f, NEW g, NEW n \in Nat, Len(f.blocks) = n, Len(g.blocks) = n + 1,
           \A k \in 1 .. n : g.blocks[k] = f.blocks[k], NEW B
    PROVE  /\ g.blocks[n + 1] \in B => In(g, B) = In(f, B) \cup {n + 1}
           /\ g.blocks[n + 1] \notin B => In(g, B) = In(f, B)
<1>1. \A k \in 1 .. n + 1 : k = n + 1 \/ (k \in 1 .. n /\ g.blocks[k] = f.blocks[k]) OBVIOUS
<1> QED BY <1>1 DEF In

\* Blocks of a kind, after blocks were left.
LEMMA InTruncate ==
    ASSUME NEW f, NEW g, Len(f.blocks) \in Nat, NEW n \in 0 .. Len(f.blocks), Len(g.blocks) = n,
           \A k \in 1 .. n : g.blocks[k] = f.blocks[k], NEW B
    PROVE  In(g, B) = {k \in In(f, B) : k <= n}
BY DEF In

\* Where the running code has the same blocks of a kind, all places of it are the same.
LEMMA PlacesQuiet ==
    ASSUME NEW fs \in Seq(FrameRecord), fs # <<>>, NEW g \in FrameRecord,
           NEW gs, Replaced(fs, gs, g), NEW B, In(g, B) = In(Last(fs), B)
    PROVE  PlacesOf(gs, B) = PlacesOf(fs, B)
<1>1. Len(fs) \in Nat /\ Len(fs) >= 1 /\ Last(fs) = fs[Len(fs)] BY FrontOf
<1>2. PlacesOf(gs, B) = {p \in PlacesOf(fs, B) : p[1] # Len(fs)} \cup {<<Len(fs), k>> : k \in In(g, B)}
  BY PlacesTop
<1>3. ASSUME NEW k \in In(g, B) PROVE <<Len(fs), k>> \in PlacesOf(fs, B)
  BY <1>1, PlaceIs
<1>4. ASSUME NEW p \in PlacesOf(fs, B), p[1] = Len(fs) PROVE \E k \in In(g, B) : p = <<Len(fs), k>>
  <2>1. p \in Nat \X Nat /\ p[2] \in In(fs[p[1]], B) BY DEF PlacesOf
  <2>2. p = <<Len(fs), p[2]>> /\ p[2] \in In(g, B) BY <2>1, <1>1, <1>4
  <2> QED BY <2>2
<1> QED BY <1>2, <1>3, <1>4

-------------------------------------------------------------------------------
(* All frames                                                               *)

\* Every frame is well formed, callDepth counts scripts and methods, and code that has
\* called other code is not about to land or to leave a with-block.
FramesFit(fs, depth) ==
    /\ fs \in Seq(GoodFrame)
    /\ depth = DepthIn(fs, Len(fs))
    /\ \A i \in 1 .. Len(fs) - 1 : Calm(fs[i])

\* Well-formed frames are frames.
LEMMA GoodFrames == ASSUME NEW fs \in Seq(GoodFrame) PROVE fs \in Seq(FrameRecord)
<1>1. GoodFrame \subseteq FrameRecord BY DEF GoodFrame
<1>2. Len(fs) \in Nat /\ fs \in [1 .. Len(fs) -> GoodFrame] OBVIOUS
<1>3. fs \in [1 .. Len(fs) -> FrameRecord] BY <1>1, <1>2
<1> QED BY <1>2, <1>3

\* The running code goes on.
LEMMA FramesTop ==
    ASSUME NEW fs, NEW depth, FramesFit(fs, depth), fs # <<>>, NEW g \in GoodFrame, Kin(Last(fs), g),
           NEW gs, Replaced(fs, gs, g)
    PROVE  FramesFit(gs, depth) /\ gs # <<>> /\ Last(gs) = g
<1>1. fs \in Seq(GoodFrame) /\ fs \in Seq(FrameRecord) /\ g \in FrameRecord
  BY GoodFrames DEF FramesFit, GoodFrame
<1>2. Len(gs) = Len(fs) /\ gs # <<>> /\ Last(gs) = g /\ gs[Len(fs)] = g
      /\ \A i \in 1 .. Len(fs) - 1 : gs[i] = fs[i]
  <2>1. Len(gs) = Len(fs) /\ gs # <<>> /\ Last(gs) = g /\ gs[Len(fs)] = g BY <1>1, TopFrame
  <2>2. \A i \in 1 .. Len(fs) - 1 : gs[i] = fs[i] BY <1>1, TopFrame
  <2> QED BY <2>1, <2>2
<1>3. gs \in Seq(GoodFrame)
  <2>1. [fs EXCEPT ![Len(fs)] = g] \in Seq(GoodFrame) BY <1>1, TopOf
  <2> QED BY <2>1 DEF Replaced
<1>4. Len(fs) \in Nat /\ Len(fs) >= 1 /\ Last(fs) = fs[Len(fs)] BY <1>1, FrontOf
<1>5. \A i \in 1 .. Len(fs) : gs[i].kind = fs[i].kind
  <2> SUFFICES ASSUME NEW i \in 1 .. Len(fs) PROVE gs[i].kind = fs[i].kind OBVIOUS
  <2>1. CASE i = Len(fs) BY <2>1, <1>2, <1>4 DEF Kin
  <2>2. CASE i # Len(fs)
    <3>1. i \in 1 .. Len(fs) - 1 BY <2>2, <1>4
    <3> QED BY <3>1, <1>2
  <2> QED BY <2>1, <2>2
<1>6. DepthIn(gs, Len(fs)) = DepthIn(fs, Len(fs)) BY <1>4, <1>5, DepthSame
<1>7. \A i \in 1 .. Len(gs) - 1 : Calm(gs[i]) BY <1>2 DEF FramesFit
<1> QED BY <1>2, <1>3, <1>6, <1>7 DEF FramesFit

\* Code is called: it is one deeper if it is a script or a method.
LEMMA FramesEnter ==
    ASSUME NEW fs, NEW depth, FramesFit(fs, depth), fs # <<>> => Calm(Last(fs)), NEW f \in GoodFrame
    PROVE  FramesFit(Append(fs, f), IF IsCall(f) THEN depth + 1 ELSE depth)
<1> DEFINE gs == Append(fs, f)
<1>1. fs \in Seq(GoodFrame) BY DEF FramesFit
<1>2. /\ gs \in Seq(GoodFrame) /\ Len(gs) = Len(fs) + 1 /\ Len(fs) \in Nat /\ gs[Len(fs) + 1] = f
      /\ \A i \in 1 .. Len(fs) : gs[i] = fs[i]
  BY <1>1, AppendOf
<1> HIDE DEF gs
<1>3. DepthIn(gs, Len(fs)) = DepthIn(fs, Len(fs)) BY <1>2, DepthSame
<1>4. DepthIn(gs, Len(fs) + 1) = DepthIn(gs, Len(fs)) + (IF IsCall(f) THEN 1 ELSE 0)
      /\ DepthIn(gs, Len(fs)) \in Nat
  BY <1>2, DepthNext
<1>5. depth = DepthIn(fs, Len(fs)) BY DEF FramesFit
<1>6. (IF IsCall(f) THEN depth + 1 ELSE depth) = DepthIn(gs, Len(gs)) BY <1>2, <1>3, <1>4, <1>5
<1>7. \A i \in 1 .. Len(gs) - 1 : Calm(gs[i])
  <2> SUFFICES ASSUME NEW i \in 1 .. Len(fs) PROVE Calm(fs[i]) BY <1>2
  <2>1. CASE i = Len(fs) BY <2>1, <1>2 DEF Last
  <2>2. CASE i # Len(fs)
    <3>1. i \in 1 .. Len(fs) - 1 BY <2>2, <1>2
    <3> QED BY <3>1 DEF FramesFit
  <2> QED BY <2>1, <2>2
<1> QED BY <1>2, <1>6, <1>7 DEF FramesFit, gs

\* Code has returned.
LEMMA FramesLeave ==
    ASSUME NEW fs, NEW depth, FramesFit(fs, depth), fs # <<>>
    PROVE  /\ FramesFit(Front(fs), IF IsCall(Last(fs)) THEN depth - 1 ELSE depth)
           /\ Front(fs) # <<>> => Calm(Last(Front(fs)))
<1> DEFINE gs == Front(fs)
           n == Len(fs)
<1>1. fs \in Seq(GoodFrame) BY DEF FramesFit
<1>2. /\ gs \in Seq(GoodFrame) /\ Len(gs) = n - 1 /\ n \in Nat /\ n >= 1 /\ Last(fs) = fs[n]
      /\ \A i \in 1 .. n - 1 : gs[i] = fs[i]
  BY <1>1, FrontOf
<1> HIDE DEF gs, n
<1>3. n - 1 \in Nat /\ n - 1 + 1 = n BY <1>2
<1>4. DepthIn(gs, n - 1) = DepthIn(fs, n - 1) BY <1>2, <1>3, DepthSame
<1>5. DepthIn(fs, n) = DepthIn(fs, n - 1) + (IF IsCall(fs[n]) THEN 1 ELSE 0)
      /\ DepthIn(fs, n - 1) \in Nat
  BY <1>3, DepthNext
<1>6. depth = DepthIn(fs, n) BY DEF FramesFit, n
<1>7. (IF IsCall(Last(fs)) THEN depth - 1 ELSE depth) = DepthIn(gs, Len(gs))
  BY <1>2, <1>4, <1>5, <1>6
<1>8. \A i \in 1 .. n - 1 : Calm(gs[i]) BY <1>2 DEF FramesFit, n
<1>9. \A i \in 1 .. Len(gs) - 1 : Calm(gs[i]) BY <1>2, <1>8
<1>10. gs # <<>> => Calm(Last(gs))
  <2> SUFFICES ASSUME gs # <<>> PROVE Calm(Last(gs)) OBVIOUS
  <2>1. Len(gs) >= 1 BY <1>2
  <2>2. n - 1 \in 1 .. n - 1 BY <2>1, <1>2
  <2> QED BY <2>2, <1>2, <1>8 DEF Last
<1> QED BY <1>2, <1>7, <1>9, <1>10 DEF FramesFit, gs


-------------------------------------------------------------------------------
(* The inductive invariant                                                  *)

\* The types of what is no frame.
Scalars ==
    /\ currentInstance \in Anyone /\ otherInstance \in Anyone
    /\ envStack \in Seq(EnvRecord) /\ handlers \in Seq(HandlerRecord)
    /\ stack \in Seq(Nat)
    /\ exception \in {NoException, Thrown} /\ parkedException \in {NoException, Thrown}
    /\ halted \in {"no", "aborted", "astray", "double free"}
    /\ abandoned \in Nat /\ muddled \in BOOLEAN
\* Code that an exception is pending in has just run a statement.
PendingCalm == frames # <<>> /\ exception # NoException => Calm(Last(frames))
\* Without a with-block that an exception has left, the registers are the code's; an exception
\* is parked for the one block that runs for it.
ContextInv == abandoned = 0 => ContextFits(frames, envStack, currentInstance, otherInstance)
ParkedInv == ~muddled => ParkedFit(frames, parkedException)
\* Each part needs the others: a handler fits because its frame has the depth and the stack it
\* began with, a return restores the context because its frame has saved that of its caller.
Inv ==
    /\ Scalars
    /\ FramesFit(frames, callDepth)
    /\ PendingCalm
    /\ HandlersFit(frames, handlers)
    /\ OperandsFit(frames, stack)
    /\ EnvsFit(frames, envStack, abandoned)
    /\ ContextInv
    /\ ParkedInv

-------------------------------------------------------------------------------
(* Steps of the running code within its blocks                              *)

\* A value is pushed, popped, or the stack is unwound.
LEMMA OverPush ==
    ASSUME NEW st \in Seq(Nat), NEW u \in Seq(Nat), NEW m \in Nat, NEW i \in Nat, Over(st, u, m, i)
    PROVE  Append(st, i) \in Seq(Nat) /\ Over(Append(st, i), u, m + 1, i)
<1>1. /\ Append(st, i) \in Seq(Nat) /\ Len(Append(st, i)) = Len(st) + 1 /\ Len(st) \in Nat
      /\ Append(st, i)[Len(st) + 1] = i /\ \A j \in 1 .. Len(st) : Append(st, i)[j] = st[j]
  BY AppendOf
<1>2. Len(u) \in Nat OBVIOUS
<1> QED BY <1>1, <1>2 DEF Over

\* A stack unwound to k of the values above another one.
LEMMA OverCut ==
    ASSUME NEW st \in Seq(Nat), NEW u \in Seq(Nat), NEW m \in Nat, NEW i \in Nat, Over(st, u, m, i),
           NEW k \in 0 .. m
    PROVE  /\ SubSeq(st, 1, Len(u) + k) \in Seq(Nat)
           /\ Over(SubSeq(st, 1, Len(u) + k), u, k, i)
<1>1. Len(u) \in Nat /\ Len(st) \in Nat /\ Len(u) + k \in 0 .. Len(st) BY DEF Over
<1> DEFINE n == Len(u) + k
<1>2. SubSeq(st, 1, n) \in Seq(Nat) /\ Len(SubSeq(st, 1, n)) = n
      /\ \A j \in 1 .. n : SubSeq(st, 1, n)[j] = st[j]
  BY <1>1, PrefixOf
<1> QED BY <1>1, <1>2 DEF Over

\* The topmost value is popped.
LEMMA OverPop ==
    ASSUME NEW st \in Seq(Nat), NEW u \in Seq(Nat), NEW m \in Nat, m >= 1, NEW i \in Nat, Over(st, u, m, i)
    PROVE  Front(st) \in Seq(Nat) /\ Over(Front(st), u, m - 1, i)
<1>1. Len(u) \in Nat /\ Len(st) \in Nat /\ Len(st) - 1 = Len(u) + (m - 1) /\ m - 1 \in 0 .. m BY DEF Over
<1>2. Front(st) = SubSeq(st, 1, Len(u) + (m - 1)) BY <1>1 DEF Front
<1> QED BY <1>1, <1>2, OverCut

\* Code that keeps its with-blocks, its context and what runs for a parked exception
\* changes nothing of them.
LEMMA QuietTop ==
    ASSUME NEW fs \in Seq(FrameRecord), fs # <<>>, NEW g \in FrameRecord, Kin(Last(fs), g),
           NEW gs, Replaced(fs, gs, g),
           In(g, WithBlocks) = In(Last(fs), WithBlocks),
           \A k \in In(g, WithBlocks) : /\ SelfIn(g, k - 1) = SelfIn(Last(fs), k - 1)
                                        /\ OtherIn(g, k - 1) = OtherIn(Last(fs), k - 1),
           Self(g) = Self(Last(fs)), Other(g) = Other(Last(fs)),
           NEW es, NEW n, NEW self, NEW other, NEW parked
    PROVE  /\ PlacesOf(gs, WithBlocks) = PlacesOf(fs, WithBlocks)
           /\ EnvsFit(fs, es, n) => EnvsFit(gs, es, n)
           /\ ContextFits(fs, es, self, other) => ContextFits(gs, es, self, other)
           /\ In(g, ParkedBlocks) = In(Last(fs), ParkedBlocks) =>
                (ParkedFit(fs, parked) => ParkedFit(gs, parked))
<1>1. PlacesOf(gs, WithBlocks) = PlacesOf(fs, WithBlocks) BY PlacesQuiet
<1>2. EnvsFit(fs, es, n) => EnvsFit(gs, es, n) BY <1>1 DEF EnvsFit
<1>3. ContextFits(fs, es, self, other) => ContextFits(gs, es, self, other) BY <1>1, ContextQuiet
<1>4. In(g, ParkedBlocks) = In(Last(fs), ParkedBlocks) =>
        PlacesOf(gs, ParkedBlocks) = PlacesOf(fs, ParkedBlocks)
  BY PlacesQuiet
<1>5. In(g, ParkedBlocks) = In(Last(fs), ParkedBlocks) =>
        (ParkedFit(fs, parked) => ParkedFit(gs, parked))
  BY <1>4 DEF ParkedFit
<1> QED BY <1>1, <1>2, <1>3, <1>5

\* What the invariant says of the running code.
LEMMA Running ==
    ASSUME Inv, frames # <<>>
    PROVE  /\ frames \in Seq(GoodFrame) /\ frames \in Seq(FrameRecord) /\ Len(frames) \in Nat /\ Len(frames) >= 1
           /\ cur = Last(frames) /\ cur \in GoodFrame /\ cur \in FrameRecord
           /\ cur.blocks \in Seq(BlockRecord) /\ Len(cur.blocks) \in Nat /\ cur.operands \in Nat
           /\ UnderOf(cur) \in Seq(Nat) /\ UnderOf(cur) \in Seq(1 .. Len(frames) - 1)
           /\ Over(stack, UnderOf(cur), Held(cur), Len(frames)) /\ stack \in Seq(Nat)
           /\ (cur.blocks # <<>> => Last(cur.blocks) = cur.blocks[Len(cur.blocks)] /\ Len(cur.blocks) >= 1
                                    /\ Last(cur.blocks) \in BlockRecord)
<1>1. frames \in Seq(GoodFrame) /\ frames \in Seq(FrameRecord) BY GoodFrames DEF Inv, FramesFit
<1>2. Len(frames) \in Nat /\ Len(frames) >= 1 /\ Last(frames) = frames[Len(frames)] /\ Last(frames) \in GoodFrame
  BY <1>1, FrontOf
<1>3. cur = Last(frames) BY <1>2 DEF cur
<1>4. cur \in FrameRecord BY <1>2, <1>3 DEF GoodFrame
<1>5. cur.blocks \in Seq(BlockRecord) /\ cur.operands \in Nat /\ cur.savedStack \in Seq(Nat)
  BY <1>4 DEF FrameRecord
<1>6. UnderOf(cur) \in Seq(Nat) BY <1>5 DEF UnderOf
<1>7. Over(stack, UnderOf(cur), Held(cur), Len(frames)) BY <1>3 DEF Inv, OperandsFit
<1>8. cur.savedStack \in Seq(1 .. Len(frames) - 1)
  BY <1>2, <1>3 DEF Inv, OperandsFit
<1>9. UnderOf(cur) \in Seq(1 .. Len(frames) - 1)
  <2>1. <<>> \in Seq(1 .. Len(frames) - 1) BY EmptyOf
  <2> QED BY <2>1, <1>8 DEF UnderOf
<1>10. Len(cur.blocks) \in Nat BY <1>5
<1>11. cur.blocks # <<>> => Last(cur.blocks) = cur.blocks[Len(cur.blocks)] /\ Len(cur.blocks) >= 1
                            /\ Last(cur.blocks) \in BlockRecord
  BY <1>5, FrontOf
<1> QED BY <1>1, <1>2, <1>3, <1>4, <1>5, <1>6, <1>7, <1>9, <1>10, <1>11 DEF Inv, Scalars

\* Replacing the blocks of the running code's frame.
LEMMA SetBlocksIs ==
    ASSUME NEW fs \in Seq(FrameRecord), fs # <<>>, NEW bs
    PROVE  [fs EXCEPT ![Len(fs)].blocks = bs] = [fs EXCEPT ![Len(fs)] = BlocksOf(Last(fs), bs)]
BY DEF BlocksOf, Last

\* An exception that is not pending leaves no demand on the running code.
LEMMA NotPending == ASSUME exception = NoException PROVE PendingCalm
BY DEF PendingCalm

\* A frame has as many operands as it likes, above those of its blocks.
LEMMA OperandsIs ==
    ASSUME NEW f \in GoodFrame, NEW m \in Nat, f.blocks # <<>> => Last(f.blocks).operands <= m,
           NEW g, g = WithOperands(f, m)
    PROVE  /\ g \in GoodFrame /\ g \in FrameRecord /\ Kin(f, g) /\ g.blocks = f.blocks /\ g.operands = m
           /\ ArmedIn(g) = ArmedIn(f) /\ (\A B : In(g, B) = In(f, B))
           /\ \A k : SelfIn(g, k) = SelfIn(f, k) /\ OtherIn(g, k) = OtherIn(f, k)
           /\ Self(g) = Self(f) /\ Other(g) = Other(f)
<1>1. g \in GoodFrame BY GoodOperands DEF WithOperands
<1>2. g \in FrameRecord /\ f \in FrameRecord BY <1>1 DEF GoodFrame
<1>3. Kin(f, g) /\ g.blocks = f.blocks /\ g.operands = m BY <1>2 DEF FrameRecord, Kin, WithOperands
<1> QED BY <1>1, <1>2, <1>3 DEF ArmedIn, In, SelfIn, OtherIn, Self, Other, Kin

\* Push keeps the invariant.
LEMMA PushStep == ASSUME Inv, Push PROVE Inv'
<1>1. frames # <<>> /\ exception = NoException /\ Calm(cur)
  BY DEF Push, AtStatement, MayRun, Calm, Special
<1>2. /\ frames \in Seq(FrameRecord) /\ Len(frames) \in Nat /\ cur = Last(frames) /\ cur \in GoodFrame
      /\ cur \in FrameRecord /\ cur.operands \in Nat
      /\ UnderOf(cur) \in Seq(Nat) /\ Over(stack, UnderOf(cur), Held(cur), Len(frames)) /\ stack \in Seq(Nat)
  BY <1>1, Running
<1> DEFINE g == WithOperands(cur, cur.operands + 1)
<1>3. Replaced(frames, frames', g) BY DEF Push, cur, Replaced, WithOperands
<1>4. stack' = Append(stack, Len(frames)) BY DEF Push
<1>5. /\ g \in GoodFrame /\ g \in FrameRecord /\ Kin(cur, g) /\ g.blocks = cur.blocks
      /\ g.operands = cur.operands + 1
      /\ ArmedIn(g) = ArmedIn(cur) /\ (\A B : In(g, B) = In(cur, B))
      /\ \A k : SelfIn(g, k) = SelfIn(cur, k) /\ OtherIn(g, k) = OtherIn(cur, k)
      /\ Self(g) = Self(cur) /\ Other(g) = Other(cur)
  <2>1. cur.blocks # <<>> => Last(cur.blocks).operands <= cur.operands + 1 BY <1>2, LastBlock
  <2>2. cur.operands + 1 \in Nat BY <1>2
  <2> QED BY <2>1, <2>2, <1>2, OperandsIs
<1> HIDE DEF g
<1>6. FramesFit(frames', callDepth') /\ frames' # <<>>
  <2>1. FramesFit(frames, callDepth) /\ callDepth' = callDepth BY DEF Inv, Push
  <2> QED BY <2>1, <1>1, <1>2, <1>3, <1>5, FramesTop
<1>7. HandlersFit(frames', handlers')
  <2>1. HandlersFit(frames, handlers) /\ handlers' = handlers /\ handlers \in Seq(HandlerRecord)
    BY DEF Inv, Scalars, Push
  <2>2. \A k \in ArmedIn(g) : g.blocks[k].operands = cur.blocks[k].operands BY <1>5
  <2> QED BY <2>1, <2>2, <1>1, <1>2, <1>3, <1>5, HandlersTop
<1>8. OperandsFit(frames', stack') /\ stack' \in Seq(Nat)
  <2>1. Held(cur) = cur.operands /\ Held(g) = cur.operands + 1
    BY <1>1, <1>2, <1>5 DEF Held, Caught, Calm, Special
  <2>2. stack' \in Seq(Nat) /\ Over(stack', UnderOf(cur), Held(g), Len(frames))
    BY <2>1, <1>2, <1>4, OverPush
  <2>3. UnderOf(g) = UnderOf(cur) BY <1>5 DEF UnderOf, IsCall, Kin
  <2>4. OperandsFit(frames, stack) BY DEF Inv
  <2> QED BY <2>2, <2>3, <2>4, <1>1, <1>2, <1>3, <1>5, OperandsTop
<1>9. /\ EnvsFit(frames, envStack, abandoned) => EnvsFit(frames', envStack, abandoned)
      /\ ContextFits(frames, envStack, currentInstance, otherInstance)
           => ContextFits(frames', envStack, currentInstance, otherInstance)
      /\ ParkedFit(frames, parkedException) => ParkedFit(frames', parkedException)
  BY <1>1, <1>2, <1>3, <1>5, QuietTop
<1>10. EnvsFit(frames', envStack', abandoned') /\ ContextInv' /\ ParkedInv'
  BY <1>9 DEF Inv, ContextInv, ParkedInv, Push, registers, exceptions
<1> QED
  BY <1>1, <1>6, <1>7, <1>8, <1>10 DEF Inv, Scalars, PendingCalm, Push, registers, exceptions

\* Pop keeps the invariant.
LEMMA PopStep == ASSUME Inv, Pop PROVE Inv'
<1>1. frames # <<>> /\ exception = NoException /\ Calm(cur) /\ cur.operands > Floor
  BY DEF Pop, AtStatement, MayRun, Calm, Special
<1>2. /\ frames \in Seq(FrameRecord) /\ Len(frames) \in Nat /\ cur = Last(frames) /\ cur \in GoodFrame
      /\ cur \in FrameRecord /\ cur.operands \in Nat
      /\ UnderOf(cur) \in Seq(Nat) /\ Over(stack, UnderOf(cur), Held(cur), Len(frames)) /\ stack \in Seq(Nat)
  BY <1>1, Running
<1> DEFINE g == WithOperands(cur, cur.operands - 1)
<1>3. Replaced(frames, frames', g) BY DEF Pop, cur, Replaced, WithOperands
<1>4. stack' = Front(stack) BY DEF Pop
<1>5. /\ g \in GoodFrame /\ g \in FrameRecord /\ Kin(cur, g) /\ g.blocks = cur.blocks
      /\ g.operands = cur.operands - 1
      /\ ArmedIn(g) = ArmedIn(cur) /\ (\A B : In(g, B) = In(cur, B))
      /\ \A k : SelfIn(g, k) = SelfIn(cur, k) /\ OtherIn(g, k) = OtherIn(cur, k)
      /\ Self(g) = Self(cur) /\ Other(g) = Other(cur)
  <2>1. cur.blocks # <<>> => Last(cur.blocks).operands <= cur.operands - 1
    BY <1>1, <1>2, LastBlock DEF Floor
  <2>2. cur.operands - 1 \in Nat
    <3>1. CASE cur.blocks = <<>> BY <3>1, <1>1, <1>2 DEF Floor
    <3>2. CASE cur.blocks # <<>> BY <3>2, <1>1, <1>2, LastBlock DEF Floor
    <3> QED BY <3>1, <3>2
  <2> QED BY <2>1, <2>2, <1>2, OperandsIs
<1> HIDE DEF g
<1>6. FramesFit(frames', callDepth') /\ frames' # <<>>
  <2>1. FramesFit(frames, callDepth) /\ callDepth' = callDepth BY DEF Inv, Pop
  <2> QED BY <2>1, <1>1, <1>2, <1>3, <1>5, FramesTop
<1>7. HandlersFit(frames', handlers')
  <2>1. HandlersFit(frames, handlers) /\ handlers' = handlers /\ handlers \in Seq(HandlerRecord)
    BY DEF Inv, Scalars, Pop
  <2>2. \A k \in ArmedIn(g) : g.blocks[k].operands = cur.blocks[k].operands BY <1>5
  <2> QED BY <2>1, <2>2, <1>1, <1>2, <1>3, <1>5, HandlersTop
<1>8. OperandsFit(frames', stack') /\ stack' \in Seq(Nat)
  <2>1. Held(cur) = cur.operands /\ Held(g) = cur.operands - 1
    BY <1>1, <1>2, <1>5 DEF Held, Caught, Calm, Special
  <2>2. cur.operands >= 1
    <3>1. CASE cur.blocks = <<>> BY <3>1, <1>1, <1>2 DEF Floor
    <3>2. CASE cur.blocks # <<>> BY <3>2, <1>1, <1>2, LastBlock DEF Floor
    <3> QED BY <3>1, <3>2
  <2>3. stack' \in Seq(Nat) /\ Over(stack', UnderOf(cur), Held(g), Len(frames))
    BY <2>1, <2>2, <1>2, <1>4, OverPop
  <2>4. UnderOf(g) = UnderOf(cur) BY <1>5 DEF UnderOf, IsCall, Kin
  <2>5. OperandsFit(frames, stack) BY DEF Inv
  <2> QED BY <2>3, <2>4, <2>5, <1>1, <1>2, <1>3, <1>5, OperandsTop
<1>9. /\ EnvsFit(frames, envStack, abandoned) => EnvsFit(frames', envStack, abandoned)
      /\ ContextFits(frames, envStack, currentInstance, otherInstance)
           => ContextFits(frames', envStack, currentInstance, otherInstance)
      /\ ParkedFit(frames, parkedException) => ParkedFit(frames', parkedException)
  BY <1>1, <1>2, <1>3, <1>5, QuietTop
<1>10. EnvsFit(frames', envStack', abandoned') /\ ContextInv' /\ ParkedInv'
  BY <1>9 DEF Inv, ContextInv, ParkedInv, Pop, registers, exceptions
<1> QED
  BY <1>1, <1>6, <1>7, <1>8, <1>10 DEF Inv, Scalars, PendingCalm, Pop, registers, exceptions

\* The last block becomes another one of the same context and operands.
LEMMA BecomeQuiet ==
    ASSUME NEW f \in GoodFrame, f.blocks # <<>>, NEW b \in BlockRecord,
           b.operands = Last(f.blocks).operands, b.parked => b.kind = "finally",
           ~IsWith(b), ~IsWith(Last(f.blocks)),
           b.self = Last(f.blocks).self, b.other = Last(f.blocks).other,
           NEW g, g = BlocksOf(f, Append(Front(f.blocks), b))
    PROVE  /\ g \in GoodFrame /\ g \in FrameRecord /\ Kin(f, g) /\ g.operands = f.operands
           /\ g.blocks # <<>> /\ Last(g.blocks) = b
           /\ In(g, WithBlocks) = In(f, WithBlocks)
           /\ \A k \in In(g, WithBlocks) : /\ SelfIn(g, k - 1) = SelfIn(f, k - 1)
                                           /\ OtherIn(g, k - 1) = OtherIn(f, k - 1)
           /\ Self(g) = Self(f) /\ Other(g) = Other(f)
           /\ (b \in ParkedBlocks <=> Last(f.blocks) \in ParkedBlocks) => In(g, ParkedBlocks) = In(f, ParkedBlocks)
<1> DEFINE n == Len(f.blocks)
<1>1. f \in FrameRecord BY DEF GoodFrame
<1>2. /\ Last(f.blocks) \in BlockRecord /\ Last(f.blocks) = f.blocks[n] /\ n \in Nat /\ n >= 1
  BY LastBlock
<1>3. Self(f) = Last(f.blocks).self /\ Other(f) = Last(f.blocks).other
  BY <1>2 DEF Self, Other, SelfIn, OtherIn
<1>4. BlocksOf(f, Append(Front(f.blocks), b)) \in GoodFrame BY <1>3, GoodBecome
<1>5. g \in GoodFrame BY <1>4
<1>6. /\ g \in FrameRecord /\ Kin(f, g) /\ g.operands = f.operands
      /\ Last(g.blocks) = b /\ g.blocks # <<>> /\ Len(g.blocks) = n
      /\ g.blocks[n] = b
      /\ \A k \in 1 .. n - 1 : g.blocks[k] = f.blocks[k]
      /\ \A m \in 0 .. n - 1 : SelfIn(g, m) = SelfIn(f, m) /\ OtherIn(g, m) = OtherIn(f, m)
      /\ Self(g) = b.self /\ Other(g) = b.other
  BY <1>1, BecomeBlockIs
<1> HIDE DEF n
<1>7. Len(f.blocks) = n BY DEF n
<1>8. f.blocks[n] \notin WithBlocks /\ g.blocks[n] \notin WithBlocks BY <1>2, <1>6 DEF WithBlocks
<1>9. In(g, WithBlocks) = In(f, WithBlocks) BY <1>2, <1>6, <1>7, <1>8, InBecome
<1>10. ASSUME NEW k \in In(g, WithBlocks)
       PROVE  SelfIn(g, k - 1) = SelfIn(f, k - 1) /\ OtherIn(g, k - 1) = OtherIn(f, k - 1)
  <2>1. k \in 1 .. n BY <1>6 DEF In
  <2>2. k - 1 \in 0 .. n - 1 BY <2>1, <1>2
  <2> QED BY <2>2, <1>6
<1>11. (b \in ParkedBlocks <=> Last(f.blocks) \in ParkedBlocks) => In(g, ParkedBlocks) = In(f, ParkedBlocks)
  <2> SUFFICES ASSUME b \in ParkedBlocks <=> Last(f.blocks) \in ParkedBlocks
               PROVE  In(g, ParkedBlocks) = In(f, ParkedBlocks)
    OBVIOUS
  <2>1. f.blocks[n] \in ParkedBlocks <=> g.blocks[n] \in ParkedBlocks BY <1>2, <1>6
  <2>2. \A k \in 1 .. n - 1 : g.blocks[k] = f.blocks[k] BY <1>6
  <2>3. \A k \in 1 .. n : g.blocks[k] \in ParkedBlocks <=> f.blocks[k] \in ParkedBlocks
    <3>1. \A k \in 1 .. n : k = n \/ k \in 1 .. n - 1 BY <1>2
    <3> QED BY <3>1, <2>1, <2>2
  <2> QED BY <2>3, <1>6, <1>7 DEF In
<1> QED BY <1>3, <1>5, <1>6, <1>9, <1>10, <1>11

\* A last block that stays armed, or stays unarmed, leaves the armed blocks alone; one
\* that is armed no more was the innermost of them.
LEMMA BecomeArmed ==
    ASSUME NEW f \in GoodFrame, f.blocks # <<>>, NEW b \in BlockRecord,
           b.operands = Last(f.blocks).operands,
           NEW g, g = BlocksOf(f, Append(Front(f.blocks), b))
    PROVE  /\ (Armed(b) <=> Armed(Last(f.blocks))) => ArmedIn(g) = ArmedIn(f)
           /\ ~Armed(b) /\ Armed(Last(f.blocks)) =>
                /\ Len(f.blocks) \in ArmedIn(f) /\ ArmedIn(g) = ArmedIn(f) \ {Len(f.blocks)}
                /\ \A j \in ArmedIn(f) : j <= Len(f.blocks)
           /\ \A k \in ArmedIn(g) : g.blocks[k].operands = f.blocks[k].operands
<1> DEFINE n == Len(f.blocks)
<1>1. f \in FrameRecord BY DEF GoodFrame
<1>2. /\ Last(f.blocks) = f.blocks[n] /\ n \in Nat /\ n >= 1 BY LastBlock
<1>3. /\ Len(g.blocks) = n /\ g.blocks[n] = b
      /\ \A k \in 1 .. n - 1 : g.blocks[k] = f.blocks[k]
  BY <1>1, BecomeBlockIs
<1>4. \A k \in 1 .. n : k = n \/ (k \in 1 .. n - 1 /\ g.blocks[k] = f.blocks[k]) BY <1>2, <1>3
<1>5. ArmedIn(g) \subseteq 1 .. n BY <1>3 DEF ArmedIn
<1>6. \A k \in 1 .. n : g.blocks[k].operands = f.blocks[k].operands BY <1>2, <1>3, <1>4
<1>7. (Armed(b) <=> Armed(Last(f.blocks))) => ArmedIn(g) = ArmedIn(f)
  BY <1>2, <1>3, <1>4 DEF ArmedIn
<1>8. ASSUME ~Armed(b), Armed(Last(f.blocks))
      PROVE  n \in ArmedIn(f) /\ ArmedIn(g) = ArmedIn(f) \ {n} /\ \A j \in ArmedIn(f) : j <= n
  BY <1>2, <1>3, <1>4, <1>8 DEF ArmedIn
<1> QED BY <1>5, <1>6, <1>7, <1>8

\* In a block means that there is one.
LEMMA InBlockIs ==
    ASSUME NEW kind, InBlock(kind)
    PROVE  cur.blocks # <<>> /\ Last(cur.blocks).kind = kind
BY DEF InBlock

\* TryDone keeps the invariant: its handler is the last one.
LEMMA TryDoneStep == ASSUME Inv, TryDone PROVE Inv'
<1>1. frames # <<>> /\ exception = NoException /\ cur.blocks # <<>> /\ Last(cur.blocks).kind = "try"
  BY InBlockIs DEF TryDone, MayRun
<1>2. /\ frames \in Seq(FrameRecord) /\ Len(frames) \in Nat /\ cur = Last(frames) /\ cur \in GoodFrame
      /\ cur \in FrameRecord
      /\ Over(stack, UnderOf(cur), Held(cur), Len(frames)) /\ stack \in Seq(Nat)
  BY <1>1, Running
<1> DEFINE b == [Last(cur.blocks) EXCEPT !.kind = "finally", !.hasCatch = FALSE]
           g == BlocksOf(cur, Append(Front(cur.blocks), b))
<1>3. Replaced(frames, frames', g)
  BY <1>1, <1>2, SetBlocksIs DEF TryDone, BecomeBlock, SetBlocks, Replaced
<1>4. Last(cur.blocks) \in BlockRecord BY <1>1, <1>2, LastBlock
<1>5. /\ b \in BlockRecord /\ b.kind = "finally" /\ b.operands = Last(cur.blocks).operands
      /\ b.self = Last(cur.blocks).self /\ b.other = Last(cur.blocks).other
      /\ b.parked = Last(cur.blocks).parked
  BY <1>4 DEF BlockRecord
<1>6. ~Last(cur.blocks).parked
  <2>1. Orderly(cur) /\ Len(cur.blocks) \in 1 .. Len(cur.blocks) /\ Last(cur.blocks) = cur.blocks[Len(cur.blocks)]
    BY <1>1, <1>2, LastBlock DEF GoodFrame
  <2> QED BY <2>1, <1>1 DEF Orderly
<1> HIDE DEF b
<1>7. g = BlocksOf(cur, Append(Front(cur.blocks), b)) OBVIOUS
<1> HIDE DEF g
<1>8. ~IsWith(b) /\ ~IsWith(Last(cur.blocks)) /\ ~Armed(b) /\ Armed(Last(cur.blocks))
      /\ b \notin ParkedBlocks /\ Last(cur.blocks) \notin ParkedBlocks
  BY <1>1, <1>5, <1>6 DEF IsWith, Armed, ParkedBlocks, RunsForParked
<1>9. /\ g \in GoodFrame /\ g \in FrameRecord /\ Kin(cur, g) /\ g.operands = cur.operands
      /\ g.blocks # <<>> /\ Last(g.blocks) = b
      /\ In(g, WithBlocks) = In(cur, WithBlocks)
      /\ \A k \in In(g, WithBlocks) : /\ SelfIn(g, k - 1) = SelfIn(cur, k - 1)
                                      /\ OtherIn(g, k - 1) = OtherIn(cur, k - 1)
      /\ Self(g) = Self(cur) /\ Other(g) = Other(cur)
      /\ In(g, ParkedBlocks) = In(cur, ParkedBlocks)
  BY <1>1, <1>2, <1>5, <1>6, <1>7, <1>8, BecomeQuiet
<1>10. /\ Len(cur.blocks) \in ArmedIn(cur) /\ ArmedIn(g) = ArmedIn(cur) \ {Len(cur.blocks)}
       /\ \A j \in ArmedIn(cur) : j <= Len(cur.blocks)
       /\ \A k \in ArmedIn(g) : g.blocks[k].operands = cur.blocks[k].operands
  BY <1>1, <1>2, <1>5, <1>7, <1>8, BecomeArmed
<1>11. FramesFit(frames', callDepth') /\ frames' # <<>>
  <2>1. FramesFit(frames, callDepth) /\ callDepth' = callDepth BY DEF Inv, TryDone
  <2> QED BY <2>1, <1>1, <1>2, <1>3, <1>9, FramesTop
<1>12. HandlersFit(frames', handlers') /\ handlers' \in Seq(HandlerRecord)
  <2>1. HandlersFit(frames, handlers) /\ handlers' = Front(handlers) /\ handlers \in Seq(HandlerRecord)
    BY DEF Inv, Scalars, TryDone
  <2>2. HandlersFit(frames', Front(handlers))
    BY <2>1, <1>1, <1>2, <1>3, <1>9, <1>10, HandlersDisarm
  <2>3. handlers # <<>> BY <2>1, <1>1, <1>2, <1>10, LastHandler
  <2> QED BY <2>1, <2>2, <2>3, FrontOf
<1>13. OperandsFit(frames', stack') /\ stack' \in Seq(Nat)
  <2>1. Held(g) = Held(cur) BY <1>1, <1>5, <1>9 DEF Held, Caught
  <2>2. UnderOf(g) = UnderOf(cur) BY <1>9 DEF UnderOf, IsCall, Kin
  <2>3. OperandsFit(frames, stack) /\ stack' = stack BY DEF Inv, TryDone
  <2> QED BY <2>1, <2>2, <2>3, <1>1, <1>2, <1>3, <1>9, OperandsTop
<1>14. /\ EnvsFit(frames, envStack, abandoned) => EnvsFit(frames', envStack, abandoned)
       /\ ContextFits(frames, envStack, currentInstance, otherInstance)
            => ContextFits(frames', envStack, currentInstance, otherInstance)
       /\ ParkedFit(frames, parkedException) => ParkedFit(frames', parkedException)
  BY <1>1, <1>2, <1>3, <1>9, QuietTop
<1>15. EnvsFit(frames', envStack', abandoned') /\ ContextInv' /\ ParkedInv'
  BY <1>14 DEF Inv, ContextInv, ParkedInv, TryDone, registers, exceptions
<1> QED
  BY <1>1, <1>11, <1>12, <1>13, <1>15 DEF Inv, Scalars, PendingCalm, TryDone, registers, exceptions

\* CatchDone keeps the invariant.
LEMMA CatchDoneStep == ASSUME Inv, CatchDone PROVE Inv'
<1>1. frames # <<>> /\ exception = NoException /\ cur.blocks # <<>> /\ Last(cur.blocks).kind = "catch"
  BY InBlockIs DEF CatchDone, MayRun
<1>2. /\ frames \in Seq(FrameRecord) /\ Len(frames) \in Nat /\ cur = Last(frames) /\ cur \in GoodFrame
      /\ cur \in FrameRecord
      /\ Over(stack, UnderOf(cur), Held(cur), Len(frames)) /\ stack \in Seq(Nat)
  BY <1>1, Running
<1> DEFINE b == [Last(cur.blocks) EXCEPT !.kind = "finally", !.hasCatch = FALSE]
           g == BlocksOf(cur, Append(Front(cur.blocks), b))
<1>3. Replaced(frames, frames', g)
  BY <1>1, <1>2, SetBlocksIs DEF CatchDone, BecomeBlock, SetBlocks, Replaced
<1>4. Last(cur.blocks) \in BlockRecord BY <1>1, <1>2, LastBlock
<1>5. /\ b \in BlockRecord /\ b.kind = "finally" /\ b.operands = Last(cur.blocks).operands
      /\ b.self = Last(cur.blocks).self /\ b.other = Last(cur.blocks).other
      /\ b.parked = Last(cur.blocks).parked
  BY <1>4 DEF BlockRecord
<1>6. ~Last(cur.blocks).parked
  <2>1. Orderly(cur) /\ Len(cur.blocks) \in 1 .. Len(cur.blocks) /\ Last(cur.blocks) = cur.blocks[Len(cur.blocks)]
    BY <1>1, <1>2, LastBlock DEF GoodFrame
  <2> QED BY <2>1, <1>1 DEF Orderly
<1> HIDE DEF b
<1>7. g = BlocksOf(cur, Append(Front(cur.blocks), b)) OBVIOUS
<1> HIDE DEF g
<1>8. ~IsWith(b) /\ ~IsWith(Last(cur.blocks)) /\ ~Armed(b) /\ ~Armed(Last(cur.blocks))
      /\ b \notin ParkedBlocks /\ Last(cur.blocks) \notin ParkedBlocks
  BY <1>1, <1>5, <1>6 DEF IsWith, Armed, ParkedBlocks, RunsForParked
<1>9. /\ g \in GoodFrame /\ g \in FrameRecord /\ Kin(cur, g) /\ g.operands = cur.operands
      /\ g.blocks # <<>> /\ Last(g.blocks) = b
      /\ In(g, WithBlocks) = In(cur, WithBlocks)
      /\ \A k \in In(g, WithBlocks) : /\ SelfIn(g, k - 1) = SelfIn(cur, k - 1)
                                      /\ OtherIn(g, k - 1) = OtherIn(cur, k - 1)
      /\ Self(g) = Self(cur) /\ Other(g) = Other(cur)
      /\ In(g, ParkedBlocks) = In(cur, ParkedBlocks)
  BY <1>1, <1>2, <1>5, <1>6, <1>7, <1>8, BecomeQuiet
<1>10. /\ ArmedIn(g) = ArmedIn(cur)
       /\ \A k \in ArmedIn(g) : g.blocks[k].operands = cur.blocks[k].operands
  BY <1>1, <1>2, <1>5, <1>7, <1>8, BecomeArmed
<1>11. FramesFit(frames', callDepth') /\ frames' # <<>>
  <2>1. FramesFit(frames, callDepth) /\ callDepth' = callDepth BY DEF Inv, CatchDone
  <2> QED BY <2>1, <1>1, <1>2, <1>3, <1>9, FramesTop
<1>12. HandlersFit(frames', handlers')
  <2>1. HandlersFit(frames, handlers) /\ handlers' = handlers /\ handlers \in Seq(HandlerRecord)
    BY DEF Inv, Scalars, CatchDone
  <2> QED BY <2>1, <1>1, <1>2, <1>3, <1>9, <1>10, HandlersTop
<1>13. OperandsFit(frames', stack') /\ stack' \in Seq(Nat)
  <2>1. Held(g) = Held(cur) BY <1>1, <1>5, <1>9 DEF Held, Caught
  <2>2. UnderOf(g) = UnderOf(cur) BY <1>9 DEF UnderOf, IsCall, Kin
  <2>3. OperandsFit(frames, stack) /\ stack' = stack BY DEF Inv, CatchDone
  <2> QED BY <2>1, <2>2, <2>3, <1>1, <1>2, <1>3, <1>9, OperandsTop
<1>14. /\ EnvsFit(frames, envStack, abandoned) => EnvsFit(frames', envStack, abandoned)
       /\ ContextFits(frames, envStack, currentInstance, otherInstance)
            => ContextFits(frames', envStack, currentInstance, otherInstance)
       /\ ParkedFit(frames, parkedException) => ParkedFit(frames', parkedException)
  BY <1>1, <1>2, <1>3, <1>9, QuietTop
<1>15. EnvsFit(frames', envStack', abandoned') /\ ContextInv' /\ ParkedInv'
  BY <1>14 DEF Inv, ContextInv, ParkedInv, CatchDone, registers, exceptions
<1> QED
  BY <1>1, <1>11, <1>12, <1>13, <1>15 DEF Inv, Scalars, PendingCalm, CatchDone, registers, exceptions

\* CatchBegin keeps the invariant: the exception it pops is the last value.
LEMMA CatchBeginStep == ASSUME Inv, CatchBegin PROVE Inv'
<1>1. frames # <<>> /\ exception = NoException /\ cur.blocks # <<>> /\ Last(cur.blocks).kind = "caught"
  BY InBlockIs DEF CatchBegin, MayRun
<1>2. /\ frames \in Seq(FrameRecord) /\ Len(frames) \in Nat /\ cur = Last(frames) /\ cur \in GoodFrame
      /\ cur \in FrameRecord
      /\ cur.operands \in Nat /\ UnderOf(cur) \in Seq(Nat)
      /\ Over(stack, UnderOf(cur), Held(cur), Len(frames)) /\ stack \in Seq(Nat)
  BY <1>1, Running
<1> DEFINE b == [Last(cur.blocks) EXCEPT !.kind = "catch"]
           g == BlocksOf(cur, Append(Front(cur.blocks), b))
<1>3. Replaced(frames, frames', g)
  BY <1>1, <1>2, SetBlocksIs DEF CatchBegin, BecomeBlock, SetBlocks, Replaced
<1>4. Last(cur.blocks) \in BlockRecord BY <1>1, <1>2, LastBlock
<1>5. /\ b \in BlockRecord /\ b.kind = "catch" /\ b.operands = Last(cur.blocks).operands
      /\ b.self = Last(cur.blocks).self /\ b.other = Last(cur.blocks).other
      /\ b.parked = Last(cur.blocks).parked
  BY <1>4 DEF BlockRecord
<1>6. ~Last(cur.blocks).parked
  <2>1. Orderly(cur) /\ Len(cur.blocks) \in 1 .. Len(cur.blocks) /\ Last(cur.blocks) = cur.blocks[Len(cur.blocks)]
    BY <1>1, <1>2, LastBlock DEF GoodFrame
  <2> QED BY <2>1, <1>1 DEF Orderly
<1> HIDE DEF b
<1>7. g = BlocksOf(cur, Append(Front(cur.blocks), b)) OBVIOUS
<1> HIDE DEF g
<1>8. ~IsWith(b) /\ ~IsWith(Last(cur.blocks)) /\ ~Armed(b) /\ Armed(Last(cur.blocks))
      /\ b \notin ParkedBlocks /\ Last(cur.blocks) \notin ParkedBlocks
  BY <1>1, <1>5, <1>6 DEF IsWith, Armed, ParkedBlocks, RunsForParked
<1>9. /\ g \in GoodFrame /\ g \in FrameRecord /\ Kin(cur, g) /\ g.operands = cur.operands
      /\ g.blocks # <<>> /\ Last(g.blocks) = b
      /\ In(g, WithBlocks) = In(cur, WithBlocks)
      /\ \A k \in In(g, WithBlocks) : /\ SelfIn(g, k - 1) = SelfIn(cur, k - 1)
                                      /\ OtherIn(g, k - 1) = OtherIn(cur, k - 1)
      /\ Self(g) = Self(cur) /\ Other(g) = Other(cur)
      /\ In(g, ParkedBlocks) = In(cur, ParkedBlocks)
  BY <1>1, <1>2, <1>5, <1>6, <1>7, <1>8, BecomeQuiet
<1>10. /\ Len(cur.blocks) \in ArmedIn(cur) /\ ArmedIn(g) = ArmedIn(cur) \ {Len(cur.blocks)}
       /\ \A j \in ArmedIn(cur) : j <= Len(cur.blocks)
       /\ \A k \in ArmedIn(g) : g.blocks[k].operands = cur.blocks[k].operands
  BY <1>1, <1>2, <1>5, <1>7, <1>8, BecomeArmed
<1>11. FramesFit(frames', callDepth') /\ frames' # <<>>
  <2>1. FramesFit(frames, callDepth) /\ callDepth' = callDepth BY DEF Inv, CatchBegin
  <2> QED BY <2>1, <1>1, <1>2, <1>3, <1>9, FramesTop
<1>12. HandlersFit(frames', handlers') /\ handlers' \in Seq(HandlerRecord)
  <2>1. HandlersFit(frames, handlers) /\ handlers' = Front(handlers) /\ handlers \in Seq(HandlerRecord)
    BY DEF Inv, Scalars, CatchBegin
  <2>2. HandlersFit(frames', Front(handlers))
    BY <2>1, <1>1, <1>2, <1>3, <1>9, <1>10, HandlersDisarm
  <2>3. handlers # <<>> BY <2>1, <1>1, <1>2, <1>10, LastHandler
  <2> QED BY <2>1, <2>2, <2>3, FrontOf
<1>13. OperandsFit(frames', stack') /\ stack' \in Seq(Nat)
  <2>1. Held(cur) = cur.operands + 1 /\ Held(g) = cur.operands
    BY <1>1, <1>2, <1>5, <1>9 DEF Held, Caught
  <2>2. stack' = Front(stack) BY DEF CatchBegin
  <2>3. stack' \in Seq(Nat) /\ Over(stack', UnderOf(cur), Held(g), Len(frames))
    BY <2>1, <2>2, <1>2, OverPop
  <2>4. UnderOf(g) = UnderOf(cur) BY <1>9 DEF UnderOf, IsCall, Kin
  <2>5. OperandsFit(frames, stack) BY DEF Inv
  <2> QED BY <2>3, <2>4, <2>5, <1>1, <1>2, <1>3, <1>9, OperandsTop
<1>14. /\ EnvsFit(frames, envStack, abandoned) => EnvsFit(frames', envStack, abandoned)
       /\ ContextFits(frames, envStack, currentInstance, otherInstance)
            => ContextFits(frames', envStack, currentInstance, otherInstance)
       /\ ParkedFit(frames, parkedException) => ParkedFit(frames', parkedException)
  BY <1>1, <1>2, <1>3, <1>9, QuietTop
<1>15. EnvsFit(frames', envStack', abandoned') /\ ContextInv' /\ ParkedInv'
  BY <1>14 DEF Inv, ContextInv, ParkedInv, CatchBegin, registers, exceptions
<1> QED
  BY <1>1, <1>11, <1>12, <1>13, <1>15 DEF Inv, Scalars, PendingCalm, CatchBegin, registers, exceptions

\* FinallyBegin keeps the invariant: the block that runs for the parked exception is the
\* one that landed for it.
LEMMA FinallyBeginStep == ASSUME Inv, FinallyBegin PROVE Inv'
<1>1. frames # <<>> /\ exception = NoException /\ cur.blocks # <<>> /\ Last(cur.blocks).kind = "landed"
  BY InBlockIs DEF FinallyBegin, MayRun
<1>2. /\ frames \in Seq(FrameRecord) /\ Len(frames) \in Nat /\ cur = Last(frames) /\ cur \in GoodFrame
      /\ cur \in FrameRecord
      /\ Over(stack, UnderOf(cur), Held(cur), Len(frames)) /\ stack \in Seq(Nat)
  BY <1>1, Running
<1> DEFINE b == [Last(cur.blocks) EXCEPT !.kind = "finally", !.parked = TRUE]
           g == BlocksOf(cur, Append(Front(cur.blocks), b))
<1>3. Replaced(frames, frames', g)
  BY <1>1, <1>2, SetBlocksIs DEF FinallyBegin, BecomeBlock, SetBlocks, Replaced
<1>4. Last(cur.blocks) \in BlockRecord BY <1>1, <1>2, LastBlock
<1>5. /\ b \in BlockRecord /\ b.kind = "finally" /\ b.operands = Last(cur.blocks).operands
      /\ b.self = Last(cur.blocks).self /\ b.other = Last(cur.blocks).other
      /\ b.parked
  BY <1>4 DEF BlockRecord
<1> HIDE DEF b
<1>7. g = BlocksOf(cur, Append(Front(cur.blocks), b)) OBVIOUS
<1> HIDE DEF g
<1>8. ~IsWith(b) /\ ~IsWith(Last(cur.blocks)) /\ ~Armed(b) /\ Armed(Last(cur.blocks))
      /\ b \in ParkedBlocks /\ Last(cur.blocks) \in ParkedBlocks
  BY <1>1, <1>4, <1>5 DEF IsWith, Armed, ParkedBlocks, RunsForParked
<1>9. /\ g \in GoodFrame /\ g \in FrameRecord /\ Kin(cur, g) /\ g.operands = cur.operands
      /\ g.blocks # <<>> /\ Last(g.blocks) = b
      /\ In(g, WithBlocks) = In(cur, WithBlocks)
      /\ \A k \in In(g, WithBlocks) : /\ SelfIn(g, k - 1) = SelfIn(cur, k - 1)
                                      /\ OtherIn(g, k - 1) = OtherIn(cur, k - 1)
      /\ Self(g) = Self(cur) /\ Other(g) = Other(cur)
      /\ In(g, ParkedBlocks) = In(cur, ParkedBlocks)
  BY <1>1, <1>2, <1>5, <1>7, <1>8, BecomeQuiet
<1>10. /\ Len(cur.blocks) \in ArmedIn(cur) /\ ArmedIn(g) = ArmedIn(cur) \ {Len(cur.blocks)}
       /\ \A j \in ArmedIn(cur) : j <= Len(cur.blocks)
       /\ \A k \in ArmedIn(g) : g.blocks[k].operands = cur.blocks[k].operands
  BY <1>1, <1>2, <1>5, <1>7, <1>8, BecomeArmed
<1>11. FramesFit(frames', callDepth') /\ frames' # <<>>
  <2>1. FramesFit(frames, callDepth) /\ callDepth' = callDepth BY DEF Inv, FinallyBegin
  <2> QED BY <2>1, <1>1, <1>2, <1>3, <1>9, FramesTop
<1>12. HandlersFit(frames', handlers') /\ handlers' \in Seq(HandlerRecord)
  <2>1. HandlersFit(frames, handlers) /\ handlers' = Front(handlers) /\ handlers \in Seq(HandlerRecord)
    BY DEF Inv, Scalars, FinallyBegin
  <2>2. HandlersFit(frames', Front(handlers))
    BY <2>1, <1>1, <1>2, <1>3, <1>9, <1>10, HandlersDisarm
  <2>3. handlers # <<>> BY <2>1, <1>1, <1>2, <1>10, LastHandler
  <2> QED BY <2>1, <2>2, <2>3, FrontOf
<1>13. OperandsFit(frames', stack') /\ stack' \in Seq(Nat)
  <2>1. Held(g) = Held(cur) BY <1>1, <1>5, <1>9 DEF Held, Caught
  <2>2. UnderOf(g) = UnderOf(cur) BY <1>9 DEF UnderOf, IsCall, Kin
  <2>3. OperandsFit(frames, stack) /\ stack' = stack BY DEF Inv, FinallyBegin
  <2> QED BY <2>1, <2>2, <2>3, <1>1, <1>2, <1>3, <1>9, OperandsTop
<1>14. /\ EnvsFit(frames, envStack, abandoned) => EnvsFit(frames', envStack, abandoned)
       /\ ContextFits(frames, envStack, currentInstance, otherInstance)
            => ContextFits(frames', envStack, currentInstance, otherInstance)
       /\ ParkedFit(frames, parkedException) => ParkedFit(frames', parkedException)
  BY <1>1, <1>2, <1>3, <1>9, QuietTop
<1>15. EnvsFit(frames', envStack', abandoned') /\ ContextInv' /\ ParkedInv'
  BY <1>14 DEF Inv, ContextInv, ParkedInv, FinallyBegin, registers, exceptions
<1> QED
  BY <1>1, <1>11, <1>12, <1>13, <1>15 DEF Inv, Scalars, PendingCalm, FinallyBegin, registers, exceptions

\* A step that moves no code and at most raises or drops the pending exception.
LEMMA Unmoved ==
    ASSUME Inv, frames' = frames, registers' = registers, envStack' = envStack, callDepth' = callDepth,
           handlers' = handlers, stack' = stack, parkedException' = parkedException,
           abandoned' = abandoned, muddled' = muddled,
           exception' \in {NoException, Thrown}, halted' \in {"no", "aborted", "astray", "double free"},
           PendingCalm'
    PROVE  Inv'
<1>1. currentInstance' = currentInstance /\ otherInstance' = otherInstance BY DEF registers
<1>2. Scalars' BY <1>1 DEF Inv, Scalars
<1>3. FramesFit(frames', callDepth') /\ HandlersFit(frames', handlers') BY DEF Inv
<1>4. OperandsFit(frames', stack') /\ EnvsFit(frames', envStack', abandoned') BY DEF Inv
<1>5. ContextInv' BY <1>1 DEF Inv, ContextInv
<1>6. ParkedInv' BY DEF Inv, ParkedInv
<1> QED BY <1>2, <1>3, <1>4, <1>5, <1>6 DEF Inv

\* A block other than a with-block is entered in the context of the code around it.
LEMMA EnterQuiet ==
    ASSUME NEW f \in GoodFrame, Calm(f), NEW b \in BlockRecord, b.operands = f.operands,
           ~b.parked, b.kind # "landed", ~IsWith(b), b.self = Self(f), b.other = Other(f),
           NEW g, g = BlocksOf(f, Append(f.blocks, b))
    PROVE  /\ g \in GoodFrame /\ g \in FrameRecord /\ Kin(f, g) /\ g.operands = f.operands
           /\ g.blocks = Append(f.blocks, b) /\ Last(g.blocks) = b
           /\ In(g, WithBlocks) = In(f, WithBlocks) /\ In(g, ParkedBlocks) = In(f, ParkedBlocks)
           /\ \A k \in In(g, WithBlocks) : /\ SelfIn(g, k - 1) = SelfIn(f, k - 1)
                                           /\ OtherIn(g, k - 1) = OtherIn(f, k - 1)
           /\ Self(g) = Self(f) /\ Other(g) = Other(f)
<1> DEFINE n == Len(f.blocks)
<1>1. f \in FrameRecord BY DEF GoodFrame
<1>2. BlocksOf(f, Append(f.blocks, b)) \in GoodFrame BY GoodEnter
<1>3. /\ g \in FrameRecord /\ Kin(f, g) /\ g.operands = f.operands
      /\ g.blocks = Append(f.blocks, b) /\ Last(g.blocks) = b
      /\ Len(g.blocks) = n + 1 /\ n \in Nat /\ g.blocks[n + 1] = b
      /\ \A k \in 1 .. n : g.blocks[k] = f.blocks[k]
      /\ \A m \in 0 .. n : SelfIn(g, m) = SelfIn(f, m) /\ OtherIn(g, m) = OtherIn(f, m)
      /\ Self(g) = b.self /\ Other(g) = b.other
  BY <1>1, EnterBlockIs
<1> HIDE DEF n
<1>4. Len(f.blocks) = n BY DEF n
<1>5. b \notin WithBlocks /\ b \notin ParkedBlocks BY DEF WithBlocks, ParkedBlocks, RunsForParked
<1>9. \A k \in 1 .. n + 1 : k = n + 1 \/ (k \in 1 .. n /\ g.blocks[k] = f.blocks[k]) BY <1>3
<1>10. \A k \in 1 .. n : k \in 1 .. n + 1 BY <1>3
<1>6. In(g, WithBlocks) = In(f, WithBlocks)
  <2>1. g.blocks[n + 1] \notin WithBlocks /\ Len(g.blocks) = n + 1 BY <1>3, <1>5
  <2> QED BY <2>1, <1>4, <1>9, <1>10 DEF In
<1>7. In(g, ParkedBlocks) = In(f, ParkedBlocks)
  <2>1. g.blocks[n + 1] \notin ParkedBlocks /\ Len(g.blocks) = n + 1 BY <1>3, <1>5
  <2> QED BY <2>1, <1>4, <1>9, <1>10 DEF In
<1>8. ASSUME NEW k \in In(g, WithBlocks)
      PROVE  SelfIn(g, k - 1) = SelfIn(f, k - 1) /\ OtherIn(g, k - 1) = OtherIn(f, k - 1)
  <2>1. k \in 1 .. n BY <1>4, <1>6 DEF In
  <2>2. k - 1 \in 0 .. n BY <2>1, <1>3
  <2> QED BY <2>2, <1>3
<1> QED BY <1>2, <1>3, <1>6, <1>7, <1>8

\* TryHook keeps the invariant: the new handler is above all others.
LEMMA TryHookStep == ASSUME Inv, NEW hasCatch \in BOOLEAN, TryHook(hasCatch) PROVE Inv'
<1>1. frames # <<>> /\ exception = NoException /\ Calm(cur)
  BY DEF TryHook, AtStatement, MayRun, Calm, Special
<1>2. CASE Len(handlers) = HandlerStackSize
  <2>1. PendingCalm' BY <1>1, <1>2 DEF TryHook, exceptions, PendingCalm
  <2>2. halted' = "aborted" BY <1>2 DEF TryHook
  <2>3. /\ frames' = frames /\ registers' = registers /\ envStack' = envStack /\ callDepth' = callDepth
        /\ handlers' = handlers /\ stack' = stack /\ parkedException' = parkedException
        /\ abandoned' = abandoned /\ muddled' = muddled /\ exception' = exception
    BY <1>2 DEF TryHook, exceptions
  <2> QED BY <2>1, <2>2, <2>3, Unmoved DEF Inv, Scalars
<1>3. CASE Len(handlers) # HandlerStackSize
  <2>1. /\ frames \in Seq(FrameRecord) /\ Len(frames) \in Nat /\ cur = Last(frames) /\ cur \in GoodFrame
        /\ cur \in FrameRecord /\ cur.operands \in Nat /\ Len(cur.blocks) \in Nat
        /\ Over(stack, UnderOf(cur), Held(cur), Len(frames)) /\ stack \in Seq(Nat)
    BY <1>1, Running
  <2> DEFINE b == [Block("try") EXCEPT !.hasCatch = hasCatch]
             g == BlocksOf(cur, Append(cur.blocks, b))
             h == [boundToCallDepth |-> callDepth, stackTop |-> Len(stack),
                   frame |-> Len(frames), block |-> Len(cur.blocks) + 1]
  <2>2. Replaced(frames, frames', g)
    BY <1>1, <1>3, <2>1, SetBlocksIs DEF TryHook, EnterBlock, SetBlocks, Replaced
  <2>3. handlers' = Append(handlers, h) BY <1>3 DEF TryHook
  <2>4. Self(cur) \in Anyone /\ Other(cur) \in Anyone
    <3>1. cur.blocks \in Seq(BlockRecord) /\ cur.self \in Anyone /\ cur.other \in Anyone
      BY <2>1 DEF FrameRecord
    <3>2. Len(cur.blocks) # 0 => cur.blocks[Len(cur.blocks)] \in BlockRecord BY <3>1
    <3> QED BY <3>1, <3>2 DEF Self, Other, SelfIn, OtherIn, BlockRecord
  <2>5. /\ b \in BlockRecord /\ b.kind = "try" /\ b.operands = cur.operands /\ ~b.parked
        /\ b.self = Self(cur) /\ b.other = Other(cur)
    BY <2>1, <2>4 DEF Block, BlockRecord
  <2>6. ~IsWith(b) /\ Armed(b) /\ b.kind # "landed" BY <2>5 DEF IsWith, Armed
  <2>7. callDepth \in Nat /\ callDepth = DepthIn(frames, Len(frames)) BY <2>1, DepthNext DEF Inv, FramesFit
  <2>8. Held(cur) = cur.operands BY <1>1, <2>1 DEF Held, Caught, Calm, Special
  <2>9. Len(stack) = Len(UnderOf(cur)) + cur.operands /\ Len(stack) \in Nat BY <2>1, <2>8 DEF Over
  <2>10. /\ h \in HandlerRecord /\ h.frame = Len(frames) /\ h.block = Len(cur.blocks) + 1
         /\ h.boundToCallDepth = DepthIn(frames, Len(frames))
         /\ h.stackTop = Len(UnderOf(cur)) + b.operands
    BY <2>1, <2>5, <2>7, <2>9 DEF HandlerRecord
  <2> HIDE DEF b, h
  <2>11. g = BlocksOf(cur, Append(cur.blocks, b)) OBVIOUS
  <2> HIDE DEF g
  <2>12. /\ g \in GoodFrame /\ g \in FrameRecord /\ Kin(cur, g) /\ g.operands = cur.operands
         /\ g.blocks = Append(cur.blocks, b) /\ Last(g.blocks) = b
         /\ In(g, WithBlocks) = In(cur, WithBlocks) /\ In(g, ParkedBlocks) = In(cur, ParkedBlocks)
         /\ \A k \in In(g, WithBlocks) : /\ SelfIn(g, k - 1) = SelfIn(cur, k - 1)
                                         /\ OtherIn(g, k - 1) = OtherIn(cur, k - 1)
         /\ Self(g) = Self(cur) /\ Other(g) = Other(cur)
    BY <1>1, <2>1, <2>5, <2>6, <2>11, EnterQuiet
  <2>13. FramesFit(frames', callDepth') /\ frames' # <<>>
    <3>1. FramesFit(frames, callDepth) /\ callDepth' = callDepth BY DEF Inv, TryHook
    <3> QED BY <3>1, <1>1, <2>1, <2>2, <2>12, FramesTop
  <2>14. HandlersFit(frames', handlers') /\ handlers' \in Seq(HandlerRecord)
    <3>1. HandlersFit(frames, handlers) /\ handlers \in Seq(HandlerRecord) BY DEF Inv, Scalars
    <3>2. HandlersFit(frames', Append(handlers, h))
      BY <3>1, <1>1, <2>1, <2>2, <2>5, <2>6, <2>10, <2>12, HandlersArm
    <3> QED BY <3>1, <3>2, <2>3, <2>10, AppendOf
  <2>15. OperandsFit(frames', stack') /\ stack' \in Seq(Nat)
    <3>1. Held(g) = Held(cur)
      <4>1. Last(g.blocks).kind # "caught" BY <2>5, <2>12
      <4>2. Held(g) = g.operands + 0 BY <4>1 DEF Held, Caught
      <4> QED BY <4>2, <2>1, <2>8, <2>12
    <3>2. UnderOf(g) = UnderOf(cur) BY <2>12 DEF UnderOf, IsCall, Kin
    <3>3. OperandsFit(frames, stack) /\ stack' = stack BY DEF Inv, TryHook
    <3> QED BY <3>1, <3>2, <3>3, <1>1, <2>1, <2>2, <2>12, OperandsTop
  <2>16. /\ EnvsFit(frames, envStack, abandoned) => EnvsFit(frames', envStack, abandoned)
         /\ ContextFits(frames, envStack, currentInstance, otherInstance)
              => ContextFits(frames', envStack, currentInstance, otherInstance)
         /\ ParkedFit(frames, parkedException) => ParkedFit(frames', parkedException)
    BY <1>1, <2>1, <2>2, <2>12, QuietTop
  <2>17. EnvsFit(frames', envStack', abandoned') /\ ContextInv' /\ ParkedInv'
    BY <2>16 DEF Inv, ContextInv, ParkedInv, TryHook, registers, exceptions
  <2>18. halted' = halted BY <1>3 DEF TryHook
  <2>19. Scalars' /\ PendingCalm'
    BY <1>1, <2>14, <2>15, <2>18 DEF Inv, Scalars, PendingCalm, TryHook, registers, exceptions
  <2> QED BY <2>13, <2>14, <2>15, <2>17, <2>19 DEF Inv
<1> QED BY <1>2, <1>3

\* A set without one element, and with one more.
Without(A, n) == A \ {n}
Plus(A, n) == A \cup {n}

\* The last block is left.
LEMMA LeaveBlockIs ==
    ASSUME NEW f \in GoodFrame, f.blocks # <<>>, NEW n, n = Len(f.blocks),
           NEW g, g = BlocksOf(f, Front(f.blocks))
    PROVE  /\ g \in GoodFrame /\ g \in FrameRecord /\ Kin(f, g) /\ g.operands = f.operands
           /\ n \in Nat /\ n >= 1 /\ Len(g.blocks) = n - 1
           /\ \A k \in 1 .. n - 1 : g.blocks[k] = f.blocks[k]
           /\ Calm(g) /\ Held(g) = g.operands
           /\ \A B : In(g, B) = Without(In(f, B), n)
           /\ ArmedIn(g) = Without(ArmedIn(f), n)
           /\ \A m \in 0 .. n - 1 : SelfIn(g, m) = SelfIn(f, m) /\ OtherIn(g, m) = OtherIn(f, m)
           /\ Self(g) = SelfIn(f, n - 1) /\ Other(g) = OtherIn(f, n - 1)
           /\ ~IsWith(Last(f.blocks)) => Self(g) = Self(f) /\ Other(g) = Other(f)
<1>1. f \in FrameRecord /\ Steady(f) /\ Orderly(f) BY DEF GoodFrame
<1>2. Last(f.blocks) = f.blocks[n] /\ n \in Nat /\ n >= 1 BY LastBlock
<1>3. f.blocks \in Seq(BlockRecord) BY <1>1 DEF FrameRecord
<1>4. n - 1 \in 0 .. Len(f.blocks) BY <1>2
<1>5. g = BlocksOf(f, SubSeq(f.blocks, 1, n - 1)) BY DEF Front
<1>6. BlocksOf(f, SubSeq(f.blocks, 1, n - 1)) \in GoodFrame BY <1>4, GoodTruncate
<1>7. /\ g \in FrameRecord /\ Kin(f, g) /\ g.operands = f.operands
      /\ Len(g.blocks) = n - 1
      /\ \A k \in 1 .. n - 1 : g.blocks[k] = f.blocks[k]
      /\ \A m \in 0 .. n - 1 : SelfIn(g, m) = SelfIn(f, m) /\ OtherIn(g, m) = OtherIn(f, m)
      /\ Self(g) = SelfIn(f, n - 1) /\ Other(g) = OtherIn(f, n - 1)
  BY <1>1, <1>4, <1>5, TruncateIs
<1>8. g.blocks # <<>> => Last(g.blocks).kind \notin Special
  <2> SUFFICES ASSUME g.blocks # <<>> PROVE Last(g.blocks).kind \notin Special OBVIOUS
  <2>1. g.blocks \in Seq(BlockRecord) BY <1>7 DEF FrameRecord
  <2>2. n - 1 \in 1 .. n - 1 /\ n - 1 < Len(f.blocks) /\ n - 1 \in 1 .. Len(f.blocks) BY <2>1, <1>2, <1>7
  <2>3. Last(g.blocks) = g.blocks[n - 1] BY <1>7 DEF Last
  <2> QED BY <2>2, <2>3, <1>1, <1>7 DEF Orderly
<1>9. Calm(g) /\ Held(g) = g.operands
  <2>1. g.operands \in Nat BY <1>7 DEF FrameRecord
  <2> QED BY <2>1, <1>8 DEF Calm, Held, Caught, Special
<1>10. \A k : k \in 1 .. n - 1 <=> k \in 1 .. n /\ k # n BY <1>2
<1>11. \A B : In(g, B) = Without(In(f, B), n) BY <1>7, <1>10 DEF In, Without
<1>12. ArmedIn(g) = Without(ArmedIn(f), n) BY <1>7, <1>10 DEF ArmedIn, Without
<1>13. ASSUME ~IsWith(Last(f.blocks)) PROVE Self(g) = Self(f) /\ Other(g) = Other(f)
  <2>1. n - 1 \in 0 .. Len(f.blocks) /\ n \in 0 .. Len(f.blocks) /\ n - 1 <= n BY <1>2
  <2>2. \A j \in n - 1 + 1 .. n : ~IsWith(f.blocks[j]) BY <1>2, <1>13
  <2>3. SelfIn(f, n) = SelfIn(f, n - 1) /\ OtherIn(f, n) = OtherIn(f, n - 1)
    BY <2>1, <2>2, <1>1 DEF Steady
  <2> QED BY <2>3, <1>7 DEF Self, Other
<1> QED BY <1>2, <1>5, <1>6, <1>7, <1>9, <1>11, <1>12, <1>13

\* The running code has one place less.
LEMMA PlacesDrop ==
    ASSUME NEW fs \in Seq(FrameRecord), fs # <<>>, NEW g \in FrameRecord, NEW gs, Replaced(fs, gs, g),
           NEW B, NEW n, In(g, B) = Without(In(Last(fs), B), n)
    PROVE  PlacesOf(gs, B) = Without(PlacesOf(fs, B), <<Len(fs), n>>)
<1>1. Len(fs) \in Nat /\ Len(fs) >= 1 /\ Last(fs) = fs[Len(fs)] BY FrontOf
<1>2. PlacesOf(gs, B) = {p \in PlacesOf(fs, B) : p[1] # Len(fs)} \cup {<<Len(fs), k>> : k \in In(g, B)}
  BY PlacesTop
<1>3. ASSUME NEW k \in In(g, B) PROVE <<Len(fs), k>> \in PlacesOf(fs, B) /\ k # n
  BY <1>1, PlaceIs DEF Without
<1>4. ASSUME NEW p \in PlacesOf(fs, B), p[1] = Len(fs), p # <<Len(fs), n>>
      PROVE  \E k \in In(g, B) : p = <<Len(fs), k>>
  <2>1. p \in Nat \X Nat /\ p[2] \in In(fs[p[1]], B) BY DEF PlacesOf
  <2>2. p = <<Len(fs), p[2]>> BY <2>1, <1>4
  <2>3. p[2] \in In(g, B) BY <2>1, <2>2, <1>1, <1>4 DEF Without
  <2> QED BY <2>2, <2>3
<1> QED BY <1>2, <1>3, <1>4 DEF Without

\* The running code has one place more.
LEMMA PlacesAdd ==
    ASSUME NEW fs \in Seq(FrameRecord), fs # <<>>, NEW g \in FrameRecord, NEW gs, Replaced(fs, gs, g),
           NEW B, NEW n, In(g, B) = Plus(In(Last(fs), B), n)
    PROVE  PlacesOf(gs, B) = Plus(PlacesOf(fs, B), <<Len(fs), n>>)
<1>1. Len(fs) \in Nat /\ Len(fs) >= 1 /\ Last(fs) = fs[Len(fs)] BY FrontOf
<1>2. PlacesOf(gs, B) = {p \in PlacesOf(fs, B) : p[1] # Len(fs)} \cup {<<Len(fs), k>> : k \in In(g, B)}
  BY PlacesTop
<1>3. ASSUME NEW k \in In(g, B), k # n PROVE <<Len(fs), k>> \in PlacesOf(fs, B)
  <2>1. k \in In(Last(fs), B) BY <1>3 DEF Plus
  <2> QED BY <2>1, <1>1, PlaceIs
<1>4. ASSUME NEW p \in PlacesOf(fs, B), p[1] = Len(fs) PROVE \E k \in In(g, B) : p = <<Len(fs), k>>
  <2>1. p \in Nat \X Nat /\ p[2] \in In(fs[p[1]], B) BY DEF PlacesOf
  <2>2. p = <<Len(fs), p[2]>> /\ p[2] \in In(g, B) BY <2>1, <1>1, <1>4 DEF Plus
  <2> QED BY <2>2
<1>5. n \in In(g, B) BY DEF Plus
<1> QED BY <1>2, <1>3, <1>4, <1>5 DEF Plus

\* FinishFinally keeps the invariant: as long as nothing is muddled, the block that ends
\* ran for the parked exception, or there is none.
LEMMA FinishFinallyStep == ASSUME Inv, FinishFinally PROVE Inv'
<1>1. frames # <<>> /\ exception = NoException /\ cur.blocks # <<>> /\ Last(cur.blocks).kind = "finally"
  BY InBlockIs DEF FinishFinally, MayRun
<1>2. /\ frames \in Seq(FrameRecord) /\ Len(frames) \in Nat /\ cur = Last(frames) /\ cur \in GoodFrame
      /\ cur \in FrameRecord /\ cur.operands \in Nat
      /\ Over(stack, UnderOf(cur), Held(cur), Len(frames)) /\ stack \in Seq(Nat)
  BY <1>1, Running
<1> DEFINE n == Len(cur.blocks)
           g == BlocksOf(cur, Front(cur.blocks))
<1>3. Replaced(frames, frames', g)
  BY <1>1, <1>2, SetBlocksIs DEF FinishFinally, LeaveBlock, SetBlocks, Replaced
<1>4. n = Len(cur.blocks) /\ g = BlocksOf(cur, Front(cur.blocks)) OBVIOUS
<1>5. Last(cur.blocks) \in BlockRecord /\ Last(cur.blocks) = cur.blocks[n] BY <1>1, <1>2, LastBlock
<1> HIDE DEF g, n
<1>6. ~IsWith(Last(cur.blocks)) /\ ~Armed(Last(cur.blocks)) BY <1>1 DEF IsWith, Armed
<1>7. /\ g \in GoodFrame /\ g \in FrameRecord /\ Kin(cur, g) /\ g.operands = cur.operands
      /\ n \in Nat /\ n >= 1 /\ Len(g.blocks) = n - 1
      /\ \A k \in 1 .. n - 1 : g.blocks[k] = cur.blocks[k]
      /\ Calm(g) /\ Held(g) = g.operands
      /\ \A B : In(g, B) = Without(In(cur, B), n)
      /\ ArmedIn(g) = Without(ArmedIn(cur), n)
      /\ \A m \in 0 .. n - 1 : SelfIn(g, m) = SelfIn(cur, m) /\ OtherIn(g, m) = OtherIn(cur, m)
      /\ Self(g) = Self(cur) /\ Other(g) = Other(cur)
  <2>1. /\ g \in GoodFrame /\ g \in FrameRecord /\ Kin(cur, g) /\ g.operands = cur.operands
        /\ n \in Nat /\ n >= 1 /\ Len(g.blocks) = n - 1 /\ Calm(g) /\ Held(g) = g.operands
    BY <1>1, <1>2, <1>4, LeaveBlockIs
  <2>2. /\ \A k \in 1 .. n - 1 : g.blocks[k] = cur.blocks[k]
        /\ \A B : In(g, B) = Without(In(cur, B), n)
        /\ ArmedIn(g) = Without(ArmedIn(cur), n)
    BY <1>1, <1>2, <1>4, LeaveBlockIs, SMTT(30)
  <2>3. \A m \in 0 .. n - 1 : SelfIn(g, m) = SelfIn(cur, m) /\ OtherIn(g, m) = OtherIn(cur, m)
    BY <1>1, <1>2, <1>4, LeaveBlockIs
  <2>4. Self(g) = Self(cur) /\ Other(g) = Other(cur) BY <1>1, <1>2, <1>4, <1>6, LeaveBlockIs
  <2> QED BY <2>1, <2>2, <2>3, <2>4
<1>8. FramesFit(frames', callDepth') /\ frames' # <<>> /\ Last(frames') = g
  <2>1. FramesFit(frames, callDepth) /\ callDepth' = callDepth BY SMTT(30) DEF Inv, FinishFinally
  <2> QED BY <2>1, <1>1, <1>2, <1>3, <1>7, FramesTop
<1>9. HandlersFit(frames', handlers')
  <2>1. HandlersFit(frames, handlers) /\ handlers' = handlers /\ handlers \in Seq(HandlerRecord)
    BY DEF Inv, Scalars, FinishFinally
  <2>2. ArmedIn(g) = ArmedIn(cur) BY <1>5, <1>6, <1>7 DEF ArmedIn, Without
  <2>3. \A k \in ArmedIn(g) : g.blocks[k].operands = cur.blocks[k].operands BY <1>7 DEF ArmedIn
  <2> QED BY <2>1, <2>2, <2>3, <1>1, <1>2, <1>3, <1>7, HandlersTop
<1>10. OperandsFit(frames', stack') /\ stack' \in Seq(Nat)
  <2>1. Held(g) = Held(cur) BY <1>1, <1>2, <1>7 DEF Held, Caught
  <2>2. UnderOf(g) = UnderOf(cur) BY <1>7 DEF UnderOf, IsCall, Kin
  <2>3. OperandsFit(frames, stack) /\ stack' = stack BY DEF Inv, FinishFinally
  <2> QED BY <2>1, <2>2, <2>3, <1>1, <1>2, <1>3, <1>7, OperandsTop
<1>11. /\ EnvsFit(frames, envStack, abandoned) => EnvsFit(frames', envStack, abandoned)
       /\ ContextFits(frames, envStack, currentInstance, otherInstance)
            => ContextFits(frames', envStack, currentInstance, otherInstance)
  <2>1. n \notin In(cur, WithBlocks) BY <1>5, <1>6 DEF In, WithBlocks
  <2>2. In(g, WithBlocks) = In(cur, WithBlocks) BY <2>1, <1>7 DEF Without
  <2>3. ASSUME NEW k \in In(g, WithBlocks)
        PROVE  SelfIn(g, k - 1) = SelfIn(cur, k - 1) /\ OtherIn(g, k - 1) = OtherIn(cur, k - 1)
    <3>1. k \in 1 .. n - 1 BY <1>7 DEF In
    <3>2. k - 1 \in 0 .. n - 1 BY <3>1, <1>7
    <3> QED BY <3>2, <1>7
  <2> QED BY <2>2, <2>3, <1>1, <1>2, <1>3, <1>7, QuietTop
<1>12. ParkedInv'
  <2> SUFFICES ASSUME ~muddled' PROVE ParkedFit(frames', NoException) BY DEF ParkedInv, FinishFinally
  <2>1. ~muddled /\ (Last(cur.blocks).parked <=> parkedException # NoException)
    BY <1>5 DEF FinishFinally, BlockRecord
  <2>2. ParkedFit(frames, parkedException) BY <2>1 DEF Inv, ParkedInv
  <2>3. PlacesOf(frames', ParkedBlocks) = Without(PlacesOf(frames, ParkedBlocks), <<Len(frames), n>>)
    <3>1. In(g, ParkedBlocks) = Without(In(Last(frames), ParkedBlocks), n) /\ g \in FrameRecord BY <1>2, <1>7
    <3> QED BY <3>1, <1>1, <1>2, <1>3, PlacesDrop
  <2>4. PlacesOf(frames', ParkedBlocks) = {}
    <3>1. CASE parkedException = NoException BY <3>1, <2>2, <2>3 DEF ParkedFit, Without
    <3>2. CASE parkedException # NoException
      <4>1. n \in In(cur, ParkedBlocks)
        BY <3>2, <2>1, <1>4, <1>5, <1>7 DEF In, ParkedBlocks, RunsForParked
      <4>2. <<Len(frames), n>> \in PlacesOf(frames, ParkedBlocks)
        <5>1. Len(frames) \in 1 .. Len(frames) /\ frames[Len(frames)] = cur BY <1>1, <1>2 DEF cur
        <5> QED BY <5>1, <4>1, <1>2, PlaceIs
      <4> QED BY <4>2, <2>2, <2>3 DEF ParkedFit, Without
    <3> QED BY <3>1, <3>2
  <2> QED BY <2>4 DEF ParkedFit
<1>13. EnvsFit(frames', envStack', abandoned') /\ ContextInv'
  BY <1>11 DEF Inv, ContextInv, FinishFinally, registers
<1>14. PendingCalm' BY <1>7, <1>8 DEF PendingCalm
<1> QED
  BY <1>8, <1>9, <1>10, <1>12, <1>13, <1>14 DEF Inv, Scalars, FinishFinally, registers

-------------------------------------------------------------------------------
(* Steps into and out of with-blocks                                        *)

\* No place of the running code is beyond its last block.
LEMMA PlacesBelow ==
    ASSUME NEW fs \in Seq(FrameRecord), fs # <<>>, NEW B, NEW p \in PlacesOf(fs, B)
    PROVE  /\ p \in Nat \X Nat /\ Len(fs) \in Nat /\ p = <<p[1], p[2]>>
           /\ p[1] < Len(fs) \/ (p[1] = Len(fs) /\ p[2] \in 1 .. Len(Last(fs).blocks))
<1>1. Len(fs) \in Nat /\ Len(fs) >= 1 /\ Last(fs) = fs[Len(fs)] BY FrontOf
<1>2. p \in Nat \X Nat /\ p[1] \in 1 .. Len(fs) /\ p[2] \in In(fs[p[1]], B) BY DEF PlacesOf
<1>3. p[1] = Len(fs) => p[2] \in 1 .. Len(Last(fs).blocks) BY <1>1, <1>2 DEF In
<1>4. p = <<p[1], p[2]>> BY <1>2
<1> QED BY <1>1, <1>2, <1>3, <1>4

\* The places of a set are all before one; two sets of places with the same ranks for those of the first.
Beyond(O, i, m) == \A p \in O : p[1] < i \/ (p[1] = i /\ p[2] < m)
RanksKept(O, Q) ==
    \A j, k \in Nat : <<j, k>> \in O => Rank(Q, j, k) = Rank(O, j, k) /\ Rank(O, j, k) \in 1 .. Cardinality(O)

\* A set of places has one more than another, after those.
LastPlaceOf(Q, O, i, m) ==
    /\ IsFiniteSet(Q) /\ Cardinality(O) \in Nat /\ Cardinality(Q) = Cardinality(O) + 1
    /\ Rank(Q, i, m) = Cardinality(O) + 1
    /\ RanksKept(O, Q)

\* A place that is added beyond all others has the last rank, and they keep theirs.
LEMMA Ranks ==
    ASSUME NEW O \in SUBSET (Nat \X Nat), IsFiniteSet(O), NEW i \in Nat, NEW m \in Nat,
           Beyond(O, i, m),
           NEW Q, Q = Plus(O, <<i, m>>)
    PROVE  LastPlaceOf(Q, O, i, m)
<1>1. Q = O \cup {<<i, m>>} /\ <<i, m>> \notin O BY DEF Plus, Beyond
<1>2. IsFiniteSet(Q) /\ Cardinality(Q) = Cardinality(O) + 1 /\ Cardinality(O) \in Nat
  BY <1>1, FS_AddElement, FS_CardinalityType
<1>3. Q \in SUBSET (Nat \X Nat) /\ <<i, m>> \in Q BY <1>1
<1>4. \A p \in Q : p[1] < i \/ (p[1] = i /\ p[2] <= m) BY <1>1 DEF Beyond
<1>5. Rank(Q, i, m) = Cardinality(Q) BY <1>2, <1>3, <1>4, RankRange
<1>6. ASSUME NEW j \in Nat, NEW k \in Nat, <<j, k>> \in O
      PROVE  Rank(Q, j, k) = Rank(O, j, k) /\ Rank(O, j, k) \in 1 .. Cardinality(O)
  <2>1. j < i \/ (j = i /\ k < m) BY <1>6 DEF Beyond
  <2>2. ~(i < j \/ (i = j /\ m <= k)) BY <2>1
  <2>3. ASSUME NEW p \in Q \cup O, p[1] < j \/ (p[1] = j /\ p[2] <= k) PROVE p \in Q <=> p \in O
    <3>1. p # <<i, m>> BY <2>2, <2>3
    <3> QED BY <3>1, <1>1
  <2>4. Rank(Q, j, k) = Rank(O, j, k) BY <2>3, RankSame
  <2> QED BY <2>4, <1>6, RankRange
<1> QED BY <1>2, <1>5, <1>6 DEF RanksKept, LastPlaceOf

\* Two stacks of environment frames that have saved the same for a set of places.
SameSaved(R, es, O, ds, Q) ==
    \A i, k \in Nat : <<i, k>> \in R =>
        /\ ds[Rank(Q, i, k)].savedInstance = es[Rank(O, i, k)].savedInstance
        /\ ds[Rank(Q, i, k)].savedOtherInstance = es[Rank(O, i, k)].savedOtherInstance

\* Frames whose with-blocks are among those places agree with the one as with the other.
LEMMA SavedKept ==
    ASSUME NEW fs, NEW es, NEW ds, NEW O, NEW Q, NEW R, NEW n \in Nat,
           SavedBelow(fs, n, es, O), SameSaved(R, es, O, ds, Q),
           \A i \in 1 .. n : \A k \in In(fs[i], WithBlocks) : <<i, k>> \in R
    PROVE  SavedBelow(fs, n, ds, Q)
<1> SUFFICES ASSUME NEW i \in 1 .. n, NEW k \in In(fs[i], WithBlocks)
             PROVE  SavedFor(ds[Rank(Q, i, k)], fs[i], k)
  BY DEF SavedBelow, SavedIn
<1>1. SavedFor(es[Rank(O, i, k)], fs[i], k) BY DEF SavedBelow, SavedIn
<1>2. i \in Nat /\ k \in Nat /\ <<i, k>> \in R BY DEF In
<1> QED BY <1>1, <1>2 DEF SavedFor, SameSaved

\* The running code has entered a with-block: its place is the last.
LEMMA PlacePushed ==
    ASSUME NEW fs \in Seq(FrameRecord), fs # <<>>, IsFiniteSet(PlacesOf(fs, WithBlocks)),
           NEW n, n = Len(Last(fs).blocks), NEW g \in FrameRecord, NEW gs, Replaced(fs, gs, g),
           In(g, WithBlocks) = Plus(In(Last(fs), WithBlocks), n + 1)
    PROVE  LastPlaceOf(PlacesOf(gs, WithBlocks), PlacesOf(fs, WithBlocks), Len(fs), n + 1)
<1> DEFINE L == Len(fs)
           O == PlacesOf(fs, WithBlocks)
           Q == PlacesOf(gs, WithBlocks)
<1>1. L \in Nat /\ L >= 1 /\ Last(fs) = fs[L] /\ Last(fs) \in FrameRecord BY FrontOf
<1>2. n \in Nat
  <2>1. Last(fs).blocks \in Seq(BlockRecord) BY <1>1 DEF FrameRecord
  <2> QED BY <2>1
<1>3. Q = Plus(O, <<L, n + 1>>) BY <1>1, PlacesAdd
<1>4. O \in SUBSET (Nat \X Nat) /\ n + 1 \in Nat BY <1>2 DEF PlacesOf
<1>5. Beyond(O, L, n + 1)
  <2> SUFFICES ASSUME NEW p \in O PROVE p[1] < L \/ (p[1] = L /\ p[2] < n + 1) BY DEF Beyond
  <2>1. p[1] < L \/ (p[1] = L /\ p[2] \in 1 .. n) BY PlacesBelow
  <2> QED BY <2>1, <1>2
<1> HIDE DEF O, Q, L
<1>6. IsFiniteSet(O) /\ L \in Nat BY <1>1 DEF O
<1>7. LastPlaceOf(Q, O, L, n + 1) BY <1>3, <1>4, <1>5, <1>6, Ranks
<1> QED BY <1>7 DEF O, Q, L

\* It has an environment frame of its own.
LEMMA EnvsPush ==
    ASSUME NEW fs \in Seq(FrameRecord), fs # <<>>, NEW es \in Seq(EnvRecord), NEW a \in Nat,
           EnvsFit(fs, es, a),
           NEW n, n = Len(Last(fs).blocks), NEW g \in FrameRecord, NEW gs, Replaced(fs, gs, g),
           In(g, WithBlocks) = Plus(In(Last(fs), WithBlocks), n + 1),
           NEW e \in EnvRecord, NEW ds, ds = Append(es, e)
    PROVE  EnvsFit(gs, ds, a)
<1>1. Len(ds) = Len(es) + 1 /\ Len(es) \in Nat BY AppendOf
<1>2. IsFiniteSet(PlacesOf(fs, WithBlocks)) /\ Len(es) = Cardinality(PlacesOf(fs, WithBlocks)) + a
  BY DEF EnvsFit
<1>3. LastPlaceOf(PlacesOf(gs, WithBlocks), PlacesOf(fs, WithBlocks), Len(fs), n + 1)
  BY <1>2, PlacePushed
<1> QED BY <1>1, <1>2, <1>3 DEF EnvsFit, LastPlaceOf

\* That frame saves what is around the block.
LEMMA ContextPush ==
    ASSUME NEW fs \in Seq(FrameRecord), fs # <<>>, NEW es \in Seq(EnvRecord), EnvsFit(fs, es, 0),
           NEW n, n = Len(Last(fs).blocks), NEW g \in FrameRecord, Kin(Last(fs), g),
           NEW gs, Replaced(fs, gs, g),
           In(g, WithBlocks) = Plus(In(Last(fs), WithBlocks), n + 1),
           \A m \in 0 .. n : SelfIn(g, m) = SelfIn(Last(fs), m) /\ OtherIn(g, m) = OtherIn(Last(fs), m),
           NEW e \in EnvRecord, SavedFor(e, g, n + 1), NEW ds, ds = Append(es, e),
           NEW self, NEW other, ContextFits(fs, es, self, other)
    PROVE  ContextFits(gs, ds, Self(g), Other(g))
<1> DEFINE L == Len(fs)
           O == PlacesOf(fs, WithBlocks)
           Q == PlacesOf(gs, WithBlocks)
<1>1. L \in Nat /\ L >= 1 /\ Last(fs) = fs[L] /\ Last(fs) \in FrameRecord BY FrontOf
<1>2. n \in Nat
  <2>1. Last(fs).blocks \in Seq(BlockRecord) BY <1>1 DEF FrameRecord
  <2> QED BY <2>1
<1>3. IsFiniteSet(O) /\ Len(es) = Cardinality(O) + 0 BY DEF EnvsFit
<1>4. LastPlaceOf(Q, O, L, n + 1) BY <1>3, PlacePushed
<1>5. /\ Len(ds) = Len(es) + 1 /\ ds[Len(es) + 1] = e /\ Len(es) \in Nat
      /\ \A i \in 1 .. Len(es) : ds[i] = es[i]
  BY AppendOf
<1>6. SavedBelow(fs, L, es, O) BY DEF ContextFits, SavedAll
<1>7. \A i \in 1 .. L : \A k \in In(fs[i], WithBlocks) : <<i, k>> \in O BY PlaceIs
<1> HIDE DEF O, Q, L
<1>8. SameSaved(O, es, O, ds, Q) BY <1>3, <1>4, <1>5 DEF SameSaved, LastPlaceOf, RanksKept
<1>9. SavedBelow(fs, L, ds, Q) BY <1>1, <1>6, <1>7, <1>8, SavedKept
<1>10. SavedBelow(fs, L - 1, ds, Q) /\ SavedIn(Last(fs), L, ds, Q) BY <1>1, <1>9 DEF SavedBelow
<1>11. ASSUME NEW k \in In(g, WithBlocks) PROVE SavedFor(ds[Rank(Q, L, k)], g, k)
  <2>1. CASE k = n + 1 BY <2>1, <1>3, <1>4, <1>5 DEF LastPlaceOf
  <2>2. CASE k # n + 1
    <3>1. k \in In(Last(fs), WithBlocks) BY <1>11, <2>2 DEF Plus
    <3>2. k \in 1 .. n BY <3>1 DEF In
    <3>3. k - 1 \in 0 .. n BY <3>2, <1>2
    <3>4. SavedFor(ds[Rank(Q, L, k)], Last(fs), k) BY <3>1, <1>10 DEF SavedIn
    <3> QED BY <3>3, <3>4 DEF SavedFor
  <2> QED BY <2>1, <2>2
<1>12. SavedIn(g, L, ds, Q) BY <1>11 DEF SavedIn
<1> QED BY <1>10, <1>12, ContextTop DEF L, Q

\* PushEnv keeps the invariant.
LEMMA PushEnvStep ==
    ASSUME Inv, NEW kind \in {"with", "skipped"}, NEW self \in Anyone, NEW list \in Seq(Instances),
           PushEnv(kind, self, list)
    PROVE  Inv'
<1>1. frames # <<>> /\ exception = NoException /\ Calm(cur)
  BY DEF PushEnv, AtStatement, MayRun, Calm, Special
<1>2. /\ frames \in Seq(FrameRecord) /\ Len(frames) \in Nat /\ cur = Last(frames) /\ cur \in GoodFrame
      /\ cur \in FrameRecord /\ cur.operands \in Nat /\ Len(cur.blocks) \in Nat
      /\ Over(stack, UnderOf(cur), Held(cur), Len(frames)) /\ stack \in Seq(Nat)
  BY <1>1, Running
<1> DEFINE n == Len(cur.blocks)
           b == WithBlock(kind, self)
           g == BlocksOf(cur, Append(cur.blocks, b))
           e == EnvFrame(list)
<1>3. Replaced(frames, frames', g)
  BY <1>1, <1>2, SetBlocksIs DEF PushEnv, EnterBlock, SetBlocks, Replaced
<1>4. envStack' = Append(envStack, e) BY DEF PushEnv
<1>5. currentInstance \in Anyone /\ otherInstance \in Anyone BY DEF Inv, Scalars
<1>6. Self(cur) \in Anyone /\ Other(cur) \in Anyone
  <2>1. cur.blocks \in Seq(BlockRecord) /\ cur.self \in Anyone /\ cur.other \in Anyone
    BY <1>2 DEF FrameRecord
  <2>2. Len(cur.blocks) # 0 => cur.blocks[Len(cur.blocks)] \in BlockRecord BY <2>1
  <2> QED BY <2>1, <2>2 DEF Self, Other, SelfIn, OtherIn, BlockRecord
<1>7. /\ b \in BlockRecord /\ b.kind = kind /\ b.operands = cur.operands /\ ~b.parked
      /\ b.self = self /\ b.other = currentInstance
  BY <1>2, <1>5, <1>6 DEF WithBlock, Block, BlockRecord
<1>8. e \in EnvRecord /\ e.savedInstance = currentInstance /\ e.savedOtherInstance = otherInstance
  BY <1>5 DEF EnvFrame, EnvRecord
<1>9. n = Len(cur.blocks) /\ g = BlocksOf(cur, Append(cur.blocks, b)) OBVIOUS
<1> HIDE DEF n, b, e
<1>10. IsWith(b) /\ ~Armed(b) /\ b \in WithBlocks /\ b \notin ParkedBlocks
  BY <1>7 DEF IsWith, Armed, WithBlocks, ParkedBlocks, RunsForParked
<1>11. g \in GoodFrame BY <1>1, <1>2, <1>7, <1>10, GoodEnter
<1> HIDE DEF g
<1>12. /\ g \in FrameRecord /\ Kin(cur, g) /\ g.operands = cur.operands
       /\ Last(g.blocks) = b /\ g.blocks # <<>>
       /\ Len(g.blocks) = n + 1 /\ n \in Nat
       /\ g.blocks[n + 1] = b
       /\ \A k \in 1 .. n : g.blocks[k] = cur.blocks[k]
       /\ \A m \in 0 .. n : SelfIn(g, m) = SelfIn(cur, m) /\ OtherIn(g, m) = OtherIn(cur, m)
       /\ Self(g) = self /\ Other(g) = currentInstance
  BY <1>2, <1>7, <1>9, EnterBlockIs
<1>13. \A k \in 1 .. n + 1 : k = n + 1 \/ (k \in 1 .. n /\ g.blocks[k] = cur.blocks[k]) BY <1>12
<1>14. n + 1 \in 1 .. n + 1 /\ \A k \in 1 .. n : k \in 1 .. n + 1 /\ g.blocks[k] = cur.blocks[k] BY <1>12
<1>15. In(g, WithBlocks) = Plus(In(cur, WithBlocks), n + 1)
  BY <1>9, <1>10, <1>12, <1>13, <1>14 DEF In, Plus
<1>16. In(g, ParkedBlocks) = In(cur, ParkedBlocks)
  BY <1>9, <1>10, <1>12, <1>13, <1>14 DEF In
<1>17. ArmedIn(g) = ArmedIn(cur) BY <1>9, <1>10, <1>12, <1>13, <1>14 DEF ArmedIn
<1>18. FramesFit(frames', callDepth') /\ frames' # <<>>
  <2>1. FramesFit(frames, callDepth) /\ callDepth' = callDepth BY DEF Inv, PushEnv
  <2> QED BY <2>1, <1>1, <1>2, <1>3, <1>11, <1>12, FramesTop
<1>19. HandlersFit(frames', handlers')
  <2>1. HandlersFit(frames, handlers) /\ handlers' = handlers /\ handlers \in Seq(HandlerRecord)
    BY DEF Inv, Scalars, PushEnv
  <2>2. \A k \in ArmedIn(g) : g.blocks[k].operands = cur.blocks[k].operands
    BY <1>9, <1>12, <1>17 DEF ArmedIn
  <2> QED BY <2>1, <2>2, <1>1, <1>2, <1>3, <1>12, <1>17, HandlersTop
<1>20. OperandsFit(frames', stack') /\ stack' \in Seq(Nat)
  <2>1. Held(cur) = cur.operands BY <1>1, <1>2 DEF Held, Caught, Calm, Special
  <2>2. Held(g) = g.operands + 0 BY <1>7, <1>12 DEF Held, Caught
  <2>3. Held(g) = Held(cur) BY <2>1, <2>2, <1>2, <1>12
  <2>4. UnderOf(g) = UnderOf(cur) BY <1>12 DEF UnderOf, IsCall, Kin
  <2>5. OperandsFit(frames, stack) /\ stack' = stack BY DEF Inv, PushEnv
  <2> QED BY <2>3, <2>4, <2>5, <1>1, <1>2, <1>3, <1>12, OperandsTop
<1>21. EnvsFit(frames', envStack', abandoned') /\ envStack' \in Seq(EnvRecord) /\ ContextInv'
  <2>1. EnvsFit(frames, envStack, abandoned) /\ envStack \in Seq(EnvRecord) /\ abandoned \in Nat
    BY DEF Inv, Scalars
  <2>2. envStack' \in Seq(EnvRecord) BY <2>1, <1>4, <1>8, AppendOf
  <2>3. cur = Last(frames) /\ frames \in Seq(FrameRecord) /\ frames # <<>> BY <1>1, <1>2
  <2>4. In(g, WithBlocks) = Plus(In(Last(frames), WithBlocks), n + 1) /\ n = Len(Last(frames).blocks)
    BY <2>3, <1>9, <1>15
  <2>5. g \in FrameRecord /\ e \in EnvRecord BY <1>8, <1>12
  <2>6. EnvsFit(frames', envStack', abandoned)
    BY <2>1, <2>3, <2>4, <2>5, <1>3, <1>4, EnvsPush
  <2>7. ASSUME abandoned = 0 PROVE ContextFits(frames', envStack', self, currentInstance)
    <3>1. ContextFits(frames, envStack, currentInstance, otherInstance) BY <2>7 DEF Inv, ContextInv
    <3>2. currentInstance = Self(cur) /\ otherInstance = Other(cur)
      BY <3>1, <1>1, <1>2 DEF ContextFits, SelfAfter, OtherAfter
    <3>3. n \in 0 .. n /\ (n + 1) - 1 = n BY <1>12
    <3>4. SavedFor(e, g, n + 1) BY <3>2, <3>3, <1>8, <1>9, <1>12 DEF SavedFor, Self, Other
    <3>5. EnvsFit(frames, envStack, 0) BY <2>1, <2>7
    <3>6. \A m \in 0 .. n : SelfIn(g, m) = SelfIn(Last(frames), m) /\ OtherIn(g, m) = OtherIn(Last(frames), m)
      BY <2>3, <1>12
    <3>7. Kin(Last(frames), g) BY <2>3, <1>12
    <3>8. ContextFits(frames', envStack', Self(g), Other(g))
      BY <2>1, <2>3, <2>4, <2>5, <3>1, <3>4, <3>5, <3>6, <3>7, <1>3, <1>4, ContextPush
    <3> QED BY <3>8, <1>12
  <2> QED BY <2>2, <2>6, <2>7 DEF PushEnv, ContextInv
<1>22. ParkedInv'
  <2>1. PlacesOf(frames', ParkedBlocks) = PlacesOf(frames, ParkedBlocks)
    BY <1>1, <1>2, <1>3, <1>12, <1>16, PlacesQuiet
  <2> QED BY <2>1 DEF Inv, ParkedInv, ParkedFit, PushEnv, exceptions
<1>23. PendingCalm' BY <1>1 DEF PendingCalm, PushEnv, exceptions
<1> QED
  BY <1>18, <1>19, <1>20, <1>21, <1>22, <1>23 DEF Inv, Scalars, PushEnv, exceptions

\* PopEnvNext keeps the invariant: the with-block goes on for another instance.
LEMMA PopEnvNextStep == ASSUME Inv, envStack # <<>>, NEW k, PopEnvNext(k) PROVE Inv'
<1>1. frames # <<>> /\ exception = NoException /\ cur.blocks # <<>> /\ Last(cur.blocks).kind = "with"
  BY InBlockIs DEF PopEnvNext, AtStatement, MayRun
<1>2. /\ frames \in Seq(FrameRecord) /\ Len(frames) \in Nat /\ cur = Last(frames) /\ cur \in GoodFrame
      /\ cur \in FrameRecord
      /\ Over(stack, UnderOf(cur), Held(cur), Len(frames)) /\ stack \in Seq(Nat)
  BY <1>1, Running
<1> DEFINE list == Last(envStack).instanceList
           self == list[k]
           n == Len(cur.blocks)
           b == [Last(cur.blocks) EXCEPT !.self = self]
           g == BlocksOf(cur, Append(Front(cur.blocks), b))
           e == [Last(envStack) EXCEPT !.instanceList = SubSeq(list, k + 1, Len(list))]
<1>3. Replaced(frames, frames', g)
  BY <1>1, <1>2, SetBlocksIs DEF PopEnvNext, BecomeBlock, SetBlocks, Replaced
<1>4. envStack \in Seq(EnvRecord) BY DEF Inv, Scalars
<1>5. Last(envStack) \in EnvRecord /\ Last(envStack) = envStack[Len(envStack)] /\ Len(envStack) \in Nat
      /\ Len(envStack) >= 1
  BY <1>4, FrontOf
<1>6. list \in Seq(Instances) /\ k \in DOMAIN list BY <1>5 DEF EnvRecord, PopEnvNext
<1>7. self \in Instances BY <1>6
<1>8. /\ e \in EnvRecord /\ e.savedInstance = Last(envStack).savedInstance
      /\ e.savedOtherInstance = Last(envStack).savedOtherInstance
  <2>1. SubSeq(list, k + 1, Len(list)) \in Seq(Instances) BY <1>6
  <2> HIDE DEF list
  <2> QED BY <2>1, <1>5 DEF EnvRecord
<1>9. envStack' = [envStack EXCEPT ![Len(envStack)] = e] BY <1>4, <1>5 DEF PopEnvNext
<1>10. Last(cur.blocks) \in BlockRecord /\ Last(cur.blocks) = cur.blocks[n] /\ n \in Nat /\ n >= 1
  BY <1>1, <1>2, LastBlock
<1> HIDE DEF list
<1>11. /\ b \in BlockRecord /\ b.kind = "with" /\ b.operands = Last(cur.blocks).operands
       /\ b.self = self /\ b.other = Last(cur.blocks).other
       /\ b.parked = Last(cur.blocks).parked
  BY <1>1, <1>7, <1>10 DEF BlockRecord, Anyone
<1>12. ~Last(cur.blocks).parked
  <2>1. Orderly(cur) /\ n \in 1 .. n BY <1>2, <1>10 DEF GoodFrame
  <2> QED BY <2>1, <1>1, <1>10 DEF Orderly
<1> HIDE DEF b, e, self
<1>13. n = Len(cur.blocks) /\ g = BlocksOf(cur, Append(Front(cur.blocks), b)) OBVIOUS
<1> HIDE DEF n
<1>14. /\ IsWith(b) /\ IsWith(Last(cur.blocks)) /\ ~Armed(b) /\ ~Armed(Last(cur.blocks))
       /\ b \in WithBlocks /\ Last(cur.blocks) \in WithBlocks
       /\ b \notin ParkedBlocks /\ Last(cur.blocks) \notin ParkedBlocks
  BY <1>1, <1>10, <1>11, <1>12 DEF IsWith, Armed, WithBlocks, ParkedBlocks, RunsForParked
<1>15. g \in GoodFrame BY <1>1, <1>2, <1>11, <1>12, <1>14, GoodBecome
<1> HIDE DEF g
<1>16. /\ g \in FrameRecord /\ Kin(cur, g) /\ g.operands = cur.operands
       /\ Last(g.blocks) = b /\ g.blocks # <<>>
       /\ Len(g.blocks) = n /\ g.blocks[n] = b
       /\ \A j \in 1 .. n - 1 : g.blocks[j] = cur.blocks[j]
       /\ \A m \in 0 .. n - 1 : SelfIn(g, m) = SelfIn(cur, m) /\ OtherIn(g, m) = OtherIn(cur, m)
       /\ Self(g) = self /\ Other(g) = Last(cur.blocks).other
  BY <1>1, <1>2, <1>11, <1>13, BecomeBlockIs
<1>17. In(g, WithBlocks) = In(cur, WithBlocks) /\ In(g, ParkedBlocks) = In(cur, ParkedBlocks)
  <2>1. /\ n \in Nat /\ n >= 1 /\ Len(cur.blocks) = n /\ Len(g.blocks) = n
        /\ \A j \in 1 .. n - 1 : g.blocks[j] = cur.blocks[j]
    BY <1>10, <1>13, <1>16
  <2>2. cur.blocks[n] \in WithBlocks /\ g.blocks[n] \in WithBlocks BY <1>10, <1>14, <1>16
  <2>3. cur.blocks[n] \notin ParkedBlocks /\ g.blocks[n] \notin ParkedBlocks BY <1>10, <1>14, <1>16
  <2>4. In(g, WithBlocks) = In(cur, WithBlocks) BY <2>1, <2>2, InBecome
  <2>5. In(g, ParkedBlocks) = In(cur, ParkedBlocks) 
    <3>1. \A j \in 1 .. n : j = n \/ (j \in 1 .. n - 1 /\ g.blocks[j] = cur.blocks[j]) BY <2>1
    <3> QED BY <3>1, <2>1, <2>3 DEF In
  <2> QED BY <2>4, <2>5
<1>18. /\ ArmedIn(g) = ArmedIn(cur)
       /\ \A j \in ArmedIn(g) : g.blocks[j].operands = cur.blocks[j].operands
  BY <1>1, <1>2, <1>11, <1>13, <1>14, BecomeArmed
<1>19. FramesFit(frames', callDepth') /\ frames' # <<>>
  <2>1. FramesFit(frames, callDepth) /\ callDepth' = callDepth BY DEF Inv, PopEnvNext
  <2> QED BY <2>1, <1>1, <1>2, <1>3, <1>15, <1>16, FramesTop
<1>20. HandlersFit(frames', handlers')
  <2>1. HandlersFit(frames, handlers) /\ handlers' = handlers /\ handlers \in Seq(HandlerRecord)
    BY DEF Inv, Scalars, PopEnvNext
  <2> QED BY <2>1, <1>1, <1>2, <1>3, <1>16, <1>18, HandlersTop
<1>21. OperandsFit(frames', stack') /\ stack' \in Seq(Nat)
  <2>1. Held(g) = Held(cur) BY <1>1, <1>11, <1>16 DEF Held, Caught
  <2>2. UnderOf(g) = UnderOf(cur) BY <1>16 DEF UnderOf, IsCall, Kin
  <2>3. OperandsFit(frames, stack) /\ stack' = stack BY DEF Inv, PopEnvNext
  <2> QED BY <2>1, <2>2, <2>3, <1>1, <1>2, <1>3, <1>16, OperandsTop
<1>22. PlacesOf(frames', WithBlocks) = PlacesOf(frames, WithBlocks)
       /\ PlacesOf(frames', ParkedBlocks) = PlacesOf(frames, ParkedBlocks)
  BY <1>1, <1>2, <1>3, <1>16, <1>17, PlacesQuiet
<1>23. /\ envStack' \in Seq(EnvRecord) /\ Len(envStack') = Len(envStack)
       /\ envStack'[Len(envStack)] = e
       /\ \A i \in 1 .. Len(envStack) - 1 : envStack'[i] = envStack[i]
  BY <1>4, <1>8, <1>9, TopOf
<1>24. \A i \in 1 .. Len(envStack) :
          /\ envStack'[i].savedInstance = envStack[i].savedInstance
          /\ envStack'[i].savedOtherInstance = envStack[i].savedOtherInstance
  <2> SUFFICES ASSUME NEW i \in 1 .. Len(envStack)
               PROVE  /\ envStack'[i].savedInstance = envStack[i].savedInstance
                      /\ envStack'[i].savedOtherInstance = envStack[i].savedOtherInstance
    OBVIOUS
  <2>1. CASE i = Len(envStack) BY <2>1, <1>5, <1>8, <1>23
  <2>2. CASE i # Len(envStack)
    <3>1. i \in 1 .. Len(envStack) - 1 BY <2>2, <1>5
    <3> QED BY <3>1, <1>23
  <2> QED BY <2>1, <2>2
<1>25. EnvsFit(frames', envStack', abandoned')
  <2>1. EnvsFit(frames, envStack, abandoned) /\ abandoned' = abandoned BY DEF Inv, PopEnvNext
  <2> QED BY <2>1, <1>22, <1>23 DEF EnvsFit
<1>26. ContextInv'
  <2> SUFFICES ASSUME abandoned = 0
               PROVE  ContextFits(frames', envStack', currentInstance', otherInstance')
    BY DEF ContextInv, PopEnvNext
  <2> DEFINE O == PlacesOf(frames, WithBlocks)
             L == Len(frames)
  <2>1. ContextFits(frames, envStack, currentInstance, otherInstance) BY DEF Inv, ContextInv
  <2>2. IsFiniteSet(O) /\ Len(envStack) = Cardinality(O) + 0 BY DEF Inv, EnvsFit
  <2>3. Cardinality(O) \in Nat /\ O \in SUBSET (Nat \X Nat) BY <2>2, FS_CardinalityType DEF PlacesOf
  <2>4. SavedBelow(frames, L, envStack, O) BY <2>1 DEF ContextFits, SavedAll
  <2>5. L \in Nat /\ L >= 1 /\ Last(frames) = frames[L] BY <1>1, <1>2, FrontOf
  <2>6. \A i \in 1 .. L : \A j \in In(frames[i], WithBlocks) : <<i, j>> \in O BY <1>2, PlaceIs
  <2> HIDE DEF O, L
  <2>7. SameSaved(O, envStack, O, envStack', O)
    <3> SUFFICES ASSUME NEW i \in Nat, NEW j \in Nat, <<i, j>> \in O
                 PROVE  /\ envStack'[Rank(O, i, j)].savedInstance = envStack[Rank(O, i, j)].savedInstance
                        /\ envStack'[Rank(O, i, j)].savedOtherInstance = envStack[Rank(O, i, j)].savedOtherInstance
      BY DEF SameSaved
    <3>1. Rank(O, i, j) \in 1 .. Cardinality(O) BY <2>2, <2>3, RankRange
    <3>2. Rank(O, i, j) \in 1 .. Len(envStack) BY <3>1, <2>2, <2>3
    <3> QED BY <3>2, <1>24
  <2>8. SavedBelow(frames, L, envStack', O) BY <2>4, <2>5, <2>6, <2>7, SavedKept
  <2>9. SavedBelow(frames, L - 1, envStack', O) /\ SavedIn(cur, L, envStack', O)
    BY <1>2, <2>5, <2>8 DEF SavedBelow
  <2>10. SavedIn(g, L, envStack', O)
    <3> SUFFICES ASSUME NEW j \in In(g, WithBlocks) PROVE SavedFor(envStack'[Rank(O, L, j)], g, j) BY DEF SavedIn
    <3>1. SavedFor(envStack'[Rank(O, L, j)], cur, j) BY <2>9, <1>17 DEF SavedIn
    <3>2. j - 1 \in 0 .. n - 1 BY <1>10, <1>16 DEF In
    <3> QED BY <3>1, <3>2, <1>16 DEF SavedFor
  <2>11. PlacesOf(frames', WithBlocks) = O BY <1>22 DEF O
  <2>12. ContextFits(frames', envStack', Self(g), Other(g))
    BY <1>1, <1>2, <1>3, <1>16, <2>1, <2>9, <2>10, <2>11, ContextTop DEF L
  <2>13. currentInstance' = Self(g) BY <1>16 DEF PopEnvNext, self, list
  <2>14. otherInstance' = Other(g)
    <3>1. otherInstance = Other(cur) BY <1>1, <1>2, <2>1 DEF ContextFits, OtherAfter
    <3>2. Other(cur) = Last(cur.blocks).other BY <1>10, <1>13 DEF Other, OtherIn
    <3> QED BY <3>1, <3>2, <1>16 DEF PopEnvNext
  <2> QED BY <2>12, <2>13, <2>14
<1>27. ParkedInv' BY <1>22 DEF Inv, ParkedInv, ParkedFit, PopEnvNext, exceptions
<1>28. PendingCalm' BY <1>1 DEF PendingCalm, PopEnvNext, exceptions
<1>29. currentInstance' \in Anyone BY <1>7 DEF PopEnvNext, self, list, Anyone
<1> QED
  BY <1>19, <1>20, <1>21, <1>23, <1>25, <1>26, <1>27, <1>28, <1>29 DEF Inv, Scalars, PopEnvNext, exceptions

\* The running code has left its last with-block: its place was the last.
LEMMA PlacePopped ==
    ASSUME NEW fs \in Seq(FrameRecord), fs # <<>>, IsFiniteSet(PlacesOf(fs, WithBlocks)),
           NEW n, n = Len(Last(fs).blocks), n \in In(Last(fs), WithBlocks),
           NEW g \in FrameRecord, NEW gs, Replaced(fs, gs, g),
           In(g, WithBlocks) = Without(In(Last(fs), WithBlocks), n)
    PROVE  LastPlaceOf(PlacesOf(fs, WithBlocks), PlacesOf(gs, WithBlocks), Len(fs), n)
           /\ IsFiniteSet(PlacesOf(gs, WithBlocks))
<1> DEFINE L == Len(fs)
           O == PlacesOf(fs, WithBlocks)
           Q == PlacesOf(gs, WithBlocks)
<1>1. L \in Nat /\ L >= 1 /\ L \in 1 .. L /\ Last(fs) = fs[L]
  <2>1. L \in Nat /\ L >= 1 /\ Last(fs) = fs[L] BY FrontOf
  <2> QED BY <2>1
<1>2. n \in Nat BY DEF In
<1>3. Q = Without(O, <<L, n>>) BY PlacesDrop
<1>4. <<L, n>> \in O BY <1>1, PlaceIs
<1>5. O \in SUBSET (Nat \X Nat) BY DEF PlacesOf
<1>6. \A p \in O : p = <<p[1], p[2]>> /\ (p[1] < L \/ (p[1] = L /\ p[2] \in 1 .. n)) BY PlacesBelow
<1>7. IsFiniteSet(O) OBVIOUS
<1> HIDE DEF O, Q, L
<1>8. Q \in SUBSET (Nat \X Nat) /\ O = Plus(Q, <<L, n>>) BY <1>3, <1>4, <1>5 DEF Plus, Without
<1>9. IsFiniteSet(Q)
  <2>1. Q \in SUBSET O BY <1>3 DEF Without
  <2> QED BY <2>1, <1>7, FS_Subset
<1>10. Beyond(Q, L, n)
  <2> SUFFICES ASSUME NEW p \in Q PROVE p[1] < L \/ (p[1] = L /\ p[2] < n) BY DEF Beyond
  <2>1. p \in O /\ p # <<L, n>> BY <1>3 DEF Without
  <2>2. p = <<p[1], p[2]>> /\ (p[1] < L \/ (p[1] = L /\ p[2] \in 1 .. n)) BY <2>1, <1>6
  <2>3. p[1] = L => p[2] # n BY <2>1, <2>2
  <2> QED BY <2>2, <2>3, <1>2
<1>11. LastPlaceOf(O, Q, L, n) BY <1>1, <1>2, <1>8, <1>9, <1>10, Ranks
<1> QED BY <1>9, <1>11 DEF O, Q, L

\* Its environment frame is the last one, and has the self and other to go back to.
LEMMA ContextPop ==
    ASSUME NEW fs \in Seq(FrameRecord), fs # <<>>, NEW es \in Seq(EnvRecord), es # <<>>, EnvsFit(fs, es, 0),
           NEW n, n = Len(Last(fs).blocks), n \in In(Last(fs), WithBlocks),
           NEW g \in FrameRecord, Kin(Last(fs), g), NEW gs, Replaced(fs, gs, g),
           In(g, WithBlocks) = Without(In(Last(fs), WithBlocks), n),
           \A m \in 0 .. n - 1 : SelfIn(g, m) = SelfIn(Last(fs), m) /\ OtherIn(g, m) = OtherIn(Last(fs), m),
           Self(g) = SelfIn(Last(fs), n - 1), Other(g) = OtherIn(Last(fs), n - 1),
           NEW self, NEW other, ContextFits(fs, es, self, other)
    PROVE  ContextFits(gs, Front(es), Last(es).savedInstance, Last(es).savedOtherInstance)
<1> DEFINE L == Len(fs)
           O == PlacesOf(fs, WithBlocks)
           Q == PlacesOf(gs, WithBlocks)
           ds == Front(es)
<1>1. L \in Nat /\ L >= 1 /\ L \in 1 .. L /\ Last(fs) = fs[L]
  <2>1. L \in Nat /\ L >= 1 /\ Last(fs) = fs[L] BY FrontOf
  <2> QED BY <2>1
<1>2. n \in Nat BY DEF In
<1>3. IsFiniteSet(O) /\ Len(es) = Cardinality(O) + 0 BY DEF EnvsFit
<1>4. LastPlaceOf(O, Q, L, n) BY <1>3, PlacePopped
<1>5. /\ Len(ds) = Len(es) - 1 /\ Len(es) \in Nat /\ Last(es) = es[Len(es)]
      /\ \A i \in 1 .. Len(es) - 1 : ds[i] = es[i]
  BY FrontOf
<1>6. SavedBelow(fs, L, es, O) BY DEF ContextFits, SavedAll
<1>7. Q = Without(O, <<L, n>>) BY PlacesDrop
<1>8. \A i \in 1 .. L : \A k \in In(fs[i], WithBlocks) : <<i, k>> \in O BY PlaceIs
<1> HIDE DEF O, Q, L, ds
<1>9. /\ Cardinality(Q) \in Nat /\ Cardinality(O) = Cardinality(Q) + 1
      /\ Rank(O, L, n) = Cardinality(Q) + 1 /\ RanksKept(Q, O)
  BY <1>4 DEF LastPlaceOf
<1>10. SameSaved(Q, es, O, ds, Q) BY <1>3, <1>5, <1>9 DEF SameSaved, RanksKept
<1>11. \A i \in 1 .. L - 1 : \A k \in In(fs[i], WithBlocks) : <<i, k>> \in Q
  <2> SUFFICES ASSUME NEW i \in 1 .. L - 1, NEW k \in In(fs[i], WithBlocks) PROVE <<i, k>> \in Q OBVIOUS
  <2>1. i \in 1 .. L /\ i # L BY <1>1
  <2>2. <<i, k>> \in O BY <2>1, <1>8
  <2>3. <<i, k>> # <<L, n>> BY <2>1
  <2> QED BY <2>2, <2>3, <1>7 DEF Without
<1>12. SavedBelow(fs, L - 1, es, O) /\ SavedIn(Last(fs), L, es, O) BY <1>1, <1>6 DEF SavedBelow
<1>13. SavedBelow(fs, L - 1, ds, Q)
  <2>1. L - 1 \in Nat BY <1>1
  <2> QED BY <2>1, <1>10, <1>11, <1>12, SavedKept
<1>14. ASSUME NEW k \in In(g, WithBlocks) PROVE SavedFor(ds[Rank(Q, L, k)], g, k)
  <2>1. k \in In(Last(fs), WithBlocks) /\ k # n BY <1>14 DEF Without
  <2>2. k \in 1 .. n - 1 /\ k \in Nat BY <2>1, <1>2 DEF In
  <2>3. <<L, k>> \in Q
    <3>1. <<L, k>> \in O BY <2>1, <1>1, <1>8
    <3> QED BY <3>1, <2>1, <1>7 DEF Without
  <2>4. SavedFor(es[Rank(O, L, k)], Last(fs), k) BY <2>1, <1>12 DEF SavedIn
  <2>5. k - 1 \in 0 .. n - 1 BY <2>2, <1>2
  <2>6. /\ ds[Rank(Q, L, k)].savedInstance = es[Rank(O, L, k)].savedInstance
        /\ ds[Rank(Q, L, k)].savedOtherInstance = es[Rank(O, L, k)].savedOtherInstance
    BY <2>2, <2>3, <1>1, <1>10 DEF SameSaved
  <2> QED BY <2>4, <2>5, <2>6 DEF SavedFor
<1>15. SavedIn(g, L, ds, Q) BY <1>14 DEF SavedIn
<1>16. Last(es).savedInstance = Self(g) /\ Last(es).savedOtherInstance = Other(g)
  <2>1. SavedFor(es[Rank(O, L, n)], Last(fs), n) BY <1>12 DEF SavedIn
  <2>2. es[Rank(O, L, n)] = Last(es) BY <1>3, <1>5, <1>9
  <2> QED BY <2>1, <2>2 DEF SavedFor
<1>17. ContextFits(gs, ds, Self(g), Other(g)) BY <1>13, <1>15, ContextTop DEF L, Q
<1> QED BY <1>16, <1>17 DEF ds

\* PopEnvLeave keeps the invariant.
LEMMA PopEnvLeaveStep == ASSUME Inv, PopEnvLeave PROVE Inv'
<1>1. frames # <<>> /\ exception = NoException /\ cur.blocks # <<>> /\ IsWith(Last(cur.blocks))
  BY InBlockIs DEF PopEnvLeave, MayRun, IsWith
<1>2. /\ frames \in Seq(FrameRecord) /\ Len(frames) \in Nat /\ cur = Last(frames) /\ cur \in GoodFrame
      /\ cur \in FrameRecord /\ cur.operands \in Nat
      /\ Over(stack, UnderOf(cur), Held(cur), Len(frames)) /\ stack \in Seq(Nat)
  BY <1>1, Running
<1> DEFINE n == Len(cur.blocks)
           g == BlocksOf(cur, Front(cur.blocks))
<1>3. Replaced(frames, frames', g)
  BY <1>1, <1>2, SetBlocksIs DEF PopEnvLeave, LeaveBlock, SetBlocks, Replaced
<1>4. n = Len(cur.blocks) /\ g = BlocksOf(cur, Front(cur.blocks)) OBVIOUS
<1>5. Last(cur.blocks) \in BlockRecord /\ Last(cur.blocks) = cur.blocks[n] /\ n \in Nat /\ n >= 1
  BY <1>1, <1>2, LastBlock
<1> HIDE DEF g, n
<1>6. /\ ~Armed(Last(cur.blocks)) /\ Last(cur.blocks) \in WithBlocks
      /\ Last(cur.blocks).kind # "caught"
  BY <1>1, <1>5 DEF IsWith, Armed, WithBlocks
<1>7. Last(cur.blocks) \notin ParkedBlocks
  <2>1. Orderly(cur) /\ n \in 1 .. Len(cur.blocks) BY <1>2, <1>4, <1>5 DEF GoodFrame
  <2>2. Last(cur.blocks).parked => Last(cur.blocks).kind = "finally" BY <2>1, <1>5 DEF Orderly
  <2> QED BY <2>2, <1>1 DEF ParkedBlocks, RunsForParked, IsWith
<1>8. /\ g \in GoodFrame /\ g \in FrameRecord /\ Kin(cur, g) /\ g.operands = cur.operands
      /\ Len(g.blocks) = n - 1 /\ Calm(g) /\ Held(g) = g.operands
  BY <1>1, <1>2, <1>4, LeaveBlockIs, SMTT(30)
<1>9. /\ \A k \in 1 .. n - 1 : g.blocks[k] = cur.blocks[k]
      /\ \A B : In(g, B) = Without(In(cur, B), n)
      /\ ArmedIn(g) = Without(ArmedIn(cur), n)
  BY <1>1, <1>2, <1>4, LeaveBlockIs
<1>10. /\ \A m \in 0 .. n - 1 : SelfIn(g, m) = SelfIn(cur, m) /\ OtherIn(g, m) = OtherIn(cur, m)
       /\ Self(g) = SelfIn(cur, n - 1) /\ Other(g) = OtherIn(cur, n - 1)
  BY <1>1, <1>2, <1>4, LeaveBlockIs
<1>11. FramesFit(frames', callDepth') /\ frames' # <<>>
  <2>1. FramesFit(frames, callDepth) /\ callDepth' = callDepth BY DEF Inv, PopEnvLeave
  <2> QED BY <2>1, <1>1, <1>2, <1>3, <1>8, FramesTop
<1>12. HandlersFit(frames', handlers')
  <2>1. HandlersFit(frames, handlers) /\ handlers' = handlers /\ handlers \in Seq(HandlerRecord)
    BY DEF Inv, Scalars, PopEnvLeave
  <2>2. ArmedIn(g) = ArmedIn(cur) BY <1>5, <1>6, <1>9 DEF ArmedIn, Without
  <2>3. \A k \in ArmedIn(g) : g.blocks[k].operands = cur.blocks[k].operands BY <1>8, <1>9 DEF ArmedIn
  <2> QED BY <2>1, <2>2, <2>3, <1>1, <1>2, <1>3, <1>8, HandlersTop
<1>13. OperandsFit(frames', stack') /\ stack' \in Seq(Nat)
  <2>1. Held(g) = Held(cur)
    <3>1. Held(cur) = cur.operands + 0 BY <1>6 DEF Held, Caught
    <3> QED BY <3>1, <1>2, <1>8
  <2>2. UnderOf(g) = UnderOf(cur) BY <1>8 DEF UnderOf, IsCall, Kin
  <2>3. OperandsFit(frames, stack) /\ stack' = stack BY DEF Inv, PopEnvLeave
  <2> QED BY <2>1, <2>2, <2>3, <1>1, <1>2, <1>3, <1>8, OperandsTop
<1>14. ParkedInv'
  <2>1. n \notin In(cur, ParkedBlocks) BY <1>5, <1>7 DEF In
  <2>4. In(g, ParkedBlocks) = Without(In(cur, ParkedBlocks), n) BY <1>9
  <2>2. In(g, ParkedBlocks) = In(Last(frames), ParkedBlocks) BY <2>1, <2>4, <1>2 DEF Without
  <2>3. PlacesOf(frames', ParkedBlocks) = PlacesOf(frames, ParkedBlocks)
    BY <2>2, <1>1, <1>2, <1>3, <1>8, PlacesQuiet
  <2> QED BY <2>3 DEF Inv, ParkedInv, ParkedFit, PopEnvLeave, exceptions
<1>15. n = Len(Last(frames).blocks) /\ n \in In(Last(frames), WithBlocks)
       /\ In(g, WithBlocks) = Without(In(Last(frames), WithBlocks), n)
  <2>1. n \in In(cur, WithBlocks) BY <1>4, <1>5, <1>6 DEF In
  <2> QED BY <2>1, <1>2, <1>4, <1>9
<1>16. EnvsFit(frames, envStack, abandoned) /\ envStack \in Seq(EnvRecord) /\ abandoned \in Nat
  BY DEF Inv, Scalars
<1>17. LastPlaceOf(PlacesOf(frames, WithBlocks), PlacesOf(frames', WithBlocks), Len(frames), n)
       /\ IsFiniteSet(PlacesOf(frames', WithBlocks))
  <2>1. IsFiniteSet(PlacesOf(frames, WithBlocks)) BY <1>16 DEF EnvsFit
  <2> QED BY <2>1, <1>1, <1>2, <1>3, <1>8, <1>15, PlacePopped
<1>18. envStack # <<>>
  <2>1. Len(envStack) >= 1 BY <1>16, <1>17 DEF EnvsFit, LastPlaceOf
  <2> QED BY <2>1
<1>19. /\ Front(envStack) \in Seq(EnvRecord) /\ Len(Front(envStack)) = Len(envStack) - 1
       /\ Len(envStack) \in Nat /\ Last(envStack) \in EnvRecord
  BY <1>16, <1>18, FrontOf
<1>20. EnvsFit(frames', envStack', abandoned')
  BY <1>16, <1>17, <1>19 DEF EnvsFit, LastPlaceOf, PopEnvLeave
<1>21. ContextInv'
  <2> SUFFICES ASSUME abandoned = 0
               PROVE  ContextFits(frames', Front(envStack), Last(envStack).savedInstance, Last(envStack).savedOtherInstance)
    BY DEF ContextInv, PopEnvLeave, RestoreEnvContext
  <2>1. ContextFits(frames, envStack, currentInstance, otherInstance) BY DEF Inv, ContextInv
  <2>2. EnvsFit(frames, envStack, 0) BY <1>16
  <2>3. \A m \in 0 .. n - 1 : SelfIn(g, m) = SelfIn(Last(frames), m) /\ OtherIn(g, m) = OtherIn(Last(frames), m)
    BY <1>2, <1>10
  <2>4. Self(g) = SelfIn(Last(frames), n - 1) /\ Other(g) = OtherIn(Last(frames), n - 1) BY <1>2, <1>10
  <2>5. Kin(Last(frames), g) /\ g \in FrameRecord BY <1>2, <1>8
  <2> QED
    BY <2>1, <2>2, <2>3, <2>4, <2>5, <1>1, <1>2, <1>3, <1>15, <1>16, <1>18, ContextPop
<1>22. PendingCalm' BY <1>1 DEF PendingCalm, PopEnvLeave, exceptions
<1>23. currentInstance' \in Anyone /\ otherInstance' \in Anyone
  BY <1>19 DEF PopEnvLeave, RestoreEnvContext, EnvRecord
<1> QED
  BY <1>11, <1>12, <1>13, <1>14, <1>19, <1>20, <1>21, <1>22, <1>23 DEF Inv, Scalars, PopEnvLeave, exceptions

-------------------------------------------------------------------------------
(* The jump to a handler                                                    *)

\* What is left of a frame when an exception lands in its s-th block.
Landed(f, s, b) ==
    LET outer == WithOperands(BlocksOf(f, SubSeq(f.blocks, 1, s - 1)), b.operands) IN
    BlocksOf(outer, Append(outer.blocks, b))

\* The block that the landing becomes is the try block, in its context.
LandsIn(f, s, b) ==
    /\ s \in 1 .. Len(f.blocks) /\ f.blocks[s].kind = "try"
    /\ b \in BlockRecord /\ b.kind \in {"caught", "landed"} /\ ~b.parked
    /\ b.self = f.blocks[s].self /\ b.other = f.blocks[s].other /\ b.operands = f.blocks[s].operands

\* A frame, an exception having landed in one of its try blocks.
LEMMA LandedIs ==
    ASSUME NEW f \in GoodFrame, NEW s, NEW b, LandsIn(f, s, b), NEW g, g = Landed(f, s, b)
    PROVE  /\ g \in GoodFrame /\ g \in FrameRecord /\ Kin(f, g) /\ g.operands = b.operands
           /\ Len(g.blocks) = s /\ g.blocks[s] = b /\ Last(g.blocks) = b /\ g.blocks # <<>>
           /\ \A k \in 1 .. s - 1 : g.blocks[k] = f.blocks[k]
           /\ \A m \in 0 .. s - 1 : SelfIn(g, m) = SelfIn(f, m) /\ OtherIn(g, m) = OtherIn(f, m)
           /\ Self(g) = b.self /\ Other(g) = b.other
<1> DEFINE f1 == BlocksOf(f, SubSeq(f.blocks, 1, s - 1))
           f2 == WithOperands(f1, b.operands)
<1>22. /\ s \in 1 .. Len(f.blocks) /\ f.blocks[s].kind = "try"
       /\ b \in BlockRecord /\ b.kind \in {"caught", "landed"} /\ ~b.parked
       /\ b.self = f.blocks[s].self /\ b.other = f.blocks[s].other /\ b.operands = f.blocks[s].operands
  BY DEF LandsIn
<1>1. f \in FrameRecord /\ Steady(f) /\ Stacked(f) /\ Orderly(f) BY DEF GoodFrame
<1>2. f.blocks \in Seq(BlockRecord) /\ Len(f.blocks) \in Nat BY <1>1 DEF FrameRecord
<1>3. s - 1 \in 0 .. Len(f.blocks) /\ s \in Nat /\ s >= 1 /\ s <= Len(f.blocks) BY <1>2, <1>22
<1>4. f1 \in GoodFrame BY <1>3, GoodTruncate
<1>5. f1 = BlocksOf(f, SubSeq(f.blocks, 1, s - 1)) OBVIOUS
<1> HIDE DEF f1
<1>6. /\ f1 \in FrameRecord /\ Kin(f, f1)
      /\ Len(f1.blocks) = s - 1
      /\ \A k \in 1 .. s - 1 : f1.blocks[k] = f.blocks[k]
      /\ \A m \in 0 .. s - 1 : SelfIn(f1, m) = SelfIn(f, m) /\ OtherIn(f1, m) = OtherIn(f, m)
      /\ Self(f1) = SelfIn(f, s - 1) /\ Other(f1) = OtherIn(f, s - 1)
  BY <1>1, <1>3, <1>5, TruncateIs
<1>7. b.operands \in Nat BY <1>22 DEF BlockRecord
<1>8. f1.blocks # <<>> => /\ Last(f1.blocks) = f.blocks[s - 1] /\ s - 1 \in 1 .. Len(f.blocks)
                          /\ Last(f1.blocks).operands <= b.operands
  <2> SUFFICES ASSUME f1.blocks # <<>>
               PROVE  /\ Last(f1.blocks) = f.blocks[s - 1] /\ s - 1 \in 1 .. Len(f.blocks)
                      /\ Last(f1.blocks).operands <= b.operands
    OBVIOUS
  <2>1. f1.blocks \in Seq(BlockRecord) BY <1>6 DEF FrameRecord
  <2>2. s - 1 >= 1 BY <2>1, <1>3, <1>6
  <2>3. Last(f1.blocks) = f1.blocks[s - 1] BY <1>6 DEF Last
  <2>4. s - 1 \in 1 .. s - 1 /\ s - 1 \in 1 .. Len(f.blocks) /\ s - 1 <= s BY <2>2, <1>3, <1>2
  <2>5. f.blocks[s - 1].operands <= f.blocks[s].operands BY <2>4, <1>1, <1>22 DEF Stacked
  <2> QED BY <2>3, <2>4, <2>5, <1>6, <1>22
<1>9. f2 = WithOperands(f1, b.operands) OBVIOUS
<1> HIDE DEF f2
<1>10. /\ f2 \in GoodFrame /\ f2 \in FrameRecord /\ Kin(f1, f2) /\ f2.blocks = f1.blocks
       /\ f2.operands = b.operands
       /\ \A k : SelfIn(f2, k) = SelfIn(f1, k) /\ OtherIn(f2, k) = OtherIn(f1, k)
       /\ Self(f2) = Self(f1) /\ Other(f2) = Other(f1)
  BY <1>4, <1>7, <1>8, <1>9, OperandsIs
<1>11. Calm(f2)
  <2> SUFFICES ASSUME f2.blocks # <<>> PROVE Last(f2.blocks).kind \notin Special BY DEF Calm
  <2>1. Last(f2.blocks) = f.blocks[s - 1] /\ s - 1 \in 1 .. Len(f.blocks) BY <1>8, <1>10
  <2>2. s - 1 < Len(f.blocks) BY <1>2, <1>3
  <2> QED BY <2>1, <2>2, <1>1 DEF Orderly
<1>12. b.self = Self(f2) /\ b.other = Other(f2)
  <2>1. \A j \in (s - 1) + 1 .. s : ~IsWith(f.blocks[j]) BY <1>3, <1>22 DEF IsWith
  <2>2. s - 1 \in 0 .. Len(f.blocks) /\ s \in 0 .. Len(f.blocks) /\ s - 1 <= s BY <1>3, <1>2
  <2>3. SelfIn(f, s) = SelfIn(f, s - 1) /\ OtherIn(f, s) = OtherIn(f, s - 1)
    BY <2>1, <2>2, <1>1 DEF Steady
  <2>4. SelfIn(f, s) = f.blocks[s].self /\ OtherIn(f, s) = f.blocks[s].other BY <1>3 DEF SelfIn, OtherIn
  <2> QED BY <2>3, <2>4, <1>6, <1>10, <1>22
<1>13. g = BlocksOf(f2, Append(f2.blocks, b)) BY DEF Landed, f2, f1
<1>14. BlocksOf(f2, Append(f2.blocks, b)) \in GoodFrame BY <1>10, <1>11, <1>12, <1>22, GoodEnter
<1>15. /\ g \in FrameRecord /\ Kin(f2, g) /\ g.operands = f2.operands
       /\ Last(g.blocks) = b /\ g.blocks # <<>>
       /\ Len(g.blocks) = Len(f2.blocks) + 1
       /\ g.blocks[Len(f2.blocks) + 1] = b
       /\ \A k \in 1 .. Len(f2.blocks) : g.blocks[k] = f2.blocks[k]
       /\ \A m \in 0 .. Len(f2.blocks) : SelfIn(g, m) = SelfIn(f2, m) /\ OtherIn(g, m) = OtherIn(f2, m)
       /\ Self(g) = b.self /\ Other(g) = b.other
  BY <1>10, <1>13, <1>22, EnterBlockIs
<1>16. Len(f2.blocks) = s - 1 /\ (s - 1) + 1 = s BY <1>3, <1>6, <1>10
<1>17. Kin(f, g) BY <1>6, <1>10, <1>15 DEF Kin
<1>18. \A k \in 1 .. s - 1 : g.blocks[k] = f.blocks[k] BY <1>6, <1>10, <1>15, <1>16
<1>19. \A m \in 0 .. s - 1 : SelfIn(g, m) = SelfIn(f, m) /\ OtherIn(g, m) = OtherIn(f, m)
  BY <1>6, <1>10, <1>15, <1>16
<1>20. Len(g.blocks) = s /\ g.blocks[s] = b BY <1>15, <1>16
<1>21. g.operands = b.operands BY <1>10, <1>15
<1> QED BY <1>13, <1>14, <1>15, <1>17, <1>18, <1>19, <1>20, <1>21

\* What is left of a sequence without its first k elements.
LEMMA SuffixOf ==
    ASSUME NEW S, NEW bs \in Seq(S), NEW k \in 0 .. Len(bs), NEW rest, rest = SubSeq(bs, k + 1, Len(bs))
    PROVE  /\ Len(bs) \in Nat /\ Len(rest) = Len(bs) - k /\ DOMAIN rest = 1 .. Len(bs) - k
           /\ \A i \in 1 .. Len(bs) - k : rest[i] = bs[i + k]
OBVIOUS

\* The with-blocks among some blocks, and the places up to one.
Withs(bs) == {k \in DOMAIN bs : IsWith(bs[k])}
UpTo(ds, O, n, s) == \A p : p \in ds <=> p \in O /\ (p[1] = n => p[2] <= s)

\* As many environment frames as places and n more.
Covers(es, places, n) == IsFiniteSet(places) /\ Len(es) = Cardinality(places) + n

\* The blocks above the s-th, their with-blocks, and the frame without them: JumpToHandler
\* counts as many with-blocks as there are places less.
LEMMA EnvsAbandoned ==
    ASSUME NEW fs \in Seq(FrameRecord), fs # <<>>, NEW es, NEW a \in Nat, EnvsFit(fs, es, a),
           NEW s \in 0 .. Len(Last(fs).blocks), NEW ds \in SUBSET (Nat \X Nat),
           UpTo(ds, PlacesOf(fs, WithBlocks), Len(fs), s),
           NEW rest, rest = SubSeq(Last(fs).blocks, s + 1, Len(Last(fs).blocks)),
           NEW W, W = Withs(rest),
           NEW n, n = a + Cardinality(W)
    PROVE  /\ IsFiniteSet(W) /\ Cardinality(W) \in Nat
           /\ Covers(es, ds, n)
<1> DEFINE bs == Last(fs).blocks
           L == Len(fs)
           O == PlacesOf(fs, WithBlocks)
           P == {p \in O : p[1] = L /\ ~(p[2] <= s)}
<1>1. L \in Nat /\ L >= 1 /\ Last(fs) = fs[L] /\ Last(fs) \in FrameRecord BY FrontOf
<1>2. bs \in Seq(BlockRecord) /\ Len(bs) \in Nat /\ s \in Nat /\ s <= Len(bs)
  BY <1>1 DEF FrameRecord
<1>3. /\ Len(rest) = Len(bs) - s /\ DOMAIN rest = 1 .. Len(bs) - s
      /\ \A k \in 1 .. Len(bs) - s : rest[k] = bs[k + s]
  BY <1>2, SuffixOf
<1>4. W \in SUBSET (1 .. Len(bs) - s) /\ (\A k : k \in W <=> k \in 1 .. Len(bs) - s /\ IsWith(rest[k]))
  BY <1>3 DEF Withs
<1>5. IsFiniteSet(W) /\ Cardinality(W) \in Nat /\ W \in SUBSET Nat
  <2> DEFINE m == Len(bs) - s
  <2>4. m \in Int BY <1>2
  <2> HIDE DEF m
  <2>5. 1 \in Int OBVIOUS
  <2>6. IsFiniteSet(1 .. m) BY <2>4, <2>5, FS_Interval
  <2>1. IsFiniteSet(1 .. Len(bs) - s) BY <2>6 DEF m
  <2>2. IsFiniteSet(W) BY <2>1, <1>4, FS_Subset
  <2>3. W \in SUBSET Nat BY <1>4
  <2> QED BY <2>2, <2>3, FS_CardinalityType
<1>6. IsFiniteSet(O) /\ Len(es) = Cardinality(O) + a BY DEF EnvsFit
<1>7. ASSUME NEW p \in P PROVE \E k \in W : p = <<L, k + s>>
  <2>1. p = <<L, p[2]>> /\ p[2] \in 1 .. Len(bs) /\ p[2] > s BY <1>1, <1>2, PlacesBelow
  <2>2. p[2] \in In(Last(fs), WithBlocks) BY <2>1, <1>1 DEF PlacesOf
  <2>3. IsWith(bs[p[2]]) BY <2>2 DEF In, WithBlocks
  <2> DEFINE k == p[2] - s
  <2>4. k \in 1 .. Len(bs) - s /\ k + s = p[2] BY <2>1, <1>2
  <2> HIDE DEF k
  <2>5. rest[k] = bs[p[2]] BY <2>4, <1>3
  <2>6. k \in W BY <2>3, <2>4, <2>5, <1>4
  <2> QED BY <2>1, <2>4, <2>6
<1>8. ASSUME NEW k \in W PROVE <<L, k + s>> \in P
  <2>1. k \in 1 .. Len(bs) - s /\ IsWith(rest[k]) BY <1>4
  <2>7. k + s \in 1 .. Len(bs) /\ ~(k + s <= s) BY <2>1, <1>2
  <2>8. rest[k] = bs[k + s] BY <2>1, <1>3
  <2>2. k + s \in 1 .. Len(bs) /\ IsWith(bs[k + s]) /\ ~(k + s <= s) BY <2>1, <2>7, <2>8
  <2>3. bs[k + s] \in BlockRecord BY <2>2, <1>2
  <2>4. k + s \in In(Last(fs), WithBlocks) BY <2>2, <2>3 DEF In, WithBlocks
  <2>5. L \in 1 .. L BY <1>1
  <2>6. <<L, k + s>> \in O BY <2>4, <2>5, <1>1, PlaceIs
  <2> QED BY <2>2, <2>6
<1>9. ds = O \ P /\ P \in SUBSET O
  <2>1. ASSUME NEW p PROVE p \in ds <=> p \in O /\ ~(p \in P) BY DEF UpTo
  <2> HIDE DEF P
  <2>2. ds = O \ P BY <2>1
  <2>3. P \in SUBSET O BY DEF P
  <2> QED BY <2>2, <2>3
<1>10. Shifted(P, W, L, s) BY <1>7, <1>8 DEF Shifted
<1> HIDE DEF P, O, L, bs
<1>11. IsFiniteSet(O \ P) /\ Cardinality(O \ P) = Cardinality(O) - Cardinality(W)
  <2>1. TakenAway(O, P, W) BY <1>2, <1>5, <1>6, <1>9, <1>10, TakeAway
  <2> QED BY <2>1 DEF TakenAway
<1>13. Cardinality(O) \in Nat BY <1>6, FS_CardinalityType
<1>14. Covers(es, ds, n)
  <2>1. IsFiniteSet(ds) /\ Cardinality(ds) = Cardinality(O) - Cardinality(W) BY <1>9, <1>11
  <2>3. Cardinality(W) \in Nat /\ Cardinality(O) \in Nat /\ Len(es) = Cardinality(O) + a BY <1>5, <1>6, <1>13
  <2>4. Cardinality(ds) = Cardinality(O) - Cardinality(W) BY <2>1
  <2>2. Len(es) = Cardinality(ds) + n BY <2>3, <2>4
  <2> QED BY <2>1, <2>2 DEF Covers
<1> QED BY <1>5, <1>14 DEF O

\* JumpToHandler keeps the invariant: the last handler is that of the innermost try block
\* of the running code, its stackTop keeps the operands that were there when the block was
\* entered, and the with-blocks that are left keep their environment frames.
LEMMA JumpToHandlerStep == ASSUME Inv, JumpToHandler PROVE Inv'
<1> DEFINE L == Len(frames)
           h == Last(handlers)
           s == h.block
           try == cur.blocks[s]
           b == [try EXCEPT !.kind = IF try.hasCatch THEN "caught" ELSE "landed"]
           g == Landed(cur, s, b)
           rest == SubSeq(cur.blocks, s + 1, Len(cur.blocks))
           W == Withs(rest)
<1>1. frames # <<>> /\ exception # NoException /\ handlers # <<>> /\ h.frame = L
      /\ exception \in {NoException, Thrown} /\ Calm(cur)
  <2>1. frames # <<>> /\ exception # NoException /\ handlers # <<>> /\ h.frame = L
    BY DEF JumpToHandler, Pending
  <2>2. cur = Last(frames) BY <2>1, Running
  <2> QED BY <2>1, <2>2 DEF Inv, Scalars, PendingCalm
<1>2. /\ frames \in Seq(FrameRecord) /\ L \in Nat /\ L >= 1 /\ cur = Last(frames) /\ cur \in GoodFrame
      /\ cur \in FrameRecord /\ cur.operands \in Nat
      /\ cur.blocks \in Seq(BlockRecord) /\ Len(cur.blocks) \in Nat
      /\ UnderOf(cur) \in Seq(Nat)
      /\ Over(stack, UnderOf(cur), Held(cur), L) /\ stack \in Seq(Nat)
  BY <1>1, Running
<1>3. handlers \in Seq(HandlerRecord) /\ HandlersFit(frames, handlers) BY DEF Inv, Scalars
<1>4. Fits(frames, h)
  <2>1. h = handlers[Len(handlers)] /\ Len(handlers) \in Nat /\ Len(handlers) >= 1 BY <1>1, <1>3, FrontOf
  <2>2. Len(handlers) \in 1 .. Len(handlers) BY <2>1
  <2> QED BY <2>1, <2>2, <1>3 DEF HandlersFit
<1>5. /\ s \in 1 .. Len(cur.blocks) /\ Armed(try)
      /\ h.stackTop = Len(UnderOf(cur)) + try.operands
  <2>1. frames[h.frame] = cur BY <1>1 DEF cur
  <2> QED BY <2>1, <1>4 DEF Fits
<1>6. Orderly(cur) /\ Stacked(cur) /\ Steady(cur) BY <1>2 DEF GoodFrame
<1>7. \A k \in 1 .. Len(cur.blocks) : cur.blocks[k].kind \notin Special
  <2> SUFFICES ASSUME NEW k \in 1 .. Len(cur.blocks) PROVE cur.blocks[k].kind \notin Special OBVIOUS
  <2>1. CASE k < Len(cur.blocks) BY <2>1, <1>6 DEF Orderly
  <2>2. CASE k = Len(cur.blocks)
    <3>1. cur.blocks # <<>> BY <2>2, <1>2
    <3>2. Last(cur.blocks) = cur.blocks[k] BY <2>2 DEF Last
    <3> QED BY <3>1, <3>2, <1>1 DEF Calm
  <2> QED BY <2>1, <2>2, <1>2
<1>8. try.kind = "try" /\ ~try.parked
  <2>1. try.kind \notin Special BY <1>5, <1>7
  <2>2. try.kind = "try" BY <2>1, <1>5 DEF Armed, Special
  <2> QED BY <2>2, <1>5, <1>6 DEF Orderly
<1>9. try \in BlockRecord /\ try.operands \in Nat /\ try.operands <= cur.operands /\ try.hasCatch \in BOOLEAN
  <2>1. try \in BlockRecord BY <1>2, <1>5
  <2> QED BY <2>1, <1>5, <1>6 DEF BlockRecord, Stacked
<1> HIDE DEF h
<1>10. /\ b \in BlockRecord /\ b.kind = (IF try.hasCatch THEN "caught" ELSE "landed")
       /\ b.kind \in {"caught", "landed"}
       /\ b.operands = try.operands /\ b.self = try.self /\ b.other = try.other /\ b.parked = try.parked
  BY <1>9 DEF BlockRecord
<1> DEFINE f == [cur EXCEPT !.blocks = Append(SubSeq(cur.blocks, 1, s - 1), b), !.operands = try.operands]
<1>35. Replaced(frames, frames', f)
  BY DEF JumpToHandler, h, Replaced
<1>11. /\ abandoned' = abandoned + Cardinality(W)
       /\ muddled' = (muddled \/ LeftParked(rest) \/ (~try.hasCatch /\ parkedException # NoException))
       /\ stack' = IF try.hasCatch THEN Append(SubSeq(stack, 1, h.stackTop), L) ELSE SubSeq(stack, 1, h.stackTop)
       /\ parkedException' = IF try.hasCatch THEN parkedException ELSE exception
       /\ exception' = NoException
       /\ registers' = registers /\ envStack' = envStack /\ callDepth' = callDepth
       /\ handlers' = handlers /\ halted' = halted
  BY DEF JumpToHandler, Abandon, UnwindVMStack, h, Withs
<1> HIDE DEF b, W
<1>12. Replaced(frames, frames', g)
  <2>1. g = f
    <3> DEFINE bs == SubSeq(cur.blocks, 1, s - 1)
               f2 == [[cur EXCEPT !.blocks = bs] EXCEPT !.operands = b.operands]
    <3>1. f2.blocks = bs BY <1>2 DEF FrameRecord
    <3>2. g = [f2 EXCEPT !.blocks = Append(bs, b)] BY <3>1 DEF Landed, BlocksOf, WithOperands
    <3> HIDE DEF bs
    <3>3. [f2 EXCEPT !.blocks = Append(bs, b)] = [cur EXCEPT !.blocks = Append(bs, b), !.operands = b.operands]
      BY <1>2 DEF FrameRecord
    <3> QED BY <3>2, <3>3, <1>10 DEF bs
  <2> QED BY <2>1, <1>35
<1>13. g = Landed(cur, s, b) OBVIOUS
<1> HIDE DEF g
<1>14. /\ g \in GoodFrame /\ g \in FrameRecord /\ Kin(cur, g) /\ g.operands = b.operands
       /\ Len(g.blocks) = s /\ g.blocks[s] = b /\ Last(g.blocks) = b /\ g.blocks # <<>>
       /\ \A k \in 1 .. s - 1 : g.blocks[k] = cur.blocks[k]
       /\ \A m \in 0 .. s - 1 : SelfIn(g, m) = SelfIn(cur, m) /\ OtherIn(g, m) = OtherIn(cur, m)
       /\ Self(g) = b.self /\ Other(g) = b.other
  <2>1. s \in 1 .. Len(cur.blocks) /\ cur.blocks[s].kind = "try" /\ ~b.parked BY <1>5, <1>8, <1>10
  <2>2. b.self = cur.blocks[s].self /\ b.other = cur.blocks[s].other /\ b.operands = cur.blocks[s].operands
    BY <1>10
  <2>7. LandsIn(cur, s, b) BY <2>1, <2>2, <1>10 DEF LandsIn
  <2> HIDE DEF s
  <2>3. /\ g \in GoodFrame /\ g \in FrameRecord /\ Kin(cur, g) /\ g.operands = b.operands
        /\ Len(g.blocks) = s /\ g.blocks[s] = b /\ Last(g.blocks) = b /\ g.blocks # <<>>
    BY <2>7, <1>2, <1>13, LandedIs
  <2>4. \A k \in 1 .. s - 1 : g.blocks[k] = cur.blocks[k]
    BY <2>7, <1>2, <1>13, LandedIs
  <2>5. \A m \in 0 .. s - 1 : SelfIn(g, m) = SelfIn(cur, m) /\ OtherIn(g, m) = OtherIn(cur, m)
    BY <2>7, <1>2, <1>13, LandedIs
  <2>6. Self(g) = b.self /\ Other(g) = b.other
    BY <2>7, <1>2, <1>13, LandedIs
  <2> QED BY <2>3, <2>4, <2>5, <2>6
<1> HIDE DEF try, s, rest, L
<1>15. s \in Nat /\ s >= 1 /\ s <= Len(cur.blocks) BY <1>2, <1>5
<1>16. \A k \in 1 .. s : k = s \/ (k \in 1 .. s - 1 /\ g.blocks[k] = cur.blocks[k]) BY <1>14, <1>15
<1>17. \A k \in 1 .. s : k \in 1 .. Len(cur.blocks) BY <1>2, <1>15
<1>18. cur.blocks[s] = try BY DEF try
<1>19. Armed(b) /\ Armed(try) /\ ~IsWith(b) /\ ~IsWith(try) /\ try \notin ParkedBlocks
       /\ b \notin WithBlocks /\ try \notin WithBlocks
       /\ (b \in ParkedBlocks <=> ~try.hasCatch)
  <2>1. b.kind = "landed" <=> ~try.hasCatch BY <1>9, <1>10
  <2> QED BY <2>1, <1>8, <1>10 DEF Armed, IsWith, WithBlocks, ParkedBlocks, RunsForParked
<1>20. FramesFit(frames', callDepth') /\ frames' # <<>>
  <2>1. FramesFit(frames, callDepth) /\ callDepth' = callDepth BY <1>11 DEF Inv
  <2> QED BY <2>1, <1>1, <1>2, <1>12, <1>14, FramesTop
<1>21. HandlersFit(frames', handlers')
  <2>1. ASSUME NEW k \in ArmedIn(cur) PROVE k <= s
    <3>1. k <= Last(handlers).block BY <1>1, <1>2, <1>3, NothingAbove
    <3> QED BY <3>1 DEF s, h
  <2>2. ASSUME NEW k \in ArmedIn(g)
        PROVE  k \in ArmedIn(cur) /\ g.blocks[k].operands = cur.blocks[k].operands
    <3>1. k \in 1 .. s /\ Armed(g.blocks[k]) BY <1>14 DEF ArmedIn
    <3>2. CASE k = s BY <3>2, <1>10, <1>14, <1>17, <1>18, <1>19, <3>1 DEF ArmedIn
    <3>3. CASE k # s BY <3>1, <3>3, <1>16, <1>17 DEF ArmedIn
    <3> QED BY <3>2, <3>3
  <2>3. ASSUME NEW k \in ArmedIn(cur) PROVE k \in ArmedIn(g)
    <3>1. k \in 1 .. Len(cur.blocks) /\ Armed(cur.blocks[k]) BY DEF ArmedIn
    <3>2. k \in 1 .. s BY <3>1, <2>1, <1>15
    <3>3. CASE k = s BY <3>2, <3>3, <1>14, <1>19 DEF ArmedIn
    <3>4. CASE k # s BY <3>1, <3>2, <3>4, <1>14, <1>16 DEF ArmedIn
    <3> QED BY <3>3, <3>4
  <2>4. ArmedIn(g) = ArmedIn(cur) BY <2>2, <2>3
  <2>5. \A k \in ArmedIn(g) : g.blocks[k].operands = cur.blocks[k].operands BY <2>2
  <2>6. handlers' = handlers BY <1>11
  <2> QED BY <2>4, <2>5, <2>6, <1>1, <1>2, <1>3, <1>12, <1>14, HandlersTop
<1>22. OperandsFit(frames', stack') /\ stack' \in Seq(Nat)
  <2> DEFINE m == try.operands
             tt == SubSeq(stack, 1, Len(UnderOf(cur)) + m)
  <2>1. Held(cur) = cur.operands BY <1>1, <1>2 DEF Held, Caught, Calm, Special
  <2>2. m \in 0 .. cur.operands BY <1>2, <1>9
  <2>3. Over(stack, UnderOf(cur), cur.operands, L) BY <2>1, <1>2
  <2>4. tt = SubSeq(stack, 1, h.stackTop) BY <1>5
  <2>5. tt = SubSeq(stack, 1, Len(UnderOf(cur)) + m) /\ m \in Nat BY <2>2
  <2> HIDE DEF m, tt
  <2>6. tt \in Seq(Nat) /\ Over(tt, UnderOf(cur), m, L)
    BY <2>2, <2>3, <2>5, <1>2, OverCut
  <2>7. stack' \in Seq(Nat) /\ Over(stack', UnderOf(cur), Held(g), L)
    <3>1. CASE try.hasCatch
      <4>1. stack' = Append(tt, L) BY <3>1, <2>4, <1>11
      <4>2. Append(tt, L) \in Seq(Nat) /\ Over(Append(tt, L), UnderOf(cur), m + 1, L)
        BY <2>5, <2>6, <1>2, OverPush
      <4>3. Held(g) = m + 1 BY <3>1, <1>10, <1>14 DEF Held, Caught, m
      <4> QED BY <4>1, <4>2, <4>3
    <3>2. CASE ~try.hasCatch
      <4>1. stack' = tt BY <3>2, <2>4, <1>11
      <4>2. Held(g) = m + 0 BY <3>2, <1>10, <1>14 DEF Held, Caught, m
      <4> QED BY <4>1, <4>2, <2>5, <2>6
    <3> QED BY <3>1, <3>2
  <2>8. UnderOf(g) = UnderOf(cur) BY <1>14 DEF UnderOf, IsCall, Kin
  <2>9. OperandsFit(frames, stack) BY DEF Inv
  <2> QED BY <2>7, <2>8, <2>9, <1>1, <1>2, <1>12, <1>14, OperandsTop DEF L
<1>23. \A k : k \in In(g, WithBlocks) <=> k \in In(cur, WithBlocks) /\ k <= s
  <2>1. ASSUME NEW k \in In(g, WithBlocks) PROVE k \in In(cur, WithBlocks) /\ k <= s
    BY <1>14, <1>15, <1>16, <1>17, <1>19 DEF In
  <2>2. ASSUME NEW k \in In(cur, WithBlocks), k <= s PROVE k \in In(g, WithBlocks)
    <3>1. k \in 1 .. Len(cur.blocks) /\ cur.blocks[k] \in WithBlocks BY DEF In
    <3>2. k \in 1 .. s /\ k # s BY <3>1, <2>2, <1>15, <1>18, <1>19
    <3> QED BY <3>1, <3>2, <1>14, <1>16 DEF In
  <2> QED BY <2>1, <2>2
<1>24. PlacesOf(frames', WithBlocks) \in SUBSET (Nat \X Nat)
       /\ \A p : p \in PlacesOf(frames', WithBlocks) <=>
                    p \in PlacesOf(frames, WithBlocks) /\ (p[1] = L => p[2] <= s)
  <2>1. PlacesOf(frames', WithBlocks)
         = {p \in PlacesOf(frames, WithBlocks) : p[1] # L} \cup {<<L, k>> : k \in In(g, WithBlocks)}
    BY <1>1, <1>2, <1>12, <1>14, PlacesTop DEF L
  <2>2. ASSUME NEW k \in In(g, WithBlocks) PROVE <<L, k>> \in PlacesOf(frames, WithBlocks) /\ k <= s
    <3>1. k \in In(cur, WithBlocks) /\ k <= s BY <1>23
    <3>2. L \in 1 .. Len(frames) /\ frames[L] = cur BY <1>2 DEF L, cur
    <3> QED BY <3>1, <3>2, <1>2, PlaceIs
  <2>3. ASSUME NEW p \in PlacesOf(frames, WithBlocks), p[1] = L, p[2] <= s
        PROVE  \E k \in In(g, WithBlocks) : p = <<L, k>>
    <3>1. p = <<p[1], p[2]>> BY <1>1, <1>2, PlacesBelow
    <3>2. p[2] \in In(frames[p[1]], WithBlocks) BY DEF PlacesOf
    <3>3. frames[L] = cur BY DEF L, cur
    <3>4. p[2] \in In(g, WithBlocks) BY <3>2, <3>3, <2>3, <1>23
    <3> QED BY <3>1, <3>4, <2>3
  <2>4. PlacesOf(frames', WithBlocks) \in SUBSET (Nat \X Nat) BY DEF PlacesOf
  <2>5. ASSUME NEW p \in PlacesOf(frames', WithBlocks)
        PROVE  p \in PlacesOf(frames, WithBlocks) /\ (p[1] = L => p[2] <= s)
    BY <2>1, <2>2
  <2>6. ASSUME NEW p \in PlacesOf(frames, WithBlocks), p[1] = L => p[2] <= s
        PROVE  p \in PlacesOf(frames', WithBlocks)
    BY <2>1, <2>3, <2>6
  <2> QED BY <2>4, <2>5, <2>6
<1>25. EnvsFit(frames, envStack, abandoned) /\ abandoned \in Nat BY DEF Inv, Scalars
<1>26. /\ IsFiniteSet(W) /\ Cardinality(W) \in Nat
       /\ Covers(envStack, PlacesOf(frames', WithBlocks), abandoned + Cardinality(W))
  <2>1. s \in 0 .. Len(Last(frames).blocks) BY <1>2, <1>15
  <2>2. rest = SubSeq(Last(frames).blocks, s + 1, Len(Last(frames).blocks)) BY <1>2 DEF rest
  <2>3. W = Withs(rest) BY DEF W
  <2> DEFINE ds == PlacesOf(frames', WithBlocks)
             n == abandoned + Cardinality(W)
  <2>4. /\ ds \in SUBSET (Nat \X Nat) /\ n = abandoned + Cardinality(W)
        /\ UpTo(ds, PlacesOf(frames, WithBlocks), Len(frames), s)
    BY <1>24 DEF L, UpTo
  <2> HIDE DEF ds, n
  <2>5. IsFiniteSet(W) /\ Cardinality(W) \in Nat
    BY <2>1, <2>2, <2>3, <2>4, <1>1, <1>2, <1>25, EnvsAbandoned
  <2>6. Covers(envStack, ds, n)
    BY <2>1, <2>2, <2>3, <2>4, <1>1, <1>2, <1>25, EnvsAbandoned
  <2> QED BY <2>5, <2>6 DEF ds, n
<1>27. EnvsFit(frames', envStack', abandoned') /\ abandoned' \in Nat
  BY <1>11, <1>25, <1>26 DEF EnvsFit, Covers
<1>28. \A k \in s + 1 .. Len(cur.blocks) :
          k - s \in DOMAIN rest /\ rest[k - s] = cur.blocks[k]
  <2>1. cur.blocks \in Seq(BlockRecord) /\ s \in 0 .. Len(cur.blocks) BY <1>2, <1>15
  <2>2. rest = SubSeq(cur.blocks, s + 1, Len(cur.blocks)) BY DEF rest
  <2>3. /\ Len(cur.blocks) \in Nat /\ DOMAIN rest = 1 .. Len(cur.blocks) - s
        /\ \A i \in 1 .. Len(cur.blocks) - s : rest[i] = cur.blocks[i + s]
    BY <2>1, <2>2, SuffixOf
  <2>4. ASSUME NEW k \in s + 1 .. Len(cur.blocks)
        PROVE  k - s \in DOMAIN rest /\ rest[k - s] = cur.blocks[k]
    <3>1. k - s \in 1 .. Len(cur.blocks) - s /\ (k - s) + s = k BY <2>3, <1>15
    <3> QED BY <3>1, <2>3
  <2> QED BY <2>4
<1>29. ContextInv'
  <2> SUFFICES ASSUME abandoned' = 0
               PROVE  ContextFits(frames', envStack, currentInstance, otherInstance)
    BY <1>11 DEF ContextInv, registers
  <2>1. abandoned = 0 /\ Cardinality(W) = 0 BY <1>11, <1>25, <1>26
  <2>2. ContextFits(frames, envStack, currentInstance, otherInstance) BY <2>1 DEF Inv, ContextInv
  <2>3. W = {} BY <2>1, <1>26, FS_EmptySet
  <2>4. \A j \in s + 1 .. Len(cur.blocks) : ~IsWith(cur.blocks[j]) BY <2>3, <1>28 DEF W, Withs
  <2>5. SelfIn(cur, Len(cur.blocks)) = SelfIn(cur, s) /\ OtherIn(cur, Len(cur.blocks)) = OtherIn(cur, s)
    <3>1. s \in 0 .. Len(cur.blocks) /\ Len(cur.blocks) \in 0 .. Len(cur.blocks) BY <1>2, <1>15
    <3> QED BY <3>1, <2>4, <1>6, <1>15 DEF Steady
  <2>6. Self(g) = Self(cur) /\ Other(g) = Other(cur)
    <3>1. SelfIn(cur, s) = try.self /\ OtherIn(cur, s) = try.other BY <1>15, <1>18 DEF SelfIn, OtherIn
    <3> QED BY <3>1, <2>5, <1>10, <1>14 DEF Self, Other
  <2>7. In(g, WithBlocks) = In(cur, WithBlocks)
    <3>1. ASSUME NEW k \in In(cur, WithBlocks) PROVE k <= s
      <4>1. k \in 1 .. Len(cur.blocks) /\ IsWith(cur.blocks[k]) BY DEF In, WithBlocks
      <4>2. ~(k \in s + 1 .. Len(cur.blocks)) BY <4>1, <2>4
      <4> QED BY <4>1, <4>2, <1>2, <1>15
    <3> QED BY <3>1, <1>23
  <2>8. ASSUME NEW k \in In(g, WithBlocks)
        PROVE  SelfIn(g, k - 1) = SelfIn(cur, k - 1) /\ OtherIn(g, k - 1) = OtherIn(cur, k - 1)
    <3>1. k \in 1 .. s BY <1>14 DEF In
    <3>2. k - 1 \in 0 .. s - 1 BY <3>1, <1>15
    <3> QED BY <3>2, <1>14
  <2> QED BY <2>2, <2>6, <2>7, <2>8, <1>1, <1>2, <1>12, <1>14, QuietTop
<1>30. ParkedInv'
  <2> SUFFICES ASSUME ~muddled' PROVE ParkedFit(frames', parkedException') BY DEF ParkedInv
  <2>1. ~muddled /\ ~LeftParked(rest) /\ (~try.hasCatch => parkedException = NoException) BY <1>11
  <2>2. ParkedFit(frames, parkedException) BY <2>1 DEF Inv, ParkedInv
  <2>3. ASSUME NEW k \in In(cur, ParkedBlocks) PROVE k \in 1 .. s - 1
    <3>1. k \in 1 .. Len(cur.blocks) /\ RunsForParked(cur.blocks[k]) BY DEF In, ParkedBlocks
    <3>2. cur.blocks[k].kind # "landed" BY <3>1, <1>7 DEF Special
    <3>3. cur.blocks[k].parked BY <3>1, <3>2 DEF RunsForParked
    <3>4. ~(k \in s + 1 .. Len(cur.blocks)) BY <3>3, <2>1, <1>28 DEF LeftParked
    <3>5. k # s BY <3>3, <1>8, <1>18
    <3> QED BY <3>1, <3>4, <3>5, <1>2, <1>15
  <2>4. CASE try.hasCatch
    <3>1. In(g, ParkedBlocks) = In(Last(frames), ParkedBlocks)
      <4>1. ASSUME NEW k \in In(g, ParkedBlocks) PROVE k \in In(cur, ParkedBlocks)
        BY <2>4, <1>14, <1>16, <1>17, <1>19 DEF In
      <4>2. ASSUME NEW k \in In(cur, ParkedBlocks) PROVE k \in In(g, ParkedBlocks)
        <5>1. k \in 1 .. s - 1 /\ cur.blocks[k] \in ParkedBlocks BY <2>3 DEF In
        <5>2. k \in 1 .. s BY <5>1, <1>15
        <5> QED BY <5>1, <5>2, <1>14 DEF In
      <4> QED BY <4>1, <4>2, <1>2
    <3>2. PlacesOf(frames', ParkedBlocks) = PlacesOf(frames, ParkedBlocks)
      BY <3>1, <1>1, <1>2, <1>12, <1>14, PlacesQuiet
    <3> QED BY <3>2, <2>2, <2>4, <1>11 DEF ParkedFit
  <2>5. CASE ~try.hasCatch
    <3>1. PlacesOf(frames, ParkedBlocks) = {} BY <2>1, <2>2, <2>5 DEF ParkedFit
    <3>2. In(g, ParkedBlocks) = Plus(In(cur, ParkedBlocks), s)
      <4>1. ASSUME NEW k \in In(g, ParkedBlocks) PROVE k \in In(cur, ParkedBlocks) \/ k = s
        BY <1>14, <1>16, <1>17 DEF In
      <4>2. ASSUME NEW k \in In(cur, ParkedBlocks) PROVE k \in In(g, ParkedBlocks)
        <5>1. k \in 1 .. s - 1 /\ cur.blocks[k] \in ParkedBlocks BY <2>3 DEF In
        <5>2. k \in 1 .. s BY <5>1, <1>15
        <5> QED BY <5>1, <5>2, <1>14 DEF In
      <4>3. s \in In(g, ParkedBlocks)
        <5>1. s \in 1 .. s BY <1>15
        <5> QED BY <5>1, <2>5, <1>14, <1>19 DEF In
      <4> QED BY <4>1, <4>2, <4>3 DEF Plus
    <3>3. In(g, ParkedBlocks) = Plus(In(Last(frames), ParkedBlocks), s) BY <3>2, <1>2
    <3>4. PlacesOf(frames', ParkedBlocks) = Plus(PlacesOf(frames, ParkedBlocks), <<Len(frames), s>>)
      BY <3>3, <1>1, <1>2, <1>12, <1>14, PlacesAdd
    <3>5. PlacesOf(frames', ParkedBlocks) = {<<Len(frames), s>>} BY <3>1, <3>4 DEF Plus
    <3>6. parkedException' # NoException BY <2>5, <1>1, <1>11
    <3> QED BY <3>5, <3>6 DEF ParkedFit
  <2> QED BY <2>4, <2>5
<1>31. PendingCalm' BY <1>11 DEF PendingCalm
<1>32. muddled' \in BOOLEAN
  <2>1. muddled \in BOOLEAN BY DEF Inv, Scalars
  <2> QED BY <2>1, <1>11
<1>33. parkedException' \in {NoException, Thrown} BY <1>1, <1>11 DEF Inv, Scalars
<1>34. Scalars'
  BY <1>11, <1>22, <1>27, <1>32, <1>33 DEF Inv, Scalars, registers
<1> QED
  BY <1>20, <1>21, <1>22, <1>27, <1>29, <1>30, <1>31, <1>34, <1>11 DEF Inv

-------------------------------------------------------------------------------
(* Calls and returns                                                        *)

\* Below what a frame has on the stack is the stack that its caller saved.
LEMMA UnderIs ==
    ASSUME NEW st \in Seq(Nat), NEW u \in Seq(Nat), NEW m \in Nat, NEW i, Over(st, u, m, i)
    PROVE  SubSeq(st, 1, Len(u)) = u
<1>1. Len(st) = Len(u) + m /\ Len(u) \in Nat /\ \A j \in 1 .. Len(u) : st[j] = u[j] BY DEF Over
<1>2. Len(u) \in 0 .. Len(st) BY <1>1
<1>3. /\ SubSeq(st, 1, Len(u)) \in Seq(Nat) /\ Len(SubSeq(st, 1, Len(u))) = Len(u)
      /\ \A j \in 1 .. Len(u) : SubSeq(st, 1, Len(u))[j] = st[j]
  BY <1>2, PrefixOf
<1> DEFINE p == SubSeq(st, 1, Len(u))
<1>4. p \in Seq(Nat) /\ Len(p) = Len(u) /\ \A j \in 1 .. Len(u) : p[j] = u[j] BY <1>1, <1>3
<1> HIDE DEF p
<1>5. p = u BY <1>4
<1> QED BY <1>5 DEF p

\* New code begins: an event with an empty stack, a script on its caller's.
LEMMA EnterStep ==
    ASSUME Inv, frames # <<>> => Calm(cur),
           NEW kind \in {"event", "collision", "script", "method"},
           NEW self \in Anyone, NEW other \in Anyone,
           kind = "script" => self = currentInstance, kind # "collision" => other = otherInstance,
           NEW f, f = Frame(kind, self, other),
           frames' = Append(frames, f), currentInstance' = self, otherInstance' = other,
           stack' = IF IsCall(f) THEN stack ELSE <<>>,
           callDepth' = IF IsCall(f) THEN callDepth + 1 ELSE callDepth,
           envStack' = envStack, handlers' = handlers, exceptions' = exceptions, halted' = halted,
           abandoned' = abandoned, muddled' = muddled
    PROVE  Inv'
<1>1. /\ currentInstance \in Anyone /\ otherInstance \in Anyone /\ stack \in Seq(Nat)
      /\ FramesFit(frames, callDepth) /\ handlers \in Seq(HandlerRecord)
  BY DEF Inv, Scalars
<1>2. frames \in Seq(FrameRecord) BY <1>1, GoodFrames DEF FramesFit
<1>3. <<>> \in Seq(BlockRecord) BY EmptyOf
<1>4. f \in FrameRecord BY <1>1, <1>3 DEF Frame, FrameRecord
<1>5. /\ f.kind = kind /\ f.self = self /\ f.other = other /\ f.blocks = <<>> /\ f.operands = 0
      /\ f.savedInstance = currentInstance /\ f.savedOther = otherInstance /\ f.savedStack = stack
  BY DEF Frame
<1>6. Inherits(f) BY <1>5 DEF Inherits
<1>7. Len(f.blocks) = 0 BY <1>5
<1>8. Steady(f) BY <1>7 DEF Steady
<1>9. Stacked(f) /\ Orderly(f) BY <1>7 DEF Stacked, Orderly
<1>10. f \in GoodFrame BY <1>4, <1>6, <1>8, <1>9 DEF GoodFrame
<1>11. FramesFit(frames', callDepth')
  <2>1. frames # <<>> => Calm(Last(frames)) BY Running
  <2> QED BY <2>1, <1>1, <1>10, FramesEnter
<1>12. HandlersFit(frames', handlers')
  <2>1. HandlersFit(frames, handlers) BY DEF Inv
  <2> QED BY <2>1, <1>1, <1>2, <1>4, <1>5, HandlersEnter
<1>13. stack \in Seq(1 .. Len(frames)) /\ OperandsFit(frames, stack)
  <2>1. OperandsFit(frames, stack) BY DEF Inv
  <2>2. CASE frames = <<>>
    <3>1. stack = <<>> BY <2>1, <2>2 DEF OperandsFit
    <3> QED BY <3>1, <2>1, EmptyOf
  <2>3. CASE frames # <<>>
    <3>1. /\ Len(frames) \in Nat /\ Len(frames) >= 1 /\ UnderOf(cur) \in Seq(1 .. Len(frames) - 1)
          /\ Over(stack, UnderOf(cur), Held(cur), Len(frames)) /\ cur.operands \in Nat
      BY <2>3, Running
    <3>2. Held(cur) \in Nat BY <3>1 DEF Held
    <3> QED BY <3>1, <3>2, <2>1, <1>1, OverType
  <2> QED BY <2>2, <2>3
<1>14. OperandsFit(frames', stack')
  <2>1. OperandsFit(Append(frames, f), IF IsCall(f) THEN stack ELSE <<>>)
    BY <1>2, <1>4, <1>5, <1>13, OperandsEnter
  <2> QED BY <2>1
<1>15. stack' \in Seq(Nat)
  <2>1. <<>> \in Seq(Nat) BY EmptyOf
  <2> QED BY <2>1, <1>1
<1>16. PlacesOf(frames', WithBlocks) = PlacesOf(frames, WithBlocks)
       /\ PlacesOf(frames', ParkedBlocks) = PlacesOf(frames, ParkedBlocks)
  BY <1>2, <1>4, <1>5, PlacesEnter
<1>17. EnvsFit(frames', envStack', abandoned') BY <1>16 DEF Inv, EnvsFit
<1>18. ContextInv'
  <2> SUFFICES ASSUME abandoned = 0 PROVE ContextFits(frames', envStack, self, other) BY DEF ContextInv
  <2>1. ContextFits(frames, envStack, currentInstance, otherInstance) BY DEF Inv, ContextInv
  <2>2. ContextFits(Append(frames, f), envStack, f.self, f.other)
    BY <2>1, <1>2, <1>4, <1>5, ContextEnter
  <2> QED BY <2>2, <1>5
<1>19. ParkedInv' BY <1>16 DEF Inv, ParkedInv, ParkedFit, exceptions
<1>20. PendingCalm'
  <2>1. Last(frames') = f BY <1>2, <1>4, AppendOf
  <2> QED BY <2>1, <1>5 DEF PendingCalm, Calm
<1>21. Scalars' BY <1>15 DEF Inv, Scalars, exceptions
<1> QED BY <1>11, <1>12, <1>14, <1>17, <1>18, <1>19, <1>20, <1>21 DEF Inv

\* Code that is at a statement is not about to land.
LEMMA StatementCalm == ASSUME AtStatement PROVE Calm(cur) /\ frames # <<>> /\ exception = NoException
BY DEF AtStatement, MayRun, Calm, Special

\* ExecuteCode keeps the invariant.
LEMMA ExecuteCodeStep == ASSUME Inv, NEW i \in Selves, ExecuteCode(i) PROVE Inv'
<1> DEFINE f == Frame("event", i, otherInstance)
<1>1. frames # <<>> => Calm(cur) BY StatementCalm DEF ExecuteCode
<1>2. i \in Anyone /\ otherInstance \in Anyone BY VMCallsAssumption DEF Inv, Scalars, Anyone
<1>3. ~IsCall(f) BY DEF Frame, IsCall
<1>4. f = Frame("event", i, otherInstance) OBVIOUS
<1> HIDE DEF f
<1>5. /\ frames' = Append(frames, f) /\ currentInstance' = i /\ otherInstance' = otherInstance
      /\ stack' = IF IsCall(f) THEN stack ELSE <<>>
      /\ callDepth' = IF IsCall(f) THEN callDepth + 1 ELSE callDepth
  BY <1>3, <1>4 DEF ExecuteCode, EnterFrame
<1>6. /\ envStack' = envStack /\ handlers' = handlers /\ exceptions' = exceptions /\ halted' = halted
      /\ abandoned' = abandoned /\ muddled' = muddled
  BY DEF ExecuteCode
<1> QED BY <1>1, <1>2, <1>4, <1>5, <1>6, EnterStep

\* ExecuteCollisionEvent keeps the invariant.
LEMMA ExecuteCollisionEventStep ==
    ASSUME Inv, NEW i \in Selves, NEW j \in Others, ExecuteCollisionEvent(i, j) PROVE Inv'
<1> DEFINE f == Frame("collision", i, j)
<1>1. frames # <<>> => Calm(cur) BY DEF ExecuteCollisionEvent, AtEvent
<1>2. i \in Anyone /\ j \in Anyone BY VMCallsAssumption DEF Anyone
<1>3. ~IsCall(f) BY DEF Frame, IsCall
<1>4. f = Frame("collision", i, j) OBVIOUS
<1> HIDE DEF f
<1>5. /\ frames' = Append(frames, f) /\ currentInstance' = i /\ otherInstance' = j
      /\ stack' = IF IsCall(f) THEN stack ELSE <<>>
      /\ callDepth' = IF IsCall(f) THEN callDepth + 1 ELSE callDepth
  BY <1>3, <1>4 DEF ExecuteCollisionEvent, EnterFrame
<1>6. /\ envStack' = envStack /\ handlers' = handlers /\ exceptions' = exceptions /\ halted' = halted
      /\ abandoned' = abandoned /\ muddled' = muddled
  BY DEF ExecuteCollisionEvent
<1> QED BY <1>1, <1>2, <1>4, <1>5, <1>6, EnterStep

\* CallScript keeps the invariant.
LEMMA CallScriptStep == ASSUME Inv, CallScript PROVE Inv'
<1> DEFINE f == Frame("script", currentInstance, otherInstance)
<1>1. frames # <<>> => Calm(cur) BY StatementCalm DEF CallScript
<1>2. currentInstance \in Anyone /\ otherInstance \in Anyone BY DEF Inv, Scalars
<1>3. IsCall(f) BY DEF Frame, IsCall
<1>4. f = Frame("script", currentInstance, otherInstance) OBVIOUS
<1> HIDE DEF f
<1>5. /\ frames' = Append(frames, f) /\ currentInstance' = currentInstance /\ otherInstance' = otherInstance
      /\ stack' = IF IsCall(f) THEN stack ELSE <<>>
      /\ callDepth' = IF IsCall(f) THEN callDepth + 1 ELSE callDepth
  BY <1>3, <1>4 DEF CallScript, EnterFrame, registers
<1>6. /\ envStack' = envStack /\ handlers' = handlers /\ exceptions' = exceptions /\ halted' = halted
      /\ abandoned' = abandoned /\ muddled' = muddled
  BY DEF CallScript
<1> QED BY <1>1, <1>2, <1>4, <1>5, <1>6, EnterStep

\* CallMethod keeps the invariant.
LEMMA CallMethodStep == ASSUME Inv, NEW i \in Others, CallMethod(i) PROVE Inv'
<1> DEFINE f == Frame("method", i, otherInstance)
<1>1. frames # <<>> => Calm(cur) BY StatementCalm DEF CallMethod
<1>2. i \in Anyone /\ otherInstance \in Anyone BY VMCallsAssumption DEF Inv, Scalars, Anyone
<1>3. IsCall(f) BY DEF Frame, IsCall
<1>4. f = Frame("method", i, otherInstance) OBVIOUS
<1> HIDE DEF f
<1>5. /\ frames' = Append(frames, f) /\ currentInstance' = i /\ otherInstance' = otherInstance
      /\ stack' = IF IsCall(f) THEN stack ELSE <<>>
      /\ callDepth' = IF IsCall(f) THEN callDepth + 1 ELSE callDepth
  BY <1>3, <1>4 DEF CallMethod, EnterFrame
<1>6. /\ envStack' = envStack /\ handlers' = handlers /\ exceptions' = exceptions /\ halted' = halted
      /\ abandoned' = abandoned /\ muddled' = muddled
  BY DEF CallMethod
<1> QED BY <1>1, <1>2, <1>4, <1>5, <1>6, EnterStep

\* executeLoop ends, and so do all blocks of its code; none of them is armed.
LEMMA LeaveStep ==
    ASSUME Inv, frames # <<>>, Calm(cur), LeaveFrame, ArmedIn(cur) = {},
           envStack' = envStack, handlers' = handlers, parkedException' = parkedException,
           halted' = halted, exception' \in {NoException, Thrown},
           abandoned' = abandoned + Cardinality(Withs(cur.blocks)),
           muddled' \in BOOLEAN, ~muddled' => ~muddled /\ ~LeftParked(cur.blocks)
    PROVE  Inv'
<1> DEFINE L == Len(frames)
           bs == cur.blocks
           W == Withs(bs)
<1>1. /\ frames \in Seq(FrameRecord) /\ L \in Nat /\ L >= 1 /\ cur = Last(frames) /\ cur \in GoodFrame
      /\ cur \in FrameRecord /\ cur.operands \in Nat
      /\ bs \in Seq(BlockRecord) /\ Len(bs) \in Nat
      /\ UnderOf(cur) \in Seq(Nat)
      /\ Over(stack, UnderOf(cur), Held(cur), L) /\ stack \in Seq(Nat)
  BY Running
<1>2. frames' = Front(frames) BY DEF LeaveFrame
<1>3. FramesFit(frames', callDepth') /\ PendingCalm'
  <2>1. FramesFit(frames, callDepth) BY DEF Inv
  <2>2. /\ FramesFit(Front(frames), IF IsCall(Last(frames)) THEN callDepth - 1 ELSE callDepth)
        /\ Front(frames) # <<>> => Calm(Last(Front(frames)))
    BY <2>1, FramesLeave
  <2>3. callDepth' = IF IsCall(Last(frames)) THEN callDepth - 1 ELSE callDepth BY <1>1 DEF LeaveFrame
  <2> QED BY <2>2, <2>3, <1>2 DEF PendingCalm
<1>4. HandlersFit(frames', handlers')
  <2>1. HandlersFit(frames, handlers) /\ handlers \in Seq(HandlerRecord) BY DEF Inv, Scalars
  <2>2. \A k \in 1 .. Len(Last(frames).blocks) : ~Armed(Last(frames).blocks[k]) BY <1>1 DEF ArmedIn
  <2> QED BY <2>1, <2>2, <1>1, <1>2, HandlersLeave
<1>5. OperandsFit(frames', stack') /\ stack' \in Seq(Nat)
  <2>1. cur.savedStack \in Seq(Nat) BY <1>1 DEF FrameRecord
  <2>2. stack' = cur.savedStack
    <3>1. CASE ~IsCall(cur) BY <3>1 DEF LeaveFrame, ReturnStack
    <3>2. CASE IsCall(cur)
      <4>1. UnderOf(cur) = cur.savedStack BY <3>2 DEF UnderOf
      <4>2. Held(cur) \in Nat BY <1>1 DEF Held
      <4>3. SubSeq(stack, 1, Len(UnderOf(cur))) = UnderOf(cur) BY <4>2, <1>1, UnderIs
      <4> QED BY <4>1, <4>3, <3>2 DEF LeaveFrame, ReturnStack, UnwindVMStack
    <3> QED BY <3>1, <3>2
  <2>3. OperandsFit(frames, stack) BY DEF Inv
  <2>4. OperandsFit(Front(frames), Last(frames).savedStack) BY <2>3, <1>1, OperandsLeave
  <2> QED BY <2>1, <2>2, <2>4, <1>1, <1>2
<1>6. \A B : PlacesOf(frames', B) = {p \in PlacesOf(frames, B) : p[1] # L}
  BY <1>1, <1>2, PlacesLeave
<1>7. EnvsFit(frames, envStack, abandoned) /\ abandoned \in Nat BY DEF Inv, Scalars
<1>8. IsFiniteSet(W) /\ Cardinality(W) \in Nat
      /\ Covers(envStack, PlacesOf(frames', WithBlocks), abandoned + Cardinality(W))
  <2> DEFINE ds == PlacesOf(frames', WithBlocks)
             n == abandoned + Cardinality(W)
             rest == SubSeq(bs, 0 + 1, Len(bs))
  <2>1. UpTo(ds, PlacesOf(frames, WithBlocks), L, 0)
    <3>1. ds = {p \in PlacesOf(frames, WithBlocks) : p[1] # L} BY <1>6
    <3>2. ASSUME NEW p \in PlacesOf(frames, WithBlocks), p[1] = L PROVE ~(p[2] <= 0)
      <4>1. p[1] < L \/ (p[1] = L /\ p[2] \in 1 .. Len(bs)) BY <1>1, PlacesBelow
      <4> QED BY <4>1, <3>2, <1>1
    <3> HIDE DEF ds
    <3> QED BY <3>1, <3>2 DEF UpTo
  <2>2. ds \in SUBSET (Nat \X Nat) BY DEF PlacesOf
  <2>3. rest = bs
    <3>1. 0 + 1 = 1 OBVIOUS
    <3>2. /\ SubSeq(bs, 1, Len(bs)) \in Seq(BlockRecord) /\ Len(SubSeq(bs, 1, Len(bs))) = Len(bs)
          /\ \A i \in 1 .. Len(bs) : SubSeq(bs, 1, Len(bs))[i] = bs[i]
      BY <1>1, PrefixOf
    <3> QED BY <3>1, <3>2, <1>1
  <2>4. W = Withs(rest) /\ n = abandoned + Cardinality(W) BY <2>3
  <2>5. 0 \in 0 .. Len(Last(frames).blocks) BY <1>1
  <2>6. rest = SubSeq(Last(frames).blocks, 0 + 1, Len(Last(frames).blocks)) BY <1>1
  <2> HIDE DEF ds, n, rest, W
  <2>7. IsFiniteSet(W) /\ Cardinality(W) \in Nat
    BY <2>1, <2>2, <2>4, <2>5, <2>6, <1>1, <1>7, EnvsAbandoned
  <2>8. Covers(envStack, ds, n)
    BY <2>1, <2>2, <2>4, <2>5, <2>6, <1>1, <1>7, EnvsAbandoned
  <2> QED BY <2>7, <2>8 DEF ds, n
<1> HIDE DEF W
<1>9. abandoned' = abandoned + Cardinality(W) BY DEF W
<1>10. EnvsFit(frames', envStack', abandoned') /\ abandoned' \in Nat
  BY <1>7, <1>8, <1>9 DEF EnvsFit, Covers
<1>11. ContextInv'
  <2> SUFFICES ASSUME abandoned' = 0
               PROVE  ContextFits(frames', envStack, currentInstance', otherInstance')
    BY DEF ContextInv
  <2>1. abandoned = 0 /\ Cardinality(W) = 0 BY <1>7, <1>8, <1>9
  <2>2. ContextFits(frames, envStack, currentInstance, otherInstance) BY <2>1 DEF Inv, ContextInv
  <2>3. W = {} BY <2>1, <1>8, FS_EmptySet
  <2>4. \A k \in 1 .. Len(bs) : ~IsWith(bs[k]) BY <2>3, <1>1 DEF W, Withs
  <2>5. In(Last(frames), WithBlocks) = {} BY <2>4, <1>1 DEF In, WithBlocks
  <2>6. ContextFits(Front(frames), envStack, Last(frames).savedInstance, Last(frames).savedOther)
    BY <2>2, <2>5, <1>1, ContextLeave
  <2>7. Self(cur) = cur.self /\ Other(cur) = cur.other
    <3>1. Steady(cur) BY <1>1 DEF GoodFrame
    <3>2. 0 \in 0 .. Len(bs) /\ Len(bs) \in 0 .. Len(bs) /\ 0 <= Len(bs) BY <1>1
    <3>3. \A j \in 0 + 1 .. Len(bs) : ~IsWith(bs[j]) BY <2>4
    <3>4. SelfIn(cur, Len(bs)) = SelfIn(cur, 0) /\ OtherIn(cur, Len(bs)) = OtherIn(cur, 0)
      BY <3>1, <3>2, <3>3 DEF Steady
    <3> QED BY <3>4 DEF Self, Other, SelfIn, OtherIn
  <2>8. currentInstance = Self(cur) /\ otherInstance = Other(cur)
    BY <2>2, <1>1 DEF ContextFits, SelfAfter, OtherAfter
  <2>9. Inherits(cur) BY <1>1 DEF GoodFrame
  <2>10. currentInstance' = cur.savedInstance
    BY <2>7, <2>8, <2>9 DEF LeaveFrame, ReturnInstance, Inherits
  <2>11. otherInstance' = cur.savedOther
    BY <2>7, <2>8, <2>9 DEF LeaveFrame, ReturnOther, Inherits
  <2> QED BY <2>6, <2>10, <2>11, <1>1, <1>2
<1>12. ParkedInv'
  <2> SUFFICES ASSUME ~muddled' PROVE ParkedFit(frames', parkedException) BY DEF ParkedInv
  <2>1. ParkedFit(frames, parkedException) BY DEF Inv, ParkedInv
  <2>2. In(cur, ParkedBlocks) = {}
    <3> SUFFICES ASSUME NEW k \in In(cur, ParkedBlocks) PROVE FALSE OBVIOUS
    <3>1. k \in 1 .. Len(bs) /\ RunsForParked(bs[k]) BY DEF In, ParkedBlocks
    <3>2. ~bs[k].parked BY <3>1, <1>1 DEF LeftParked
    <3>3. bs[k].kind = "landed" BY <3>1, <3>2 DEF RunsForParked
    <3>4. Orderly(cur) BY <1>1 DEF GoodFrame
    <3>5. ~(k < Len(bs)) BY <3>1, <3>3, <3>4 DEF Orderly, Special
    <3>6. k = Len(bs) BY <3>1, <3>5, <1>1
    <3>7. bs # <<>> /\ Last(bs) = bs[k] BY <3>1, <3>6, <1>1 DEF Last
    <3> QED BY <3>3, <3>7 DEF Calm, Special
  <2>3. ASSUME NEW p \in PlacesOf(frames, ParkedBlocks) PROVE p[1] # L
    <3>1. p[2] \in In(frames[p[1]], ParkedBlocks) BY DEF PlacesOf
    <3> QED BY <3>1, <2>2 DEF cur
  <2>4. PlacesOf(frames', ParkedBlocks) = {p \in PlacesOf(frames, ParkedBlocks) : p[1] # L} BY <1>6
  <2>5. PlacesOf(frames', ParkedBlocks) = PlacesOf(frames, ParkedBlocks) BY <2>3, <2>4
  <2> QED BY <2>1, <2>5 DEF ParkedFit
<1>13. currentInstance' \in Anyone /\ otherInstance' \in Anyone
  <2>1. cur.savedInstance \in Anyone /\ cur.savedOther \in Anyone BY <1>1 DEF FrameRecord
  <2> QED BY <2>1 DEF Inv, Scalars, LeaveFrame, ReturnInstance, ReturnOther
<1>14. Scalars' BY <1>5, <1>10, <1>13 DEF Inv, Scalars
<1> QED BY <1>3, <1>4, <1>5, <1>10, <1>11, <1>12, <1>14 DEF Inv

\* Code that is in no block has no armed block and no with-block.
LEMMA NoBlocks ==
    ASSUME cur.blocks = <<>>
    PROVE  ArmedIn(cur) = {} /\ Cardinality(Withs(cur.blocks)) = 0 /\ ~LeftParked(cur.blocks)
<1>1. DOMAIN cur.blocks = {} /\ Len(cur.blocks) = 0 OBVIOUS
<1>2. Withs(cur.blocks) = {} BY <1>1 DEF Withs
<1> QED BY <1>1, <1>2, FS_EmptySet DEF ArmedIn, LeftParked

\* Return keeps the invariant.
LEMMA ReturnStep == ASSUME Inv, Return PROVE Inv'
<1>1. Calm(cur) /\ frames # <<>> BY StatementCalm DEF Return
<1>2. ArmedIn(cur) = {} /\ Cardinality(Withs(cur.blocks)) = 0 /\ ~LeftParked(cur.blocks)
  BY NoBlocks DEF Return
<1>3. /\ LeaveFrame /\ envStack' = envStack /\ handlers' = handlers
      /\ parkedException' = parkedException /\ exception' = exception /\ halted' = halted
      /\ abandoned' = abandoned /\ muddled' = muddled
  BY DEF Return, exceptions
<1>4. abandoned \in Nat /\ muddled \in BOOLEAN /\ exception \in {NoException, Thrown} BY DEF Inv, Scalars
<1>5. abandoned' = abandoned + Cardinality(Withs(cur.blocks)) BY <1>2, <1>3, <1>4
<1>6. muddled' \in BOOLEAN /\ (~muddled' => ~muddled /\ ~LeftParked(cur.blocks)) BY <1>2, <1>3, <1>4
<1> QED BY <1>1, <1>2, <1>3, <1>4, <1>5, <1>6, LeaveStep

\* ThrowLast keeps the invariant.
LEMMA ThrowLastStep == ASSUME Inv, ThrowLast PROVE Inv'
<1>1. Calm(cur) /\ frames # <<>> BY StatementCalm DEF ThrowLast
<1>2. ArmedIn(cur) = {} /\ Cardinality(Withs(cur.blocks)) = 0 /\ ~LeftParked(cur.blocks)
  BY NoBlocks DEF ThrowLast
<1>3. /\ LeaveFrame /\ envStack' = envStack /\ handlers' = handlers
      /\ parkedException' = parkedException /\ exception' = Thrown /\ halted' = halted
      /\ abandoned' = abandoned /\ muddled' = muddled
  BY DEF ThrowLast
<1>4. abandoned \in Nat /\ muddled \in BOOLEAN BY DEF Inv, Scalars
<1>5. abandoned' = abandoned + Cardinality(Withs(cur.blocks)) BY <1>2, <1>3, <1>4
<1>6. muddled' \in BOOLEAN /\ (~muddled' => ~muddled /\ ~LeftParked(cur.blocks)) BY <1>2, <1>3, <1>4
<1> QED BY <1>1, <1>2, <1>3, <1>5, <1>6, LeaveStep

\* An exception leaves code in which no block is armed.
LEMMA UnhandledStep ==
    ASSUME Inv, Pending, ArmedIn(cur) = {}, LeaveFrame, Abandon(cur.blocks, FALSE),
           envStack' = envStack, handlers' = handlers, parkedException' = parkedException,
           halted' = halted, exception' \in {NoException, Thrown}
    PROVE  Inv'
<1>1. frames # <<>> /\ exception # NoException BY DEF Pending
<1>2. Calm(cur) BY <1>1, Running DEF Inv, PendingCalm
<1>3. abandoned' = abandoned + Cardinality(Withs(cur.blocks)) BY DEF Abandon, Withs
<1>4. muddled' = (muddled \/ LeftParked(cur.blocks) \/ FALSE) BY DEF Abandon
<1>5. muddled \in BOOLEAN BY DEF Inv, Scalars
<1>6. muddled' \in BOOLEAN BY <1>4, <1>5
<1>7. ~muddled' => ~muddled /\ ~LeftParked(cur.blocks) BY <1>4
<1> QED BY <1>1, <1>2, <1>3, <1>6, <1>7, LeaveStep

\* Swallow keeps the invariant.
LEMMA SwallowStep == ASSUME Inv, Swallow PROVE Inv'
<1>1. frames # <<>> /\ handlers = <<>> BY DEF Swallow, Pending
<1>2. frames \in Seq(FrameRecord) /\ cur = Last(frames) BY <1>1, Running
<1>3. handlers \in Seq(HandlerRecord) /\ HandlersFit(frames, handlers) BY DEF Inv, Scalars
<1>4. ArmedIn(cur) = {}
  <2> SUFFICES ASSUME NEW k \in ArmedIn(cur) PROVE FALSE OBVIOUS
  <2> QED BY <1>1, <1>2, <1>3, NothingAbove
<1>5. /\ Pending /\ LeaveFrame /\ Abandon(cur.blocks, FALSE) /\ envStack' = envStack
      /\ handlers' = handlers /\ parkedException' = parkedException /\ halted' = halted
      /\ exception' \in {NoException, Thrown}
  BY DEF Swallow
<1> QED BY <1>4, <1>5, UnhandledStep

\* Propagate keeps the invariant: a handler bound to another call depth is of other code.
LEMMA PropagateStep == ASSUME Inv, Propagate PROVE Inv'
<1>1. frames # <<>> /\ handlers # <<>> /\ Last(handlers).boundToCallDepth # callDepth
  BY DEF Propagate, Pending, BoundHere
<1>2. frames \in Seq(FrameRecord) /\ cur = Last(frames) BY <1>1, Running
<1>3. handlers \in Seq(HandlerRecord) /\ HandlersFit(frames, handlers) BY DEF Inv, Scalars
<1>4. Fits(frames, Last(handlers))
  <2>1. Last(handlers) = handlers[Len(handlers)] /\ Len(handlers) \in Nat /\ Len(handlers) >= 1
    BY <1>1, <1>3, FrontOf
  <2>2. Len(handlers) \in 1 .. Len(handlers) BY <2>1
  <2> QED BY <2>1, <2>2, <1>3 DEF HandlersFit
<1>5. ArmedIn(cur) = {}
  <2> SUFFICES ASSUME NEW k \in ArmedIn(cur) PROVE FALSE OBVIOUS
  <2>1. Last(handlers).frame = Len(frames) BY <1>1, <1>2, <1>3, NothingAbove
  <2>2. callDepth = DepthIn(frames, Len(frames)) BY DEF Inv, FramesFit
  <2> QED BY <2>1, <2>2, <1>1, <1>4 DEF Fits
<1>6. /\ Pending /\ LeaveFrame /\ Abandon(cur.blocks, FALSE) /\ envStack' = envStack
      /\ handlers' = handlers /\ parkedException' = parkedException /\ halted' = halted
      /\ exception' \in {NoException, Thrown}
  BY DEF Propagate, exceptions, Inv, Scalars
<1> QED BY <1>5, <1>6, UnhandledStep

-------------------------------------------------------------------------------
(* The other steps, and all of them                                         *)

\* Throw keeps the invariant: what throws is at a statement.
LEMMA ThrowStep == ASSUME Inv, Throw PROVE Inv'
<1>1. Calm(cur) /\ frames # <<>> BY StatementCalm DEF Throw
<1>2. /\ frames' = frames /\ registers' = registers /\ envStack' = envStack /\ callDepth' = callDepth
      /\ handlers' = handlers /\ stack' = stack /\ parkedException' = parkedException
      /\ abandoned' = abandoned /\ muddled' = muddled /\ halted' = halted /\ exception' = Thrown
  BY DEF Throw
<1>3. halted' \in {"no", "aborted", "astray", "double free"} BY <1>2 DEF Inv, Scalars
<1>4. cur = Last(frames) BY <1>1, Running
<1>5. PendingCalm' BY <1>1, <1>2, <1>4 DEF PendingCalm
<1> QED BY <1>2, <1>3, <1>5, Unmoved

\* JumpAstray keeps the invariant, in which the program is not followed further.
LEMMA JumpAstrayStep == ASSUME Inv, JumpAstray PROVE Inv'
<1>1. /\ frames' = frames /\ registers' = registers /\ envStack' = envStack /\ callDepth' = callDepth
      /\ handlers' = handlers /\ stack' = stack /\ parkedException' = parkedException
      /\ abandoned' = abandoned /\ muddled' = muddled /\ halted' = "astray" /\ exception' = NoException
  BY DEF JumpAstray
<1>2. PendingCalm' BY <1>1 DEF PendingCalm
<1> QED BY <1>1, <1>2, Unmoved

\* Nothing is open when no code runs.
LEMMA NoPlaces ==
    ASSUME NEW B
    PROVE  PlacesOf(<<>>, B) = {} /\ IsFiniteSet(PlacesOf(<<>>, B)) /\ Cardinality(PlacesOf(<<>>, B)) = 0
<1>1. Len(<<>>) = 0 OBVIOUS
<1>2. PlacesOf(<<>>, B) = {} BY <1>1 DEF PlacesOf
<1> QED BY <1>2, FS_EmptySet

\* No code, no handler, no environment frame.
LEMMA NothingRuns ==
    /\ FramesFit(<<>>, 0) /\ HandlersFit(<<>>, <<>>) /\ OperandsFit(<<>>, <<>>)
    /\ EnvsFit(<<>>, <<>>, 0) /\ ContextFits(<<>>, <<>>, NoInstance, NoInstance)
    /\ ParkedFit(<<>>, NoException)
<1>1. Len(<<>>) = 0 /\ <<>> \in Seq(GoodFrame) BY EmptyOf
<1>2. DepthIn(<<>>, 0) = 0 BY DepthNext
<1>3. FramesFit(<<>>, 0) BY <1>1, <1>2 DEF FramesFit
<1>4. HandlersFit(<<>>, <<>>) BY <1>1 DEF HandlersFit
<1>5. OperandsFit(<<>>, <<>>) BY <1>1 DEF OperandsFit
<1>6. EnvsFit(<<>>, <<>>, 0) BY <1>1, NoPlaces DEF EnvsFit
<1>7. ContextFits(<<>>, <<>>, NoInstance, NoInstance)
  BY <1>1 DEF ContextFits, Called, SavedAll, SavedBelow, SelfAfter, OtherAfter
<1>8. ParkedFit(<<>>, NoException) BY NoPlaces DEF ParkedFit
<1> QED BY <1>3, <1>4, <1>5, <1>6, <1>7, <1>8

\* Reset keeps the invariant: no code runs, and nothing is left of what exceptions have
\* left open.
LEMMA ResetStep == ASSUME Inv, Reset PROVE Inv'
<1>1. /\ frames = <<>> /\ frames' = frames /\ callDepth' = 0 /\ envStack' = <<>> /\ stack' = <<>>
      /\ currentInstance' = NoInstance /\ otherInstance' = NoInstance /\ abandoned' = 0
      /\ handlers' = handlers /\ exception' = exception /\ parkedException' = parkedException
      /\ muddled' = muddled
      /\ halted' \in {"no", "aborted", "astray", "double free"}
  BY DEF Reset, exceptions
<1>2. <<>> \in Seq(EnvRecord) /\ <<>> \in Seq(Nat) BY EmptyOf
<1>3. Scalars' BY <1>1, <1>2 DEF Inv, Scalars, Anyone
<1>4. FramesFit(frames', callDepth') /\ OperandsFit(frames', stack') /\ EnvsFit(frames', envStack', abandoned')
  BY <1>1, NothingRuns
<1>5. HandlersFit(frames', handlers') BY <1>1 DEF Inv
<1>6. ContextInv' BY <1>1, NothingRuns DEF ContextInv
<1>7. ParkedInv' BY <1>1 DEF Inv, ParkedInv
<1>8. PendingCalm' BY <1>1 DEF PendingCalm
<1> QED BY <1>3, <1>4, <1>5, <1>6, <1>7, <1>8 DEF Inv

\* with (self): the block is entered with the running code's own self.
LEMMA PushEnvSelfStep == ASSUME Inv, PushEnvSelf PROVE Inv'
<1>1. currentInstance \in Anyone /\ <<>> \in Seq(Instances) BY EmptyOf DEF Inv, Scalars
<1> QED BY <1>1, PushEnvStep DEF PushEnvSelf

\* with (other): with what the innermost environment frame has saved, with other, or with
\* self.
LEMMA PushEnvOtherStep == ASSUME Inv, PushEnvOther PROVE Inv'
<1> DEFINE target == IF envStack # <<>> THEN Last(envStack).savedInstance
                     ELSE IF otherInstance # NoInstance THEN otherInstance
                     ELSE currentInstance
<1>1. currentInstance \in Anyone /\ otherInstance \in Anyone /\ envStack \in Seq(EnvRecord)
      /\ <<>> \in Seq(Instances)
  BY EmptyOf DEF Inv, Scalars
<1>2. envStack # <<>> => Last(envStack) \in EnvRecord BY <1>1, FrontOf
<1>3. target \in Anyone BY <1>1, <1>2 DEF EnvRecord
<1>4. PushEnv("with", target, <<>>) BY DEF PushEnvOther
<1> HIDE DEF target
<1> QED BY <1>1, <1>3, <1>4, PushEnvStep

\* with (object): with the first instance of a list that has one.
LEMMA PushEnvListStep == ASSUME Inv, NEW list \in WithLists, PushEnvList(list) PROVE Inv'
<1>1. list \in Seq(Instances) /\ list # <<>> BY VMCallsAssumption
<1>2. Head(list) \in Instances /\ Tail(list) \in Seq(Instances) BY <1>1
<1>3. Head(list) \in Anyone BY <1>2 DEF Anyone
<1> QED BY <1>2, <1>3, PushEnvStep DEF PushEnvList

\* with (noone): the block is skipped.
LEMMA PushEnvNobodyStep == ASSUME Inv, PushEnvNobody PROVE Inv'
<1>1. currentInstance \in Anyone /\ <<>> \in Seq(Instances) BY EmptyOf DEF Inv, Scalars
<1> QED BY <1>1, PushEnvStep DEF PushEnvNobody

\* The program begins with nothing that runs.
LEMMA InitInv == ASSUME Init PROVE Inv
<1>1. <<>> \in Seq(EnvRecord) /\ <<>> \in Seq(Nat) /\ <<>> \in Seq(HandlerRecord) BY EmptyOf
<1>2. Scalars BY <1>1 DEF Init, Scalars, Anyone
<1>3. /\ FramesFit(frames, callDepth) /\ HandlersFit(frames, handlers) /\ OperandsFit(frames, stack)
      /\ EnvsFit(frames, envStack, abandoned) /\ ContextInv /\ ParkedInv
  BY NothingRuns DEF Init, ContextInv, ParkedInv
<1>4. PendingCalm BY DEF Init, PendingCalm
<1> QED BY <1>2, <1>3, <1>4 DEF Inv

\* Every step keeps the invariant, whatever code does and whenever it throws.
LEMMA NextStep == ASSUME Inv, [Next]_vars PROVE Inv'
<1>1. CASE UNCHANGED vars
  <2>1. /\ frames' = frames /\ registers' = registers /\ envStack' = envStack /\ callDepth' = callDepth
        /\ handlers' = handlers /\ stack' = stack /\ exception' = exception
        /\ parkedException' = parkedException /\ abandoned' = abandoned /\ muddled' = muddled
        /\ halted' = halted
    BY <1>1 DEF vars, exceptions
  <2>2. exception' \in {NoException, Thrown} /\ halted' \in {"no", "aborted", "astray", "double free"}
    BY <2>1 DEF Inv, Scalars
  <2>3. PendingCalm' BY <2>1 DEF Inv, PendingCalm
  <2> QED BY <2>1, <2>2, <2>3, Unmoved
<1>2. CASE Loop
  <2>1. CASE \E i \in Selves : ExecuteCode(i) BY <2>1, ExecuteCodeStep
  <2>2. CASE \E i \in Others : CallMethod(i) BY <2>2, CallMethodStep
  <2>3. CASE \E i \in Selves, j \in Others : ExecuteCollisionEvent(i, j)
    BY <2>3, ExecuteCollisionEventStep
  <2>4. CASE Reset BY <2>4, ResetStep
  <2> QED BY <1>2, <2>1, <2>2, <2>3, <2>4 DEF Loop
<1>3. CASE Code
  <2>1. CASE Push BY <2>1, PushStep
  <2>2. CASE Pop BY <2>2, PopStep
  <2>3. CASE \E i \in Selves : ExecuteCode(i) BY <2>3, ExecuteCodeStep
  <2>4. CASE \E i \in Others : CallMethod(i) BY <2>4, CallMethodStep
  <2>5. CASE CallScript BY <2>5, CallScriptStep
  <2>6. CASE Return BY <2>6, ReturnStep
  <2>7. CASE PushEnvSelf BY <2>7, PushEnvSelfStep
  <2>8. CASE PushEnvOther BY <2>8, PushEnvOtherStep
  <2>9. CASE PushEnvNobody BY <2>9, PushEnvNobodyStep
  <2>10. CASE \E list \in WithLists : PushEnvList(list) BY <2>10, PushEnvListStep
  <2>11. CASE envStack # <<>> /\ \E k \in DOMAIN Last(envStack).instanceList : PopEnvNext(k)
    BY <2>11, PopEnvNextStep
  <2>12. CASE PopEnvLeave BY <2>12, PopEnvLeaveStep
  <2>13. CASE \E hasCatch \in BOOLEAN : TryHook(hasCatch) BY <2>13, TryHookStep
  <2>14. CASE TryDone BY <2>14, TryDoneStep
  <2>15. CASE CatchBegin BY <2>15, CatchBeginStep
  <2>16. CASE CatchDone BY <2>16, CatchDoneStep
  <2>17. CASE FinallyBegin BY <2>17, FinallyBeginStep
  <2>18. CASE FinishFinally BY <2>18, FinishFinallyStep
  <2>19. CASE Throw BY <2>19, ThrowStep
  <2>20. CASE ThrowLast BY <2>20, ThrowLastStep
  <2> QED
    BY <1>3, <2>1, <2>2, <2>3, <2>4, <2>5, <2>6, <2>7, <2>8, <2>9, <2>10, <2>11, <2>12, <2>13,
       <2>14, <2>15, <2>16, <2>17, <2>18, <2>19, <2>20
    DEF Code
<1>4. CASE Dispatch
  <2>1. CASE Swallow BY <2>1, SwallowStep
  <2>2. CASE Propagate BY <2>2, PropagateStep
  <2>3. CASE JumpToHandler BY <2>3, JumpToHandlerStep
  <2>4. CASE JumpAstray BY <2>4, JumpAstrayStep
  <2> QED BY <1>4, <2>1, <2>2, <2>3, <2>4 DEF Dispatch
<1> QED BY <1>1, <1>2, <1>3, <1>4 DEF Next

\* The invariant holds of the program.
THEOREM InvHolds == Spec => []Inv
<1>1. Init => Inv BY InitInv
<1>2. Inv /\ [Next]_vars => Inv' BY NextStep
<1> QED BY <1>1, <1>2, PTL DEF Spec

-------------------------------------------------------------------------------
(* What the invariant says                                                  *)

\* The frames of the invariant are frames.
LEMMA FramesAre ==
    ASSUME Inv
    PROVE  /\ frames \in Seq(FrameRecord) /\ Len(frames) \in Nat /\ DOMAIN frames = 1 .. Len(frames)
           /\ frames # <<>> => cur = Last(frames)
<1>1. frames \in Seq(FrameRecord) BY GoodFrames DEF Inv, FramesFit
<1>2. frames # <<>> => cur = Last(frames) BY <1>1 DEF cur, Last
<1> QED BY <1>1, <1>2

\* Every variable has its type: callDepth counts the scripts and methods that run, and each
\* value on the stack belongs to code that runs (VM_callCodeIndex, CallV and their returns).
THEOREM TypeCorrect == Spec => []TypeOK
<1>1. ASSUME Inv PROVE TypeOK
  <2>1. frames \in Seq(FrameRecord) /\ DOMAIN frames = 1 .. Len(frames) /\ Len(frames) \in Nat
    BY <1>1, FramesAre
  <2>2. callDepth = Cardinality({i \in DOMAIN frames : IsCall(frames[i])})
    <3>1. callDepth = DepthIn(frames, Len(frames)) BY <1>1 DEF Inv, FramesFit
    <3> QED BY <2>1, <3>1 DEF DepthIn
  <2>3. stack \in Seq(DOMAIN frames)
    <3>1. CASE frames = <<>>
      <4>1. stack = <<>> BY <1>1, <3>1 DEF Inv, OperandsFit
      <4> QED BY <4>1, EmptyOf
    <3>2. CASE frames # <<>>
      <4>1. /\ Len(frames) \in Nat /\ Len(frames) >= 1 /\ UnderOf(cur) \in Seq(1 .. Len(frames) - 1)
            /\ Over(stack, UnderOf(cur), Held(cur), Len(frames)) /\ cur.operands \in Nat
            /\ stack \in Seq(Nat)
        BY <1>1, <3>2, Running
      <4>2. Held(cur) \in Nat BY <4>1 DEF Held
      <4>3. stack \in Seq(1 .. Len(frames)) BY <4>1, <4>2, OverType
      <4> QED BY <4>3, <2>1
    <3> QED BY <3>1, <3>2
  <2> QED BY <1>1, <2>1, <2>2, <2>3 DEF TypeOK, Inv, Scalars
<1> QED BY <1>1, InvHolds, PTL

\* The handlers are those of the try blocks that code is in, outermost first, each bound to
\* the call depth of its frame: no return, propagation or swallowed exception leaves a
\* handler behind or takes one too many (@@try_hook@@, @@try_unhook@@, executeLoop).
THEOREM HandlersAreThoseOfTries == Spec => []HandlersMatchTries
<1>1. ASSUME Inv PROVE HandlersMatchTries
  <2> DEFINE tries == UNION {TriesOf(i) : i \in DOMAIN frames}
             places == {[frame |-> handlers[n].frame, block |-> handlers[n].block] : n \in DOMAIN handlers}
  <2>1. frames \in Seq(FrameRecord) /\ DOMAIN frames = 1 .. Len(frames) /\ Len(frames) \in Nat
    BY <1>1, FramesAre
  <2>2. /\ \A n \in 1 .. Len(handlers) : Fits(frames, handlers[n])
        /\ \A i \in 1 .. Len(frames) : Covered(frames, handlers, i)
        /\ \A m, n \in 1 .. Len(handlers) : m < n => Before(handlers[m], handlers[n])
        /\ handlers \in Seq(HandlerRecord)
    BY <1>1 DEF Inv, Scalars, HandlersFit
  <2>3. DOMAIN handlers = 1 .. Len(handlers) /\ Len(handlers) \in Nat BY <2>2
  <2>4. ASSUME NEW i \in DOMAIN frames
        PROVE  DOMAIN frames[i].blocks = 1 .. Len(frames[i].blocks)
    <3>1. frames[i] \in FrameRecord BY <2>1
    <3>2. frames[i].blocks \in Seq(BlockRecord) BY <3>1 DEF FrameRecord
    <3> QED BY <3>2
  <2>5. ASSUME NEW p \in places PROVE p \in tries
    <3>1. PICK n \in DOMAIN handlers : p = [frame |-> handlers[n].frame, block |-> handlers[n].block]
      OBVIOUS
    <3> DEFINE i == handlers[n].frame
               k == handlers[n].block
    <3>2. i \in DOMAIN frames /\ k \in 1 .. Len(frames[i].blocks) /\ Armed(frames[i].blocks[k])
      BY <2>1, <2>2, <2>3 DEF Fits
    <3>3. p = [frame |-> i, block |-> k] BY <3>1
    <3> HIDE DEF i, k
    <3>4. k \in DOMAIN frames[i].blocks BY <3>2, <2>4
    <3>5. p \in TriesOf(i) BY <3>2, <3>3, <3>4 DEF TriesOf
    <3> QED BY <3>2, <3>5
  <2>6. ASSUME NEW p \in tries PROVE p \in places
    <3>1. PICK i \in DOMAIN frames : p \in TriesOf(i) OBVIOUS
    <3>2. PICK k \in DOMAIN frames[i].blocks :
            Armed(frames[i].blocks[k]) /\ p = [frame |-> i, block |-> k]
      BY <3>1 DEF TriesOf
    <3>3. PICK n \in 1 .. Len(handlers) : handlers[n].frame = i /\ handlers[n].block = k
      BY <2>1, <2>2, <2>4, <3>2 DEF Covered
    <3> QED BY <2>3, <3>2, <3>3
  <2>7. \A n \in DOMAIN handlers : handlers[n].boundToCallDepth = DepthOf(handlers[n].frame)
    BY <2>2, <2>3 DEF Fits, DepthIn, DepthOf
  <2>8. \A m, n \in DOMAIN handlers : m < n =>
          \/ handlers[m].frame < handlers[n].frame
          \/ handlers[m].frame = handlers[n].frame /\ handlers[m].block < handlers[n].block
    BY <2>2, <2>3 DEF Before
  <2>9. places = tries BY <2>5, <2>6
  <2> QED BY <2>7, <2>8, <2>9 DEF HandlersMatchTries
<1> QED BY <1>1, InvHolds, PTL

\* A stack that is another one and m values above it is their concatenation.
LEMMA OverIs ==
    ASSUME NEW st \in Seq(Nat), NEW u \in Seq(Nat), NEW m \in Nat, NEW i \in Nat, Over(st, u, m, i)
    PROVE  st = u \o [n \in 1 .. m |-> i]
<1> DEFINE v == [n \in 1 .. m |-> i]
           w == u \o v
<1>1. Len(st) = Len(u) + m /\ Len(u) \in Nat BY DEF Over
<1>2. v \in Seq(Nat) /\ Len(v) = m OBVIOUS
<1>3. w \in Seq(Nat) /\ Len(w) = Len(u) + m BY <1>1, <1>2
<1>4. ASSUME NEW j \in 1 .. Len(st) PROVE st[j] = w[j]
  <2>1. CASE j <= Len(u)
    <3>1. w[j] = u[j] BY <2>1, <1>1, <1>2
    <3>2. j \in 1 .. Len(u) BY <2>1, <1>1
    <3> QED BY <3>1, <3>2 DEF Over
  <2>2. CASE j > Len(u)
    <3>1. j \in Len(u) + 1 .. Len(u) + m BY <2>2, <1>1
    <3>2. st[j] = i BY <3>1 DEF Over
    <3>3. w[j] = v[j - Len(u)] BY <2>2, <1>1, <1>2
    <3>4. j - Len(u) \in 1 .. m BY <3>1, <1>1
    <3> QED BY <3>2, <3>3, <3>4
  <2> QED BY <2>1, <2>2, <1>1
<1> HIDE DEF w
<1>5. st = w BY <1>1, <1>3, <1>4
<1> QED BY <1>5 DEF w

\* When code goes on, the operands it had pushed are on the stack, above those of its
\* callers and nothing else: after an event, which has the stack for itself, after a script
\* that left operands, and where an exception is caught.
THEOREM OperandsAreKept == Spec => []OperandsKept
<1>1. ASSUME Inv PROVE OperandsKept
  <2>1. frames \in Seq(FrameRecord) /\ DOMAIN frames = 1 .. Len(frames) /\ Len(frames) \in Nat
        /\ (frames # <<>> => cur = Last(frames))
    BY <1>1, FramesAre
  <2>2. /\ frames = <<>> => stack = <<>>
        /\ \A i \in 1 .. Len(frames) : frames[i].savedStack \in Seq(1 .. i - 1)
        /\ \A i \in 1 .. Len(frames) - 1 :
             Over(frames[i + 1].savedStack, UnderOf(frames[i]), Held(frames[i]), i)
        /\ frames # <<>> => Over(stack, UnderOf(Last(frames)), Held(Last(frames)), Len(frames))
        /\ stack \in Seq(Nat)
    BY <1>1 DEF Inv, Scalars, OperandsFit
  <2>3. ASSUME NEW i \in DOMAIN frames
        PROVE  LeftBy(i) = Under(i) \o [n \in 1 .. Held(frames[i]) |-> i]
    <3>1. i \in Nat /\ i >= 1 /\ i <= Len(frames) /\ frames # <<>> BY <2>1
    <3>2. frames[i] \in FrameRecord BY <2>1
    <3>3. Held(frames[i]) \in Nat /\ frames[i].savedStack \in Seq(Nat)
      BY <3>2 DEF Held, FrameRecord
    <3>4. UnderOf(frames[i]) \in Seq(Nat)
      <4>1. <<>> \in Seq(Nat) BY EmptyOf
      <4> QED BY <4>1, <3>3 DEF UnderOf
    <3>5. LeftBy(i) \in Seq(Nat) /\ Over(LeftBy(i), UnderOf(frames[i]), Held(frames[i]), i)
      <4>1. CASE i = Len(frames)
        <5>1. LeftBy(i) = stack BY <4>1 DEF LeftBy
        <5>2. frames[i] = Last(frames) BY <4>1, <2>1, <3>1 DEF cur
        <5> QED BY <5>1, <5>2, <4>1, <2>2, <3>1
      <4>2. CASE i # Len(frames)
        <5>1. i \in 1 .. Len(frames) - 1 /\ i + 1 \in 1 .. Len(frames) BY <4>2, <2>1, <3>1
        <5>2. LeftBy(i) = frames[i + 1].savedStack BY <4>2 DEF LeftBy
        <5>3. frames[i + 1] \in FrameRecord BY <5>1, <2>1
        <5>4. frames[i + 1].savedStack \in Seq(Nat) BY <5>3 DEF FrameRecord
        <5> QED BY <5>1, <5>2, <5>4, <2>2
      <4> QED BY <4>1, <4>2
    <3>6. Under(i) = UnderOf(frames[i])
      <4>1. CASE i = 1
        <5>1. frames[i].savedStack \in Seq(1 .. 0) BY <4>1, <2>1, <2>2, <3>1
        <5>2. frames[i].savedStack = <<>> BY <5>1
        <5> QED BY <5>2, <4>1 DEF Under, UnderOf
      <4>2. CASE i # 1
        <5>1. i > 1 /\ i - 1 # Len(frames) /\ i - 1 + 1 = i BY <4>2, <3>1
        <5>2. LeftBy(i - 1) = frames[i].savedStack BY <5>1 DEF LeftBy
        <5> QED BY <5>1, <5>2 DEF Under, UnderOf
      <4> QED BY <4>1, <4>2
    <3> DEFINE m == Held(frames[i])
               u == UnderOf(frames[i])
               st == LeftBy(i)
    <3>7. m \in Nat /\ u \in Seq(Nat) /\ st \in Seq(Nat) /\ Over(st, u, m, i) BY <3>3, <3>4, <3>5
    <3> HIDE DEF m, u, st
    <3>8. st = u \o [n \in 1 .. m |-> i] BY <3>1, <3>7, OverIs
    <3> QED BY <3>6, <3>8 DEF m, u, st
  <2> QED BY <2>2, <2>3 DEF OperandsKept
<1> QED BY <1>1, InvHolds, PTL

\* The with-blocks that are open are those of the invariant.
LEMMA OpenIs ==
    ASSUME Inv
    PROVE  /\ Open = PlacesOf(frames, WithBlocks)
           /\ \A i \in DOMAIN frames : \A k \in DOMAIN frames[i].blocks :
                IsWith(frames[i].blocks[k]) => k \in In(frames[i], WithBlocks)
<1>1. frames \in Seq(FrameRecord) /\ DOMAIN frames = 1 .. Len(frames) /\ Len(frames) \in Nat
  BY FramesAre
<1>2. ASSUME NEW i \in DOMAIN frames
      PROVE  /\ DOMAIN frames[i].blocks = 1 .. Len(frames[i].blocks)
             /\ \A k \in DOMAIN frames[i].blocks :
                  k \in Nat /\ (IsWith(frames[i].blocks[k]) <=> k \in In(frames[i], WithBlocks))
  <2>1. frames[i] \in FrameRecord BY <1>1
  <2>2. frames[i].blocks \in Seq(BlockRecord) BY <2>1 DEF FrameRecord
  <2>3. \A k \in DOMAIN frames[i].blocks : frames[i].blocks[k] \in BlockRecord BY <2>2
  <2> QED BY <2>2, <2>3 DEF In, WithBlocks
<1>3. ASSUME NEW p \in Open PROVE p \in PlacesOf(frames, WithBlocks)
  <2>1. PICK i \in DOMAIN frames : p \in OpenIn(i) BY DEF Open
  <2>2. PICK k \in DOMAIN frames[i].blocks : IsWith(frames[i].blocks[k]) /\ p = <<i, k>>
    BY <2>1 DEF OpenIn
  <2>3. k \in In(frames[i], WithBlocks) BY <2>2, <1>2
  <2> QED BY <2>2, <2>3, <1>1, PlaceIs
<1>4. ASSUME NEW p \in PlacesOf(frames, WithBlocks) PROVE p \in Open
  <2>1. p \in Nat \X Nat /\ p[1] \in DOMAIN frames /\ p[2] \in In(frames[p[1]], WithBlocks)
    BY <1>1 DEF PlacesOf
  <2>2. p = <<p[1], p[2]>> BY <2>1
  <2>3. p[2] \in DOMAIN frames[p[1]].blocks BY <2>1, <1>2 DEF In
  <2>4. IsWith(frames[p[1]].blocks[p[2]]) BY <2>1, <2>3, <1>2
  <2>5. p \in OpenIn(p[1]) BY <2>2, <2>3, <2>4 DEF OpenIn
  <2> QED BY <2>1, <2>5 DEF Open
<1>5. Open = PlacesOf(frames, WithBlocks) BY <1>3, <1>4
<1> QED BY <1>2, <1>5

\* Unless an exception has left a with-block, self and other are those of the block that
\* code is in, and each with-block that is open has one environment frame, in their order,
\* with the self and other to go back to (PushEnv, PopEnv, restoreEnvContext, and the saved
\* instances of executeCode and CallV).
THEOREM ContextIsTheCodes == Spec => []ContextFollowsCode
<1>1. ASSUME Inv PROVE ContextFollowsCode
  <2> SUFFICES ASSUME abandoned = 0
               PROVE  /\ Len(envStack) = Cardinality(Open)
                      /\ \A i \in DOMAIN frames : \A k \in DOMAIN frames[i].blocks :
                            IsWith(frames[i].blocks[k]) =>
                              /\ envStack[EnvOf(i, k)].savedInstance = SelfIn(frames[i], k - 1)
                              /\ envStack[EnvOf(i, k)].savedOtherInstance = OtherIn(frames[i], k - 1)
                      /\ registers = IF frames = <<>> THEN <<NoInstance, NoInstance>>
                                     ELSE <<Self(cur), Other(cur)>>
    BY DEF ContextFollowsCode
  <2>1. frames \in Seq(FrameRecord) /\ DOMAIN frames = 1 .. Len(frames) /\ Len(frames) \in Nat
        /\ (frames # <<>> => cur = Last(frames))
    BY <1>1, FramesAre
  <2>2. Open = PlacesOf(frames, WithBlocks) BY <1>1, OpenIs
  <2>3. ContextFits(frames, envStack, currentInstance, otherInstance) BY <1>1 DEF Inv, ContextInv
  <2>4. Len(envStack) = Cardinality(Open)
    <3>1. EnvsFit(frames, envStack, abandoned) BY <1>1 DEF Inv
    <3>2. IsFiniteSet(Open) /\ Len(envStack) = Cardinality(Open) + 0 BY <3>1, <2>2 DEF EnvsFit
    <3>3. Cardinality(Open) \in Nat BY <3>2, FS_CardinalityType
    <3> QED BY <3>2, <3>3
  <2>5. ASSUME NEW i \in DOMAIN frames, NEW k \in DOMAIN frames[i].blocks, IsWith(frames[i].blocks[k])
        PROVE  /\ envStack[EnvOf(i, k)].savedInstance = SelfIn(frames[i], k - 1)
               /\ envStack[EnvOf(i, k)].savedOtherInstance = OtherIn(frames[i], k - 1)
    <3>1. k \in In(frames[i], WithBlocks) BY <1>1, <2>5, OpenIs
    <3>2. SavedFor(envStack[Rank(PlacesOf(frames, WithBlocks), i, k)], frames[i], k)
      BY <2>1, <2>3, <3>1 DEF ContextFits, SavedAll, SavedBelow, SavedIn
    <3>3. EnvOf(i, k) = Rank(PlacesOf(frames, WithBlocks), i, k) BY <2>2 DEF EnvOf, Rank
    <3> QED BY <3>2, <3>3 DEF SavedFor
  <2>6. registers = IF frames = <<>> THEN <<NoInstance, NoInstance>> ELSE <<Self(cur), Other(cur)>>
    BY <2>1, <2>3 DEF ContextFits, SelfAfter, OtherAfter, registers
  <2> QED BY <2>4, <2>5, <2>6
<1> QED BY <1>1, InvHolds, PTL

\* As long as no finally that is inside another ends while that one's exception is parked,
\* and no exception leaves a finally that runs for another or is parked over another, one is
\* parked exactly while the finally of its own try runs (the unhandled path of executeLoop,
\* @@finish_finally@@).
THEOREM ParkedOnlyForItsFinally == Spec => []ParkedForItsFinally
<1>1. ASSUME Inv PROVE ParkedForItsFinally
  <2> SUFFICES ASSUME ~muddled
               PROVE  parkedException # NoException
                        <=> \E i \in DOMAIN frames : \E k \in DOMAIN frames[i].blocks :
                                RunsForParked(frames[i].blocks[k])
    BY DEF ParkedForItsFinally
  <2>1. frames \in Seq(FrameRecord) /\ DOMAIN frames = 1 .. Len(frames) /\ Len(frames) \in Nat
    BY <1>1, FramesAre
  <2>2. parkedException # NoException <=> PlacesOf(frames, ParkedBlocks) # {}
    BY <1>1 DEF Inv, ParkedInv, ParkedFit
  <2>3. ASSUME NEW i \in DOMAIN frames
        PROVE  /\ DOMAIN frames[i].blocks = 1 .. Len(frames[i].blocks)
               /\ \A k \in DOMAIN frames[i].blocks :
                    k \in Nat /\ (RunsForParked(frames[i].blocks[k]) <=> k \in In(frames[i], ParkedBlocks))
    <3>1. frames[i] \in FrameRecord BY <2>1
    <3>2. frames[i].blocks \in Seq(BlockRecord) BY <3>1 DEF FrameRecord
    <3>3. \A k \in DOMAIN frames[i].blocks : frames[i].blocks[k] \in BlockRecord BY <3>2
    <3> QED BY <3>2, <3>3 DEF In, ParkedBlocks
  <2>4. ASSUME NEW i \in DOMAIN frames, NEW k \in DOMAIN frames[i].blocks, RunsForParked(frames[i].blocks[k])
        PROVE  PlacesOf(frames, ParkedBlocks) # {}
    <3>1. k \in In(frames[i], ParkedBlocks) BY <2>3, <2>4
    <3>2. <<i, k>> \in PlacesOf(frames, ParkedBlocks) BY <2>1, <3>1, PlaceIs
    <3> QED BY <3>2
  <2>5. ASSUME NEW p \in PlacesOf(frames, ParkedBlocks)
        PROVE  \E i \in DOMAIN frames : \E k \in DOMAIN frames[i].blocks : RunsForParked(frames[i].blocks[k])
    <3>1. p[1] \in DOMAIN frames /\ p[2] \in In(frames[p[1]], ParkedBlocks) BY <2>1 DEF PlacesOf
    <3>2. p[2] \in DOMAIN frames[p[1]].blocks BY <2>3, <3>1 DEF In
    <3> QED BY <2>3, <3>1, <3>2
  <2> QED BY <2>2, <2>4, <2>5
<1> QED BY <1>1, InvHolds, PTL

===============================================================================
