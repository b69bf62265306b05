----------------------------- MODULE LoopProofs -----------------------------
(***************************************************************************)
(* The loops of blockmap.rs compute what BlockMap says, on every map of    *)
(* every size: a walk returns the chain in order, free_chain and allocate  *)
(* do all or nothing, and pack is the inverse of unpack.                   *)
(***************************************************************************)
EXTENDS BlockMapLoops, StructureProofs, SequenceTheorems

-----------------------------------------------------------------------------
(***************************************************************************)
(* What holds within each loop.                                            *)
(***************************************************************************)
\* The i-th block out is one of the chain, with all but i - 1 still to come.
Met ==
  \A i \in 1 .. Len(out) :
    /\ out[i] \in Visited(before, arg)
    /\ ChainLen(before, out[i]) = ChainLen(before, arg) - i + 1

AtWalk ==
  /\ op \in {"chain", "free_chain"} /\ map = before
  /\ arg \in Entry /\ cur \in Entry /\ Len(out) <= NBlocks
  /\ InRange(cur) => InRange(arg) /\ cur \in Visited(before, arg)
  /\ ChainOk(before, arg) =>
       /\ cur \in Visited(before, arg) /\ Met
       /\ ChainLen(before, cur) = ChainLen(before, arg) - Len(out)

\* The map a loop over s has reached: the blocks before the k-th are as in m, the
\* others as in the old map.
Through(s, k, m, old) ==
  [b \in Blocks |-> IF \E i \in 1 .. k - 1 : s[i] = b THEN m[b] ELSE old[b]]

AtFree ==
  /\ op = "free_chain" /\ arg \in Entry /\ cur \in 1 .. Len(out) + 1
  /\ ChainOk(before, arg) /\ Len(out) = ChainLen(before, arg) /\ Met
  /\ map = Through(out, cur, NewEmpty, before)

\* s lists the blocks of a set, from the lowest up.
Lists(s, S) ==
  /\ S \subseteq Blocks /\ Len(s) = Cardinality(S)
  /\ \A i \in 1 .. Len(s) : s[i] \in S /\ PlaceOf(S, s[i]) = i

FreeBelow(b) == {c \in FreeBlocks(before) : c < b}

AtScan ==
  /\ op = "allocate" /\ map = before
  /\ arg \in Nat /\ FreeCount(before) >= arg
  /\ cur \in Blocks /\ Len(out) < arg /\ Lists(out, FreeBelow(cur))

AtLink ==
  /\ op = "allocate" /\ arg \in Nat \ {0} /\ FreeCount(before) >= arg
  /\ cur \in 1 .. Len(out) + 1
  /\ Lists(out, Allotted(before, arg)) /\ Len(out) = arg
  /\ map = Through(out, cur, Allocate(before, arg), before)

AllocatedAre ==
  Done("allocate") /\ res = "Ok" /\ arg > 0 =>
    /\ arg \in Nat /\ FreeCount(before) >= arg
    /\ Lists(out, Allotted(before, arg)) /\ Len(out) = arg

Inv ==
  /\ TypeOK
  /\ pc = "call" => map = before /\ out = <<>>
  /\ pc = "walk" => AtWalk
  /\ pc = "free" => AtFree
  /\ pc = "scan" => AtScan
  /\ pc = "link" => AtLink
  /\ pc = "pack" => op = "pack" /\ cur \in 0 .. NBlocks
  /\ op = "pack" => pc \in {"pack", "done"}
  /\ WalkIsChain /\ FreeIsAllOrNothing /\ AllocateIsFirstFit /\ AllocatedAre
-----------------------------------------------------------------------------
(***************************************************************************)
(* Lists of blocks.                                                        *)
(***************************************************************************)
\* The number of free blocks is a number, and none above the number of blocks.
LEMMA FreeCountType ==
  ASSUME NEW m
  PROVE  /\ FreeBlocks(m) \in SUBSET Blocks /\ IsFiniteSet(FreeBlocks(m))
         /\ FreeCount(m) \in Nat /\ FreeCount(m) <= NBlocks
<1>1. FreeBlocks(m) \in SUBSET Blocks
  BY DEF FreeBlocks
<1> QED BY <1>1, BlocksFinite, FS_Subset, FS_CardinalityType DEF FreeCount

\* The number of blocks a walk visits is bounded by the number there are.
LEMMA ChainLenBound ==
  ASSUME NEW m, NEW start \in Blocks
  PROVE  ChainLen(m, start) \in 1 .. NBlocks
<1>1. Visited(m, start) \in SUBSET Blocks
  BY VisitedClosed
<1>2. Cardinality(Visited(m, start)) <= NBlocks
  BY <1>1, BlocksFinite, FS_Subset
<1>3. ChainLen(m, start) \in Nat /\ ChainLen(m, start) >= 1
  BY ChainLenType
<1> QED BY <1>2, <1>3, BlockMapAssumption DEF ChainLen

\* Blocks that lie at the right distances from the end of a chain are the chain.
LEMMA MetIsSeq ==
  ASSUME NEW m, NEW start, ChainOk(m, start), NEW s \in Seq(Blocks),
         Len(s) = ChainLen(m, start),
         \A i \in 1 .. Len(s) : /\ s[i] \in Visited(m, start)
                                /\ ChainLen(m, s[i]) = ChainLen(m, start) - i + 1
  PROVE  /\ s = ChainSeq(m, start)
         /\ \A b \in Blocks : b \in Visited(m, start) <=> \E i \in 1 .. Len(s) : s[i] = b
<1> DEFINE V == Visited(m, start)
           n == ChainLen(m, start)
           c == ChainSeq(m, start)
<1>1. start \in Blocks /\ V \subseteq Blocks
  BY VisitedClosed DEF ChainOk, InRange
<1>2. n \in Nat /\ n = Cardinality(V)
  BY <1>1, ChainLenType DEF ChainLen
<1>3. DOMAIN c = 1 .. n /\ c = [i \in 1 .. n |-> c[i]]
  BY <1>2 DEF ChainSeq
<1>4. \A i \in 1 .. n : c[i] = s[i]
  BY <1>1, ChainSeqIs
<1> HIDE DEF V, n, c
<1>5. s = [i \in 1 .. n |-> s[i]]
  BY DEF n
<1>6. s = c
  BY <1>3, <1>4, <1>5
<1>7. ASSUME NEW b \in V PROVE \E i \in 1 .. n : s[i] = b
  <2>1. b \in Blocks /\ Visited(m, b) \subseteq V /\ IsFiniteSet(V)
    BY <1>1, VisitedSuffix, ChainLenType DEF V
  <2>2. ChainLen(m, b) \in Nat /\ ChainLen(m, b) >= 1 /\ ChainLen(m, b) <= n
    <3>1. ChainLen(m, b) \in Nat /\ ChainLen(m, b) >= 1
      BY <2>1, ChainLenType
    <3>2. Cardinality(Visited(m, b)) <= Cardinality(V)
      BY <2>1, FS_Subset
    <3> QED BY <1>2, <3>1, <3>2 DEF ChainLen
  <2> DEFINE i == n - ChainLen(m, b) + 1
  <2>3. i \in 1 .. n /\ ChainLen(m, b) = n - i + 1
    BY <1>2, <2>2
  <2> HIDE DEF i
  <2>4. c[i] = b
    BY <2>3, ChainSeqIs DEF V, n, c
  <2> QED BY <1>4, <2>3, <2>4
<1> QED BY <1>6, <1>7 DEF V, n, c

\* A list has every block of its set, and has them in increasing order.
LEMMA ListsAll ==
  ASSUME NEW S, NEW s \in Seq(Blocks), Lists(s, S)
  PROVE  /\ S \in SUBSET Blocks /\ Len(s) \in Nat
         /\ \A b \in Blocks : b \in S <=> \E i \in 1 .. Len(s) : s[i] = b
         /\ \A i, j \in 1 .. Len(s) : i < j => s[i] < s[j]
<1>1. /\ S \in SUBSET Blocks /\ Len(s) \in Nat /\ Len(s) = Cardinality(S)
      /\ \A i \in 1 .. Len(s) : s[i] \in S /\ PlaceOf(S, s[i]) = i
  BY DEF Lists
<1>2. S \subseteq Nat /\ IsFiniteSet(S)
  BY <1>1, BlocksFinite, FS_Subset
<1>3. ASSUME NEW b \in S PROVE \E i \in 1 .. Len(s) : s[i] = b
  <2>1. PlaceOf(S, b) \in 1 .. Len(s)
    BY <1>1, PlaceAndRest
  <2>2. s[PlaceOf(S, b)] \in S /\ PlaceOf(S, s[PlaceOf(S, b)]) = PlaceOf(S, b)
    BY <1>1, <2>1
  <2>3. s[PlaceOf(S, b)] = b
    BY <1>1, <2>2, PlaceOnce
  <2> QED BY <2>1, <2>3
<1>4. ASSUME NEW i \in 1 .. Len(s), NEW j \in 1 .. Len(s), i < j PROVE s[i] < s[j]
  <2> DEFINE X == {d \in S : d <= s[i]}
             Y == {d \in S : d <= s[j]}
  <2>1. s[i] \in S /\ s[j] \in S /\ s[i] \in Nat /\ s[j] \in Nat
    BY <1>1, <1>2
  <2>2. Cardinality(X) = i /\ Cardinality(Y) = j
    BY <1>1 DEF PlaceOf
  <2>3. SUFFICES ASSUME s[j] <= s[i] PROVE FALSE
    BY <2>1
  <2>4. Y \in SUBSET X
    <3>1. ASSUME NEW d \in S, d <= s[j] PROVE d <= s[i]
      <4>1. d \in Nat
        BY <1>2
      <4> QED BY <2>1, <2>3, <3>1, <4>1
    <3> QED BY <3>1
  <2>5. IsFiniteSet(X)
    BY <1>2, FS_Subset
  <2> HIDE DEF X, Y
  <2>6. Cardinality(Y) <= Cardinality(X)
    BY <2>4, <2>5, FS_Subset
  <2> QED BY <1>4, <2>2, <2>6
<1> QED BY <1>1, <1>3, <1>4

\* The entry a list links each of its blocks by.
LEMMA LinkEntry ==
  ASSUME NEW m, NEW S, NEW s \in Seq(Blocks), Lists(s, S), NEW i \in 1 .. Len(s)
  PROVE  Linked(m, S)[s[i]] = Masked(IF i + 1 <= Len(s) THEN s[i + 1] ELSE LAST)
<1> DEFINE A == After(S, s[i])
<1>1. /\ S \in SUBSET Blocks /\ Len(s) \in Nat
      /\ \A b \in Blocks : b \in S <=> \E j \in 1 .. Len(s) : s[j] = b
      /\ \A j, k \in 1 .. Len(s) : j < k => s[j] < s[k]
  BY ListsAll
<1>2. S \subseteq Nat
  BY <1>1, BlocksFinite
<1>3. s[i] \in S /\ s[i] \in Blocks
  BY <1>1
<1>4. ASSUME NEW b \in A PROVE i + 1 <= Len(s) /\ s[i + 1] <= b
  <2>1. b \in S /\ b > s[i] /\ b \in Blocks /\ b \in Nat /\ s[i] \in Nat
    BY <1>1, <1>2, <1>3 DEF After
  <2>2. PICK j \in 1 .. Len(s) : s[j] = b
    BY <1>1, <2>1
  <2>3. i < j
    <3>1. SUFFICES ASSUME ~(i < j) PROVE FALSE
      OBVIOUS
    <3>2. j < i \/ j = i
      BY <3>1
    <3> QED BY <1>1, <2>1, <2>2, <3>2
  <2>4. i + 1 \in 1 .. Len(s) /\ (i + 1 < j \/ i + 1 = j)
    BY <1>1, <2>3
  <2>5. s[i + 1] \in Nat
    BY <2>4, ElementOfSeq, BlocksFinite
  <2> QED BY <1>1, <2>1, <2>2, <2>4, <2>5
<1>5. Linked(m, S)[s[i]] = IF A = {} THEN LAST ELSE Masked(Least(A))
  BY <1>3 DEF Linked
<1>6. CASE i + 1 <= Len(s)
  <2>1. i + 1 \in 1 .. Len(s) /\ i < i + 1
    BY <1>1, <1>6
  <2>2. s[i + 1] \in S /\ s[i] < s[i + 1]
    BY <1>1, <2>1
  <2>3. s[i + 1] \in A
    BY <1>2, <1>3, <2>2 DEF After
  <2>4. A \subseteq Nat
    BY <1>2 DEF After
  <2> HIDE DEF A
  <2>5. Least(A) \in A /\ Least(A) <= s[i + 1]
    BY <2>3, <2>4, LeastOf
  <2>6. s[i + 1] <= Least(A)
    BY <1>4, <2>5
  <2>7. Least(A) = s[i + 1]
    <3>1. Least(A) \in Nat /\ s[i + 1] \in Nat
      BY <2>3, <2>4, <2>5
    <3> QED BY <2>5, <2>6, <3>1
  <2> QED BY <1>5, <1>6, <2>3, <2>7
<1>7. CASE ~(i + 1 <= Len(s))
  <2>1. A = {}
    BY <1>4, <1>7
  <2>2. Masked(LAST) = LAST
    BY BlockMapAssumption DEF Masked, LAST
  <2> QED BY <1>5, <1>7, <2>1, <2>2
<1> QED BY <1>6, <1>7
\* One more block of a list gone through.
LEMMA PassedNext ==
  ASSUME NEW old, NEW m, NEW s \in Seq(Blocks), NEW k \in 1 .. Len(s),
         NEW f, f = Through(s, k, m, old),
         NEW g, g = [b \in Blocks |-> g[b]], g[s[k]] = m[s[k]],
         \A b \in Blocks : b # s[k] => g[b] = f[b]
  PROVE  g = Through(s, k + 1, m, old)
<1> DEFINE h == Through(s, k + 1, m, old)
<1>1. s[k] \in Blocks /\ k \in Nat /\ (k + 1) - 1 = k
  BY ElementOfSeq
<1>2. ASSUME NEW b \in Blocks, b # s[k] PROVE g[b] = h[b]
  <2>1. (\E i \in 1 .. k - 1 : s[i] = b) <=> (\E i \in 1 .. (k + 1) - 1 : s[i] = b)
    <3>1. \A i \in 1 .. (k + 1) - 1 : i = k \/ i \in 1 .. k - 1
      BY <1>1
    <3>2. \A i \in 1 .. k - 1 : i \in 1 .. (k + 1) - 1
      BY <1>1
    <3> QED BY <1>2, <3>1, <3>2
  <2> QED BY <1>2, <2>1 DEF Through
<1>3. h[s[k]] = m[s[k]]
  <2>1. k \in 1 .. (k + 1) - 1
    BY <1>1
  <2> QED BY <1>1, <2>1 DEF Through
<1>4. h = [b \in Blocks |-> h[b]]
  BY DEF Through
<1> HIDE DEF h
<1> QED BY <1>1, <1>2, <1>3, <1>4 DEF h

\* What the loops start from, and what the map is when none or all of a list has
\* been gone through.
LEMMA PassedNone ==
  ASSUME NEW old \in MapType, NEW m, NEW s, NEW k, k = 1
  PROVE  Through(s, k, m, old) = old
<1>1. ~ \E i \in 1 .. k - 1 : TRUE
  OBVIOUS
<1>2. old = [b \in Blocks |-> old[b]]
  BY DEF MapType
<1> QED BY <1>1, <1>2 DEF Through

-----------------------------------------------------------------------------
(***************************************************************************)
(* The walk.                                                               *)
(***************************************************************************)
\* The marks an entry can be are different.
LEMMA Marks == FREE # LAST /\ RESERVED # LAST /\ FREE # RESERVED /\ Masked(FREE) = FREE
BY BlockMapAssumption DEF FREE, LAST, RESERVED, Masked

\* A new loop begins on the map the call found.
LEMMA InitInv == Init => Inv
<1> SUFFICES ASSUME Init PROVE Inv
  OBVIOUS
<1>1. /\ map \in MapType /\ before = map /\ op = "none" /\ pc = "call" /\ out = <<>>
      /\ res = "none"
  BY DEF Init
<1>2. <<>> \in Seq(Blocks) /\ Len(<<>>) = 0 /\ NBlocks \in Nat
  BY BlockMapAssumption
<1>3. TypeOK
  BY <1>1, <1>2 DEF TypeOK
<1> QED BY <1>1, <1>3 DEF Inv, WalkIsChain, FreeIsAllOrNothing, AllocateIsFirstFit, AllocatedAre, Done

\* chain(start), free_chain(start).
LEMMA CallWalkInv ==
  ASSUME Inv, NEW o \in {"chain", "free_chain"}, NEW start \in Entry, CallWalk(o, start)
  PROVE  Inv'
<1>1. /\ pc' = "walk" /\ op' = o /\ arg' = start /\ cur' = start
      /\ map' = map /\ before' = before /\ out' = out /\ res' = res
      /\ TypeOK /\ map = before /\ out = <<>>
  BY DEF CallWalk, Inv
<1>2. Len(<<>>) = 0 /\ NBlocks \in Nat
  BY BlockMapAssumption
<1>3. TypeOK'
  BY <1>1, <1>2 DEF TypeOK
<1>4. InRange(start) =>
        /\ start \in Visited(before, start)
        /\ ChainLen(before, start) \in Nat
  BY VisitedClosed, ChainLenType DEF InRange
<1>5. ChainOk(before, start) => InRange(start)
  BY DEF ChainOk
<1>6. ChainOk(before, start) => ChainLen(before, start) = ChainLen(before, start) - 0
  BY <1>4, <1>5
<1>7. Met'
  BY <1>1, <1>2 DEF Met
<1>8. AtWalk'
  BY <1>1, <1>2, <1>4, <1>5, <1>6, <1>7 DEF AtWalk
<1> QED BY <1>1, <1>3, <1>8 DEF Inv, WalkIsChain, FreeIsAllOrNothing, AllocateIsFirstFit,
             AllocatedAre, Done

\* Within a walk of a chain that ends, the block reached is one of the chain: it is
\* the last one, or the walk moves on from it.
LEMMA WalkStays ==
  ASSUME AtWalk, ChainOk(before, arg)
  PROVE  /\ cur \in Blocks /\ ChainOk(before, cur)
         /\ ChainLen(before, cur) \in Nat /\ ChainLen(before, cur) >= 1
         /\ ChainLen(before, arg) \in 1 .. NBlocks
         /\ ~MovesOn(before, cur) => before[cur] = LAST /\ ChainLen(before, cur) = 1
<1>1. cur \in Visited(before, arg) /\ arg \in Blocks
  BY DEF AtWalk, ChainOk, InRange
<1>2. cur \in Blocks /\ ChainOk(before, cur)
  BY <1>1, ChainSuffix, VisitedClosed
<1>3. /\ ChainLen(before, cur) \in Nat /\ ChainLen(before, cur) >= 1
      /\ ChainLen(before, arg) \in 1 .. NBlocks
  BY <1>1, <1>2, ChainLenType, ChainLenBound
<1>4. ASSUME ~MovesOn(before, cur)
      PROVE  before[cur] = LAST /\ ChainLen(before, cur) = 1
  <2>1. Visited(before, cur) = {cur}
    BY <1>2, <1>4, VisitedStop
  <2>2. before[cur] = LAST
    BY <1>2, <2>1 DEF ChainOk
  <2>3. ChainLen(before, cur) = 1
    BY <2>1, FS_Singleton DEF ChainLen
  <2> QED BY <2>2, <2>3
<1> QED BY <1>2, <1>3, <1>4

\* A walk that gives up has changed nothing, and its chain does not end.
LEMMA WalkFails ==
  ASSUME Inv, pc = "walk", ~ChainOk(before, arg), Return("CorruptVolume"),
         UNCHANGED <<map, before, op, arg, cur, was, raw>>,
         out' \in Seq(Blocks), Len(out') <= NBlocks + 1
  PROVE  Inv'
<1>1. /\ pc' = "done" /\ res' = "CorruptVolume" /\ map' = map /\ before' = before
      /\ op' = op /\ arg' = arg /\ was' = was /\ raw' = raw
      /\ TypeOK /\ map = before /\ op \in {"chain", "free_chain"}
  BY DEF Return, Inv, AtWalk
<1>2. TypeOK'
  BY <1>1 DEF TypeOK
<1>3. WalkIsChain' /\ FreeIsAllOrNothing' /\ AllocateIsFirstFit' /\ AllocatedAre'
  BY <1>1 DEF WalkIsChain, FreeIsAllOrNothing, AllocateIsFirstFit, AllocatedAre, Done
<1> QED BY <1>1, <1>2, <1>3 DEF Inv

\* A walk that meets a stray link, a free or a reserved block.
LEMMA WalkBreaksInv == ASSUME Inv, WalkBreaks PROVE Inv'
<1>1. /\ pc = "walk" /\ AtWalk /\ map = before /\ TypeOK
      /\ InRange(cur) => map[cur] \in {FREE, RESERVED}
  BY DEF Inv, WalkBreaks, AtWalk
<1>2. ~ChainOk(before, arg)
  <2>1. SUFFICES ASSUME ChainOk(before, arg) PROVE FALSE
    OBVIOUS
  <2>2. cur \in Blocks /\ (~MovesOn(before, cur) => before[cur] = LAST)
    BY <1>1, <2>1, WalkStays
  <2>3. before[cur] \in {FREE, RESERVED}
    BY <1>1, <2>2 DEF InRange
  <2> QED BY <2>2, <2>3, Marks DEF MovesOn
<1>3. out' \in Seq(Blocks) /\ Len(out') <= NBlocks + 1
  BY <1>1 DEF WalkBreaks, TypeOK
<1> QED BY <1>1, <1>2, <1>3, WalkFails DEF WalkBreaks

\* A walk that has met more blocks than there are.
LEMMA WalkCyclesInv == ASSUME Inv, WalkCycles PROVE Inv'
<1>1. /\ pc = "walk" /\ AtWalk /\ TypeOK /\ cur \in Blocks /\ Len(out) + 1 > NBlocks
      /\ out' = Append(out, cur)
  BY DEF Inv, WalkCycles, AtChainBlock, InRange
<1>2. Len(out) \in Nat /\ Len(out) <= NBlocks /\ out \in Seq(Blocks) /\ NBlocks \in Nat
  BY <1>1, BlockMapAssumption DEF AtWalk, TypeOK
<1>3. ~ChainOk(before, arg)
  <2>1. SUFFICES ASSUME ChainOk(before, arg) PROVE FALSE
    OBVIOUS
  <2>2. /\ ChainLen(before, cur) \in Nat /\ ChainLen(before, cur) >= 1
        /\ ChainLen(before, arg) \in 1 .. NBlocks
    BY <1>1, <2>1, WalkStays
  <2>3. ChainLen(before, cur) = ChainLen(before, arg) - Len(out)
    BY <1>1, <2>1 DEF AtWalk
  <2> QED BY <1>1, <1>2, <2>2, <2>3
<1>4. out' \in Seq(Blocks) /\ Len(out') <= NBlocks + 1
  BY <1>1, <1>2, AppendProperties
<1> QED BY <1>1, <1>3, <1>4, WalkFails DEF WalkCycles
\* A walk that goes on.
LEMMA WalkMovesOnInv == ASSUME Inv, WalkMovesOn PROVE Inv'
<1>1. /\ pc = "walk" /\ AtWalk /\ TypeOK /\ cur \in Blocks /\ Len(out) + 1 <= NBlocks
      /\ map[cur] \notin {FREE, LAST, RESERVED} /\ map = before
      /\ out' = Append(out, cur) /\ cur' = map[cur]
      /\ pc' = pc /\ map' = map /\ before' = before /\ op' = op /\ arg' = arg /\ res' = res
  BY DEF Inv, WalkMovesOn, AtChainBlock, InRange, AtWalk
<1>2. /\ out \in Seq(Blocks) /\ Len(out) \in Nat /\ NBlocks \in Nat /\ out' \in Seq(Blocks)
      /\ Len(out') = Len(out) + 1
      /\ \A i \in 1 .. Len(out') : out'[i] = IF i <= Len(out) THEN out[i] ELSE cur
  <2>1. out \in Seq(Blocks) /\ Len(out) \in Nat /\ NBlocks \in Nat
    BY <1>1, BlockMapAssumption DEF TypeOK
  <2>2. /\ Append(out, cur) \in Seq(Blocks) /\ Len(Append(out, cur)) = Len(out) + 1
        /\ \A i \in 1 .. Len(out) : Append(out, cur)[i] = out[i]
        /\ Append(out, cur)[Len(out) + 1] = cur
    BY <1>1, <2>1, AppendProperties
  <2> QED BY <1>1, <2>1, <2>2
<1>3. TypeOK'
  BY <1>1, <1>2 DEF TypeOK, AtWalk
<1>4. cur' = before[cur] /\ before[cur] \in Entry
  BY <1>1 DEF TypeOK, MapType
<1>5. InRange(cur') => InRange(arg) /\ cur' \in Visited(before, arg)
  <2>1. SUFFICES ASSUME InRange(cur') PROVE InRange(arg) /\ cur' \in Visited(before, arg)
    OBVIOUS
  <2>2. arg \in Blocks /\ cur \in Visited(before, arg)
    BY <1>1 DEF AtWalk, InRange
  <2>3. MovesOn(before, cur)
    BY <1>1, <1>4, <2>1 DEF MovesOn
  <2> QED BY <1>4, <2>2, <2>3, VisitedClosed DEF ClosedUnder, InRange
<1>6. ASSUME ChainOk(before, arg)
      PROVE  /\ cur' \in Visited(before, arg) /\ Met'
             /\ ChainLen(before, cur') = ChainLen(before, arg) - Len(out')
  <2>1. /\ cur \in Blocks /\ ChainOk(before, cur) /\ MovesOn(before, cur)
        /\ ChainLen(before, arg) \in 1 .. NBlocks
    <3>1. /\ cur \in Blocks /\ ChainOk(before, cur)
          /\ ~MovesOn(before, cur) => before[cur] = LAST
          /\ ChainLen(before, arg) \in 1 .. NBlocks
      BY <1>1, <1>6, WalkStays
    <3> QED BY <1>1, <3>1
  <2>2. /\ cur \in Visited(before, arg) /\ Met
        /\ ChainLen(before, cur) = ChainLen(before, arg) - Len(out)
    BY <1>1, <1>6 DEF AtWalk
  <2>3. before[cur] \in Blocks /\ ChainLen(before, cur) = ChainLen(before, before[cur]) + 1
    BY <2>1, ChainShortens DEF MovesOn, InRange
  <2>4. ChainLen(before, before[cur]) \in Nat
    BY <2>3, ChainLenType
  <2>5. ChainLen(before, cur') = ChainLen(before, arg) - Len(out')
    BY <1>2, <1>4, <2>1, <2>2, <2>3, <2>4
  <2>6. ASSUME NEW i \in 1 .. Len(out')
        PROVE  /\ out'[i] \in Visited(before, arg)
               /\ ChainLen(before, out'[i]) = ChainLen(before, arg) - i + 1
    <3>1. CASE i <= Len(out)
      <4>1. i \in 1 .. Len(out) /\ out'[i] = out[i]
        BY <1>2, <3>1
      <4> QED BY <2>2, <4>1 DEF Met
    <3>2. CASE ~(i <= Len(out))
      <4>1. i = Len(out) + 1 /\ out'[i] = cur
        BY <1>2, <3>2
      <4> QED BY <1>2, <2>1, <2>2, <4>1
    <3> QED BY <3>1, <3>2
  <2>7. Met'
    BY <1>1, <2>6 DEF Met
  <2>8. cur' \in Visited(before, arg)
    BY <1>4, <1>5, <2>3 DEF InRange
  <2> QED BY <2>5, <2>7, <2>8
<1>7. AtWalk'
  <2>1. op' \in {"chain", "free_chain"} /\ map' = before' /\ arg' \in Entry /\ cur' \in Entry
    BY <1>1, <1>4 DEF AtWalk
  <2>2. Len(out') <= NBlocks
    BY <1>1, <1>2
  <2> QED BY <1>1, <1>5, <1>6, <2>1, <2>2 DEF AtWalk
<1> QED BY <1>1, <1>3, <1>7 DEF Inv, WalkIsChain, FreeIsAllOrNothing, AllocateIsFirstFit,
             AllocatedAre, Done, AtWalk

\* A walk that has met the last block: chain returns, free_chain goes on.
LEMMA WalkEndsInv == ASSUME Inv, WalkEnds PROVE Inv'
<1>1. /\ pc = "walk" /\ AtWalk /\ TypeOK /\ cur \in Blocks /\ Len(out) + 1 <= NBlocks
      /\ map[cur] = LAST /\ map = before
      /\ out' = Append(out, cur) /\ cur' = 1
      /\ map' = map /\ before' = before /\ op' = op /\ arg' = arg
      /\ IF op = "free_chain" THEN pc' = "free" /\ res' = res ELSE pc' = "done" /\ res' = "Ok"
  BY DEF Inv, WalkEnds, AtChainBlock, InRange, AtWalk, Return
<1>2. /\ out \in Seq(Blocks) /\ Len(out) \in Nat /\ NBlocks \in Nat /\ out' \in Seq(Blocks)
      /\ Len(out') = Len(out) + 1
      /\ \A i \in 1 .. Len(out') : out'[i] = IF i <= Len(out) THEN out[i] ELSE cur
  <2>1. out \in Seq(Blocks) /\ Len(out) \in Nat /\ NBlocks \in Nat
    BY <1>1, BlockMapAssumption DEF TypeOK
  <2>2. /\ Append(out, cur) \in Seq(Blocks) /\ Len(Append(out, cur)) = Len(out) + 1
        /\ \A i \in 1 .. Len(out) : Append(out, cur)[i] = out[i]
        /\ Append(out, cur)[Len(out) + 1] = cur
    BY <1>1, <2>1, AppendProperties
  <2> QED BY <1>1, <2>1, <2>2
<1>3. op \in {"chain", "free_chain"} /\ arg \in Entry
  BY <1>1 DEF AtWalk
<1>4. TypeOK'
  BY <1>1, <1>2, <1>3 DEF TypeOK
<1>5. ChainOk(before, arg)
  <2>1. InRange(arg) /\ cur \in Visited(before, arg)
    BY <1>1 DEF AtWalk, InRange
  <2> QED BY <1>1, <2>1 DEF ChainOk
<1>6. /\ ChainLen(before, cur) = 1 /\ ChainLen(before, arg) \in Nat
      /\ ChainLen(before, cur) = ChainLen(before, arg) - Len(out)
      /\ cur \in Visited(before, arg) /\ Met
  <2>1. ~MovesOn(before, cur)
    BY <1>1 DEF MovesOn
  <2> QED BY <1>1, <1>5, <2>1, WalkStays DEF AtWalk
<1>7. Len(out') = ChainLen(before, arg)
  BY <1>2, <1>6
<1>8. ASSUME NEW i \in 1 .. Len(out')
      PROVE  /\ out'[i] \in Visited(before, arg)
             /\ ChainLen(before, out'[i]) = ChainLen(before, arg) - i + 1
  <2>1. CASE i <= Len(out)
    <3>1. i \in 1 .. Len(out) /\ out'[i] = out[i]
      BY <1>2, <2>1
    <3> QED BY <1>6, <3>1 DEF Met
  <2>2. CASE ~(i <= Len(out))
    <3>1. i = Len(out) + 1 /\ out'[i] = cur
      BY <1>2, <2>2
    <3> QED BY <1>2, <1>6, <3>1
  <2> QED BY <2>1, <2>2
<1>9. CASE op = "free_chain"
  <2>1. Met'
    BY <1>1, <1>8 DEF Met
  <2>2. cur' \in 1 .. Len(out') + 1
    BY <1>1, <1>2
  <2>3. map' = Through(out', cur', NewEmpty, before)
    <3>1. before \in MapType
      BY <1>1 DEF TypeOK
    <3> QED BY <1>1, <3>1, PassedNone
  <2>4. AtFree'
    BY <1>1, <1>3, <1>5, <1>7, <1>9, <2>1, <2>2, <2>3 DEF AtFree
  <2> QED BY <1>1, <1>4, <1>9, <2>4 DEF Inv, WalkIsChain, FreeIsAllOrNothing, AllocateIsFirstFit,
               AllocatedAre, Done
<1>10. CASE op = "chain"
  <2>1. out' = ChainSeq(before, arg)
    BY <1>2, <1>5, <1>7, <1>8, MetIsSeq
  <2>2. WalkIsChain'
    BY <1>1, <1>5, <1>10, <2>1 DEF WalkIsChain, Done
  <2> QED BY <1>1, <1>4, <1>10, <2>2 DEF Inv, FreeIsAllOrNothing, AllocateIsFirstFit,
               AllocatedAre, Done
<1> QED BY <1>3, <1>9, <1>10

\* free_chain frees one block after the other of a chain that ends.
LEMMA FreeNextInv == ASSUME Inv, FreeNext PROVE Inv'
<1>1. /\ pc = "free" /\ AtFree /\ TypeOK /\ cur <= Len(out)
      /\ map' = [map EXCEPT ![out[cur]] = FREE] /\ cur' = cur + 1
      /\ before' = before /\ op' = op /\ arg' = arg /\ pc' = pc /\ out' = out /\ res' = res
      /\ map = Through(out, cur, NewEmpty, before)
  BY Marks DEF Inv, FreeNext, AtFree
<1>2. cur \in 1 .. Len(out) /\ Len(out) \in Nat /\ out \in Seq(Blocks) /\ out[cur] \in Blocks
  BY <1>1, ElementOfSeq DEF AtFree, TypeOK
<1>3. map' = Through(out, cur + 1, NewEmpty, before)
  <2>1. NewEmpty[out[cur]] = FREE
    BY <1>2 DEF NewEmpty
  <2>2. map = [b \in Blocks |-> map[b]]
    BY <1>1 DEF Through
  <2>3. /\ map' = [b \in Blocks |-> map'[b]] /\ map'[out[cur]] = NewEmpty[out[cur]]
        /\ \A b \in Blocks : b # out[cur] => map'[b] = map[b]
    BY <1>1, <1>2, <2>1, <2>2
  <2> QED BY <1>1, <1>2, <2>3, PassedNext
<1>4. map' \in MapType
  <2>1. FREE \in Entry
    BY BlockMapAssumption DEF FREE, Entry
  <2> QED BY <1>1, <2>1 DEF TypeOK, MapType
<1>5. TypeOK'
  BY <1>1, <1>4 DEF TypeOK, AtFree
<1>6. AtFree'
  <2>1. cur' \in 1 .. Len(out') + 1
    BY <1>1, <1>2
  <2>2. Met'
    BY <1>1 DEF AtFree, Met
  <2> QED BY <1>1, <1>3, <2>1, <2>2 DEF AtFree
<1> QED BY <1>1, <1>5, <1>6 DEF Inv, WalkIsChain, FreeIsAllOrNothing, AllocateIsFirstFit,
             AllocatedAre, Done, AtFree

\* When it has gone through all of them, the chain is free and nothing else changed.
LEMMA FreeDoneInv == ASSUME Inv, FreeDone PROVE Inv'
<1>1. /\ pc = "free" /\ AtFree /\ TypeOK /\ cur > Len(out)
      /\ pc' = "done" /\ res' = "Ok"
      /\ map' = map /\ before' = before /\ op' = op /\ arg' = arg /\ out' = out
      /\ was' = was /\ raw' = raw /\ op = "free_chain"
  BY DEF Inv, FreeDone, Return, AtFree
<1>2. out \in Seq(Blocks) /\ Len(out) \in Nat /\ cur - 1 = Len(out)
  BY <1>1 DEF AtFree, TypeOK
<1>3. \A b \in Blocks : b \in Visited(before, arg) <=> \E i \in 1 .. Len(out) : out[i] = b
  BY <1>1, <1>2, MetIsSeq DEF AtFree, Met
<1>4. map = [b \in Blocks |-> IF \E i \in 1 .. Len(out) : out[i] = b THEN NewEmpty[b] ELSE before[b]]
  BY <1>1, <1>2 DEF AtFree, Through
<1>5. map = FreeChain(before, arg)
  BY <1>3, <1>4 DEF FreeChain, NewEmpty
<1>6. FreeIsAllOrNothing'
  BY <1>1, <1>5 DEF FreeIsAllOrNothing, AtFree
<1>7. TypeOK'
  BY <1>1 DEF TypeOK
<1> QED BY <1>1, <1>6, <1>7 DEF Inv, WalkIsChain, AllocateIsFirstFit, AllocatedAre, Done
-----------------------------------------------------------------------------
(***************************************************************************)
(* Allocation.                                                             *)
(***************************************************************************)
\* allocate(n): nothing to do, not enough free blocks, or the scan.
LEMMA CallAllocateInv ==
  ASSUME Inv, NEW n \in Nat, CallAllocate(n)
  PROVE  Inv'
<1>1. /\ op' = "allocate" /\ arg' = n /\ cur' = FIRST_BLOCK
      /\ map' = map /\ before' = before /\ out' = out
      /\ TypeOK /\ map = before /\ out = <<>> /\ before \in MapType
      /\ IF n = 0 THEN pc' = "done" /\ res' = "Ok"
         ELSE IF FreeCount(map) < n THEN pc' = "done" /\ res' = "VolumeFull"
         ELSE pc' = "scan" /\ res' = res
  BY DEF CallAllocate, Inv, Return, TypeOK
<1>2. /\ FreeBlocks(before) \in SUBSET Blocks /\ IsFiniteSet(FreeBlocks(before))
      /\ FreeCount(before) \in Nat /\ FreeCount(before) <= NBlocks /\ NBlocks \in Nat
  BY FreeCountType, BlockMapAssumption
<1>3. TypeOK'
  BY <1>1 DEF TypeOK
<1>4. CASE n = 0
  <2> DEFINE L == Lowest(FreeBlocks(before), 0)
  <2>1. IsFiniteSet(L) /\ Cardinality(L) = 0
    BY <1>2, LowestOf DEF FreeCount
  <2>2. L = {}
    BY <2>1, FS_EmptySet
  <2>3. Allocate(before, 0) = Linked(before, {})
    BY <2>2 DEF Allocate, Allotted
  <2>4. before = [b \in Blocks |-> before[b]]
    BY <1>1 DEF MapType
  <2>5. Linked(before, {}) = before
    BY <2>4 DEF Linked
  <2> HIDE DEF L
  <2>6. AllocateIsFirstFit'
    BY <1>1, <1>2, <1>4, <2>3, <2>5 DEF AllocateIsFirstFit, Done
  <2>7. AllocatedAre'
    BY <1>1, <1>4 DEF AllocatedAre, Done
  <2> QED BY <1>1, <1>3, <1>4, <2>6, <2>7 DEF Inv, WalkIsChain, FreeIsAllOrNothing, Done
<1>5. CASE n # 0 /\ FreeCount(map) < n
  BY <1>1, <1>3, <1>5 DEF Inv, WalkIsChain, FreeIsAllOrNothing, AllocateIsFirstFit, AllocatedAre, Done
<1>6. CASE n # 0 /\ ~(FreeCount(map) < n)
  <2>1. FreeCount(before) >= n /\ n > 0
    BY <1>1, <1>2, <1>6
  <2>2. FIRST_BLOCK \in Blocks
    BY <1>2, <2>1 DEF Blocks, FIRST_BLOCK
  <2>3. FreeBelow(FIRST_BLOCK) = {}
    BY DEF FreeBelow, FreeBlocks, Blocks, FIRST_BLOCK
  <2>4. Lists(<<>>, {})
    BY FS_EmptySet DEF Lists
  <2>5. Lists(out', FreeBelow(cur)')
    BY <1>1, <2>3, <2>4 DEF FreeBelow
  <2>6. Len(out') < n
    BY <1>1, <2>1
  <2>7. AtScan'
    BY <1>1, <2>1, <2>2, <2>5, <2>6 DEF AtScan
  <2> QED BY <1>1, <1>3, <1>6, <2>7 DEF Inv, WalkIsChain, FreeIsAllOrNothing, AllocateIsFirstFit,
               AllocatedAre, Done
<1> QED BY <1>4, <1>5, <1>6

\* A higher block listed behind the others.
LEMMA ListsMore ==
  ASSUME NEW S, NEW s \in Seq(Blocks), Lists(s, S), NEW b \in Blocks, \A c \in S : c < b
  PROVE  Lists(Append(s, b), S \cup {b})
<1> DEFINE t == Append(s, b)
           T == S \cup {b}
<1>1. /\ S \in SUBSET Blocks /\ Len(s) \in Nat /\ Len(s) = Cardinality(S)
      /\ \A i \in 1 .. Len(s) : s[i] \in S /\ PlaceOf(S, s[i]) = i
  BY DEF Lists
<1>2. S \subseteq Nat /\ b \in Nat /\ IsFiniteSet(S) /\ b \notin S
  <2>1. S \subseteq Nat /\ b \in Nat /\ IsFiniteSet(S)
    BY <1>1, BlocksFinite, FS_Subset
  <2>2. ~(b < b)
    BY <2>1
  <2> QED BY <2>1, <2>2
<1>3. Cardinality(T) = Len(s) + 1
  BY <1>1, <1>2, FS_AddElement
<1>4. Len(t) = Len(s) + 1 /\ t[Len(s) + 1] = b /\ \A i \in 1 .. Len(s) : t[i] = s[i]
  BY AppendProperties
<1>5. ASSUME NEW c \in S PROVE PlaceOf(T, c) = PlaceOf(S, c)
  <2>1. ~(b <= c)
    BY <1>2
  <2>2. {d \in T : d <= c} = {d \in S : d <= c}
    BY <2>1
  <2> QED BY <2>2 DEF PlaceOf
<1>6. PlaceOf(T, b) = Len(s) + 1
  <2>1. ASSUME NEW d \in T PROVE d <= b
    BY <1>2
  <2>2. {d \in T : d <= b} = T
    BY <2>1
  <2> QED BY <1>3, <2>2 DEF PlaceOf
<1> HIDE DEF t
<1>7. ASSUME NEW i \in 1 .. Len(t) PROVE t[i] \in T /\ PlaceOf(T, t[i]) = i
  <2>1. CASE i <= Len(s)
    <3>1. i \in 1 .. Len(s) /\ t[i] = s[i]
      BY <1>1, <1>4, <2>1
    <3> QED BY <1>1, <1>5, <3>1
  <2>2. CASE ~(i <= Len(s))
    <3>1. i = Len(s) + 1 /\ t[i] = b
      BY <1>1, <1>4, <2>2
    <3> QED BY <1>6, <3>1
  <2> QED BY <2>1, <2>2
<1>8. T \subseteq Blocks
  BY <1>1
<1> HIDE DEF T
<1>9. Lists(t, T)
  BY <1>3, <1>4, <1>7, <1>8 DEF Lists
<1> QED BY <1>9 DEF t, T

\* One block scanned: it is taken when it is free, and when there are enough the
\* lowest free blocks have been taken, and no other.
LEMMA ScanNextInv == ASSUME Inv, ScanNext PROVE Inv'
<1> DEFINE F == FreeBlocks(before)
           S == FreeBelow(cur)
           T == {c \in F : c < cur + 1}
<1>1. /\ pc = "scan" /\ AtScan /\ TypeOK /\ map = before
      /\ out' = IF before[cur] = FREE THEN Append(out, cur) ELSE out
      /\ IF Len(out') = arg THEN pc' = "link" /\ cur' = 1 ELSE pc' = pc /\ cur' = cur + 1
      /\ map' = map /\ before' = before /\ op' = op /\ arg' = arg /\ res' = res
  BY DEF Inv, ScanNext, AtScan
<1>2. /\ op = "allocate" /\ arg \in Nat /\ FreeCount(before) >= arg
      /\ cur \in Blocks /\ Len(out) < arg /\ Lists(out, S) /\ out \in Seq(Blocks)
      /\ Len(out) \in Nat
  BY <1>1 DEF AtScan, TypeOK
<1>3. /\ F \in SUBSET Blocks /\ F \subseteq Nat /\ IsFiniteSet(F) /\ FreeCount(before) = Cardinality(F)
      /\ FreeCount(before) \in Nat /\ FreeCount(before) <= NBlocks /\ NBlocks \in Nat
      /\ cur \in Nat
  BY <1>2, FreeCountType, BlocksFinite, BlockMapAssumption DEF FreeCount
<1>4. T = IF before[cur] = FREE THEN S \cup {cur} ELSE S
  <2>1. \A c \in F : c < cur + 1 <=> c < cur \/ c = cur
    BY <1>3
  <2>2. cur \in F <=> before[cur] = FREE
    BY <1>2 DEF FreeBlocks
  <2> HIDE DEF F
  <2> QED BY <2>1, <2>2 DEF FreeBelow, F
<1>5. Lists(out', T) /\ out' \in Seq(Blocks) /\ Len(out') \in Nat /\ Len(out') <= arg
  <2>1. CASE before[cur] = FREE
    <3>1. out' = Append(out, cur) /\ T = S \cup {cur}
      BY <1>1, <1>4, <2>1
    <3>2. \A c \in S : c < cur
      BY DEF FreeBelow
    <3> HIDE DEF S, T
    <3>3. Lists(Append(out, cur), S \cup {cur})
      BY <1>2, <3>2, ListsMore
    <3>4. Append(out, cur) \in Seq(Blocks) /\ Len(Append(out, cur)) = Len(out) + 1
      BY <1>2, AppendProperties
    <3> QED BY <1>2, <3>1, <3>3, <3>4
  <2>2. CASE before[cur] # FREE
    <3>1. out' = out /\ T = S
      BY <1>1, <1>4, <2>2
    <3> HIDE DEF S, T
    <3> QED BY <1>2, <3>1
  <2> QED BY <2>1, <2>2
<1>6. TypeOK'
  BY <1>1, <1>2, <1>3, <1>5 DEF TypeOK
<1>7. CASE Len(out') = arg
  <2>1. T \in SUBSET F /\ \A b \in T, c \in F \ T : b < c
    BY <1>3
  <2>2. Cardinality(T) = arg
    BY <1>5, <1>7 DEF Lists
  <2>3. Allotted(before, arg) = T
    <3> HIDE DEF T
    <3> QED BY <1>3, <2>1, <2>2, LowestIs DEF Allotted
  <2>4. arg \in Nat \ {0}
    BY <1>2
  <2>5. map' = Through(out', cur', Allocate(before, arg), before)
    <3>1. before \in MapType
      BY <1>1 DEF TypeOK
    <3> QED BY <1>1, <1>7, <3>1, PassedNone
  <2>6. cur' \in 1 .. Len(out') + 1
    BY <1>1, <1>5, <1>7
  <2> HIDE DEF T, F
  <2>7. AtLink'
    BY <1>1, <1>2, <1>5, <1>7, <2>3, <2>4, <2>5, <2>6 DEF AtLink
  <2> QED BY <1>1, <1>2, <1>6, <1>7, <2>7 DEF Inv, WalkIsChain, FreeIsAllOrNothing,
               AllocateIsFirstFit, AllocatedAre, Done
<1>8. CASE Len(out') # arg
  <2>1. Len(out') < arg
    BY <1>2, <1>5, <1>8
  <2>2. cur + 1 \in Blocks
    <3>1. SUFFICES ASSUME cur + 1 \notin Blocks PROVE FALSE
      OBVIOUS
    <3>2. cur = NBlocks + 1
      BY <1>2, <1>3, <3>1 DEF Blocks, FIRST_BLOCK
    <3>3. ASSUME NEW c \in F PROVE c < cur + 1
      <4>1. c \in Blocks
        BY <1>3
      <4> QED BY <1>3, <3>2, <4>1 DEF Blocks, FIRST_BLOCK
    <3>4. T = F
      BY <3>3
    <3> HIDE DEF T, F
    <3> QED BY <1>2, <1>3, <1>5, <2>1, <3>4 DEF Lists
  <2>3. FreeBelow(cur)' = T
    BY <1>1, <1>8 DEF FreeBelow
  <2> HIDE DEF T, F
  <2>4. AtScan'
    BY <1>1, <1>2, <1>5, <1>8, <2>1, <2>2, <2>3 DEF AtScan
  <2> QED BY <1>1, <1>2, <1>6, <1>8, <2>4 DEF Inv, WalkIsChain, FreeIsAllOrNothing,
               AllocateIsFirstFit, AllocatedAre, Done
<1> QED BY <1>7, <1>8
\* One block linked to the next.
LEMMA LinkNextInv == ASSUME Inv, LinkNext PROVE Inv'
<1> DEFINE S == Allotted(before, arg)
           m == Allocate(before, arg)
<1>1. /\ pc = "link" /\ AtLink /\ TypeOK /\ cur <= Len(out)
      /\ map' = [map EXCEPT ![out[cur]] = Masked(IF cur + 1 <= Len(out) THEN out[cur + 1] ELSE LAST)]
      /\ cur' = cur + 1
      /\ before' = before /\ op' = op /\ arg' = arg /\ pc' = pc /\ out' = out /\ res' = res
  BY DEF Inv, LinkNext
<1>2. /\ op = "allocate" /\ Lists(out, S) /\ Len(out) = arg
      /\ map = Through(out, cur, m, before)
      /\ cur \in 1 .. Len(out) /\ Len(out) \in Nat /\ out \in Seq(Blocks) /\ map \in MapType
  BY <1>1 DEF AtLink, TypeOK
<1>3. out[cur] \in Blocks
  BY <1>2, ElementOfSeq
<1>4. m[out[cur]] = Masked(IF cur + 1 <= Len(out) THEN out[cur + 1] ELSE LAST)
  BY <1>2, LinkEntry DEF Allocate
<1> HIDE DEF S, m
<1>5. map' = Through(out, cur + 1, m, before)
  <2>1. map = [b \in Blocks |-> map[b]]
    BY <1>2 DEF MapType
  <2>2. /\ map' = [b \in Blocks |-> map'[b]] /\ map'[out[cur]] = m[out[cur]]
        /\ \A b \in Blocks : b # out[cur] => map'[b] = map[b]
    BY <1>1, <1>3, <1>4, <2>1
  <2> QED BY <1>2, <2>2, PassedNext
<1>6. map' \in MapType
  <2>1. IF cur + 1 <= Len(out) THEN cur + 1 \in 1 .. Len(out) ELSE TRUE
    BY <1>2
  <2>2. (IF cur + 1 <= Len(out) THEN out[cur + 1] ELSE LAST) \in Nat
    BY <1>2, <2>1, ElementOfSeq, BlocksFinite DEF LAST
  <2>3. \A v \in Nat : v % EntryMod \in Entry
    BY BlockMapAssumption DEF Entry
  <2> DEFINE v == IF cur + 1 <= Len(out) THEN out[cur + 1] ELSE LAST
  <2>4. Masked(v) \in Entry
    BY <2>2, <2>3 DEF Masked
  <2> HIDE DEF v
  <2>5. map' = [map EXCEPT ![out[cur]] = Masked(v)]
    BY <1>1 DEF v
  <2> QED BY <1>2, <1>3, <2>4, <2>5 DEF MapType
<1>7. TypeOK'
  BY <1>1, <1>2, <1>6 DEF TypeOK
<1>8. AtLink'
  <2>1. cur' \in 1 .. Len(out') + 1
    BY <1>1, <1>2
  <2> QED BY <1>1, <1>5, <2>1 DEF AtLink, m
<1> QED BY <1>1, <1>2, <1>7, <1>8 DEF Inv, WalkIsChain, FreeIsAllOrNothing, AllocateIsFirstFit,
             AllocatedAre, Done

\* When all are linked, the map is what Allocate says.
LEMMA LinkDoneInv == ASSUME Inv, LinkDone PROVE Inv'
<1> DEFINE S == Allotted(before, arg)
           m == Allocate(before, arg)
<1>1. /\ pc = "link" /\ AtLink /\ TypeOK /\ cur > Len(out) /\ pc' = "done" /\ res' = "Ok"
      /\ map' = map /\ before' = before /\ op' = op /\ arg' = arg /\ out' = out
      /\ was' = was /\ raw' = raw
  BY DEF Inv, LinkDone, Return
<1>2. /\ op = "allocate" /\ Lists(out, S) /\ Len(out) = arg /\ arg \in Nat \ {0}
      /\ FreeCount(before) >= arg /\ map = Through(out, cur, m, before)
      /\ out \in Seq(Blocks) /\ cur - 1 = Len(out) /\ FreeCount(before) \in Nat
  BY <1>1, FreeCountType DEF AtLink, TypeOK
<1>3. \A b \in Blocks : b \in S <=> \E i \in 1 .. Len(out) : out[i] = b
  BY <1>2, ListsAll
<1>4. \A b \in Blocks : b \notin S => m[b] = before[b]
  BY DEF Allocate, Linked
<1>5. m = [b \in Blocks |-> m[b]]
  BY DEF Allocate, Linked
<1> HIDE DEF S, m
<1>6. map = [b \in Blocks |-> IF \E i \in 1 .. Len(out) : out[i] = b THEN m[b] ELSE before[b]]
  BY <1>2 DEF Through
<1>7. map = m
  <2>1. \A b \in Blocks : map[b] = m[b]
    BY <1>3, <1>4, <1>6
  <2>2. map = [b \in Blocks |-> map[b]]
    BY <1>6
  <2> QED BY <1>5, <2>1, <2>2
<1>8. AllocateIsFirstFit' /\ AllocatedAre'
  BY <1>1, <1>2, <1>7 DEF AllocateIsFirstFit, AllocatedAre, Done, S, m
<1>9. TypeOK'
  BY <1>1 DEF TypeOK
<1> QED BY <1>1, <1>2, <1>8, <1>9 DEF Inv, WalkIsChain, FreeIsAllOrNothing, Done

-----------------------------------------------------------------------------
(***************************************************************************)
(* pack and unpack.                                                        *)
(***************************************************************************)
\* The bytes an entry has a part of are in the buffer, and no other entry has them,
\* but for the one an even entry shares with the next.
LEMMA Places ==
  ASSUME NEW i \in Index
  PROVE  /\ Place(i) \in Nat /\ Place(i) \in Offsets /\ Place(i) + 1 \in Offsets
         /\ ~Even(i) => Place(i) + 2 \in Offsets
         /\ \A j \in Index : Place(i) = Place(j) \/ Place(i) >= Place(j) + 3 \/ Place(j) >= Place(i) + 3
         /\ \A j \in Index : Place(i) = Place(j) /\ (Even(i) <=> Even(j)) => i = j
<1>1. i \in Nat /\ i < NBlocks /\ NBlocks \in Nat
  BY BlockMapAssumption DEF Index
<1>2. PICK p \in Nat, r \in 0 .. 1 : i = 2 * p + r /\ i \div 2 = p /\ i % 2 = r
  BY <1>1
<1>3. Place(i) = 3 * p /\ (Even(i) <=> r = 0)
  BY <1>2 DEF Place, Even
<1>4. PackedLen(NBlocks) \in Nat /\ 2 * PackedLen(NBlocks) >= 3 * NBlocks
  BY <1>1 DEF PackedLen
<1>5. /\ Place(i) \in Nat /\ Place(i) \in Offsets /\ Place(i) + 1 \in Offsets
      /\ ~Even(i) => Place(i) + 2 \in Offsets
  BY <1>1, <1>2, <1>3, <1>4 DEF Offsets
<1>6. ASSUME NEW j \in Index
      PROVE  /\ Place(i) = Place(j) \/ Place(i) >= Place(j) + 3 \/ Place(j) >= Place(i) + 3
             /\ Place(i) = Place(j) /\ (Even(i) <=> Even(j)) => i = j
  <2>1. j \in Nat
    BY DEF Index
  <2>2. PICK q \in Nat, t \in 0 .. 1 : j = 2 * q + t /\ j \div 2 = q /\ j % 2 = t
    BY <2>1
  <2>3. Place(j) = 3 * q /\ (Even(j) <=> t = 0)
    BY <2>2 DEF Place, Even
  <2> QED BY <1>2, <1>3, <2>2, <2>3
<1> QED BY <1>5, <1>6

\* Nibbles put together and taken apart.
LEMMA Nibbled ==
  ASSUME NEW a \in Nat, NEW b \in 0 .. Nibbles - 1
  PROVE  High(a * Nibbles + b) = a /\ Low(a * Nibbles + b) = b
BY MapCodecAssumption DEF High, Low

\* A number is its high part and its low nibble.
LEMMA Halves ==
  ASSUME NEW v \in Nat
  PROVE  /\ High(v) \in Nat /\ Low(v) \in 0 .. Nibbles - 1
         /\ High(v) * Nibbles + Low(v) = v
BY MapCodecAssumption DEF High, Low
\* An octet is two nibbles.
LEMMA OctetHalves ==
  ASSUME NEW o \in Octet
  PROVE  High(o) \in 0 .. Nibbles - 1 /\ Low(o) \in 0 .. Nibbles - 1 /\ High(o) * Nibbles + Low(o) = o
<1>1. Nibbles \in Nat /\ Nibbles > 1 /\ o \in Nat /\ o < Nibbles * Nibbles
  BY MapCodecAssumption DEF Octet
<1>2. High(o) \in Nat /\ Low(o) \in 0 .. Nibbles - 1 /\ High(o) * Nibbles + Low(o) = o
  BY <1>1, Halves
<1>3. High(o) < Nibbles
  <2>1. SUFFICES ASSUME High(o) >= Nibbles PROVE FALSE
    BY <1>1, <1>2
  <2>2. High(o) * Nibbles >= Nibbles * Nibbles
    BY <1>1, <1>2, <2>1
  <2> HIDE DEF High, Low
  <2> QED BY <1>1, <1>2, <2>2
<1> QED BY <1>1, <1>2, <1>3

\* Two nibbles make an octet.
LEMMA OctetOf ==
  ASSUME NEW a \in 0 .. Nibbles - 1, NEW b \in 0 .. Nibbles - 1
  PROVE  a * Nibbles + b \in Octet
<1>1. Nibbles \in Nat /\ Nibbles > 1 /\ a \in Nat /\ b \in Nat /\ a <= Nibbles - 1 /\ b <= Nibbles - 1
  BY MapCodecAssumption
<1>2. a * Nibbles <= (Nibbles - 1) * Nibbles /\ a * Nibbles \in Nat
  BY <1>1
<1>3. (Nibbles - 1) * Nibbles = Nibbles * Nibbles - Nibbles
  BY <1>1
<1>4. Nibbles * Nibbles \in Nat
  BY <1>1
<1> QED BY <1>1, <1>2, <1>3, <1>4 DEF Octet

\* An entry is a nibble and an octet.
LEMMA Wide ==
  ASSUME NEW a \in 0 .. Nibbles - 1, NEW o \in Octet
  PROVE  /\ (a * Nibbles * Nibbles + o) \div (Nibbles * Nibbles) = a
         /\ (a * Nibbles * Nibbles + o) % (Nibbles * Nibbles) = o
<1> DEFINE q == Nibbles * Nibbles
<1>1. q \in Nat /\ q > 0 /\ a \in Nat /\ o \in 0 .. q - 1 /\ a * Nibbles * Nibbles = a * q
  BY MapCodecAssumption DEF Octet
<1>2. \A x, y, z \in Nat : y > 0 /\ z < y => (x * y + z) \div y = x /\ (x * y + z) % y = z
  OBVIOUS
<1> HIDE DEF q
<1>3. (a * q + o) \div q = a /\ (a * q + o) % q = o
  BY <1>1, <1>2
<1> QED BY <1>1, <1>3 DEF q

\* And the other way round.
LEMMA WideParts ==
  ASSUME NEW v \in Nat, v < Nibbles * Nibbles * Nibbles
  PROVE  /\ v \div (Nibbles * Nibbles) \in 0 .. Nibbles - 1
         /\ v % (Nibbles * Nibbles) \in Octet
         /\ (v \div (Nibbles * Nibbles)) * Nibbles * Nibbles + (v % (Nibbles * Nibbles)) = v
         /\ High(v) \in Octet
<1> DEFINE q == Nibbles * Nibbles
           d == v \div q
           r == v % q
<1>1. Nibbles \in Nat /\ Nibbles > 1 /\ q \in Nat /\ q > 0 /\ v < q * Nibbles
  BY MapCodecAssumption
<1>2. \A x, y \in Nat : y > 0 =>
        x \div y \in Nat /\ x % y \in 0 .. y - 1 /\ (x \div y) * y + (x % y) = x
  OBVIOUS
<1>3. \A x, y, n \in Nat : x >= n => x * y >= n * y
  OBVIOUS
<1>4. d * Nibbles * Nibbles = d * q /\ q * Nibbles = Nibbles * q
  <2>1. d \in Nat
    <3> HIDE DEF q
    <3> QED BY <1>1, <1>2
  <2> HIDE DEF d
  <2> QED BY <1>1, <2>1
<1>5. Octet = 0 .. q - 1
  BY DEF Octet
<1> HIDE DEF q
<1>6. d \in Nat /\ r \in 0 .. q - 1 /\ d * q + r = v
  BY <1>1, <1>2
<1> HIDE DEF d, r
<1>7. d < Nibbles
  <2>1. SUFFICES ASSUME d >= Nibbles PROVE FALSE
    BY <1>1, <1>6
  <2>2. d * q >= Nibbles * q
    BY <1>1, <1>3, <1>6, <2>1
  <2>3. d * q \in Nat /\ Nibbles * q \in Nat
    BY <1>1, <1>6
  <2> QED BY <1>1, <1>4, <1>6, <2>2, <2>3
<1>8. High(v) \in 0 .. q - 1
  <2>1. High(v) \in Nat /\ Low(v) \in Nat /\ High(v) * Nibbles + Low(v) = v
    BY Halves
  <2>2. SUFFICES ASSUME High(v) >= q PROVE FALSE
    BY <1>1, <2>1
  <2>3. High(v) * Nibbles >= q * Nibbles
    BY <1>1, <1>3, <2>1, <2>2
  <2>4. High(v) * Nibbles \in Nat /\ q * Nibbles \in Nat
    BY <1>1, <2>1
  <2> QED BY <1>1, <2>1, <2>3, <2>4
<1> QED BY <1>1, <1>4, <1>5, <1>6, <1>7, <1>8 DEF d, r, q
\* What unpack reads of an entry depends on its own nibbles only.
LEMMA UnpackedFrame ==
  ASSUME NEW a, NEW b, NEW j \in Index,
         IF Even(j) THEN a[Place(j)] = b[Place(j)] /\ High(a[Place(j) + 1]) = High(b[Place(j) + 1])
         ELSE Low(a[Place(j) + 1]) = Low(b[Place(j) + 1]) /\ a[Place(j) + 2] = b[Place(j) + 2]
  PROVE  Unpacked(a, j) = Unpacked(b, j)
BY DEF Unpacked

\* One round of pack, an even entry: it reads back, the others read as before, the
\* low nibble of its second byte is left alone, and an entry that was there already
\* changes nothing.
LEMMA PackEven ==
  ASSUME NEW b \in [Offsets -> Octet], NEW i \in Index, Even(i),
         NEW v \in Nat, v < Nibbles * Nibbles * Nibbles
  PROVE  LET c == Packed(b, i, v)
         IN  /\ c \in [Offsets -> Octet]
             /\ Unpacked(c, i) = v
             /\ \A j \in Index : j # i => Unpacked(c, j) = Unpacked(b, j)
             /\ \A k \in Offsets : k # Place(i) /\ k # Place(i) + 1 => c[k] = b[k]
             /\ Low(c[Place(i) + 1]) = Low(b[Place(i) + 1])
             /\ Unpacked(b, i) = v => c = b
<1> DEFINE p == Place(i)
           x == High(v)
           y == Low(v) * Nibbles + Low(b[p + 1])
           c == Packed(b, i, v)
<1>1. /\ p \in Nat /\ p \in Offsets /\ p + 1 \in Offsets
      /\ \A j \in Index : p = Place(j) \/ p >= Place(j) + 3 \/ Place(j) >= p + 3
      /\ \A j \in Index : p = Place(j) /\ Even(j) => i = j
  BY Places
<1>2. b[p] \in Octet /\ b[p + 1] \in Octet
  BY <1>1
<1>3. Low(b[p + 1]) \in 0 .. Nibbles - 1 /\ Low(v) \in 0 .. Nibbles - 1 /\ Low(v) \in Nat /\ x \in Octet
  BY <1>2, OctetHalves, Halves, WideParts
<1>4. y \in Octet /\ High(y) = Low(v) /\ Low(y) = Low(b[p + 1])
  BY <1>3, OctetOf, Nibbled
<1>5. x * Nibbles + Low(v) = v
  BY Halves
<1>6. c = [b EXCEPT ![p] = x, ![p + 1] = y]
  BY <1>1 DEF Packed
<1> HIDE DEF p, x, y, c
<1>7. /\ c \in [Offsets -> Octet] /\ c[p] = x /\ c[p + 1] = y
      /\ \A k \in Offsets : k # p /\ k # p + 1 => c[k] = b[k]
  BY <1>1, <1>3, <1>4, <1>6
<1>8. Unpacked(c, i) = v
  BY <1>4, <1>5, <1>7 DEF Unpacked, p
<1>9. ASSUME NEW j \in Index, j # i PROVE Unpacked(c, j) = Unpacked(b, j)
  <2> DEFINE q == Place(j)
  <2>1. /\ q \in Nat /\ q \in Offsets /\ q + 1 \in Offsets /\ (~Even(j) => q + 2 \in Offsets)
    BY Places
  <2>2. p = q \/ p >= q + 3 \/ q >= p + 3
    BY <1>1
  <2> HIDE DEF q
  <2>3. CASE p = q
    <3>1. ~Even(j)
      BY <1>1, <1>9, <2>3 DEF q
    <3>2. c[q + 2] = b[q + 2] /\ Low(c[q + 1]) = Low(b[q + 1])
      BY <1>1, <1>4, <1>7, <2>1, <2>3, <3>1
    <3> QED BY <3>1, <3>2, UnpackedFrame DEF q
  <2>4. CASE p # q
    <3>1. c[q] = b[q] /\ c[q + 1] = b[q + 1] /\ (~Even(j) => c[q + 2] = b[q + 2])
      BY <1>1, <1>7, <2>1, <2>2, <2>4
    <3> QED BY <3>1, UnpackedFrame DEF q
  <2> QED BY <2>3, <2>4
<1>10. ASSUME Unpacked(b, i) = v PROVE c = b
  <2>1. v = b[p] * Nibbles + High(b[p + 1])
    BY <1>10 DEF Unpacked, p
  <2>2. High(b[p + 1]) \in 0 .. Nibbles - 1 /\ High(b[p + 1]) * Nibbles + Low(b[p + 1]) = b[p + 1]
    BY <1>2, OctetHalves
  <2>3. b[p] \in Nat
    BY <1>2 DEF Octet
  <2>4. x = b[p] /\ Low(v) = High(b[p + 1])
    BY <2>1, <2>2, <2>3, Nibbled DEF x
  <2>5. y = b[p + 1]
    BY <2>2, <2>4 DEF y
  <2>6. \A k \in Offsets : c[k] = b[k]
    BY <1>7, <2>4, <2>5
  <2> QED BY <1>7, <2>6
<1>11. Low(c[p + 1]) = Low(b[p + 1])
  BY <1>4, <1>7
<1> QED BY <1>7, <1>8, <1>9, <1>10, <1>11 DEF p, c

\* One round of pack, an odd entry: it leaves the high nibble of the byte it shares
\* alone.
LEMMA PackOdd ==
  ASSUME NEW b \in [Offsets -> Octet], NEW i \in Index, ~Even(i),
         NEW v \in Nat, v < Nibbles * Nibbles * Nibbles
  PROVE  LET c == Packed(b, i, v)
         IN  /\ c \in [Offsets -> Octet]
             /\ Unpacked(c, i) = v
             /\ \A j \in Index : j # i => Unpacked(c, j) = Unpacked(b, j)
             /\ \A k \in Offsets : k # Place(i) + 1 /\ k # Place(i) + 2 => c[k] = b[k]
             /\ Unpacked(b, i) = v => c = b
<1> DEFINE p == Place(i)
           d == v \div (Nibbles * Nibbles)
           x == High(b[p + 1]) * Nibbles + d
           y == v % (Nibbles * Nibbles)
           c == Packed(b, i, v)
<1>1. /\ p \in Nat /\ p + 1 \in Offsets /\ p + 2 \in Offsets
      /\ \A j \in Index : p = Place(j) \/ p >= Place(j) + 3 \/ Place(j) >= p + 3
      /\ \A j \in Index : p = Place(j) /\ ~Even(j) => i = j
  BY Places
<1>2. b[p + 1] \in Octet /\ b[p + 2] \in Octet
  BY <1>1
<1>3. /\ High(b[p + 1]) \in 0 .. Nibbles - 1 /\ High(b[p + 1]) \in Nat
      /\ d \in 0 .. Nibbles - 1 /\ y \in Octet /\ d * Nibbles * Nibbles + y = v
  BY <1>2, OctetHalves, WideParts
<1>4. x \in Octet /\ High(x) = High(b[p + 1]) /\ Low(x) = d
  <2> HIDE DEF d
  <2> QED BY <1>3, OctetOf, Nibbled
<1>5. c = [b EXCEPT ![p + 1] = x, ![p + 2] = y]
  BY <1>1 DEF Packed
<1> HIDE DEF p, d, x, y, c
<1>6. /\ c \in [Offsets -> Octet] /\ c[p + 1] = x /\ c[p + 2] = y
      /\ \A k \in Offsets : k # p + 1 /\ k # p + 2 => c[k] = b[k]
  BY <1>1, <1>3, <1>4, <1>5
<1>7. Unpacked(c, i) = v
  BY <1>3, <1>4, <1>6 DEF Unpacked, p
<1>8. ASSUME NEW j \in Index, j # i PROVE Unpacked(c, j) = Unpacked(b, j)
  <2> DEFINE q == Place(j)
  <2>1. /\ q \in Nat /\ q \in Offsets /\ q + 1 \in Offsets /\ (~Even(j) => q + 2 \in Offsets)
    BY Places
  <2>2. p = q \/ p >= q + 3 \/ q >= p + 3
    BY <1>1
  <2> HIDE DEF q
  <2>3. CASE p = q
    <3>1. Even(j)
      BY <1>1, <1>8, <2>3 DEF q
    <3>2. c[q] = b[q] /\ High(c[q + 1]) = High(b[q + 1])
      BY <1>1, <1>4, <1>6, <2>1, <2>3
    <3> QED BY <3>1, <3>2, UnpackedFrame DEF q
  <2>4. CASE p # q
    <3>1. c[q] = b[q] /\ c[q + 1] = b[q + 1] /\ (~Even(j) => c[q + 2] = b[q + 2])
      BY <1>1, <1>6, <2>1, <2>2, <2>4
    <3> QED BY <3>1, UnpackedFrame DEF q
  <2> QED BY <2>3, <2>4
<1>9. ASSUME Unpacked(b, i) = v PROVE c = b
  <2>1. v = Low(b[p + 1]) * Nibbles * Nibbles + b[p + 2]
    BY <1>9 DEF Unpacked, p
  <2>2. Low(b[p + 1]) \in 0 .. Nibbles - 1 /\ High(b[p + 1]) * Nibbles + Low(b[p + 1]) = b[p + 1]
    BY <1>2, OctetHalves
  <2>3. d = Low(b[p + 1]) /\ y = b[p + 2]
    BY <1>2, <2>1, <2>2, Wide DEF d, y
  <2>4. x = b[p + 1]
    BY <2>2, <2>3 DEF x
  <2>5. \A k \in Offsets : c[k] = b[k]
    BY <1>6, <2>3, <2>4
  <2> QED BY <1>6, <2>5
<1> QED BY <1>6, <1>7, <1>8, <1>9 DEF p, c
\* The byte behind an odd last entry: only that entry has a part of it, the first.
LEMMA LastByte ==
  ASSUME NBlocks % 2 = 1
  PROVE  /\ PackedLen(NBlocks) - 1 \in Offsets
         /\ \A i \in Index : IF Even(i) THEN PackedLen(NBlocks) - 1 # Place(i)
                             ELSE /\ PackedLen(NBlocks) - 1 # Place(i) + 1
                                  /\ PackedLen(NBlocks) - 1 # Place(i) + 2
<1>1. NBlocks \in Nat
  BY BlockMapAssumption
<1>2. PICK k \in Nat : NBlocks = 2 * k + 1
  BY <1>1
<1>3. PackedLen(NBlocks) = 3 * k + 2
  BY <1>2 DEF PackedLen
<1>4. PackedLen(NBlocks) - 1 \in Offsets
  BY <1>3 DEF Offsets
<1>5. ASSUME NEW i \in Index
      PROVE  IF Even(i) THEN PackedLen(NBlocks) - 1 # Place(i)
             ELSE /\ PackedLen(NBlocks) - 1 # Place(i) + 1
                  /\ PackedLen(NBlocks) - 1 # Place(i) + 2
  <2>1. i \in Nat /\ i < NBlocks
    BY <1>1 DEF Index
  <2>2. PICK p \in Nat, r \in 0 .. 1 : i = 2 * p + r /\ i \div 2 = p /\ i % 2 = r
    BY <2>1
  <2>3. Place(i) = 3 * p /\ (Even(i) <=> r = 0)
    BY <2>2 DEF Place, Even
  <2> QED BY <1>2, <1>3, <2>1, <2>2, <2>3
<1> QED BY <1>4, <1>5

\* pack is called: nothing is packed yet.
LEMMA CallPackInv ==
  ASSUME Inv, NEW filling \in Fillings, CallPack(filling)
  PROVE  Inv' /\ PackedSoFar' /\ ForeignBitsKept'
<1>1. /\ pc' = "pack" /\ op' = "pack" /\ cur' = 0 /\ raw' = was'
      /\ was' = [k \in Offsets |-> filling[k % 3]]
      /\ map' = map /\ before' = before /\ out' = out /\ res' = res /\ TypeOK
  BY DEF CallPack, Inv
<1>2. was' \in [Offsets -> Octet]
  <2>1. filling \in [0 .. 2 -> Octet]
    BY BlockMapLoopsAssumption
  <2>2. \A k \in Offsets : k % 3 \in 0 .. 2
    BY DEF Offsets
  <2> QED BY <1>1, <2>1, <2>2
<1>3. TypeOK'
  BY <1>1, <1>2 DEF TypeOK
<1>4. cur' \in 0 .. NBlocks
  BY <1>1, BlockMapAssumption
<1>5. Inv'
  BY <1>1, <1>3, <1>4 DEF Inv, WalkIsChain, FreeIsAllOrNothing, AllocateIsFirstFit, AllocatedAre, Done
<1>6. PackedSoFar'
  <2>1. \A i \in Index : ~(i < 0)
    BY DEF Index
  <2> QED BY <1>1, <2>1 DEF PackedSoFar
<1>7. ForeignBitsKept'
  BY <1>1 DEF ForeignBitsKept
<1> QED BY <1>5, <1>6, <1>7

\* One entry packed.
LEMMA PackNextInv ==
  ASSUME Inv, PackedSoFar, ForeignBitsKept, PackNext
  PROVE  Inv' /\ PackedSoFar' /\ ForeignBitsKept'
<1> DEFINE v == map[cur + FIRST_BLOCK]
           L == PackedLen(NBlocks) - 1
<1>1. /\ pc = "pack" /\ op = "pack" /\ cur \in 0 .. NBlocks /\ cur < NBlocks /\ NBlocks \in Nat
      /\ raw' = Packed(raw, cur, v) /\ cur' = cur + 1 /\ was' = was
      /\ map' = map /\ before' = before /\ op' = op /\ arg' = arg /\ pc' = pc /\ out' = out
      /\ res' = res /\ TypeOK /\ raw \in [Offsets -> Octet]
  BY BlockMapAssumption DEF Inv, PackNext, TypeOK
<1>2. cur \in Index /\ cur \in Nat
  BY <1>1 DEF Index
<1>3. v \in Nat /\ v < Nibbles * Nibbles * Nibbles
  <2>1. cur + FIRST_BLOCK \in Blocks
    BY <1>1 DEF Blocks, FIRST_BLOCK
  <2>2. v \in Entry
    BY <1>1, <2>1 DEF TypeOK, MapType
  <2>3. Nibbles * Nibbles * Nibbles \in Nat
    BY MapCodecAssumption
  <2> HIDE DEF v
  <2> QED BY <2>2, <2>3, BlockMapLoopsAssumption, BlockMapAssumption DEF Entry
<1> HIDE DEF v, L
<1>4. /\ raw' \in [Offsets -> Octet] /\ Unpacked(raw', cur) = v
      /\ \A j \in Index : j # cur => Unpacked(raw', j) = Unpacked(raw, j)
      /\ Unpacked(raw, cur) = v => raw' = raw
      /\ \A k \in Offsets : IF Even(cur) THEN k # Place(cur) /\ k # Place(cur) + 1 => raw'[k] = raw[k]
                            ELSE k # Place(cur) + 1 /\ k # Place(cur) + 2 => raw'[k] = raw[k]
      /\ Even(cur) => Low(raw'[Place(cur) + 1]) = Low(raw[Place(cur) + 1])
  <2>1. CASE Even(cur)
    BY <1>1, <1>2, <1>3, <2>1, PackEven
  <2>2. CASE ~Even(cur)
    BY <1>1, <1>2, <1>3, <2>2, PackOdd
  <2> QED BY <2>1, <2>2
<1>5. TypeOK'
  BY <1>1, <1>4 DEF TypeOK
<1>6. cur' \in 0 .. NBlocks
  BY <1>1
<1>7. Inv'
  BY <1>1, <1>5, <1>6 DEF Inv, WalkIsChain, FreeIsAllOrNothing, AllocateIsFirstFit, AllocatedAre, Done
<1>8. PackedSoFar'
  <2> SUFFICES ASSUME NEW i \in Index
               PROVE  Unpacked(raw', i) = IF i < cur' THEN map'[i + FIRST_BLOCK] ELSE Unpacked(was', i)
    BY DEF PackedSoFar
  <2>1. Unpacked(raw, i) = IF i < cur THEN map[i + FIRST_BLOCK] ELSE Unpacked(was, i)
    BY <1>1 DEF PackedSoFar
  <2>2. CASE i = cur
    BY <1>1, <1>2, <1>4, <2>2 DEF v
  <2>3. CASE i # cur
    <3>1. i < cur' <=> i < cur
      BY <1>1, <1>2, <2>3 DEF Index
    <3> QED BY <1>1, <1>4, <2>1, <2>3, <3>1
  <2> QED BY <2>2, <2>3
<1>9. ASSUME NBlocks % 2 = 1 PROVE Low(raw'[L]) = Low(was'[L])
  <2>1. /\ L \in Offsets
        /\ IF Even(cur) THEN L # Place(cur) ELSE L # Place(cur) + 1 /\ L # Place(cur) + 2
    BY <1>2, <1>9, LastByte DEF L
  <2>2. Low(raw[L]) = Low(was[L])
    BY <1>1, <1>9 DEF ForeignBitsKept, L
  <2>3. Low(raw'[L]) = Low(raw[L])
    <3>1. CASE Even(cur) /\ L = Place(cur) + 1
      BY <1>4, <3>1
    <3>2. CASE ~(Even(cur) /\ L = Place(cur) + 1)
      <4>1. raw'[L] = raw[L]
        BY <1>4, <2>1, <3>2
      <4> QED BY <4>1
    <3> QED BY <3>1, <3>2
  <2> QED BY <1>1, <2>2, <2>3
<1>10. ASSUME \A i \in Index : map'[i + FIRST_BLOCK] = Unpacked(was', i) PROVE raw' = was'
  <2>1. \A i \in Index : map[i + FIRST_BLOCK] = Unpacked(was, i)
    BY <1>1, <1>10
  <2>2. raw = was
    BY <1>1, <2>1 DEF ForeignBitsKept
  <2>3. v = Unpacked(raw, cur)
    BY <1>2, <2>1, <2>2 DEF v
  <2> QED BY <1>1, <1>4, <2>2, <2>3
<1>11. ForeignBitsKept'
  BY <1>9, <1>10 DEF ForeignBitsKept, L
<1> QED BY <1>7, <1>8, <1>11

\* The loop of pack is left.
LEMMA PackDoneInv == ASSUME Inv, PackDone PROVE Inv'
<1>1. /\ pc' = "done" /\ res' = "Ok" /\ op = "pack" /\ TypeOK /\ UNCHANGED <<map, before, op, arg, cur, out, was, raw>>
  BY DEF PackDone, Return, Inv
<1>2. TypeOK'
  BY <1>1 DEF TypeOK
<1> QED BY <1>1, <1>2 DEF Inv, WalkIsChain, FreeIsAllOrNothing, AllocateIsFirstFit, AllocatedAre, Done

-----------------------------------------------------------------------------
(***************************************************************************)
(* The theorems.                                                           *)
(***************************************************************************)
\* What holds of the map, of what a loop has gone through, and of what is packed.
AllInv == Inv /\ PackedSoFar /\ ForeignBitsKept

\* A step that packs nothing leaves what pack has done alone.
LEMMA NotPacking ==
  ASSUME AllInv, op' # "pack" \/ UNCHANGED <<map, op, cur, was, raw>>
  PROVE  PackedSoFar' /\ ForeignBitsKept'
BY DEF AllInv, PackedSoFar, ForeignBitsKept

\* Whatever is called on whatever map, every step of it keeps the invariant.
LEMMA NextInv == AllInv /\ Next => AllInv'
<1> SUFFICES ASSUME AllInv, Next PROVE AllInv'
  OBVIOUS
<1>1. Inv
  BY DEF AllInv
<1>2. ASSUME Inv', op' # "pack" \/ UNCHANGED <<map, op, cur, was, raw>> PROVE AllInv'
  BY <1>2, NotPacking DEF AllInv
<1>3. ASSUME NEW o \in {"chain", "free_chain"}, NEW start \in Entry, CallWalk(o, start) PROVE AllInv'
  <2>1. op' # "pack"
    BY <1>3 DEF CallWalk
  <2> QED BY <1>1, <1>2, <1>3, <2>1, CallWalkInv
<1>4. ASSUME NEW n \in 0 .. (NBlocks + 1), CallAllocate(n) PROVE AllInv'
  <2>1. op' # "pack" /\ n \in Nat
    BY <1>4 DEF CallAllocate
  <2> QED BY <1>1, <1>2, <1>4, <2>1, CallAllocateInv
<1>5. ASSUME NEW filling \in Fillings, CallPack(filling) PROVE AllInv'
  BY <1>1, <1>5, CallPackInv DEF AllInv
<1>7. CASE WalkBreaks \/ WalkCycles \/ WalkEnds \/ WalkMovesOn
  <2>1. op' # "pack"
    BY <1>1, <1>7 DEF Inv, WalkBreaks, WalkCycles, WalkEnds, WalkMovesOn, AtChainBlock
  <2> QED BY <1>1, <1>2, <1>7, <2>1, WalkBreaksInv, WalkCyclesInv, WalkEndsInv, WalkMovesOnInv
<1>8. CASE FreeNext \/ FreeDone
  <2>1. op' # "pack"
    BY <1>1, <1>8 DEF Inv, FreeNext, FreeDone
  <2> QED BY <1>1, <1>2, <1>8, <2>1, FreeNextInv, FreeDoneInv
<1>9. CASE ScanNext \/ LinkNext \/ LinkDone
  <2>1. op' # "pack"
    BY <1>1, <1>9 DEF Inv, ScanNext, LinkNext, LinkDone
  <2> QED BY <1>1, <1>2, <1>9, <2>1, ScanNextInv, LinkNextInv, LinkDoneInv
<1>10. CASE PackNext
  BY <1>1, <1>10, PackNextInv DEF AllInv
<1>11. CASE PackDone
  <2>1. UNCHANGED <<map, op, cur, was, raw>>
    BY <1>11 DEF PackDone
  <2> QED BY <1>1, <1>2, <1>11, <2>1, PackDoneInv
<1>12. CASE Returned
  BY <1>12 DEF Returned, vars, AllInv, Inv, TypeOK, PackedSoFar, ForeignBitsKept, WalkIsChain,
               FreeIsAllOrNothing, AllocateIsFirstFit, AllocatedAre, Done, AtWalk, AtFree, AtScan, AtLink,
               Met, FreeBelow
<1> QED BY <1>3, <1>4, <1>5, <1>7, <1>8, <1>9, <1>10, <1>11, <1>12 DEF Next

\* It holds throughout.
LEMMA Invariant == Spec => []AllInv
<1>1. Init => AllInv
  BY InitInv DEF Init, AllInv, PackedSoFar, ForeignBitsKept
<1>2. AllInv /\ UNCHANGED vars => AllInv'
  BY DEF vars, AllInv, Inv, TypeOK, PackedSoFar, ForeignBitsKept, WalkIsChain,
         FreeIsAllOrNothing, AllocateIsFirstFit, AllocatedAre, Done, AtWalk, AtFree, AtScan, AtLink,
         Met, FreeBelow
<1> QED BY <1>1, <1>2, NextInv, PTL DEF Spec

\* Every value the loops of blockmap.rs hold has its type: an entry of the map stays
\* within 12 bits, a block that is used as an index is within the map.
THEOREM LoopTypes == Spec => []TypeOK
<1>1. AllInv => TypeOK
  BY DEF AllInv, Inv
<1> QED BY <1>1, Invariant, PTL

\* chain() of any map, broken and cyclic ones included: it returns the blocks of the
\* chain in order when the chain ends, and an error when it does not.
THEOREM WalksAreChains == Spec => []WalkIsChain
<1>1. AllInv => WalkIsChain
  BY DEF AllInv, Inv
<1> QED BY <1>1, Invariant, PTL

\* free_chain() of any map frees a whole chain or nothing.
THEOREM FreesAllOrNothing == Spec => []FreeIsAllOrNothing
<1>1. AllInv => FreeIsAllOrNothing
  BY DEF AllInv, Inv
<1> QED BY <1>1, Invariant, PTL

\* allocate() of any map takes the lowest free blocks or none.
THEOREM AllocatesFirstFit == Spec => []AllocateIsFirstFit
<1>1. AllInv => AllocateIsFirstFit
  BY DEF AllInv, Inv
<1> QED BY <1>1, Invariant, PTL

\* The blocks allocate() returns are the chain a later walk meets, on every map whose
\* block numbers are links an entry can hold.
THEOREM AllocatedIsWalked ==
  ASSUME Addressable
  PROVE  Spec => []AllocatedChainWalks
<1>1. AllInv => AllocatedChainWalks
  <2> SUFFICES ASSUME AllInv, Done("allocate"), res = "Ok", arg > 0
               PROVE  ChainOk(map, out[1]) /\ ChainSeq(map, out[1]) = out
    BY DEF AllocatedChainWalks
  <2> DEFINE S == Allotted(before, arg)
             m == Linked(before, S)
             c == ChainSeq(m, Least(S))
  <2>1. /\ arg \in Nat /\ FreeCount(before) >= arg /\ FreeCount(before) \in Nat
        /\ Lists(out, S) /\ Len(out) = arg /\ out \in Seq(Blocks)
    BY FreeCountType DEF AllInv, Inv, AllocatedAre, TypeOK
  <2>2. map = m
    BY <2>1 DEF AllInv, Inv, AllocateIsFirstFit, Allocate
  <2>3. /\ S \in SUBSET Blocks /\ Cardinality(S) = arg
        /\ \A i \in 1 .. arg : out[i] \in S /\ PlaceOf(S, out[i]) = i
    BY <2>1 DEF Lists
  <2>4. 1 \in 1 .. arg
    BY <2>1
  <2> HIDE DEF S, m, c
  <2>5. S # {} /\ S \subseteq Nat
    BY <2>3, <2>4, BlocksFinite
  <2>6. ChainOk(m, Least(S)) /\ Visited(m, Least(S)) = S
    BY <2>3, <2>5, LinkedIsChain DEF m
  <2>7. ASSUME NEW i \in 1 .. arg PROVE c[i] = out[i]
    <3>1. c[i] \in S /\ PlaceOf(S, c[i]) = i
      BY <2>3, LinkedOrder DEF c, m
    <3> QED BY <2>3, <3>1, PlaceOnce
  <2>8. Least(S) = out[1]
    <3>1. Least(S) \in S /\ \A b \in S : Least(S) <= b
      BY <2>5, LeastOf
    <3>2. PICK j \in 1 .. arg : out[j] = Least(S)
      <4>1. \A b \in Blocks : b \in S <=> \E j \in 1 .. Len(out) : out[j] = b
        BY <2>1, ListsAll DEF S
      <4> QED BY <2>1, <2>3, <3>1, <4>1
    <3>3. j = 1
      <4>1. SUFFICES ASSUME j # 1 PROVE FALSE
        OBVIOUS
      <4>2. 1 < j /\ j \in 1 .. Len(out) /\ 1 \in 1 .. Len(out)
        BY <2>1, <4>1
      <4>3. out[1] < out[j]
        BY <2>1, <4>2, ListsAll DEF S
      <4>4. out[1] \in S /\ out[1] \in Nat /\ Least(S) \in Nat
        BY <2>3, <2>4, <2>5, <3>1
      <4> QED BY <3>1, <3>2, <4>3, <4>4
    <3> QED BY <3>2, <3>3
  <2>9. c = out
    <3>1. c = [i \in 1 .. arg |-> c[i]]
      BY <2>3, <2>6 DEF c, ChainSeq
    <3>2. out = [i \in 1 .. arg |-> out[i]]
      BY <2>1
    <3> QED BY <2>7, <3>1, <3>2
  <2> QED BY <2>2, <2>6, <2>8, <2>9 DEF c
<1> QED BY <1>1, Invariant, PTL

\* pack() of a map of any size is the inverse of unpack(), at every round.
THEOREM PackIsInverse == Spec => []PackedSoFar
<1>1. AllInv => PackedSoFar
  BY DEF AllInv
<1> QED BY <1>1, Invariant, PTL

\* pack() of a map that was unpacked from the same bytes leaves them as they are, and
\* it never touches the nibble behind an odd last entry.
THEOREM PackKeepsForeignBits == Spec => []ForeignBitsKept
<1>1. AllInv => ForeignBitsKept
  BY DEF AllInv
<1> QED BY <1>1, Invariant, PTL

-----------------------------------------------------------------------------
(***************************************************************************)
(* How long a call takes: what can be proved of EveryCallReturns, which    *)
(* says besides that a step that can be taken is.                          *)
(***************************************************************************)
\* No more steps than this are left of a call: a walk may still visit the blocks it
\* has not put out, and free_chain gives them back after it; a scan looks at the blocks
\* from cur on, and what it has found is linked after it.
StepsLeft ==
  CASE pc = "call" -> 2 * NBlocks + 4
    [] pc = "walk" -> 2 * NBlocks + 3 - Len(out)
    [] pc = "scan" -> 2 * NBlocks + 4 - cur
    [] pc \in {"free", "link"} -> Len(out) + 2 - cur
    [] pc = "pack" -> NBlocks + 1 - cur
    [] pc = "done" -> 0

\* The number is one, by the loop the call is in.
LEMMA StepsLeftIs ==
  ASSUME Inv
  PROVE  /\ NBlocks \in Nat /\ Len(out) \in Nat /\ StepsLeft \in Nat
         /\ pc = "call" => StepsLeft = 2 * NBlocks + 4 /\ Len(out) = 0
         /\ pc = "walk" => StepsLeft = 2 * NBlocks + 3 - Len(out) /\ Len(out) <= NBlocks
         /\ pc = "scan" => /\ StepsLeft = 2 * NBlocks + 4 - cur /\ Len(out) < arg /\ arg <= NBlocks
                           /\ cur \in Nat /\ cur <= NBlocks + 1 /\ arg \in Nat
         /\ pc \in {"free", "link"} => /\ StepsLeft = Len(out) + 2 - cur
                                       /\ cur \in Nat /\ 1 <= cur /\ cur <= Len(out) + 1
         /\ pc = "pack" => StepsLeft = NBlocks + 1 - cur /\ cur \in Nat /\ cur <= NBlocks
         /\ pc = "done" => StepsLeft = 0
<1>1. NBlocks \in Nat /\ Len(out) \in Nat /\ out \in Seq(Blocks)
  BY BlockMapAssumption DEF Inv, TypeOK
<1>2. CASE pc = "call"
  BY <1>1, <1>2 DEF Inv, StepsLeft
<1>3. CASE pc = "walk"
  BY <1>1, <1>3 DEF Inv, StepsLeft, AtWalk
<1>4. CASE pc = "scan"
  <2>1. AtScan /\ FreeCount(before) \in Nat /\ FreeCount(before) <= NBlocks
    BY <1>4, FreeCountType DEF Inv
  <2>2. cur \in Nat /\ 2 <= cur /\ cur <= NBlocks + 1
    BY <1>1, <2>1 DEF AtScan, Blocks, FIRST_BLOCK
  <2> QED BY <1>1, <1>4, <2>1, <2>2 DEF StepsLeft, AtScan
<1>5. CASE pc \in {"free", "link"}
  <2>1. cur \in 1 .. Len(out) + 1
    BY <1>5 DEF Inv, AtFree, AtLink
  <2> QED BY <1>1, <1>5, <2>1 DEF StepsLeft
<1>6. CASE pc = "pack"
  BY <1>1, <1>6 DEF Inv, StepsLeft
<1>7. CASE pc = "done"
  BY <1>1, <1>7 DEF StepsLeft
<1>8. pc \in {"call", "walk", "free", "scan", "link", "pack", "done"}
  BY DEF Inv, TypeOK
<1> QED BY <1>1, <1>2, <1>3, <1>4, <1>5, <1>6, <1>7, <1>8

\* Every step leaves fewer.
LEMMA FewerLeft ==
  ASSUME Inv, Next, ~UNCHANGED vars
  PROVE  StepsLeft' < StepsLeft
<1>1. /\ NBlocks \in Nat /\ Len(out) \in Nat /\ StepsLeft \in Nat /\ out \in Seq(Blocks)
  BY StepsLeftIs DEF Inv, TypeOK
<1>2. \A b : Len(Append(out, b)) = Len(out) + 1
  BY <1>1
<1>3. ASSUME NEW o \in {"chain", "free_chain"}, NEW start \in Entry, CallWalk(o, start)
      PROVE  StepsLeft' < StepsLeft
  <2>1. pc = "call" /\ pc' = "walk" /\ out' = out
    BY <1>3 DEF CallWalk
  <2>2. StepsLeft' = 2 * NBlocks + 3 - Len(out)
    BY <2>1 DEF StepsLeft
  <2> QED BY <1>1, <2>1, <2>2, StepsLeftIs
<1>4. ASSUME NEW n \in 0 .. (NBlocks + 1), CallAllocate(n)
      PROVE  StepsLeft' < StepsLeft
  <2>1. pc = "call" /\ cur' = 2 /\ (pc' = "done" \/ pc' = "scan")
    BY <1>4 DEF CallAllocate, Return, FIRST_BLOCK
  <2>2. StepsLeft' = 0 \/ StepsLeft' = 2 * NBlocks + 4 - 2
    BY <2>1 DEF StepsLeft
  <2> QED BY <1>1, <2>1, <2>2, StepsLeftIs
<1>5. ASSUME NEW filling \in Fillings, CallPack(filling)
      PROVE  StepsLeft' < StepsLeft
  <2>1. pc = "call" /\ cur' = 0 /\ pc' = "pack"
    BY <1>5 DEF CallPack
  <2>2. StepsLeft' = NBlocks + 1 - 0
    BY <2>1 DEF StepsLeft
  <2> QED BY <1>1, <2>1, <2>2, StepsLeftIs
<1>6. CASE WalkBreaks \/ WalkCycles \/ FreeDone \/ LinkDone \/ PackDone
  <2>1. pc' = "done" /\ pc \in {"walk", "free", "link", "pack"}
    BY <1>6 DEF WalkBreaks, WalkCycles, AtChainBlock, FreeDone, LinkDone, PackDone, Return
  <2>2. StepsLeft' = 0
    BY <2>1 DEF StepsLeft
  <2> QED BY <1>1, <2>1, <2>2, StepsLeftIs
<1>7. CASE WalkEnds
  <2>1. /\ pc = "walk" /\ cur' = 1 /\ out' = Append(out, cur) /\ Len(out) + 1 <= NBlocks
        /\ pc' = "free" \/ pc' = "done"
    BY <1>7 DEF WalkEnds, AtChainBlock, Return
  <2>2. StepsLeft' = 0 \/ StepsLeft' = Len(out) + 1 + 2 - 1
    BY <1>2, <2>1 DEF StepsLeft
  <2> QED BY <1>1, <2>1, <2>2, StepsLeftIs
<1>8. CASE WalkMovesOn
  <2>1. pc = "walk" /\ pc' = "walk" /\ out' = Append(out, cur)
    BY <1>8 DEF WalkMovesOn, AtChainBlock
  <2>2. StepsLeft' = 2 * NBlocks + 3 - (Len(out) + 1)
    BY <1>2, <2>1 DEF StepsLeft
  <2> QED BY <1>1, <2>1, <2>2, StepsLeftIs
<1>9. CASE FreeNext \/ LinkNext
  <2>1. pc \in {"free", "link"} /\ pc' = pc /\ out' = out /\ cur' = cur + 1
    BY <1>9 DEF FreeNext, LinkNext
  <2>2. StepsLeft' = Len(out) + 2 - (cur + 1)
    BY <2>1 DEF StepsLeft
  <2> QED BY <1>1, <2>1, <2>2, StepsLeftIs
<1>10. CASE ScanNext
  <2>1. /\ pc = "scan"
        /\ \/ pc' = "link" /\ cur' = 1 /\ Len(out') = arg
           \/ pc' = "scan" /\ cur' = cur + 1
    BY <1>10 DEF ScanNext
  <2>2. \/ StepsLeft' = arg + 2 - 1
        \/ StepsLeft' = 2 * NBlocks + 4 - (cur + 1)
    BY <2>1 DEF StepsLeft
  <2> QED BY <1>1, <2>1, <2>2, StepsLeftIs
<1>11. CASE PackNext
  <2>1. pc = "pack" /\ pc' = "pack" /\ cur' = cur + 1
    BY <1>11 DEF PackNext
  <2>2. StepsLeft' = NBlocks + 1 - (cur + 1)
    BY <2>1 DEF StepsLeft
  <2> QED BY <1>1, <2>1, <2>2, StepsLeftIs
<1> QED BY <1>3, <1>4, <1>5, <1>6, <1>7, <1>8, <1>9, <1>10, <1>11 DEF Next, Returned

\* Every step of chain, free_chain, allocate and pack, on any map of any size, leaves fewer
\* steps to go, and there are never fewer than none: a call takes 2 * NBlocks + 4 at most,
\* a walk round a cycle as well. And a scan is always at a block of the map.
THEOREM CallsAreBounded ==
  Spec => [](StepsLeft \in Nat /\ (pc = "scan" => cur \in Blocks)) /\ [][StepsLeft' < StepsLeft]_vars
<1>1. AllInv => StepsLeft \in Nat /\ (pc = "scan" => cur \in Blocks)
  BY StepsLeftIs DEF AllInv, Inv, AtScan
<1>2. AllInv /\ [Next]_vars => [StepsLeft' < StepsLeft]_vars
  BY FewerLeft DEF AllInv
<1> QED BY <1>1, <1>2, Invariant, PTL DEF Spec
=============================================================================
