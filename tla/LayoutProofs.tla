---------------------------- MODULE LayoutProofs ----------------------------
(***************************************************************************)
(* What is proved of layouts: the checks made of an image that is opened   *)
(* are enough for every access to a block of it, and format() lays out any *)
(* size it does not refuse soundly. And of the dates of what is laid out:  *)
(* to_ymd_hms keeps in step with the calendar.                             *)
(***************************************************************************)
EXTENDS Mkfs, Timestamp, TLAPS

\* Products with a number that is not negative keep the order.
LEMMA TimesMonotone ==
  ASSUME NEW a \in Int, NEW b \in Int, NEW p \in Nat, a <= b
  PROVE  a * p <= b * p
  OBVIOUS

\* One block more takes up its sectors.
LEMMA OneMore ==
  ASSUME NEW a \in Int, NEW p \in Nat
  PROVE  (a + 1) * p = a * p + p
  OBVIOUS

\* When a block still fits, what is left is a number of sectors.
LEMMA RoomLeft ==
  ASSUME NEW u \in Int, NEW a \in Nat, NEW p \in Nat, p >= 2, ~(a + p > u)
  PROVE  u - a \in Nat /\ p > 0
  OBVIOUS

\* What fits in what is left fits behind what is there.
LEMMA RoomTaken ==
  ASSUME NEW u \in Int, NEW a \in Nat, NEW w \in Int, w <= u - a
  PROVE  a + w <= u
  OBVIOUS

\* A quotient is a number.
LEMMA DivNat ==
  ASSUME NEW a \in Nat, NEW p \in Nat, p > 0
  PROVE  a \div p \in Nat
  BY SMT

\* The checks of Mdb::parse and from_parts are all an opened volume needs for its
\* blocks to lie in the image, behind the directory and apart (block_offset).
THEOREM OpenedBlocksApart ==
  ASSUME NEW g \in Fields, NEW s \in Nat, LayoutOpens(g, s)
  PROVE  BlocksApart(g, s)
<1>. DEFINE n == g.n_blocks  p == g.per_block
<1>1. /\ n \in Nat /\ p \in Nat /\ g.al_bl_st \in Nat /\ g.dir_st \in Nat /\ g.dir_len \in Nat
      /\ g.dir_st + g.dir_len <= g.al_bl_st
      /\ g.al_bl_st + n * p <= s
  BY DEF Fields, LayoutOpens, MdbParses
<1>2. ASSUME NEW b \in BlockNumbers(g)
      PROVE  /\ b \in Int /\ 0 <= b - 2 /\ (b - 2) + 1 <= n
             /\ BlockOffset(g, b) = g.al_bl_st + (b - 2) * p
             /\ BlockOffset(g, b) + p = g.al_bl_st + ((b - 2) + 1) * p
  <2>1. b \in Int /\ 0 <= b - 2 /\ (b - 2) + 1 <= n
    BY <1>1 DEF BlockNumbers, FIRST_BLOCK
  <2>2. ((b - 2) + 1) * p = (b - 2) * p + p
    <3>. HIDE DEF p
    <3>1. b - 2 \in Int
      BY <2>1
    <3>2. p \in Nat
      BY <1>1
    <3>. QED BY <3>1, <3>2, OneMore
  <2>. QED BY <1>1, <2>1, <2>2 DEF BlockOffset, FIRST_BLOCK
<1>3. ASSUME NEW b \in BlockNumbers(g)
      PROVE  g.dir_st + g.dir_len <= BlockOffset(g, b) /\ BlockOffset(g, b) + p <= s
  <2>1. 0 * p <= (b - 2) * p
    BY <1>1, <1>2, TimesMonotone
  <2>2. ((b - 2) + 1) * p <= n * p
    BY <1>1, <1>2, TimesMonotone
  <2>. QED BY <1>1, <1>2, <2>1, <2>2
<1>4. ASSUME NEW b \in BlockNumbers(g), NEW c \in BlockNumbers(g), b < c
      PROVE  BlockOffset(g, b) + p <= BlockOffset(g, c)
  <2>1. ((b - 2) + 1) * p <= (c - 2) * p
    BY <1>1, <1>2, <1>4, TimesMonotone
  <2>. QED BY <1>1, <1>2, <2>1
<1>. QED BY <1>3, <1>4 DEF BlocksApart

\* However many blocks of an opened image of less than 4 GB a fork takes up, their bytes
\* are a number of 32 bits: drAllocLen does not wrap around (write_fork).
THEOREM AllocatedLengthFits ==
  ASSUME NEW g \in Fields, NEW s \in Nat, LayoutOpens(g, s), s <= MaxSectors,
         NEW needed \in Nat, needed <= g.n_blocks
  PROVE  needed * (g.per_block * SECTOR) < 4294967296
<1>. DEFINE n == g.n_blocks  p == g.per_block
<1>1. n \in Nat /\ p \in Nat /\ g.al_bl_st \in Nat /\ g.al_bl_st + n * p <= s
  BY DEF Fields, LayoutOpens
<1>. HIDE DEF p
<1>2. n * p \in Nat /\ needed * p \in Nat
  BY <1>1, SMT
<1>3. needed * p <= n * p
  BY <1>1, TimesMonotone
<1>. HIDE DEF n
<1>4. needed * p <= 8388607
  BY <1>1, <1>2, <1>3, SMT DEF MaxSectors
<1>5. needed * (p * SECTOR) = 512 * (needed * p)
  BY <1>1, SMT DEF SECTOR
<1>. QED BY <1>2, <1>4, <1>5, SMT DEF p

-----------------------------------------------------------------------------
LargestPower == 32768

\* A size rounded up to a power of two is one.
LEMMA PerBlockPositive ==
  ASSUME NEW n \in Nat, n <= LargestPower
  PROVE  PowerOf2From(n) \in Nat
<1>1. \E p \in PowersOf2 : NextFrom(p, n)
  BY SMT DEF PowersOf2, NextFrom, LargestPower
<1>2. PowerOf2From(n) \in PowersOf2
  BY <1>1, Zenon DEF PowerOf2From
<1>. QED BY <1>2, SMT DEF PowersOf2

\* As many as fit: dividing by the size of a block and taking as many leaves
\* nothing over the end.
LEMMA DivFits ==
  ASSUME NEW a \in Int, NEW p \in Nat, p > 0, NEW q \in Int, q <= a \div p
  PROVE  q * p <= a
<1>1. (a \div p) * p <= a
  BY Z3
<1>2. q * p <= (a \div p) * p
  BY TimesMonotone
<1>. QED BY <1>1, <1>2

\* What the loop of geometry() knows: when it is left, the layout it computed is
\* that of the blocks it counted, and they fit.
Fitting ==
  /\ sectors \in Sizes
  /\ nBlocks \in Nat /\ dirSt \in Nat /\ alBlSt \in Nat
  /\ pc \in {"start", "round", "settle", "open", "done"}
  /\ pc # "done" => res = "none"
  /\ pc = "settle" =>
       alBlSt = dirSt + NominalDirLen /\ alBlSt + nBlocks * PerBlock <= Usable
  /\ pc = "open" =>
       /\ geo \in Fields
       /\ geo.al_bl_st + geo.n_blocks * geo.per_block <= Usable
       /\ geo.n_blocks \in 1 .. MAX_BLOCKS
  /\ LayoutSound

\* The quantities the loop computes with are numbers, and a block is two sectors or more.
LEMMA Sizing ==
  ASSUME sectors \in Sizes
  PROVE  /\ sectors \in Nat /\ Usable \in Int /\ Usable = sectors - RESERVED_TAIL_SECTORS
         /\ PerBlock \in Nat /\ PerBlock >= 2
         /\ NominalDirLen \in Nat
<1>1. sectors \in Nat /\ sectors <= MaxSectors
  <2>1. sectors \in 0 .. MaxSectors
    BY MkfsAssumption
  <2>2. \A m \in Nat : \A s \in 0 .. m : s \in Nat /\ s <= m
    OBVIOUS
  <2>3. MaxSectors \in Nat
    BY SMT DEF MaxSectors
  <2>. QED BY <2>1, <2>2, <2>3, Zenon
<1>2. sectors \div TARGET_BLOCKS \in Nat /\ sectors \div TARGET_BLOCKS <= LargestPower
  BY <1>1, SMT DEF TARGET_BLOCKS, MaxSectors, LargestPower
<1>3. PowerOf2From(sectors \div TARGET_BLOCKS) \in Nat
  BY <1>2, PerBlockPositive, Zenon
<1>4. PerBlock \in Nat /\ PerBlock >= 2
  BY <1>3 DEF PerBlock, Larger
<1>5. NominalDirLen \in Nat
  BY <1>1 DEF NominalDirLen, Larger, DIR_SECTORS_PER_400K
<1>. QED BY <1>1, <1>4, <1>5 DEF Usable, RESERVED_TAIL_SECTORS

\* A cast to 16 bits makes a number no larger.
LEMMA CastShrinks ==
  ASSUME NEW a \in Nat
  PROVE  a % WordMod \in Nat /\ a % WordMod <= a
<1>1. a % WordMod \in 0 .. (WordMod - 1) /\ (a < WordMod => a % WordMod = a)
  BY MkfsAssumption DEF MAX_BLOCKS
<1>. QED BY <1>1, MkfsAssumption DEF MAX_BLOCKS

\* The first state is one the loop's invariant allows.
LEMMA InitFits == Init => Fitting
  BY DEF Init, Fitting, LayoutSound

\* What is cast is no more than what was computed, and the number of blocks is
\* small enough not to change.
LEMMA CastFits ==
  ASSUME Fitting, pc = "settle", ~(nBlocks = 0 \/ nBlocks > MAX_BLOCKS)
  PROVE  /\ Geometry \in Fields
         /\ Geometry.al_bl_st + Geometry.n_blocks * Geometry.per_block <= Usable
         /\ Geometry.n_blocks \in 1 .. MAX_BLOCKS
<1>. DEFINE used == nBlocks * PerBlock
<1>1. /\ nBlocks \in 1 .. MAX_BLOCKS /\ dirSt \in Nat /\ alBlSt \in Nat
      /\ sectors \in Sizes /\ alBlSt + used <= Usable
  BY DEF Fitting, MAX_BLOCKS
<1>2. PerBlock \in Nat /\ Usable \in Int /\ NominalDirLen \in Nat
  BY <1>1, Sizing
<1>3. used \in Nat
  BY <1>1, <1>2 DEF MAX_BLOCKS
<1>4. Slack \in Nat /\ alBlSt + Slack = Usable - used
  <2>. HIDE DEF used
  <2>1. Slack = Usable - (alBlSt + used)
    BY DEF Slack, used
  <2>. QED BY <1>1, <1>2, <1>3, <2>1
<1>5. nBlocks % WordMod = nBlocks
  BY <1>1, MkfsAssumption DEF MAX_BLOCKS
<1>6. /\ dirSt % WordMod \in Nat
      /\ (NominalDirLen + Slack) % WordMod \in Nat
      /\ (alBlSt + Slack) % WordMod \in Nat /\ (alBlSt + Slack) % WordMod <= alBlSt + Slack
  BY <1>1, <1>2, <1>4, CastShrinks
<1>7. Geometry \in Fields
  BY <1>1, <1>2, <1>5, <1>6 DEF Geometry, Fields, MAX_BLOCKS
<1>8. ((alBlSt + Slack) % WordMod) + used <= Usable
  BY <1>1, <1>2, <1>3, <1>4, <1>6
<1>9. Geometry.al_bl_st + Geometry.n_blocks * Geometry.per_block <= Usable
  BY <1>5, <1>8 DEF Geometry
<1>. QED BY <1>1, <1>5, <1>7, <1>9 DEF Geometry

\* A round of the loop keeps its invariant.
LEMMA RoundFits ==
  ASSUME Fitting, Round
  PROVE  Fitting'
<1>1. /\ sectors \in Sizes /\ nBlocks \in Nat /\ pc = "round" /\ sectors' = sectors
      /\ dirSt' = 2 + MdbSectors(nBlocks) /\ alBlSt' = dirSt' + NominalDirLen /\ geo' = geo
  BY DEF Fitting, Round
<1>2. /\ sectors \in Nat /\ PerBlock \in Nat /\ PerBlock >= 2 /\ Usable \in Int
      /\ NominalDirLen \in Nat
      /\ Usable' = Usable /\ PerBlock' = PerBlock /\ NominalDirLen' = NominalDirLen
  BY <1>1, Sizing DEF Usable, PerBlock, NominalDirLen
<1>3. MdbSectors(nBlocks) \in Nat
  BY <1>1 DEF MdbSectors, MapBytes, CeilDiv, MDB_LEN, SECTOR
<1>4. dirSt' \in Nat /\ alBlSt' \in Nat
  BY <1>1, <1>2, <1>3
<1>5. CASE alBlSt' + PerBlock > Usable
  <2>1. pc' = "done" /\ nBlocks' = nBlocks /\ res' = "InvalidGeometry"
    BY <1>5 DEF Round, Return
  <2>. QED BY <1>1, <1>4, <2>1 DEF Fitting, LayoutSound
<1>6. CASE ~(alBlSt' + PerBlock > Usable)
  <2>. DEFINE room == Usable - alBlSt'  fit == room \div PerBlock
  <2>1. /\ pc' = IF fit >= nBlocks THEN "settle" ELSE "round"
        /\ nBlocks' = Smaller(nBlocks, fit) /\ res' = res
    BY <1>6 DEF Round
  <2>2. room \in Nat /\ PerBlock > 0
    BY <1>2, <1>4, <1>6, RoomLeft, Zenon
  <2>3. LayoutSound'
    BY <1>1, <2>1 DEF Fitting, LayoutSound
  <2>4. pc' \in {"settle", "round"}
    BY <2>1
  <2>. HIDE DEF fit
  <2>5. fit \in Nat
    <3>. HIDE DEF room
    <3>. QED BY <1>2, <2>2, DivNat DEF fit
  <2>6. nBlocks' \in Nat /\ nBlocks' <= fit
    BY <1>1, <2>1, <2>5 DEF Smaller
  <2>7. nBlocks' * PerBlock <= room
    <3>. HIDE DEF room
    <3>1. room \in Int /\ nBlocks' \in Int
      BY <2>2, <2>6
    <3>. QED BY <1>2, <2>2, <2>6, <3>1, DivFits, Zenon DEF fit
  <2>8. alBlSt' + nBlocks' * PerBlock <= Usable
    <3>. DEFINE used == nBlocks' * PerBlock
    <3>1. used \in Int
      BY <1>2, <2>6
    <3>. HIDE DEF used
    <3>2. used <= Usable - alBlSt'
      BY <2>7 DEF used
    <3>3. alBlSt' + used <= Usable
      BY <1>2, <1>4, <3>1, <3>2, RoomTaken, Zenon
    <3>. QED BY <3>3 DEF used
  <2>9. res' = "none"
    BY <1>1, <2>1, Zenon DEF Fitting
  <2>10. alBlSt' = dirSt' + NominalDirLen' /\ alBlSt' + nBlocks' * PerBlock' <= Usable'
    BY <1>1, <1>2, <2>8, Zenon
  <2>. QED BY <1>1, <1>4, <2>3, <2>4, <2>6, <2>9, <2>10, Zenon DEF Fitting
<1>. QED BY <1>5, <1>6

\* So does every step of format().
LEMMA StepFits ==
  ASSUME Fitting, [Next]_vars
  PROVE  Fitting'
<1>1. CASE Start
  <2>1. /\ sectors \in Sizes /\ sectors' = sectors /\ dirSt' = dirSt /\ alBlSt' = alBlSt
        /\ pc = "start"
    BY <1>1 DEF Fitting, Start
  <2>2. CASE Refused
    <3>1. pc' = "done" /\ nBlocks' = nBlocks /\ res' = "InvalidGeometry"
      BY <1>1, <2>2 DEF Start, Return
    <3>. QED BY <2>1, <3>1 DEF Fitting, LayoutSound
  <2>3. CASE ~Refused
    <3>1. pc' = "round" /\ nBlocks' = Usable \div PerBlock /\ res' = res /\ geo' = geo
      BY <1>1, <2>3 DEF Start
    <3>2. Usable \in Nat
      BY <2>1, <2>3, Sizing DEF Refused, Usable, MIN_SECTORS, RESERVED_TAIL_SECTORS
    <3>3. nBlocks' \in Nat
      BY <2>1, <3>1, <3>2, Sizing, DivNat
    <3>4. LayoutSound'
      BY <2>1, <3>1 DEF Fitting, LayoutSound
    <3>. QED BY <2>1, <3>1, <3>3, <3>4 DEF Fitting
  <2>. QED BY <2>2, <2>3
<1>2. CASE Round
  BY <1>2, RoundFits
<1>3. CASE Settle
  <2>1. /\ sectors' = sectors /\ nBlocks' = nBlocks /\ dirSt' = dirSt /\ alBlSt' = alBlSt
        /\ pc = "settle"
    BY <1>3 DEF Settle
  <2>2. CASE nBlocks = 0 \/ nBlocks > MAX_BLOCKS
    <3>1. pc' = "done" /\ res' = "InvalidGeometry"
      BY <1>3, <2>2 DEF Settle, Return
    <3>. QED BY <2>1, <3>1 DEF Fitting, LayoutSound
  <2>3. CASE ~(nBlocks = 0 \/ nBlocks > MAX_BLOCKS)
    <3>1. geo' = Geometry /\ pc' = "open" /\ res' = res
      BY <1>3, <2>3 DEF Settle
    <3>2. /\ Geometry \in Fields
          /\ Geometry.al_bl_st + Geometry.n_blocks * Geometry.per_block <= Usable
          /\ Geometry.n_blocks \in 1 .. MAX_BLOCKS
      BY <2>1, <2>3, CastFits
    <3>3. Usable' = Usable
      BY <2>1 DEF Usable
    <3>4. LayoutSound'
      BY <2>1, <3>1, Zenon DEF Fitting, LayoutSound
    <3>. QED BY <2>1, <3>1, <3>2, <3>3, <3>4 DEF Fitting
  <2>. QED BY <2>2, <2>3
<1>4. CASE Open
  <2>1. /\ sectors' = sectors /\ nBlocks' = nBlocks /\ dirSt' = dirSt /\ alBlSt' = alBlSt
        /\ geo' = geo /\ pc = "open" /\ pc' = "done"
        /\ res' = IF LayoutOpens(geo, sectors) THEN "Ok" ELSE "CorruptVolume"
    BY <1>4 DEF Open, Return
  <2>2. LayoutOpens(geo, sectors) =>
          /\ MDB_LEN + MapBytes(geo.n_blocks) <= (geo.dir_st - 2) * SECTOR
          /\ geo.dir_st + geo.dir_len <= geo.al_bl_st
    BY DEF LayoutOpens, MdbParses, MDB_SECTOR
  <2>3. /\ geo.al_bl_st + geo.n_blocks * geo.per_block <= sectors - RESERVED_TAIL_SECTORS
        /\ geo.n_blocks \in 1 .. MAX_BLOCKS
    BY <2>1 DEF Fitting, Usable
  <2>4. CASE LayoutOpens(geo, sectors)
    <3>1. /\ MDB_LEN + MapBytes(geo'.n_blocks) <= (geo'.dir_st - 2) * SECTOR
          /\ geo'.dir_st + geo'.dir_len <= geo'.al_bl_st
          /\ geo'.al_bl_st + geo'.n_blocks * geo'.per_block <= sectors' - RESERVED_TAIL_SECTORS
          /\ geo'.n_blocks \in 1 .. MAX_BLOCKS
      BY <2>1, <2>2, <2>3, <2>4, Zenon
    <3>2. LayoutSound'
      BY <3>1, Zenon DEF LayoutSound
    <3>. QED BY <2>1, <3>2 DEF Fitting
  <2>5. CASE ~LayoutOpens(geo, sectors)
    <3>1. LayoutSound'
      BY <2>1, <2>5 DEF LayoutSound
    <3>. QED BY <2>1, <3>1 DEF Fitting
  <2>. QED BY <2>4, <2>5
<1>5. CASE UNCHANGED vars
  BY <1>5 DEF vars, Fitting, LayoutSound, Usable, PerBlock, NominalDirLen
<1>. QED BY <1>1, <1>2, <1>3, <1>4, <1>5 DEF Next, Returned

\* The layout of every disk format() makes is sound, whatever size is asked for.
THEOREM FormatLayoutSound == Spec => []LayoutSound
<1>1. Init => Fitting
  BY InitFits
<1>2. Fitting /\ [Next]_vars => Fitting'
  BY StepFits
<1>3. Fitting => LayoutSound
  BY DEF Fitting
<1>. QED BY <1>1, <1>2, <1>3, PTL DEF Spec

-----------------------------------------------------------------------------
(***************************************************************************)
(* What the circular computation settles on.                               *)
(***************************************************************************)

\* No more blocks than this come of any size: one is at least a 400th of the disk,
\* or two sectors; and the map of as many takes two sectors at most.
MostBlocks  == 600
MostMapping == 2

\* What geometry() knows besides: the layout leaves the map of the blocks its
\* sectors, and one block more, with the longest map, would not have fitted.
Laid ==
  /\ alBlSt = dirSt + NominalDirLen
  /\ dirSt >= 2 + MdbSectors(nBlocks)
  /\ alBlSt + nBlocks * PerBlock <= Usable

Opens == pc = "done" /\ res \in {"Ok", "CorruptVolume"}

OneMoreTooMany == 2 + MostMapping + NominalDirLen + (nBlocks + 1) * PerBlock > Usable

Settling ==
  /\ nBlocks <= MostBlocks
  /\ pc # "start" /\ res # "InvalidGeometry" => OneMoreTooMany
  /\ pc \in {"settle", "open"} \/ Opens => Laid
  /\ pc = "open" \/ Opens => geo = Geometry /\ nBlocks \in 1 .. MAX_BLOCKS
  /\ NothingStranded /\ FormattedOpens

\* A block is the 400th part of the disk, or more.
LEMMA BlockIsAPart ==
  ASSUME sectors \in Sizes
  PROVE  PerBlock >= sectors \div TARGET_BLOCKS
<1>1. sectors \in Nat /\ sectors <= MaxSectors
  <2>1. sectors \in 0 .. MaxSectors
    BY MkfsAssumption
  <2>2. \A m \in Nat : \A s \in 0 .. m : s \in Nat /\ s <= m
    OBVIOUS
  <2>3. MaxSectors \in Nat
    BY SMT DEF MaxSectors
  <2>. QED BY <2>1, <2>2, <2>3, Zenon
<1>. DEFINE n == sectors \div TARGET_BLOCKS
<1>2. n \in Nat /\ n <= LargestPower
  BY <1>1, SMT DEF TARGET_BLOCKS, MaxSectors, LargestPower
<1>. HIDE DEF n
<1>3. \E p \in PowersOf2 : NextFrom(p, n)
  BY <1>2, SMT DEF PowersOf2, NextFrom, LargestPower
<1>4. PowerOf2From(n) \in PowersOf2 /\ NextFrom(PowerOf2From(n), n)
  BY <1>3, Zenon DEF PowerOf2From
<1>5. PowerOf2From(n) \in Nat
  BY <1>2, PerBlockPositive
<1>6. PowerOf2From(n) >= n
  BY <1>4 DEF NextFrom
<1>7. Larger(PowerOf2From(n), 2) >= n
  BY <1>2, <1>5, <1>6 DEF Larger
<1>. QED BY <1>7 DEF n, PerBlock

\* So there are few.
LEMMA FewBlocks ==
  ASSUME sectors \in Sizes, NEW k \in Nat, k * PerBlock <= Usable
  PROVE  k <= MostBlocks
<1>. DEFINE p == PerBlock
           q == sectors \div TARGET_BLOCKS
           u == Usable
<1>1. p \in Nat /\ p >= 2 /\ p >= q /\ u \in Int /\ sectors \in Nat /\ u = sectors - 2
  BY Sizing, BlockIsAPart DEF RESERVED_TAIL_SECTORS
<1>2. q \in Nat /\ sectors < 400 * q + 400
  BY <1>1, SMT DEF TARGET_BLOCKS
<1>3. k * p <= u
  OBVIOUS
<1>. HIDE DEF p, q, u
<1>4. u < 600 * p
  BY <1>1, <1>2
<1>5. SUFFICES ASSUME ~(k <= MostBlocks) PROVE FALSE
  OBVIOUS
<1>6. 601 * p <= k * p
  <2>1. 601 <= k /\ 601 \in Int /\ k \in Int
    BY <1>5 DEF MostBlocks
  <2>. QED BY <1>1, <2>1, TimesMonotone
<1>7. k * p \in Int
  BY <1>1
<1>. QED BY <1>1, <1>3, <1>4, <1>6, <1>7

\* More blocks need no fewer sectors for their map, and the map of any as many as
\* there can be takes one or two.
LEMMA MappingGrows ==
  ASSUME NEW a \in Nat, NEW b \in Nat, a <= b
  PROVE  /\ MdbSectors(a) \in Nat /\ MdbSectors(a) >= 1
         /\ MdbSectors(a) <= MdbSectors(b)
         /\ MDB_LEN + MapBytes(a) <= MdbSectors(a) * SECTOR
         /\ a <= MostBlocks => MdbSectors(a) <= MostMapping
<1>. DEFINE x == (3 * a + 2 - 1) \div 2
           y == (3 * b + 2 - 1) \div 2
<1>1. MapBytes(a) = x /\ MapBytes(b) = y
  BY DEF MapBytes, CeilDiv
<1>2. x \in Nat /\ y \in Nat /\ x <= y /\ (a <= 600 => x <= 900)
  BY SMT
<1>3. /\ MdbSectors(a) = (64 + x + 512 - 1) \div 512
      /\ MdbSectors(b) = (64 + y + 512 - 1) \div 512
  BY <1>1 DEF MdbSectors, CeilDiv, MDB_LEN, SECTOR
<1>. HIDE DEF x, y
<1>4. /\ (64 + x + 512 - 1) \div 512 \in Nat /\ (64 + x + 512 - 1) \div 512 >= 1
      /\ (64 + x + 512 - 1) \div 512 <= (64 + y + 512 - 1) \div 512
      /\ 64 + x <= ((64 + x + 512 - 1) \div 512) * 512
      /\ x <= 900 => (64 + x + 512 - 1) \div 512 <= 2
  BY <1>2, SMT
<1>. QED BY <1>1, <1>2, <1>3, <1>4 DEF MDB_LEN, SECTOR, MostBlocks, MostMapping

\* Dividing leaves less than one more.
LEMMA DivLeaves ==
  ASSUME NEW a \in Int, NEW p \in Nat, p > 0
  PROVE  (a \div p + 1) * p > a
<1>1. a < (a \div p) * p + p
  BY Z3
<1>2. (a \div p + 1) * p = (a \div p) * p + p
  BY OneMore
<1>. QED BY <1>1, <1>2

\* No number of blocks is cast to another, and none below 2^16 is.
LEMMA CastKeeps ==
  ASSUME NEW a \in Nat, a < WordMod
  PROVE  a % WordMod = a
  BY MkfsAssumption

\* Where sector numbers fit 16 bits nothing of what was laid out is lost in them.
LEMMA LaidOpens ==
  ASSUME Fitting, Laid, nBlocks \in 1 .. MAX_BLOCKS, alBlSt + Slack < WordMod
  PROVE  /\ Geometry.dir_st + Geometry.dir_len = Geometry.al_bl_st
         /\ Geometry.al_bl_st + Geometry.n_blocks * Geometry.per_block = Usable
         /\ LayoutOpens(Geometry, sectors)
<1>. DEFINE used == nBlocks * PerBlock
<1>1. /\ nBlocks \in Nat /\ nBlocks <= MAX_BLOCKS /\ dirSt \in Nat /\ alBlSt \in Nat
      /\ sectors \in Sizes /\ alBlSt + used <= Usable /\ alBlSt = dirSt + NominalDirLen
      /\ dirSt >= 2 + MdbSectors(nBlocks)
  BY DEF Fitting, Laid, MAX_BLOCKS
<1>2. /\ PerBlock \in Nat /\ PerBlock >= 2 /\ Usable \in Int /\ NominalDirLen \in Nat
      /\ sectors \in Nat /\ Usable <= sectors
  BY <1>1, Sizing DEF RESERVED_TAIL_SECTORS
<1>3. used \in Nat
  BY <1>1, <1>2
<1>4. NominalDirLen >= 1
  BY <1>1, <1>2 DEF NominalDirLen, Larger, DIR_SECTORS_PER_400K
<1>5. /\ MdbSectors(nBlocks) \in Nat /\ MdbSectors(nBlocks) >= 1
      /\ MDB_LEN + MapBytes(nBlocks) <= MdbSectors(nBlocks) * SECTOR
  BY <1>1, MappingGrows
<1>6. Slack = Usable - (alBlSt + used)
  BY DEF Slack
<1>. DEFINE s == Slack
<1>7. s \in Nat /\ alBlSt + s = Usable - used /\ alBlSt + s < WordMod
  <2>. HIDE DEF used
  <2>. QED BY <1>1, <1>2, <1>3, <1>6
<1>. HIDE DEF s, used
<1>8. /\ dirSt \in Nat /\ dirSt < WordMod /\ NominalDirLen + s \in Nat /\ NominalDirLen + s < WordMod
      /\ alBlSt + s \in Nat /\ nBlocks < WordMod
  BY <1>1, <1>2, <1>5, <1>7, MkfsAssumption DEF MAX_BLOCKS
<1>9. /\ dirSt % WordMod = dirSt /\ (NominalDirLen + s) % WordMod = NominalDirLen + s
      /\ (alBlSt + s) % WordMod = alBlSt + s /\ nBlocks % WordMod = nBlocks
  BY <1>1, <1>7, <1>8, CastKeeps
<1>. DEFINE g == Geometry
<1>10. /\ g.dir_st = dirSt /\ g.dir_len = NominalDirLen + s /\ g.al_bl_st = alBlSt + s
       /\ g.n_blocks = nBlocks /\ g.per_block = PerBlock
  BY <1>9 DEF Geometry, s
<1>. HIDE DEF g
<1>11. g.dir_st + g.dir_len = g.al_bl_st
  BY <1>1, <1>2, <1>7, <1>10
<1>12. g.al_bl_st + g.n_blocks * g.per_block = Usable
  <2>1. g.n_blocks * g.per_block = used
    BY <1>10 DEF used
  <2>. QED BY <1>1, <1>2, <1>3, <1>7, <1>10, <2>1
<1>13. LayoutOpens(g, sectors)
  <2>1. MdbParses(g)
    BY <1>1, <1>2, <1>4, <1>5, <1>7, <1>10, <1>11 DEF MdbParses, MDB_SECTOR
  <2>2. g.al_bl_st <= sectors
    BY <1>1, <1>2, <1>3, <1>7, <1>10
  <2>3. MdbSectors(nBlocks) * SECTOR <= (g.dir_st - MDB_SECTOR) * SECTOR
    <3>1. MdbSectors(nBlocks) <= g.dir_st - MDB_SECTOR /\ g.dir_st - MDB_SECTOR \in Int /\ SECTOR \in Nat
      BY <1>1, <1>5, <1>10 DEF MDB_SECTOR, SECTOR
    <3>. QED BY <1>5, <3>1, TimesMonotone
  <2>4. MDB_LEN + MapBytes(g.n_blocks) <= (g.dir_st - MDB_SECTOR) * SECTOR
    <3>1. /\ MDB_LEN + MapBytes(nBlocks) \in Int /\ MdbSectors(nBlocks) * SECTOR \in Int
          /\ (g.dir_st - MDB_SECTOR) * SECTOR \in Int
      BY <1>1, <1>5, <1>10 DEF MDB_LEN, MapBytes, CeilDiv, MDB_SECTOR, SECTOR
    <3>. QED BY <1>5, <1>10, <2>3, <3>1
  <2>. QED BY <1>2, <1>11, <1>12, <2>1, <2>2, <2>4 DEF LayoutOpens
<1>. QED BY <1>11, <1>12, <1>13 DEF g

\* The loop counts down: the first count has no room for the map and the directory,
\* each further one has room for those of the count before.
LEMMA StartSettles ==
  ASSUME Fitting, Settling, Start
  PROVE  Settling'
<1>1. /\ sectors \in Sizes /\ pc = "start" /\ res = "none" /\ sectors' = sectors /\ dirSt' = dirSt
      /\ alBlSt' = alBlSt /\ geo' = geo /\ nBlocks \in Nat /\ nBlocks <= MostBlocks
  BY DEF Fitting, Settling, Start
<1>2. /\ PerBlock' = PerBlock /\ Usable' = Usable /\ NominalDirLen' = NominalDirLen
  BY <1>1 DEF PerBlock, Usable, NominalDirLen
<1>3. CASE Refused
  <2>1. pc' = "done" /\ nBlocks' = nBlocks /\ res' = "InvalidGeometry"
    BY <1>1, <1>3 DEF Start, Return
  <2>. QED BY <1>1, <2>1 DEF Settling, Opens, NothingStranded, FormattedOpens
<1>4. CASE ~Refused
  <2>1. pc' = "round" /\ nBlocks' = Usable \div PerBlock /\ res' = "none"
    BY <1>1, <1>4 DEF Start
  <2>2. Usable \in Nat /\ PerBlock \in Nat /\ PerBlock >= 2 /\ NominalDirLen \in Nat
    BY <1>1, <1>4, Sizing DEF Refused, Usable, MIN_SECTORS, RESERVED_TAIL_SECTORS
  <2>3. nBlocks' \in Nat
    BY <2>1, <2>2, DivNat
  <2>4. nBlocks' * PerBlock <= Usable
    BY <2>1, <2>2, <2>3, DivFits
  <2>5. nBlocks' <= MostBlocks
    BY <1>1, <2>3, <2>4, FewBlocks
  <2>6. OneMoreTooMany'
    <3>1. (nBlocks' + 1) * PerBlock > Usable
      BY <2>1, <2>2, DivLeaves
    <3>2. (nBlocks' + 1) * PerBlock \in Int
      BY <2>2, <2>3
    <3>3. 2 + MostMapping + NominalDirLen + (nBlocks' + 1) * PerBlock > Usable
      <4>. DEFINE e == (nBlocks' + 1) * PerBlock
      <4>1. e \in Int /\ e > Usable
        BY <3>1, <3>2
      <4>. HIDE DEF e
      <4>2. 2 + MostMapping + NominalDirLen + e > Usable
        BY <2>2, <4>1 DEF MostMapping
      <4>. QED BY <4>2 DEF e
    <3>. QED BY <1>2, <3>3 DEF OneMoreTooMany
  <2>. QED BY <2>1, <2>5, <2>6 DEF Settling, Opens, NothingStranded, FormattedOpens
<1>. QED BY <1>3, <1>4

\* A round keeps that one block more than were counted would not fit.
LEMMA RoundSettles ==
  ASSUME Fitting, Settling, Round
  PROVE  Settling'
<1>1. /\ sectors \in Sizes /\ pc = "round" /\ res = "none" /\ sectors' = sectors /\ geo' = geo
      /\ nBlocks \in Nat /\ nBlocks <= MostBlocks /\ OneMoreTooMany
      /\ dirSt' = 2 + MdbSectors(nBlocks) /\ alBlSt' = dirSt' + NominalDirLen
  BY DEF Fitting, Settling, Round
<1>2. /\ PerBlock' = PerBlock /\ Usable' = Usable /\ NominalDirLen' = NominalDirLen
  BY <1>1 DEF PerBlock, Usable, NominalDirLen
<1>3. /\ PerBlock \in Nat /\ PerBlock >= 2 /\ Usable \in Int /\ NominalDirLen \in Nat
      /\ MdbSectors(nBlocks) \in Nat /\ MdbSectors(nBlocks) <= MostMapping
  BY <1>1, Sizing, MappingGrows
<1>4. CASE alBlSt' + PerBlock > Usable
  <2>1. pc' = "done" /\ nBlocks' = nBlocks /\ res' = "InvalidGeometry"
    BY <1>4 DEF Round, Return
  <2>. QED BY <1>1, <2>1 DEF Settling, Opens, NothingStranded, FormattedOpens
<1>5. CASE ~(alBlSt' + PerBlock > Usable)
  <2>. DEFINE room == Usable - alBlSt'  fit == room \div PerBlock
  <2>1. /\ pc' = IF fit >= nBlocks THEN "settle" ELSE "round"
        /\ nBlocks' = Smaller(nBlocks, fit) /\ res' = "none"
    BY <1>1, <1>5 DEF Round
  <2>2. room \in Nat /\ alBlSt' \in Nat /\ PerBlock > 0
    <3>1. alBlSt' \in Nat
      BY <1>1, <1>3
    <3>. QED BY <1>3, <1>5, <3>1, RoomLeft, Zenon
  <2>. HIDE DEF fit
  <2>3. fit \in Nat
    <3>. HIDE DEF room
    <3>. QED BY <1>3, <2>2, DivNat DEF fit
  <2>4. nBlocks' \in Nat /\ nBlocks' <= fit /\ nBlocks' <= nBlocks /\ nBlocks' <= MostBlocks
    BY <1>1, <2>1, <2>3 DEF Smaller, MostBlocks
  <2>5. CASE fit >= nBlocks
    <3>1. nBlocks' = nBlocks /\ pc' = "settle"
      BY <1>1, <2>1, <2>3, <2>5 DEF Smaller
    <3>2. OneMoreTooMany'
      BY <1>1, <1>2, <3>1 DEF OneMoreTooMany
    <3>3. Laid'
      <4>. DEFINE used == nBlocks * PerBlock
      <4>1. used <= room
        <5>. HIDE DEF room
        <5>. QED BY <1>1, <1>3, <2>2, <2>5, DivFits DEF fit
      <4>2. used \in Int
        BY <1>1, <1>3
      <4>. HIDE DEF used
      <4>3. alBlSt' + used <= Usable
        BY <1>3, <2>2, <4>1, <4>2, RoomTaken, Zenon
      <4>4. MdbSectors(nBlocks)' = MdbSectors(nBlocks)
        BY <3>1 DEF MdbSectors, MapBytes, CeilDiv, MDB_LEN, SECTOR
      <4>. QED BY <1>1, <1>2, <1>3, <3>1, <4>3, <4>4 DEF Laid, used
    <3>. QED BY <2>1, <2>4, <3>1, <3>2, <3>3 DEF Settling, Opens, NothingStranded, FormattedOpens
  <2>6. CASE ~(fit >= nBlocks)
    <3>1. nBlocks' = fit /\ pc' = "round"
      BY <1>1, <2>1, <2>3, <2>6 DEF Smaller
    <3>2. OneMoreTooMany'
      <4>. DEFINE e == (nBlocks' + 1) * PerBlock
      <4>1. e > room
        <5>. HIDE DEF room
        <5>. QED BY <1>3, <2>2, <3>1, DivLeaves DEF fit
      <4>2. e \in Int
        BY <1>3, <2>4
      <4>. HIDE DEF e
      <4>3. 2 + MostMapping + NominalDirLen + e > Usable
        BY <1>1, <1>3, <2>2, <4>1, <4>2 DEF MostMapping
      <4>. QED BY <1>2, <4>3 DEF OneMoreTooMany, e
    <3>. QED BY <2>1, <2>4, <3>1, <3>2 DEF Settling, Opens, NothingStranded, FormattedOpens
  <2>. QED BY <2>5, <2>6
<1>. QED BY <1>4, <1>5

\* What is then stored is what was laid out, and opens where sector numbers fit.
LEMMA StoredSettles ==
  ASSUME Fitting, Settling, Settle \/ Open
  PROVE  Settling'
<1>1. /\ pc \in {"settle", "open"} /\ res = "none" /\ sectors' = sectors /\ nBlocks' = nBlocks
      /\ dirSt' = dirSt /\ alBlSt' = alBlSt /\ nBlocks <= MostBlocks /\ OneMoreTooMany /\ Laid
  BY DEF Fitting, Settling, Settle, Open
<1>2. /\ PerBlock' = PerBlock /\ Usable' = Usable /\ NominalDirLen' = NominalDirLen
  BY <1>1 DEF PerBlock, Usable, NominalDirLen
<1>3. Slack' = Slack /\ Geometry' = Geometry /\ OneMoreTooMany' /\ Laid'
  <2>1. Slack' = Slack
    BY <1>1, <1>2 DEF Slack
  <2>. QED BY <1>1, <1>2, <2>1 DEF Geometry, OneMoreTooMany, Laid
<1>4. CASE Settle
  <2>1. CASE nBlocks = 0 \/ nBlocks > MAX_BLOCKS
    <3>1. pc' = "done" /\ res' = "InvalidGeometry"
      BY <1>4, <2>1 DEF Settle, Return
    <3>. QED BY <1>1, <1>3, <3>1 DEF Settling, Opens, NothingStranded, FormattedOpens
  <2>2. CASE ~(nBlocks = 0 \/ nBlocks > MAX_BLOCKS)
    <3>1. geo' = Geometry /\ pc' = "open" /\ res' = "none"
      BY <1>1, <1>4, <2>2 DEF Settle
    <3>2. nBlocks \in 1 .. MAX_BLOCKS
      BY <2>2 DEF Fitting, MAX_BLOCKS
    <3>. QED BY <1>1, <1>3, <3>1, <3>2 DEF Settling, Opens, NothingStranded, FormattedOpens
  <2>. QED BY <2>1, <2>2
<1>5. CASE Open
  <2>1. /\ pc = "open" /\ pc' = "done" /\ geo' = geo /\ geo = Geometry /\ nBlocks \in 1 .. MAX_BLOCKS
        /\ res' = IF LayoutOpens(geo, sectors) THEN "Ok" ELSE "CorruptVolume"
    BY <1>5 DEF Open, Return, Settling
  <2>2. alBlSt + Slack < WordMod =>
          /\ Geometry.dir_st + Geometry.dir_len = Geometry.al_bl_st
          /\ Geometry.al_bl_st + Geometry.n_blocks * Geometry.per_block = Usable
          /\ LayoutOpens(Geometry, sectors)
    BY <1>1, <2>1, LaidOpens
  <2>3. NothingStranded'
    BY <1>1, <1>2, <1>3, <2>1, <2>2 DEF NothingStranded
  <2>4. FormattedOpens'
    <3>1. alBlSt + Slack \in Int
      <4>. DEFINE used == nBlocks * PerBlock
      <4>1. nBlocks \in Nat /\ PerBlock \in Nat /\ Usable \in Int /\ alBlSt \in Nat
        BY Sizing DEF Fitting
      <4>2. used \in Int
        BY <4>1
      <4>. HIDE DEF used
      <4>3. Slack = Usable - (alBlSt + used)
        BY DEF Slack, used
      <4>. QED BY <4>1, <4>2, <4>3
    <3>2. ~(alBlSt + Slack < WordMod) => alBlSt + Slack >= WordMod
      BY <3>1, MkfsAssumption
    <3>. QED BY <1>1, <1>3, <2>1, <2>2, <3>2 DEF FormattedOpens
  <2>. QED BY <1>1, <1>3, <2>1, <2>3, <2>4 DEF Settling
<1>. QED BY <1>4, <1>5

\* Both invariants hold at every step of format().
LEMMA AlwaysSettling == Spec => [](Fitting /\ Settling)
<1>1. Init => Fitting /\ Settling
  <2>1. Init => Settling
    BY DEF Init, Settling, Opens, MostBlocks, NothingStranded, FormattedOpens
  <2>. QED BY <2>1, InitFits
<1>2. Fitting /\ Settling /\ [Next]_vars => (Fitting /\ Settling)'
  <2>1. Fitting /\ Settling /\ UNCHANGED vars => Settling'
    <3>. SUFFICES ASSUME Settling, UNCHANGED vars PROVE Settling'
      OBVIOUS
    <3>1. PerBlock' = PerBlock /\ Usable' = Usable /\ NominalDirLen' = NominalDirLen
      BY DEF vars, PerBlock, Usable, NominalDirLen
    <3>2. Slack' = Slack
      BY <3>1 DEF vars, Slack
    <3>3. MdbSectors(nBlocks)' = MdbSectors(nBlocks)
      BY DEF vars, MdbSectors, MapBytes, CeilDiv, MDB_LEN, SECTOR
    <3>. QED BY <3>1, <3>2, <3>3 DEF vars, Settling, Opens, NothingStranded, FormattedOpens, Laid,
                OneMoreTooMany, Geometry
  <2>. QED BY <2>1, StepFits, StartSettles, RoundSettles, StoredSettles DEF Next, Returned
<1>. QED BY <1>1, <1>2, PTL DEF Spec

\* Rule 3 of geometry(): what no block can use goes to the directory, and nothing
\* lies between the parts of the volume or before the reserved tail.
THEOREM FormattedUsesAll == Spec => []NothingStranded
<1>1. Settling => NothingStranded
  BY DEF Settling
<1>. QED BY <1>1, AlwaysSettling, PTL

\* What geometry() lays out in 16-bit sector numbers, format() opens.
THEOREM WhatIsFormattedOpens == Spec => []FormattedOpens
<1>1. Settling => FormattedOpens
  BY DEF Settling
<1>. QED BY <1>1, AlwaysSettling, PTL

\* The circular computation of geometry() leaves at most one block unused.
THEOREM NearlyAllAreUsed == Spec => []NearlyAllBlocks
<1>1. Fitting /\ Settling => NearlyAllBlocks
  <2>. SUFFICES ASSUME Fitting, Settling, res = "Ok"
       PROVE  2 + MdbSectors(nBlocks + 2) + NominalDirLen + (nBlocks + 2) * PerBlock > Usable
    BY DEF NearlyAllBlocks
  <2>1. /\ nBlocks \in Nat /\ sectors \in Sizes /\ pc = "done" /\ OneMoreTooMany
    BY DEF Fitting, Settling
  <2>2. PerBlock \in Nat /\ PerBlock >= 2 /\ Usable \in Int /\ NominalDirLen \in Nat
    BY <2>1, Sizing
  <2>3. nBlocks + 2 \in Nat /\ nBlocks + 2 <= nBlocks + 2
    BY <2>1
  <2>4. MdbSectors(nBlocks + 2) \in Nat /\ MdbSectors(nBlocks + 2) >= 1
    BY <2>3, MappingGrows
  <2>. DEFINE e == (nBlocks + 1) * PerBlock
  <2>5. (nBlocks + 2) * PerBlock = e + PerBlock
    <3>1. nBlocks + 1 \in Int /\ (nBlocks + 1) + 1 = nBlocks + 2
      BY <2>1
    <3>. QED BY <2>2, <3>1, OneMore
  <2>6. e \in Int /\ 4 + NominalDirLen + e > Usable
    BY <2>1, <2>2 DEF OneMoreTooMany, MostMapping
  <2>. HIDE DEF e
  <2>. DEFINE m == MdbSectors(nBlocks + 2)
  <2>7. m \in Nat /\ m >= 1
    BY <2>4
  <2>. HIDE DEF m
  <2>8. 2 + m + NominalDirLen + (e + PerBlock) > Usable
    BY <2>2, <2>6, <2>7
  <2>. QED BY <2>5, <2>8 DEF m
<1>. QED BY <1>1, AlwaysSettling, PTL

-----------------------------------------------------------------------------
(***************************************************************************)
(* How long it takes: what can be proved of FormatReturns, which says      *)
(* besides that a step that can be taken is.                               *)
(***************************************************************************)
\* No more steps than this are left of format(): every round but the last takes a block
\* off.
StepsLeft ==
  CASE pc = "start" -> MostBlocks + 4
    [] pc = "round" -> nBlocks + 3
    [] pc = "settle" -> 2
    [] pc = "open" -> 1
    [] pc = "done" -> 0

\* Every step leaves fewer.
LEMMA FewerLeft ==
  ASSUME Fitting, Settling, Settling', Fitting', Next, ~UNCHANGED vars
  PROVE  StepsLeft' < StepsLeft
<1>1. nBlocks \in Nat /\ nBlocks' \in Nat /\ nBlocks' <= 600
  BY DEF Fitting, Settling, MostBlocks
<1>2. CASE Start
  <2>1. pc = "start" /\ pc' \in {"done", "round"}
    BY <1>2 DEF Start, Return
  <2> QED BY <1>1, <2>1 DEF StepsLeft, MostBlocks
<1>3. CASE Round
  <2> DEFINE next == (Usable - alBlSt') \div PerBlock
  <2>1. pc = "round" /\ sectors \in Sizes
    BY <1>3 DEF Round, Fitting
  <2>2. CASE pc' # "round"
    <3>1. pc' \in {"settle", "done"}
      BY <1>3, <2>2 DEF Round, Return
    <3> QED BY <1>1, <2>1, <3>1 DEF StepsLeft
  <2>3. CASE pc' = "round"
    <3>1. ~(next >= nBlocks) /\ nBlocks' = Smaller(nBlocks, next)
      BY <1>3, <2>3 DEF Round, Return
    <3>2. Usable \in Int /\ PerBlock \in Nat /\ PerBlock >= 2 /\ alBlSt' \in Nat
      BY <2>1, Sizing DEF Fitting
    <3>3. next \in Int
      BY <3>2, SMT
    <3> HIDE DEF next
    <3>4. nBlocks' # nBlocks /\ nBlocks' <= nBlocks
      BY <1>1, <3>1, <3>3 DEF Smaller
    <3> QED BY <1>1, <2>1, <2>3, <3>4 DEF StepsLeft
  <2> QED BY <2>2, <2>3
<1>4. CASE Settle \/ Open
  BY <1>4 DEF Settle, Open, Return, StepsLeft
<1> QED BY <1>2, <1>3, <1>4 DEF Next, Returned

\* "The block count only ever shrinks, so this converges" (geometry): every step of format(),
\* whatever size is asked for, leaves fewer to go, of 604 at most.
THEOREM FormatIsBounded ==
  Spec => [](StepsLeft \in 0 .. MostBlocks + 4) /\ [][StepsLeft' < StepsLeft]_vars
<1>1. Fitting /\ Settling => StepsLeft \in 0 .. MostBlocks + 4
  BY DEF Fitting, Settling, StepsLeft, MostBlocks
<1>2. Fitting /\ Settling /\ (Fitting /\ Settling)' /\ [Next]_vars => [StepsLeft' < StepsLeft]_vars
  BY FewerLeft
<1>. QED BY <1>1, <1>2, AlwaysSettling, PTL DEF Spec

(***************************************************************************)
(* Dates: years begin in March, so that the leap day is the last of a year *)
(* and the 146,097 days of 400 years fall into groups that are all alike.  *)
(***************************************************************************)

\* 400 years are an era; the last day of it, and the first of the y-th year of it.
EraEnd == 146096

YearStart(y) == 365 * y + y \div 4 - y \div 100

\* A day of an era by centuries, groups of four years, and days of a group.
Parts(doe, b, k, s) ==
  /\ doe = 36524 * b + 1461 * k + s
  /\ b <= 3 /\ k <= 24 /\ s <= 1460 /\ (k = 24 => s < 1460)

\* Every day but the last has such parts.
LEMMA DayParts ==
  ASSUME NEW doe \in Nat, doe < 146096
  PROVE  \E b, k, s \in Nat : Parts(doe, b, k, s)
<1>1. PICK b \in Nat, r \in Nat : doe = 36524 * b + r /\ r < 36524
  <2>1. /\ doe \div 36524 \in Nat /\ doe % 36524 \in Nat
        /\ doe = 36524 * (doe \div 36524) + (doe % 36524) /\ doe % 36524 < 36524
    BY SMT
  <2> QED BY <2>1
<1>2. PICK k \in Nat, s \in Nat : r = 1461 * k + s /\ s < 1461
  <2>1. /\ r \div 1461 \in Nat /\ r % 1461 \in Nat
        /\ r = 1461 * (r \div 1461) + (r % 1461) /\ r % 1461 < 1461
    BY SMT
  <2> QED BY <2>1
<1>3. b <= 3
  BY <1>1, SMT
<1>4. k <= 24 /\ (k = 24 => s < 1460) /\ s <= 1460
  BY <1>1, <1>2, SMT
<1>5. doe = 36524 * b + 1461 * k + s
  BY <1>1, <1>2, SMT
<1>6. Parts(doe, b, k, s)
  BY <1>3, <1>4, <1>5 DEF Parts
<1> QED BY <1>6

\* What the three quotients of to_ymd_hms are, by the parts: the first counts the
\* leap days too soon, e of them.
LEMMA Quotients ==
  ASSUME NEW b \in Nat, NEW k \in Nat, NEW s \in Nat, b <= 3, k <= 24, s <= 1460, k = 24 => s < 1460,
         NEW doe \in Nat, doe = 36524 * b + 1461 * k + s,
         NEW e \in Nat, e = IF 24 * b + k + s >= 1460 THEN 1 ELSE 0
  PROVE  doe \div 1460 = 25 * b + k + e /\ doe \div 36524 = b /\ doe \div 146096 = 0
<1>2. doe \div 1460 = 25 * b + k + e
  BY SMT
<1>3. doe \div 36524 = b
  BY SMT
<1>4. doe \div 146096 = 0
  BY SMT
<1> QED BY <1>2, <1>3, <1>4, SMT

\* The year to_ymd_hms finds is the one the day lies in...
LEMMA YearIs ==
  ASSUME NEW doe \in Nat, doe <= EraEnd
  PROVE  LET y == YearOfEra(doe)
         IN /\ y \in Nat /\ y <= 399 /\ YearStart(y) <= doe
            /\ doe < YearStart(y + 1) \/ y = 399
<1>1. CASE doe = EraEnd
  BY <1>1, SMT DEF YearOfEra, YearStart, EraEnd
<1>2. CASE doe # EraEnd
  <2>0. PICK b, k, s \in Nat : Parts(doe, b, k, s)
    <3>1. doe < 146096
      BY <1>2, SMT DEF EraEnd
    <3> QED BY <3>1, DayParts, SMT
  <2>1. /\ doe = 36524 * b + 1461 * k + s
        /\ b <= 3 /\ k <= 24 /\ s <= 1460 /\ (k = 24 => s < 1460)
    BY <2>0 DEF Parts
  <2>2. PICK e \in Nat : e = IF 24 * b + k + s >= 1460 THEN 1 ELSE 0
    BY SMT
  <2>3. doe \div 1460 = 25 * b + k + e /\ doe \div 36524 = b /\ doe \div 146096 = 0
    BY <2>1, <2>2, Quotients, SMT
  <2>5. doe - doe \div 1460 + doe \div 36524 - doe \div 146096 = 365 * (100 * b + 4 * k) + (s - e)
    BY <2>1, <2>2, <2>3, SMT
  <2>6. PICK t \in Nat : /\ t <= 3 /\ 365 * t <= s - e /\ s - e < 365 * (t + 1)
                         /\ 365 * t <= s /\ (s < 365 * (t + 1) \/ t = 3)
    <3>1. 0 <= s - e /\ s - e <= 1459
      BY <2>1, <2>2, SMT
    <3>2. PICK t, r \in Nat : s - e = 365 * t + r /\ r < 365
      <4> DEFINE v == s - e
      <4>1. v \in Nat
        BY <3>1, SMT
      <4> HIDE DEF v
      <4>2. /\ v \div 365 \in Nat /\ v % 365 \in Nat
            /\ v = 365 * (v \div 365) + (v % 365) /\ v % 365 < 365
        BY <4>1, SMT
      <4> QED BY <4>2 DEF v
    <3>3. e = 1 => s >= 1364
      BY <2>1, <2>2, SMT
    <3>4. e = 0 \/ e = 1
      BY <2>2, SMT
    <3>5. /\ t <= 3 /\ 365 * t <= s - e /\ s - e < 365 * (t + 1)
          /\ 365 * t <= s /\ (s < 365 * (t + 1) \/ t = 3)
      BY <3>1, <3>2, <3>3, <3>4, SMT
    <3> QED BY <3>5
  <2> DEFINE y == 100 * b + 4 * k + t
  <2>7. YearOfEra(doe) = y
    <3> DEFINE v == 365 * (100 * b + 4 * k) + (s - e)
    <3>1. y \in Nat /\ v \in Int /\ 365 * y <= v /\ v < 365 * y + 365
      BY <2>2, <2>6, SMT
    <3>2. YearOfEra(doe) = v \div 365
      BY <2>5, SMT DEF YearOfEra
    <3> HIDE DEF y, v
    <3> QED BY <3>1, <3>2, SMT
  <2>8. y \in Nat /\ y <= 399 /\ y \div 4 = 25 * b + k /\ y \div 100 = b
    BY <2>1, <2>6, SMT
  <2>9. YearStart(y) = 36524 * b + 1461 * k + 365 * t
    BY <2>8, SMT DEF YearStart
  <2>10. y = 399 \/ doe < YearStart(y + 1)
    <3>1. CASE t < 3
      <4>1. (y + 1) \div 4 = 25 * b + k /\ (y + 1) \div 100 = b
        BY <2>1, <3>1, SMT
      <4>2. YearStart(y + 1) = 36524 * b + 1461 * k + 365 * (t + 1)
        BY <4>1, SMT DEF YearStart
      <4>3. doe < 36524 * b + 1461 * k + 365 * (t + 1)
        BY <3>1, <2>1, <2>6, SMT
      <4> QED BY <4>2, <4>3
    <3>2. CASE t = 3 /\ k < 24
      <4>1. (y + 1) \div 4 = 25 * b + k + 1 /\ (y + 1) \div 100 = b
        BY <2>1, <3>2, SMT
      <4>2. YearStart(y + 1) = 36524 * b + 1461 * (k + 1)
        BY <4>1, <3>2, SMT DEF YearStart
      <4>3. doe < 36524 * b + 1461 * (k + 1)
        BY <2>1, SMT
      <4> QED BY <4>2, <4>3
    <3>3. CASE t = 3 /\ k = 24
      <4>1. (y + 1) \div 4 = 25 * (b + 1) /\ (y + 1) \div 100 = b + 1
        BY <2>1, <3>3, SMT
      <4>2. YearStart(y + 1) = 36524 * (b + 1)
        BY <4>1, <3>3, SMT DEF YearStart
      <4>3. doe < 36524 * (b + 1)
        BY <2>1, <3>3, SMT
      <4> QED BY <4>2, <4>3
    <3>4. (t < 3 \/ t = 3) /\ (k < 24 \/ k = 24)
      BY <2>1, <2>6, SMT
    <3> QED BY <3>1, <3>2, <3>3, <3>4
  <2>11. YearStart(y) <= doe
    <3>1. 36524 * b + 1461 * k + 365 * t <= doe
      BY <2>6, <2>1, SMT
    <3> QED BY <2>9, <3>1
  <2> HIDE DEF y
  <2> QED BY <2>7, <2>8, <2>10, <2>11
<1> QED BY <1>1, <1>2

\* The month, counted from March, and the day of it, by the day of the year.
MonthOf(doy) == (5 * doy + 2) \div 153
DayOf(doy) == doy - (153 * MonthOf(doy) + 2) \div 5 + 1

\* Years lie behind one another.
LEMMA YearGrows ==
  ASSUME NEW a \in Nat, NEW b \in Nat, a < b
  PROVE  YearStart(a + 1) <= YearStart(b)
BY SMTT(30) DEF YearStart

\* The first day of a year is a day.
LEMMA YearType ==
  ASSUME NEW y \in Nat
  PROVE  YearStart(y) \in Nat
BY SMTT(30) DEF YearStart

\* ...and no other year would do.
LEMMA YearOfIs ==
  ASSUME NEW doe \in Nat, doe <= EraEnd, NEW y \in Nat, y <= 399,
         YearStart(y) <= doe, doe < YearStart(y + 1) \/ y = 399
  PROVE  YearOfEra(doe) = y
<1> DEFINE x == YearOfEra(doe)
<1>1. /\ x \in Nat /\ x <= 399 /\ YearStart(x) <= doe
      /\ doe < YearStart(x + 1) \/ x = 399
  BY YearIs
<1> HIDE DEF x
<1>2. /\ YearStart(x) \in Nat /\ YearStart(y) \in Nat
      /\ YearStart(x + 1) \in Nat /\ YearStart(y + 1) \in Nat
  BY <1>1, YearType
<1>3. ~(x < y)
  BY <1>1, <1>2, YearGrows
<1>4. ~(y < x)
  BY <1>1, <1>2, YearGrows
<1>5. x = y
  BY <1>1, <1>3, <1>4
<1> QED BY <1>5 DEF x

\* The last year of an era has its leap day in the next one.
YearEnd(y) == IF y = 399 THEN EraEnd + 1 ELSE YearStart(y + 1)

YearDays(y) == IF IsLeap(y) THEN 366 ELSE 365

\* A year from March to March is as long as the February in it makes it.
LEMMA YearLength ==
  ASSUME NEW y \in Nat, y <= 399, NEW era \in Int, NEW w, w = y + 1 + 400 * era
  PROVE  YearDays(w) = YearEnd(y) - YearStart(y)
BY SMTT(60) DEF YearStart, YearEnd, IsLeap, YearDays, EraEnd

\* Months and days are counted from where they should be.
LEMMA MonthIs ==
  ASSUME NEW doy \in Nat, doy <= 365
  PROVE  /\ MonthOf(doy) \in Nat /\ MonthOf(doy) <= 11
         /\ DayOf(doy) \in Nat /\ 1 <= DayOf(doy) 
BY SMTT(30) DEF MonthOf, DayOf

\* The day after is the next of the month, or the first of the next once the month is
\* over (February, mp = 11, is never over here).
LEMMA MonthNext ==
  ASSUME NEW doy \in Nat, doy < 365
  PROVE  LET len == IF MonthOf(doy) \in {1, 3, 6, 8} THEN 30 ELSE 31
         IN \/ /\ DayOf(doy) < len /\ (MonthOf(doy) = 11 => DayOf(doy) < 29)
               /\ MonthOf(doy + 1) = MonthOf(doy) /\ DayOf(doy + 1) = DayOf(doy) + 1
            \/ DayOf(doy) = len /\ MonthOf(doy) < 11
               /\ MonthOf(doy + 1) = MonthOf(doy) + 1 /\ DayOf(doy + 1) = 1
BY SMTT(60) DEF MonthOf, DayOf

\* The date of the doy-th day of the y-th year of an era.
Civil(era, y, doy) ==
  LET mp == MonthOf(doy)
      m  == mp + (IF mp < 10 THEN 3 ELSE -9)
  IN  <<y + era * 400 + (IF m <= 2 THEN 1 ELSE 0), m, DayOf(doy)>>

\* The calendar has the same day next, within a year...
LEMMA CivilNext ==
  ASSUME NEW era \in Int, NEW y \in Nat, y <= 399, NEW doy \in Nat, doy < 365,
         doy = 364 => IsLeap(y + 1 + 400 * era)
  PROVE  Civil(era, y, doy + 1) = DayAfter(Civil(era, y, doy))
<1> DEFINE mp == MonthOf(doy)
           d == DayOf(doy)
           mq == MonthOf(doy + 1)
           e == DayOf(doy + 1)
           len == IF mp \in {1, 3, 6, 8} THEN 30 ELSE 31
<1>1. /\ mp \in Nat /\ mp <= 11 /\ d \in Nat /\ 1 <= d
  BY MonthIs, SMT
<1>2. \/ d < len /\ (mp = 11 => d < 29) /\ mq = mp /\ e = d + 1
      \/ d = len /\ mp < 11 /\ mq = mp + 1 /\ e = 1
  BY MonthNext, SMT
<1>3. mp = 11 /\ d = 28 => doy = 364
  BY SMT DEF MonthOf, DayOf
<1> HIDE DEF mp, d, mq, e
<1> DEFINE m == mp + (IF mp < 10 THEN 3 ELSE -9)
           w == y + era * 400 + (IF m <= 2 THEN 1 ELSE 0)
<1>4. MonthLength(w, m) = IF mp = 11 THEN (IF IsLeap(w) THEN 29 ELSE 28) ELSE len
  BY <1>1, SMT DEF MonthLength
<1>5. Civil(era, y, doy) = <<w, m, d>>
  BY SMT DEF Civil, mp, d
<1>6. mp = 11 => w = y + 1 + 400 * era
  BY SMT
<1>7. DayAfter(<<w, m, d>>) = IF d < MonthLength(w, m) THEN <<w, m, d + 1>>
                              ELSE IF m < 12 THEN <<w, m + 1, 1>> ELSE <<w + 1, 1, 1>>
  BY SMT DEF DayAfter
<1>8. CASE d < len /\ (mp = 11 => d < 29) /\ mq = mp /\ e = d + 1
  <2>1. d < MonthLength(w, m)
    BY <1>1, <1>3, <1>4, <1>6, <1>8, SMT
  <2>2. Civil(era, y, doy + 1) = <<w, m, d + 1>>
    BY <1>8, SMT DEF Civil, mq, e
  <2> QED BY <1>5, <1>7, <2>1, <2>2, SMT
<1>9. CASE d = len /\ mp < 11 /\ mq = mp + 1 /\ e = 1
  <2>1. ~(d < MonthLength(w, m))
    BY <1>1, <1>4, <1>9, SMT
  <2>2. Civil(era, y, doy + 1) = IF m < 12 THEN <<w, m + 1, 1>> ELSE <<w + 1, 1, 1>>
    <3> DEFINE k == mq + (IF mq < 10 THEN 3 ELSE -9)
    <3>1. Civil(era, y, doy + 1) = <<y + era * 400 + (IF k <= 2 THEN 1 ELSE 0), k, 1>>
      BY <1>9, SMT DEF Civil, mq, e
    <3>2. m < 12 => k = m + 1 /\ y + era * 400 + (IF k <= 2 THEN 1 ELSE 0) = w
      BY <1>1, <1>9, SMT
    <3>3. ~(m < 12) => k = 1 /\ y + era * 400 + (IF k <= 2 THEN 1 ELSE 0) = w + 1
      BY <1>1, <1>9, SMT
    <3> HIDE DEF k, m, w
    <3> QED BY <3>1, <3>2, <3>3, SMT
  <2> QED BY <1>5, <1>7, <2>1, <2>2, SMT
<1> QED BY <1>2, <1>8, <1>9, SMT

\* ...and after the last of February...
LEMMA CivilNewYear ==
  ASSUME NEW era \in Int, NEW y \in Nat, y <= 399,
         NEW doy \in Nat, doy = (IF IsLeap(y + 1 + 400 * era) THEN 365 ELSE 364)
  PROVE  DayAfter(Civil(era, y, doy)) = <<y + 1 + 400 * era, 3, 1>>
<1> DEFINE w == y + 1 + 400 * era
<1>1. MonthOf(doy) = 11 /\ DayOf(doy) = IF IsLeap(w) THEN 29 ELSE 28
  BY SMT DEF MonthOf, DayOf
<1>2. Civil(era, y, doy) = <<w, 2, IF IsLeap(w) THEN 29 ELSE 28>>
  BY <1>1, SMT DEF Civil
<1> HIDE DEF w
<1>3. MonthLength(w, 2) = IF IsLeap(w) THEN 29 ELSE 28
  BY SMT DEF MonthLength
<1>4. DayAfter(<<w, 2, IF IsLeap(w) THEN 29 ELSE 28>>) = <<w, 3, 1>>
  BY <1>3, SMT DEF DayAfter
<1> QED BY <1>2, <1>4, SMT DEF w

\* ...which is followed by the first of March.
LEMMA CivilFirst ==
  ASSUME NEW era \in Int, NEW y \in Nat
  PROVE  Civil(era, y, 0) = <<y + 400 * era, 3, 1>>
<1>1. MonthOf(0) = 0 /\ DayOf(0) = 1
  BY SMT DEF MonthOf, DayOf
<1> QED BY <1>1, SMT DEF Civil

\* The date of the doe-th day of an era.
CivilOf(era, doe) == Civil(era, YearOfEra(doe), doe - YearStart(YearOfEra(doe)))

\* Any year the day lies in is the one.
LEMMA CivilOfIs ==
  ASSUME NEW era \in Int, NEW doe \in Nat, doe <= EraEnd, NEW y \in Nat, y <= 399,
         YearStart(y) <= doe, doe < YearStart(y + 1) \/ y = 399
  PROVE  CivilOf(era, doe) = Civil(era, y, doe - YearStart(y))
<1>1. YearOfEra(doe) = y
  BY YearOfIs
<1> QED BY <1>1 DEF CivilOf

\* From one day to the next, within an era...
LEMMA SameEra ==
  ASSUME NEW era \in Int, NEW doe \in Nat, doe < EraEnd
  PROVE  CivilOf(era, doe + 1) = DayAfter(CivilOf(era, doe))
<1>1. /\ doe <= EraEnd /\ EraEnd \in Nat
      /\ doe + 1 \in Nat /\ doe + 1 <= EraEnd
  BY SMT DEF EraEnd
<1>2. PICK y \in Nat : /\ y <= 399 /\ YearStart(y) <= doe
                       /\ doe < YearStart(y + 1) \/ y = 399
  <2>1. LET y == YearOfEra(doe)
        IN /\ y \in Nat /\ y <= 399 /\ YearStart(y) <= doe
           /\ doe < YearStart(y + 1) \/ y = 399
    BY <1>1, YearIs
  <2> QED BY <2>1
<1>3. YearStart(y) \in Nat /\ YearStart(y + 1) \in Nat
  <2>1. y + 1 \in Nat
    BY SMT
  <2> QED BY <2>1, YearType
<1>4. PICK doy \in Nat : doy = doe - YearStart(y)
  BY <1>2, <1>3, SMT
<1>5. CivilOf(era, doe) = Civil(era, y, doy)
  BY <1>1, <1>2, <1>4, CivilOfIs
<1>6. PICK len \in Nat : /\ len = YearDays(y + 1 + 400 * era)
                         /\ len = IF IsLeap(y + 1 + 400 * era) THEN 366 ELSE 365
  BY SMT DEF YearDays
<1>7. len = (IF y = 399 THEN EraEnd + 1 ELSE YearStart(y + 1)) - YearStart(y)
  <2>1. \A w : w = y + 1 + 400 * era => YearDays(w) = YearEnd(y) - YearStart(y)
    BY <1>2, YearLength
  <2> QED BY <1>6, <2>1 DEF YearEnd
<1>9. y # 399 => YearStart(y + 1) < YearStart(y + 1 + 1) /\ YearStart(y + 1) < EraEnd
  BY <1>2, SMT DEF YearStart, EraEnd
<1>10. CASE doy + 1 < len
  <2>1. YearStart(y) <= doe + 1 /\ (doe + 1 < YearStart(y + 1) \/ y = 399)
    BY <1>2, <1>3, <1>4, <1>7, <1>10, SMT
  <2>2. CivilOf(era, doe + 1) = Civil(era, y, (doe + 1) - YearStart(y))
    BY <1>1, <1>2, <2>1, CivilOfIs
  <2>3. (doe + 1) - YearStart(y) = doy + 1
    BY <1>3, <1>4, SMT
  <2>4. doy < 365 /\ (doy = 364 => IsLeap(y + 1 + 400 * era))
    BY <1>6, <1>10, SMT
  <2>5. Civil(era, y, doy + 1) = DayAfter(Civil(era, y, doy))
    BY <1>2, <2>4, CivilNext
  <2> QED BY <1>5, <2>2, <2>3, <2>5
<1>11. CASE ~(doy + 1 < len)
  <2>1. y # 399
    BY <1>1, <1>3, <1>4, <1>6, <1>7, <1>11, SMT
  <2>2. doe + 1 = YearStart(y + 1) /\ doy + 1 = len
    BY <1>2, <1>3, <1>4, <1>6, <1>7, <1>11, <2>1, SMT
  <2>3. doy = (IF IsLeap(y + 1 + 400 * era) THEN 365 ELSE 364)
    BY <1>6, <2>2, SMT
  <2>4. DayAfter(Civil(era, y, doy)) = <<y + 1 + 400 * era, 3, 1>>
    BY <1>2, <2>3, CivilNewYear
  <2>5. /\ y + 1 \in Nat /\ y + 1 <= 399
        /\ YearStart(y + 1) <= doe + 1 /\ doe + 1 < YearStart(y + 1 + 1)
    BY <1>1, <1>2, <1>3, <1>9, <2>1, <2>2, SMT
  <2>6. CivilOf(era, doe + 1) = Civil(era, y + 1, (doe + 1) - YearStart(y + 1))
    BY <1>1, <2>5, CivilOfIs
  <2>7. (doe + 1) - YearStart(y + 1) = 0
    BY <1>3, <2>2, SMT
  <2>8. Civil(era, y + 1, 0) = <<y + 1 + 400 * era, 3, 1>>
    BY <2>5, CivilFirst
  <2> QED BY <1>5, <2>4, <2>6, <2>7, <2>8
<1> QED BY <1>10, <1>11

\* ...and from one era to the next, which starts with the year 400.
LEMMA NextEra ==
  ASSUME NEW era \in Int
  PROVE  CivilOf(era + 1, 0) = DayAfter(CivilOf(era, EraEnd))
<1>1. era + 1 \in Int /\ EraEnd \in Nat /\ 0 <= EraEnd /\ EraEnd <= EraEnd
  BY SMT DEF EraEnd
<1>2. /\ YearStart(0) <= 0 /\ 0 < YearStart(0 + 1) /\ 0 - YearStart(0) = 0
      /\ YearStart(399) <= EraEnd /\ EraEnd - YearStart(399) = 365
  BY SMT DEF YearStart, EraEnd
<1>3. CivilOf(era + 1, 0) = <<400 * era + 400, 3, 1>>
  <2>1. CivilOf(era + 1, 0) = Civil(era + 1, 0, 0 - YearStart(0))
    BY <1>1, <1>2, CivilOfIs, SMT
  <2>2. Civil(era + 1, 0, 0) = <<0 + 400 * (era + 1), 3, 1>>
    BY <1>1, CivilFirst
  <2>3. 0 + 400 * (era + 1) = 400 * era + 400
    BY SMT
  <2> QED BY <1>2, <2>1, <2>2, <2>3
<1>4. DayAfter(CivilOf(era, EraEnd)) = <<400 * era + 400, 3, 1>>
  <2>1. CivilOf(era, EraEnd) = Civil(era, 399, EraEnd - YearStart(399))
    BY <1>1, <1>2, CivilOfIs, SMT
  <2>2. IsLeap(399 + 1 + 400 * era)
    BY SMT DEF IsLeap
  <2>3. DayAfter(Civil(era, 399, 365)) = <<399 + 1 + 400 * era, 3, 1>>
    BY <2>2, CivilNewYear, SMT
  <2>4. 399 + 1 + 400 * era = 400 * era + 400
    BY SMT
  <2> QED BY <1>2, <2>1, <2>3, <2>4
<1> QED BY <1>3, <1>4

\* What to_ymd_hms shows, by eras.
LEMMA DateIs ==
  ASSUME NEW n \in Int, NEW s
  PROVE  Date([day |-> n, sec |-> s]) = CivilOf((n + 695361) \div 146097, (n + 695361) % 146097)
<1> DEFINE t == [day |-> n, sec |-> s]
<1>1. ToUnix(t).day = n - 24107
  BY SMT DEF ToUnix, EpochDays
<1>2. PICK z \in Int : z = n + 695361 /\ z = ToUnix(t).day + 719468
  BY <1>1, SMT
<1> HIDE DEF t
<1>3. PICK doe, era \in Int : doe = z % 146097 /\ era = z \div 146097
  BY SMT
<1>4. PICK y : y = YearOfEra(doe)
  OBVIOUS
<1>5. Date(t) = LET doy == doe - (365 * y + y \div 4 - y \div 100)
                    mp  == (5 * doy + 2) \div 153
                    m   == mp + (IF mp < 10 THEN 3 ELSE -9)
                IN  <<y + era * 400 + (IF m <= 2 THEN 1 ELSE 0), m, doy - (153 * mp + 2) \div 5 + 1>>
  BY <1>2, <1>3, <1>4, SMT DEF Date
<1>6. CivilOf(era, doe) = Date(t)
  BY <1>4, <1>5 DEF CivilOf, Civil, MonthOf, DayOf, YearStart
<1> QED BY <1>2, <1>3, <1>6, SMT DEF t

\* The day after any day of any century, before 1904 and beyond 32 bits too, is shown as the
\* next day of the calendar, at whatever time of day (to_ymd_hms).
THEOREM NextDayNextDate ==
  ASSUME NEW n \in Int, NEW s
  PROVE  Date([day |-> n + 1, sec |-> s]) = DayAfter(Date([day |-> n, sec |-> s]))
<1>1. PICK era, era1 \in Int, doe, doe1 \in Nat :
         /\ era = (n + 695361) \div 146097 /\ doe = (n + 695361) % 146097
         /\ era1 = ((n + 1) + 695361) \div 146097 /\ doe1 = ((n + 1) + 695361) % 146097
  BY SMT
<1>2. Date([day |-> n, sec |-> s]) = CivilOf(era, doe)
  BY <1>1, DateIs, SMT
<1>3. Date([day |-> n + 1, sec |-> s]) = CivilOf(era1, doe1)
  <2>1. n + 1 \in Int
    BY SMT
  <2> QED BY <1>1, <2>1, DateIs, SMT
<1>4. \/ doe < EraEnd /\ era1 = era /\ doe1 = doe + 1
      \/ doe = EraEnd /\ era1 = era + 1 /\ doe1 = 0
  BY <1>1, SMT DEF EraEnd
<1> QED BY <1>2, <1>3, <1>4, SameEra, NextEra, SMT

\* The two ends of what 32 bits hold.
LEMMA EndsOfRange ==
  /\ Date([day |-> 0, sec |-> 0]) = <<1904, 1, 1>>
  /\ Date([day |-> 49710, sec |-> 0]) = <<2040, 2, 6>>
<1>1. ASSUME NEW n \in Int, NEW era \in Int, NEW y \in Nat, y <= 399,
             NEW doy \in Nat, doy <= 365, n + 695361 = 146097 * era + YearStart(y) + doy,
             YearStart(y) + 365 <= EraEnd,
             doy < 365
      PROVE  Date([day |-> n, sec |-> 0]) = Civil(era, y, doy)
  <2>1. PICK doe \in Nat : doe = YearStart(y) + doy /\ doe - YearStart(y) = doy /\ doe <= EraEnd
    <3>1. YearStart(y) \in Nat
      BY <1>1, YearType
    <3> QED BY <1>1, <3>1, SMT DEF EraEnd
  <2>2. YearStart(y) <= doe /\ (doe < YearStart(y + 1) \/ y = 399)
    BY <1>1, <2>1, SMT DEF YearStart
  <2>3. CivilOf(era, doe) = Civil(era, y, doy)
    BY <1>1, <2>1, <2>2, CivilOfIs
  <2>4. (n + 695361) \div 146097 = era /\ (n + 695361) % 146097 = doe
    <3>1. n + 695361 = 146097 * era + doe /\ doe <= 146096
      <4>1. YearStart(y) \in Nat
        BY <1>1, YearType
      <4> QED BY <1>1, <2>1, <4>1, SMT DEF EraEnd
    <3> QED BY <3>1, SMT
  <2> QED BY <1>1, <2>3, <2>4, DateIs, SMT
<1>2. Date([day |-> 0, sec |-> 0]) = Civil(4, 303, 306)
  BY <1>1, SMT DEF YearStart, EraEnd
<1>3. Date([day |-> 49710, sec |-> 0]) = Civil(5, 39, 342)
  BY <1>1, SMT DEF YearStart, EraEnd
<1> QED BY <1>2, <1>3, SMT DEF Civil, MonthOf, DayOf

\* The invariant: the calendar shows what to_ymd_hms would.
Reckoned ==
  /\ today \in Nat /\ today <= LastInstant.day
  /\ date = Date([day |-> today, sec |-> 0])

\* No day the clock can show is shown as another than the calendar has (to_ymd_hms).
THEOREM AlwaysGregorian == CalendarInit /\ [][Midnight]_calendar => []DatesAreGregorian
<1>1. CalendarInit => Reckoned
  BY EndsOfRange, SMT DEF CalendarInit, Reckoned, LastInstant
<1>2. Reckoned /\ [Midnight]_calendar => Reckoned'
  <2> SUFFICES ASSUME Reckoned, [Midnight]_calendar  PROVE  Reckoned'
    OBVIOUS
  <2>1. CASE Midnight
    <3>1. today + 1 \in Nat /\ today + 1 <= LastInstant.day
      BY <2>1, SMT DEF Midnight, Reckoned, LastInstant
    <3>2. date' = Date([day |-> today + 1, sec |-> 0])
      BY <2>1, NextDayNextDate DEF Midnight, Reckoned
    <3> QED BY <2>1, <3>1, <3>2 DEF Midnight, Reckoned
  <2>2. CASE UNCHANGED calendar
    BY <2>2 DEF calendar, Reckoned
  <2> QED BY <2>1, <2>2
<1>3. Reckoned => DatesAreGregorian
  BY EndsOfRange, SMT DEF Reckoned, DatesAreGregorian, LastInstant
<1> QED BY <1>1, <1>2, <1>3, PTL

\* Whatever the system may take the time to be.
Clock == [day : Int, sec : {s \in Nat : s < DaySeconds}]

\* A clock that cannot be told in 32 bits is told as the nearer end of them and later
\* clocks are never told earlier, for every clock (now, from_unix, to_unix).
THEOREM EveryClockSaturates ==
  ASSUME NEW u \in Clock, NEW v \in Clock
  PROVE  /\ ToUnix(Now(u)) = u <=> FromUnix(u) # None
         /\ FromUnix(ToUnix(Now(u))) = Now(u)
         /\ ~Before(v, u) => ~Before(Now(v), Now(u))
<1> DEFINE Time(d, s) == [day |-> d, sec |-> s]
<1>1. PICK d, s, e, r \in Int : u = Time(d, s) /\ v = Time(e, r) /\ 0 <= s /\ 0 <= r
  BY SMT DEF Clock
<1>2. ASSUME NEW a \in Int, NEW b \in Int, NEW c \in Int, c = a - EpochDays
      PROVE  ToUnix(Time(a, b)) = Time(c, b)
  BY <1>2, SMT DEF ToUnix
<1>3. FirstInstant = Time(0, 0) /\ LastInstant = Time(49710, 23295) /\ EpochDays = 24107
  BY SMT DEF FirstInstant, LastInstant, EpochDays
<1> DEFINE Late(a, b) == a > 49710 \/ (a = 49710 /\ b > 23295)
<1>4. ASSUME NEW a \in Int, NEW b \in Int, 0 <= b
      PROVE  /\ Now(Time(a, b)) = IF a + EpochDays < 0 THEN FirstInstant
                                  ELSE IF Late(a + EpochDays, b) THEN LastInstant ELSE Time(a + EpochDays, b)
             /\ FromUnix(Time(a, b)) = IF a + EpochDays < 0 \/ Late(a + EpochDays, b)
                                       THEN None ELSE Time(a + EpochDays, b)
  <2>1. PICK c \in Int : c = a + EpochDays
    BY <1>3, SMT
  <2>2. /\ [Time(a, b) EXCEPT !.day = @ + EpochDays] = Time(c, b)
        /\ Before(Time(c, b), FirstInstant) <=> c < 0
        /\ Before(LastInstant, Time(c, b)) <=> Late(c, b)
    BY <1>3, <1>4, <2>1, SMT DEF Before
  <2> HIDE DEF Time, Late
  <2> QED BY <2>1, <2>2 DEF Now, FromUnix
<1>5. PICK c, f \in Int : c = d + EpochDays /\ f = e + EpochDays
  BY <1>3, SMT
<1>6. /\ Now(u) = IF c < 0 THEN Time(0, 0) ELSE IF Late(c, s) THEN Time(49710, 23295) ELSE Time(c, s)
      /\ FromUnix(u) = IF c < 0 \/ Late(c, s) THEN None ELSE Time(c, s)
      /\ Now(v) = IF f < 0 THEN Time(0, 0) ELSE IF Late(f, r) THEN Time(49710, 23295) ELSE Time(f, r)
  BY <1>1, <1>3, <1>4, <1>5
<1>7. ToUnix(Now(u)) = u <=> FromUnix(u) # None
  <2>1. /\ ToUnix(Time(0, 0)) = Time(0 - 24107, 0) /\ ToUnix(Time(49710, 23295)) = Time(49710 - 24107, 23295)
        /\ ToUnix(Time(c, s)) = Time(c - 24107, s)
    BY <1>3, SMT DEF ToUnix
  <2>2. c - 24107 = d
    BY <1>3, <1>5, SMT
  <2> QED BY <1>1, <1>5, <1>6, <2>1, <2>2, SMT DEF None
<1>8. FromUnix(ToUnix(Now(u))) = Now(u)
  <2>1. PICK a, b \in Int : /\ Now(u) = Time(a, b) /\ 0 <= a /\ 0 <= b /\ ~Late(a, b)
    BY <1>1, <1>5, <1>6, SMT
  <2>2. PICK z \in Int : z = a - EpochDays /\ z + EpochDays = a
    BY <1>3, SMT
  <2>3. ToUnix(Time(a, b)) = Time(z, b)
    <3> HIDE DEF Time, Late
    <3> QED BY <1>2, <2>1, <2>2
  <2>4. FromUnix(Time(z, b)) = IF z + EpochDays < 0 \/ Late(z + EpochDays, b)
                               THEN None ELSE Time(z + EpochDays, b)
    BY <1>4, <2>1
  <2>5. ~(a < 0)
    BY <2>1, SMT
  <2> HIDE DEF Time, Late
  <2> QED BY <2>1, <2>2, <2>3, <2>4, <2>5
<1>9. ~Before(v, u) => ~Before(Now(v), Now(u))
  <2>1. Before(v, u) <=> f < c \/ (f = c /\ r < s)
    BY <1>1, <1>3, <1>5, SMT DEF Before
  <2> QED BY <1>1, <1>5, <1>6, <2>1, SMT DEF Before
<1> QED BY <1>7, <1>8, <1>9

\* Every second of a day is shown as a time of day, and as one of its own (to_ymd_hms).
THEOREM EverySecondIsShown ==
  ASSUME NEW s \in Nat, s < DaySeconds
  PROVE  LET hms == TimeOfDay([day |-> 0, sec |-> s])
         IN  /\ hms \in (0 .. 23) \X (0 .. 59) \X (0 .. 59)
             /\ (hms[1] * 60 + hms[2]) * 60 + hms[3] = s
BY SMT DEF TimeOfDay, DaySeconds
=============================================================================
