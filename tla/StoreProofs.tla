----------------------------- MODULE StoreProofs -----------------------------
(***************************************************************************)
(* A volume implements a file store, for disks, maps, directories and      *)
(* files of any size: each call of a volume that check() finds nothing     *)
(* wrong with is one of the store's, and none of its blocks is lost.  And  *)
(* a volume with the image it came from implements a durable store: what   *)
(* was saved last can be opened at any time, and nothing else is.          *)
(***************************************************************************)
EXTENDS SavedVolume, VolumeProofs

-----------------------------------------------------------------------------
(***************************************************************************)
(* Adding up.                                                              *)
(***************************************************************************)
\* What a sum over a set goes through: the sum of each of its subsets.
SumStep(size, S, f) ==
  [s \in SUBSET S |-> IF s = {} THEN 0
                      ELSE LET x == CHOOSE y \in s : TRUE IN size[x] + f[s \ {x}]]

\* A finite set has a smallest part with any property that some part of it has.
LEMMA SmallestPart ==
  ASSUME NEW S, IsFiniteSet(S), NEW P, P \subseteq SUBSET S, P # {}
  PROVE  \E s \in P : \A t \in P : ~(t \subseteq s /\ t # s)
<1>1. IsWellFoundedOn(StrictSubsetOrdering(S), FiniteSubsetsOf(S))
  BY FS_StrictSubsetOrderingWellFounded
<1>2. P \subseteq FiniteSubsetsOf(S)
  <2>1. ASSUME NEW s \in P PROVE s \in FiniteSubsetsOf(S)
    <3>1. IsFiniteSet(s)
      BY FS_Subset
    <3> QED BY <3>1 DEF FiniteSubsetsOf
  <2> QED BY <2>1
<1>3. PICK s \in P : \A t \in P : ~ (<<t, s>> \in StrictSubsetOrdering(S))
  BY <1>1, <1>2, WFMin, Zenon
<1>4. ASSUME NEW t \in P, t \subseteq s, t # s PROVE <<t, s>> \in StrictSubsetOrdering(S)
  BY <1>4, Zenon DEF StrictSubsetOrdering
<1>5. \A t \in P : ~(t \subseteq s /\ t # s)
  BY <1>3, <1>4, Zenon
<1> QED BY <1>5, Zenon

\* The sum is well defined, and it is n.
SumIs(size, S, n) ==
  /\ \E f : f = SumStep(size, S, f)
  /\ \A f : f = SumStep(size, S, f) => f[S] = n

\* The sizes of disjoint sets add up to the size of all of them together.
LEMMA SumCounts ==
  ASSUME NEW S, IsFiniteSet(S), NEW own, NEW size,
         \A r \in S : IsFiniteSet(own[r]) /\ size[r] = Cardinality(own[r]),
         \A r, s \in S : r # s => own[r] \cap own[s] = {},
         NEW whole, \A b : b \in whole <=> \E r \in S : b \in own[r]
  PROVE  SumIs(size, S, Cardinality(whole))
<1> DEFINE All(s) == UNION {own[r] : r \in s}
           g == [s \in SUBSET S |-> Cardinality(All(s))]
<1>1. All({}) = {} /\ Cardinality({}) = 0 /\ IsFiniteSet({})
  BY FS_EmptySet
<1>2. ASSUME NEW s \in SUBSET S PROVE IsFiniteSet(All(s)) /\ Cardinality(All(s)) \in Nat
  <2>1. IsFiniteSet(s)
    BY FS_Subset
  <2>2. IsFiniteSet({own[r] : r \in s})
    <3> DEFINE f == [r \in s |-> own[r]]
               T == {own[r] : r \in s}
    <3>1. f \in [s -> T] /\ \A t \in T : \E r \in s : f[r] = t
      OBVIOUS
    <3>2. f \in Surjection(s, T)
      BY <3>1, Zenon DEF Surjection
    <3> HIDE DEF f, T
    <3>3. IsFiniteSet(T)
      BY <2>1, <3>2, FS_Surjection
    <3> QED BY <3>3 DEF T
  <2>3. IsFiniteSet(All(s))
    BY <2>2, FS_UNION
  <2> QED BY <2>3, FS_CardinalityType
<1>3. ASSUME NEW s \in SUBSET S, NEW x \in s
      PROVE  Cardinality(All(s)) = size[x] + Cardinality(All(s \ {x}))
  <2>1. All(s) = own[x] \cup All(s \ {x}) /\ own[x] \cap All(s \ {x}) = {}
    OBVIOUS
  <2>2. IsFiniteSet(own[x]) /\ IsFiniteSet(All(s \ {x})) /\ Cardinality(All(s \ {x})) \in Nat
    BY <1>2
  <2> HIDE DEF All
  <2> DEFINE a == own[x]
             b == All(s \ {x})
  <2>3. Cardinality(All(s)) = Cardinality(own[x]) + Cardinality(All(s \ {x})) - Cardinality({})
    <3>1. IsFiniteSet(a) /\ IsFiniteSet(b) /\ All(s) = a \cup b /\ a \cap b = {}
      BY <2>1, <2>2
    <3> HIDE DEF a, b
    <3>2. Cardinality(a \cup b) = Cardinality(a) + Cardinality(b) - Cardinality(a \cap b)
      BY <3>1, FS_Union
    <3>3. Cardinality(All(s)) = Cardinality(a) + Cardinality(b) - Cardinality({})
      BY <3>1, <3>2
    <3> QED BY <3>3 DEF a, b
  <2>4. Cardinality(own[x]) \in Nat
    BY <2>2, FS_CardinalityType
  <2> QED BY <1>1, <2>2, <2>3, <2>4
<1>4. ASSUME NEW s \in SUBSET S, s # {}
      PROVE  LET x == CHOOSE y \in s : TRUE IN x \in s /\ s \ {x} \in SUBSET S
  BY <1>4
<1>5. g = SumStep(size, S, g)
  <2>1. ASSUME NEW s \in SUBSET S
        PROVE  Cardinality(All(s)) = IF s = {} THEN 0
               ELSE LET x == CHOOSE y \in s : TRUE IN size[x] + g[s \ {x}]
    <3>1. CASE s = {}
      BY <1>1, <3>1
    <3>2. CASE s # {}
      <4> DEFINE x == CHOOSE y \in s : TRUE
      <4>1. x \in s /\ s \ {x} \in SUBSET S
        BY <1>4, <3>2
      <4> HIDE DEF x, All
      <4>2. g[s \ {x}] = Cardinality(All(s \ {x}))
        BY <4>1
      <4>3. Cardinality(All(s)) = size[x] + g[s \ {x}]
        BY <1>3, <4>1, <4>2
      <4> QED BY <3>2, <4>3 DEF x
    <3> QED BY <3>1, <3>2
  <2> HIDE DEF All
  <2> QED BY <2>1 DEF SumStep
<1>6. ASSUME NEW f, f = SumStep(size, S, f) PROVE f[S] = Cardinality(All(S))
  <2> DEFINE P == {s \in SUBSET S : f[s] # Cardinality(All(s))}
  <2>1. SUFFICES ASSUME P # {} PROVE FALSE
    BY DEF P
  <2>2. PICK s \in P : \A t \in P : ~(t \subseteq s /\ t # s)
    <3>1. P \subseteq SUBSET S
      BY DEF P
    <3> HIDE DEF P
    <3> QED BY <2>1, <3>1, SmallestPart
  <2>3. s \in SUBSET S
    OBVIOUS
  <2> HIDE DEF All
  <2>4. f[s] = IF s = {} THEN 0 ELSE LET x == CHOOSE y \in s : TRUE IN size[x] + f[s \ {x}]
    BY <1>6, <2>3 DEF SumStep
  <2>5. s # {}
    BY <1>1, <2>3, <2>4
  <2> DEFINE x == CHOOSE y \in s : TRUE
  <2>6. x \in s /\ s \ {x} \in SUBSET S
    BY <1>4, <2>5
  <2>7. f[s] = size[x] + f[s \ {x}]
    BY <2>4, <2>5
  <2> HIDE DEF x
  <2>8. s \ {x} \notin P
    BY <2>2, <2>6
  <2>9. f[s] = Cardinality(All(s))
    BY <1>3, <2>3, <2>6, <2>7, <2>8
  <2> QED BY <2>2, <2>9
<1>7. whole = All(S)
  OBVIOUS
<1> HIDE DEF g, All
<1>8. \E f : f = SumStep(size, S, f)
  BY <1>5
<1> QED BY <1>6, <1>7, <1>8 DEF SumIs

\* The blocks in use are what the forks take up, added together.
LEMMA UsedCounts ==
  ASSUME NEW own, IsFiniteSet((DOMAIN Files) \X Forks),
         \A r \in (DOMAIN Files) \X Forks :
           IsFiniteSet(own[r]) /\ Files[r[1]].fork[r[2]].size = Cardinality(own[r]),
         \A r, s \in (DOMAIN Files) \X Forks : r # s => own[r] \cap own[s] = {},
         NEW whole, \A b : b \in whole <=> \E r \in (DOMAIN Files) \X Forks : b \in own[r]
  PROVE  Store!Used = Cardinality(whole)
<1> DEFINE S == (DOMAIN Files) \X Forks
           size == [r \in S |-> Files[r[1]].fork[r[2]].size]
           Body(f) == [s \in SUBSET S |->
                         IF s = {} THEN 0
                         ELSE LET x == CHOOSE y \in s : TRUE
                              IN Files[x[1]].fork[x[2]].size + f[s \ {x}]]
<1>1. Store!Used = (CHOOSE f : f = Body(f))[S]
  BY DEF Store!Used, Store!MapThenSumSet, Store!MapThenFoldSet, Store!Forks, Forks
<1>2. \A f : Body(f) = SumStep(size, S, f)
  <2> SUFFICES ASSUME NEW f PROVE Body(f) = SumStep(size, S, f)
    OBVIOUS
  <2>1. ASSUME NEW s \in SUBSET S, s # {}
        PROVE  LET x == CHOOSE y \in s : TRUE IN size[x] = Files[x[1]].fork[x[2]].size
    <3> DEFINE x == CHOOSE y \in s : TRUE
    <3>1. x \in S
      BY <2>1
    <3> HIDE DEF x
    <3>2. size[x] = Files[x[1]].fork[x[2]].size
      BY <3>1
    <3> QED BY <3>2 DEF x
  <2> HIDE DEF size, S
  <2> QED BY <2>1 DEF SumStep
<1>3. /\ IsFiniteSet(S)
      /\ \A r \in S : IsFiniteSet(own[r]) /\ size[r] = Cardinality(own[r])
      /\ \A r, s \in S : r # s => own[r] \cap own[s] = {}
      /\ \A b : b \in whole <=> \E r \in S : b \in own[r]
  OBVIOUS
<1> HIDE DEF Body, S, size
<1>0. SumIs(size, S, Cardinality(whole))
  BY <1>3, SumCounts
<1>4. /\ \E f : f = SumStep(size, S, f)
      /\ \A f : f = SumStep(size, S, f) => f[S] = Cardinality(whole)
  BY <1>0 DEF SumIs
<1>5. \E f : f = Body(f)
  BY <1>2, <1>4
<1> DEFINE f == CHOOSE f : f = Body(f)
<1>6. f = Body(f)
  BY <1>5
<1> HIDE DEF f
<1>7. f = SumStep(size, S, f)
  BY <1>2, <1>6
<1> QED BY <1>1, <1>4, <1>7 DEF f

-----------------------------------------------------------------------------
(***************************************************************************)
(* The files of a volume.                                                  *)
(***************************************************************************)
\* What AsFile is, of any entry, map and blocks.
FileOf(e, m, bl) ==
  [name |-> e.name, locked |-> e.locked, code |-> e.code,
   fork |-> [k \in Forks |-> [bytes |-> ReadOf(m, bl, e.fork[k]).data,
                              size  |-> e.fork[k].alloc \div BlkSiz]]]

\* The file an entry is, in these terms, before a step and after it.
LEMMA AsFileIs ==
  ASSUME NEW i
  PROVE  /\ AsFile(i) = FileOf(entries[i], map, blocks)
         /\ AsFile(i)' = FileOf(entries'[i], map', blocks')
<1>1. AsFile(i) = FileOf(entries[i], map, blocks)
  BY ReadIs DEF AsFile, FileOf, ForkOf
<1>2. AsFile(i)' = FileOf(entries'[i], map', blocks')
  BY ReadIs DEF AsFile, FileOf, ForkOf
<1> QED BY <1>1, <1>2

KeyOf(e) == FoldOf[e.name]

\* Each entry is a file of its own, found by its name.
LEMMA FileAt ==
  ASSUME NamesDistinct, NEW i \in DOMAIN entries
  PROVE  KeyOf(entries[i]) \in DOMAIN Files /\ Files[KeyOf(entries[i])] = FileOf(entries[i], map, blocks)
<1> DEFINE x == KeyOf(entries[i])
           c == CHOOSE j \in DOMAIN entries : FoldOf[entries[j].name] = x
<1>1. x \in {FoldOf[entries[j].name] : j \in DOMAIN entries}
  BY DEF KeyOf
<1>2. c \in DOMAIN entries /\ FoldOf[entries[c].name] = FoldOf[entries[i].name]
  BY DEF KeyOf
<1>3. c = i
  BY <1>2 DEF NamesDistinct
<1>4. x \in DOMAIN Files /\ Files[x] = AsFile(c)
  BY <1>1 DEF Files
<1> QED BY <1>3, <1>4, AsFileIs

\* So it is of all entries.
LEMMA FilesAt ==
  NamesDistinct => \A j \in DOMAIN entries :
                     /\ KeyOf(entries[j]) \in DOMAIN Files
                     /\ Files[KeyOf(entries[j])] = FileOf(entries[j], map, blocks)
BY FileAt

\* The same of the state a step leads to.
LEMMA FilesAtNext ==
  NamesDistinct' => \A j \in DOMAIN entries' :
                      /\ KeyOf(entries'[j]) \in DOMAIN Files'
                      /\ Files'[KeyOf(entries'[j])] = FileOf(entries'[j], map', blocks')
<1>1. (NamesDistinct => \A j \in DOMAIN entries :
        /\ KeyOf(entries[j]) \in DOMAIN Files
        /\ Files[KeyOf(entries[j])] = FileOf(entries[j], map, blocks))'
  BY FilesAt, PTL
<1> QED BY <1>1 DEF KeyOf, FileOf, ReadOf, ByteOf

\* And there is no other.
LEMMA FilesAre ==
  ASSUME NamesDistinct, NEW G, G = [x \in DOMAIN G |-> G[x]],
         DOMAIN G = {KeyOf(entries[i]) : i \in DOMAIN entries},
         \A i \in DOMAIN entries : G[KeyOf(entries[i])] = FileOf(entries[i], map, blocks)
  PROVE  Files = G
<1>1. DOMAIN Files = DOMAIN G /\ Files = [x \in DOMAIN Files |-> Files[x]]
  BY DEF Files, KeyOf
<1>2. ASSUME NEW x \in DOMAIN G PROVE Files[x] = G[x]
  <2>1. PICK i \in DOMAIN entries : x = KeyOf(entries[i])
    OBVIOUS
  <2> QED BY <2>1, FileAt
<1> QED BY <1>1, <1>2

\* The same of the state a step leads to.
LEMMA FilesAreNext ==
  ASSUME NamesDistinct', NEW G, G = [x \in DOMAIN G |-> G[x]],
         DOMAIN G = {KeyOf(entries'[i]) : i \in DOMAIN entries'},
         \A i \in DOMAIN entries' : G[KeyOf(entries'[i])] = FileOf(entries'[i], map', blocks')
  PROVE  Files' = G
<1>1. DOMAIN Files' = DOMAIN G /\ Files' = [x \in DOMAIN Files' |-> Files'[x]]
  BY DEF Files, KeyOf
<1>2. ASSUME NEW x \in DOMAIN G PROVE Files'[x] = G[x]
  <2>1. PICK i \in DOMAIN entries' : x = KeyOf(entries'[i])
    OBVIOUS
  <2> QED BY <2>1, FilesAtNext
<1> QED BY <1>1, <1>2

\* What the volume must be for its calls to be the store's: clean, as check() has
\* it, and without two files of one name.
Kept == TypeOK /\ Clean /\ NamesDistinct

\* The bytes of a number of blocks, divided by the size of one.
LEMMA BlocksDivide ==
  ASSUME NEW n \in Nat
  PROVE  (n * BlkSiz) \div BlkSiz = n
<1>1. BlkSiz \in Nat /\ BlkSiz > 0
  BY VolumeAssumption
<1> DEFINE p == BlkSiz
<1> HIDE DEF p
<1>2. p \in Nat /\ p > 0 => (n * p) \div p = n
  <2> SUFFICES ASSUME p \in Nat, p > 0 PROVE (n * p) \div p = n
    OBVIOUS
  <2>1. n * p \in Int /\ n * p = p * n + 0
    OBVIOUS
  <2> QED BY <2>1
<1> QED BY <1>1, <1>2 DEF p

\* The blocks its entry says a fork was given are those of its chain.
LEMMA SizeIs ==
  ASSUME TypeOK, ForksDisjointAndSound, NEW i \in DOMAIN entries, NEW k \in Forks
  PROVE  LET f == entries[i].fork[k]
         IN  /\ f \in ForkType
             /\ f.alloc \div BlkSiz = IF f.st = 0 THEN 0 ELSE ChainLen(map, f.st)
             /\ f.st # 0 => f.st \in Blocks /\ ChainOk(map, f.st) /\ <<i, k>> \in HasBlocks
<1> DEFINE f == entries[i].fork[k]
<1>1. f \in ForkType
  <2>1. entries \in Seq(EntryType)
    BY DEF TypeOK
  <2>2. entries[i] \in EntryType
    BY <2>1
  <2> QED BY <2>2 DEF EntryType
<1>2. <<i, k>> \in ForkRefs
  BY DEF ForkRefs
<1>3. ForkSound(<<i, k>>)
  BY <1>2 DEF ForksDisjointAndSound, ForksSound
<1>4. f.st = 0 => f.alloc = 0
  BY <1>3 DEF ForkSound, EmptyForkSound, ForkOf
<1>5. f.st # 0 => ChainOk(map, f.st) /\ f.alloc = ChainLen(map, f.st) * BlkSiz
  BY <1>3 DEF ForkSound, ForkOf, Walks
<1>6. f.st # 0 => f.st \in Blocks /\ <<i, k>> \in HasBlocks
  BY <1>2, <1>5 DEF ChainOk, InRange, HasBlocks, ForkOf
<1> HIDE DEF f
<1>7. CASE f.st = 0
  <2>1. f.alloc = 0 * BlkSiz /\ 0 \in Nat
    BY <1>4, <1>7, VolumeAssumption
  <2>2. f.alloc \div BlkSiz = 0
    BY <2>1, BlocksDivide
  <2> QED BY <1>1, <1>7, <2>2 DEF f
<1>8. CASE f.st # 0
  <2>1. ChainLen(map, f.st) \in Nat
    BY <1>6, <1>8, ChainLenType
  <2>2. f.alloc \div BlkSiz = ChainLen(map, f.st)
    BY <1>5, <1>8, <2>1, BlocksDivide
  <2> QED BY <1>1, <1>5, <1>6, <1>8, <2>2 DEF f
<1> QED BY <1>7, <1>8

\* The blocks that are taken, all of them some fork's.
Taken == {b \in Blocks : map[b] \notin {FREE, RESERVED}}

OwnedBy(i, k) == IF entries[i].fork[k].st = 0 THEN {} ELSE Visited(map, entries[i].fork[k].st)

\* They are the forks' blocks, each of one fork, as many as its entry says.
LEMMA TakenAreOwned ==
  ASSUME TypeOK, ForksDisjointAndSound
  PROVE  /\ Taken = UNION {OwnedBy(r[1], r[2]) : r \in ForkRefs}
         /\ \A r, s \in ForkRefs : r # s => OwnedBy(r[1], r[2]) \cap OwnedBy(s[1], s[2]) = {}
         /\ \A r \in ForkRefs : /\ IsFiniteSet(OwnedBy(r[1], r[2]))
                                /\ Cardinality(OwnedBy(r[1], r[2])) = entries[r[1]].fork[r[2]].alloc \div BlkSiz
<1>1. ASSUME NEW r \in ForkRefs
      PROVE  /\ r = <<r[1], r[2]>> /\ r[1] \in DOMAIN entries /\ r[2] \in Forks
             /\ OwnedBy(r[1], r[2]) = IF r \in HasBlocks THEN Owned(r) ELSE {}
             /\ r \in HasBlocks <=> entries[r[1]].fork[r[2]].st # 0
  BY DEF ForkRefs, HasBlocks, OwnedBy, Owned, ForkOf
<1>2. \A r, s \in ForkRefs : r # s => OwnedBy(r[1], r[2]) \cap OwnedBy(s[1], s[2]) = {}
  BY <1>1 DEF ForksDisjointAndSound, NoSharing
<1>3. ASSUME NEW r \in ForkRefs, NEW b \in OwnedBy(r[1], r[2]) PROVE b \in Taken
  <2>1. r \in HasBlocks /\ b \in Visited(map, entries[r[1]].fork[r[2]].st)
    BY <1>1 DEF OwnedBy
  <2> DEFINE st == entries[r[1]].fork[r[2]].st
  <2>2. st \in Blocks /\ ChainOk(map, st)
    BY <1>1, <2>1, SizeIs
  <2> HIDE DEF st
  <2>3. b \in Visited(map, st)
    BY <2>1 DEF st
  <2>4. map[b] \notin {FREE, RESERVED} /\ b \in Blocks
    BY <2>2, <2>3, ChainBlocksTaken, VisitedClosed
  <2> QED BY <2>4 DEF Taken
<1>4. ASSUME NEW b \in Taken PROVE \E r \in ForkRefs : b \in OwnedBy(r[1], r[2])
  <2>1. PICK r \in HasBlocks : b \in Owned(r)
    BY DEF Taken, ForksDisjointAndSound, NoOrphans
  <2>2. r \in ForkRefs
    BY DEF HasBlocks
  <2> QED BY <1>1, <2>1, <2>2
<1>5. Taken = UNION {OwnedBy(r[1], r[2]) : r \in ForkRefs}
  <2> HIDE DEF OwnedBy
  <2> QED BY <1>3, <1>4
<1>6. ASSUME NEW r \in ForkRefs
      PROVE  /\ IsFiniteSet(OwnedBy(r[1], r[2]))
             /\ Cardinality(OwnedBy(r[1], r[2])) = entries[r[1]].fork[r[2]].alloc \div BlkSiz
  <2> DEFINE f == entries[r[1]].fork[r[2]]
  <2>1. /\ f.alloc \div BlkSiz = IF f.st = 0 THEN 0 ELSE ChainLen(map, f.st)
        /\ f.st # 0 => f.st \in Blocks
    BY <1>1, SizeIs
  <2>2. OwnedBy(r[1], r[2]) = IF f.st = 0 THEN {} ELSE Visited(map, f.st)
    BY DEF OwnedBy
  <2> HIDE DEF f
  <2>3. f.st # 0 => IsFiniteSet(Visited(map, f.st)) /\ Cardinality(Visited(map, f.st)) = ChainLen(map, f.st)
    BY <2>1, ChainLenType DEF ChainLen
  <2>4. IsFiniteSet(OwnedBy(r[1], r[2])) /\ Cardinality(OwnedBy(r[1], r[2])) = f.alloc \div BlkSiz
    BY <2>1, <2>2, <2>3, FS_EmptySet
  <2> QED BY <2>4 DEF f
<1> QED BY <1>2, <1>5, <1>6

\* None of the blocks is lost: what the store has room for is what is free.
LEMMA RoomIs ==
  ASSUME Kept
  PROVE  /\ Disk.capacity \in Nat /\ Store!Used \in Nat /\ FreeCount(map) \in Nat
         /\ Disk.capacity = Store!Used + FreeCount(map)
<1>1. TypeOK /\ ForksDisjointAndSound /\ NamesDistinct
  BY DEF Kept, Clean
<1> DEFINE S == (DOMAIN Files) \X Forks
           Where(x) == CHOOSE i \in DOMAIN entries : KeyOf(entries[i]) = x
           own == [r \in S |-> OwnedBy(Where(r[1]), r[2])]
<1>2. ASSUME NEW x \in DOMAIN Files
      PROVE  /\ Where(x) \in DOMAIN entries /\ KeyOf(entries[Where(x)]) = x
             /\ Files[x] = FileOf(entries[Where(x)], map, blocks)
  <2>1. PICK i \in DOMAIN entries : KeyOf(entries[i]) = x
    BY DEF Files, KeyOf
  <2>2. Where(x) \in DOMAIN entries /\ KeyOf(entries[Where(x)]) = x
    BY <2>1
  <2> HIDE DEF Where
  <2> QED BY <1>1, <2>2, FileAt
<1>3. \A i \in DOMAIN entries : KeyOf(entries[i]) \in DOMAIN Files /\ Where(KeyOf(entries[i])) = i
  <2> SUFFICES ASSUME NEW i \in DOMAIN entries PROVE KeyOf(entries[i]) \in DOMAIN Files /\ Where(KeyOf(entries[i])) = i
    OBVIOUS
  <2>1. KeyOf(entries[i]) \in DOMAIN Files
    BY <1>1, FileAt
  <2>2. Where(KeyOf(entries[i])) \in DOMAIN entries /\ KeyOf(entries[Where(KeyOf(entries[i]))]) = KeyOf(entries[i])
    BY <1>2, <2>1
  <2> HIDE DEF Where
  <2> QED BY <1>1, <2>1, <2>2 DEF NamesDistinct, KeyOf
<1> HIDE DEF Where
<1>4. ASSUME NEW r \in S
      PROVE  /\ <<Where(r[1]), r[2]>> \in ForkRefs /\ own[r] = OwnedBy(Where(r[1]), r[2])
             /\ r[1] \in DOMAIN Files /\ r[2] \in Forks /\ r = <<r[1], r[2]>>
             /\ Files[r[1]].fork[r[2]].size = entries[Where(r[1])].fork[r[2]].alloc \div BlkSiz
  <2>1. r[1] \in DOMAIN Files /\ r[2] \in Forks /\ r = <<r[1], r[2]>>
    OBVIOUS
  <2>2. Where(r[1]) \in DOMAIN entries /\ Files[r[1]] = FileOf(entries[Where(r[1])], map, blocks)
    BY <1>2, <2>1
  <2>3. Files[r[1]].fork[r[2]].size = entries[Where(r[1])].fork[r[2]].alloc \div BlkSiz
    BY <2>1, <2>2 DEF FileOf
  <2>4. <<Where(r[1]), r[2]>> \in ForkRefs
    BY <2>1, <2>2 DEF ForkRefs
  <2>5. own[r] = OwnedBy(Where(r[1]), r[2])
    OBVIOUS
  <2> HIDE DEF own
  <2> QED BY <2>1, <2>3, <2>4, <2>5
<1>5. \A r, s \in S : r # s => <<Where(r[1]), r[2]>> # <<Where(s[1]), s[2]>>
  BY <1>2, <1>4
<1>6. \A r \in S : IsFiniteSet(own[r]) /\ Files[r[1]].fork[r[2]].size = Cardinality(own[r])
  BY <1>1, <1>4, TakenAreOwned
<1>7. \A r, s \in S : r # s => own[r] \cap own[s] = {}
  <2> SUFFICES ASSUME NEW r \in S, NEW s \in S, r # s PROVE own[r] \cap own[s] = {}
    OBVIOUS
  <2> DEFINE v == <<Where(r[1]), r[2]>>
             w == <<Where(s[1]), s[2]>>
  <2>1. v \in ForkRefs /\ w \in ForkRefs /\ v # w
    BY <1>4, <1>5
  <2>2. OwnedBy(v[1], v[2]) \cap OwnedBy(w[1], w[2]) = {}
    BY <1>1, <2>1, TakenAreOwned, Zenon
  <2>3. own[r] = OwnedBy(v[1], v[2]) /\ own[s] = OwnedBy(w[1], w[2])
    BY <1>4
  <2> QED BY <2>2, <2>3
<1>8. \A b : b \in Taken <=> \E r \in S : b \in own[r]
  <2>1. ASSUME NEW b \in Taken PROVE \E r \in S : b \in own[r]
    <3>1. PICK r \in ForkRefs : b \in OwnedBy(r[1], r[2])
      BY <1>1, TakenAreOwned
    <3>2. r[1] \in DOMAIN entries /\ r[2] \in Forks
      BY DEF ForkRefs
    <3> DEFINE q == <<KeyOf(entries[r[1]]), r[2]>>
    <3>3. q \in S /\ Where(q[1]) = r[1] /\ q[2] = r[2]
      BY <1>3, <3>2
    <3>4. own[q] = OwnedBy(r[1], r[2])
      BY <1>4, <3>3
    <3> HIDE DEF q, own
    <3> QED BY <3>1, <3>3, <3>4
  <2>2. ASSUME NEW r \in S, NEW b \in own[r] PROVE b \in Taken
    <3> DEFINE v == <<Where(r[1]), r[2]>>
    <3>1. v \in ForkRefs /\ b \in OwnedBy(v[1], v[2])
      BY <1>4
    <3> HIDE DEF v
    <3> QED BY <1>1, <3>1, TakenAreOwned
  <2> HIDE DEF own
  <2> QED BY <2>1, <2>2
<1>9. Taken \subseteq Blocks /\ IsFiniteSet(Taken) /\ IsFiniteSet(FreeBlocks(map)) /\ FreeBlocks(map) \subseteq Blocks
      /\ Cardinality(Taken) \in Nat /\ FreeCount(map) \in Nat
  <2>1. Taken \subseteq Blocks
    BY DEF Taken
  <2>2. IsFiniteSet(Taken) /\ IsFiniteSet(FreeBlocks(map)) /\ FreeBlocks(map) \subseteq Blocks
    BY <2>1, BlocksFinite, FS_Subset, FreeBlocksFinite
  <2> QED BY <2>1, <2>2, FS_CardinalityType DEF FreeCount
<1>10. IsFiniteSet(S)
  <2>1. IsFiniteSet(DOMAIN entries)
    <3>1. DOMAIN entries = 1 .. Len(entries) /\ Len(entries) \in Nat
      BY <1>1 DEF TypeOK
    <3> QED BY <3>1, FS_Interval
  <2>2. IsFiniteSet(DOMAIN Files)
    <3> DEFINE f == [i \in DOMAIN entries |-> KeyOf(entries[i])]
    <3>1. f \in [DOMAIN entries -> DOMAIN Files] /\ \A x \in DOMAIN Files : \E i \in DOMAIN entries : f[i] = x
      BY <1>2, <1>3
    <3>2. f \in Surjection(DOMAIN entries, DOMAIN Files)
      BY <3>1, Zenon DEF Surjection
    <3> HIDE DEF f
    <3> QED BY <2>1, <3>2, FS_Surjection
  <2>3. IsFiniteSet(Forks)
    <3>1. Forks = {"data"} \cup {"rsrc"}
      BY DEF Forks
    <3>2. IsFiniteSet({"data"}) /\ IsFiniteSet({"rsrc"})
      BY FS_Singleton
    <3> QED BY <3>1, <3>2, FS_Union
  <2> QED BY <2>2, <2>3, FS_Product
<1>11. Store!Used = Cardinality(Taken)
  <2>1. /\ IsFiniteSet((DOMAIN Files) \X Forks)
        /\ \A r \in (DOMAIN Files) \X Forks :
             IsFiniteSet(own[r]) /\ Files[r[1]].fork[r[2]].size = Cardinality(own[r])
        /\ \A r, s \in (DOMAIN Files) \X Forks : r # s => own[r] \cap own[s] = {}
        /\ \A b : b \in Taken <=> \E r \in (DOMAIN Files) \X Forks : b \in own[r]
    BY <1>6, <1>7, <1>8, <1>10
  <2> HIDE DEF own
  <2> QED BY <2>1, UsedCounts
<1>12. {b \in Blocks : map[b] # RESERVED} = Taken \cup FreeBlocks(map) /\ Taken \cap FreeBlocks(map) = {}
  BY BlockMapAssumption DEF Taken, FreeBlocks, FREE, RESERVED
<1>13. Disk.capacity = Cardinality(Taken \cup FreeBlocks(map))
  BY <1>12 DEF Disk
<1>14. Cardinality(Taken \cup FreeBlocks(map)) = Cardinality(Taken) + Cardinality(FreeBlocks(map)) - Cardinality({})
  BY <1>9, <1>12, FS_Union
<1> QED BY <1>9, <1>11, <1>13, <1>14, FS_EmptySet DEF FreeCount

-----------------------------------------------------------------------------
(***************************************************************************)
(* The disk.                                                               *)
(***************************************************************************)
\* Freeing a chain leaves the reserved blocks reserved.
LEMMA ReleasedReserves ==
  ASSUME NEW m, NEW st, ~Breaks(m, st), NEW b \in Blocks
  PROVE  Released(m, st)[b] = RESERVED <=> m[b] = RESERVED
<1>1. CASE st = 0
  BY <1>1 DEF Released
<1>2. CASE st # 0
  <2>1. ChainOk(m, st) /\ Released(m, st)[b] = IF b \in Visited(m, st) THEN FREE ELSE m[b]
    BY <1>2 DEF Breaks, Released, FreeChain
  <2>2. b \in Visited(m, st) => m[b] # RESERVED
    BY <2>1, ChainBlocksTaken
  <2>3. FREE # RESERVED
    BY BlockMapAssumption DEF FREE, RESERVED
  <2> QED BY <2>1, <2>2, <2>3
<1> QED BY <1>1, <1>2

\* Nor does linking free blocks make one reserved.
LEMMA LinkedReserves ==
  ASSUME Addressable, NEW m, NEW S, S \subseteq FreeBlocks(m), NEW b \in Blocks
  PROVE  Linked(m, S)[b] = RESERVED <=> m[b] = RESERVED
<1>1. Linked(m, S)[b] = IF b \notin S THEN m[b]
                        ELSE IF After(S, b) = {} THEN LAST ELSE Masked(Least(After(S, b)))
  BY DEF Linked
<1>2. LAST # RESERVED /\ FREE # RESERVED
  BY BlockMapAssumption DEF LAST, FREE, RESERVED
<1>3. b \in S => m[b] = FREE
  BY DEF FreeBlocks
<1>4. CASE b \in S /\ After(S, b) # {}
  <2> DEFINE c == Least(After(S, b))
  <2>1. S \subseteq Blocks /\ After(S, b) \subseteq S
    BY DEF FreeBlocks, After
  <2>2. c \in Blocks
    <3>1. After(S, b) \subseteq Nat
      BY <2>1, BlocksFinite
    <3>2. Least(After(S, b)) \in After(S, b)
      BY <1>4, <3>1, LeastOf
    <3> QED BY <2>1, <3>2
  <2> HIDE DEF c
  <2>3. c \in Nat /\ c < RESERVED
    BY <2>2, BlockMapAssumption DEF Blocks, Addressable, FIRST_BLOCK, RESERVED
  <2>4. Masked(c) = c
    BY <2>3, BlockMapAssumption DEF Masked, RESERVED
  <2>5. Linked(m, S)[b] = Masked(c)
    BY <1>1, <1>4 DEF c
  <2>6. Linked(m, S)[b] # RESERVED
    BY <2>3, <2>4, <2>5, BlockMapAssumption DEF RESERVED
  <2> QED BY <1>2, <1>3, <1>4, <2>6
<1> QED BY <1>1, <1>2, <1>3, <1>4

\* So the disk of the store does not change when the map changes by them.
LEMMA DiskStays ==
  ASSUME \A b \in Blocks : map'[b] = RESERVED <=> map[b] = RESERVED, mdb'.locked = mdb.locked
  PROVE  Disk' = Disk
<1>1. {b \in Blocks : map'[b] # RESERVED} = {b \in Blocks : map[b] # RESERVED}
  OBVIOUS
<1> QED BY <1>1 DEF Disk

\* The calls that count the volume anew do not change its lock.
LEMMA TouchedLock ==
  ASSUME TypeOK, NEW now, Touched(now)
  PROVE  mdb'.locked = mdb.locked
BY DEF Touched, Counted, TypeOK, MdbType

\* A call that changes neither the map, the directory nor the blocks changes
\* no file.
LEMMA FilesStay ==
  ASSUME map' = map, entries' = entries, blocks' = blocks
  PROVE  Files' = Files
BY DEF Files, AsFile, ReadFork, ForkOf

\* A call that fails on a volume that is not locked, by a verdict e.
LEMMA FailedFiles ==
  ASSUME NEW e, Fails(e)
  PROVE  Files' = Files /\ Disk' = Disk /\ result' = e
BY FilesStay DEF Fails, volume, Disk

-----------------------------------------------------------------------------
(***************************************************************************)
(* Finding a file, and replacing it.                                       *)
(***************************************************************************)
\* The store has the file a name finds.
LEMMA FileNamed ==
  ASSUME Kept, NEW n
  PROVE  /\ Store!Exists(n) <=> Found(n)
         /\ Found(n) => /\ IndexOf(n) \in DOMAIN entries
                        /\ KeyOf(entries[IndexOf(n)]) = FoldOf[n]
                        /\ Files[FoldOf[n]] = FileOf(entries[IndexOf(n)], map, blocks)
                        /\ Store!IsLocked(n) <=> entries[IndexOf(n)].locked
         /\ ~Found(n) => ~Store!IsLocked(n)
<1>1. Store!Exists(n) <=> Found(n)
  BY DEF Store!Exists, Store!Key, Files, Found, Matches
<1>2. ASSUME Found(n)
      PROVE  /\ IndexOf(n) \in DOMAIN entries
             /\ KeyOf(entries[IndexOf(n)]) = FoldOf[n]
             /\ Files[FoldOf[n]] = FileOf(entries[IndexOf(n)], map, blocks)
  <2>1. IndexOf(n) \in DOMAIN entries /\ KeyOf(entries[IndexOf(n)]) = FoldOf[n]
    BY <1>2, Lookup DEF Kept, KeyOf
  <2>2. Files[KeyOf(entries[IndexOf(n)])] = FileOf(entries[IndexOf(n)], map, blocks)
    BY <2>1, FileAt DEF Kept
  <2> QED BY <2>1, <2>2
<1>3. ASSUME Found(n) PROVE Store!IsLocked(n) <=> entries[IndexOf(n)].locked
  BY <1>1, <1>2, <1>3 DEF Store!IsLocked, Store!Key, FileOf
<1> QED BY <1>1, <1>2, <1>3 DEF Store!IsLocked

\* A file whose entry, but for its dates, and whose blocks a step leaves alone.
LEMMA FileStays ==
  ASSUME Kept, NEW g \in DOMAIN entries, NEW j \in DOMAIN entries',
         At(g, j), entries'[j].name = entries[g].name,
         entries'[j].locked = entries[g].locked, entries'[j].code = entries[g].code
  PROVE  /\ FileOf(entries'[j], map', blocks') = FileOf(entries[g], map, blocks)
         /\ KeyOf(entries'[j]) = KeyOf(entries[g])
<1>1. ASSUME NEW k \in Forks
      PROVE  /\ ReadOf(map', blocks', entries'[j].fork[k]) = ReadOf(map, blocks, entries[g].fork[k])
             /\ entries'[j].fork[k] = entries[g].fork[k]
  <2>1. <<g, k>> \in HasBlocks => Private(<<g, k>>)
    BY CleanChainsPrivate DEF Kept, Clean
  <2>2. ReadFork(j, k)' = ReadFork(g, k)
    BY <2>1, StaysPutReads DEF Kept
  <2>3. ReadFork(g, k) = ReadOf(map, blocks, entries[g].fork[k])
    BY ReadIs
  <2>4. ReadFork(j, k)' = ReadOf(map', blocks', entries'[j].fork[k])
    BY ReadIs
  <2>5. entries'[j].fork[k] = entries[g].fork[k]
    BY DEF At
  <2> QED BY <2>2, <2>3, <2>4, <2>5
<1> QED BY <1>1 DEF FileOf, KeyOf

\* Replacing an entry replaces the file.
LEMMA FileReplaced ==
  ASSUME Kept, NamesDistinct', NEW i \in DOMAIN entries, DOMAIN entries' = DOMAIN entries,
         \A j \in DOMAIN entries : j # i =>
           /\ FileOf(entries'[j], map', blocks') = FileOf(entries[j], map, blocks)
           /\ KeyOf(entries'[j]) = KeyOf(entries[j])
  PROVE  LET f == FileOf(entries'[i], map', blocks')
         IN  /\ Files' = Store!With(Store!Without(Files, entries[i].name), f)
             /\ KeyOf(entries'[i]) = KeyOf(entries[i]) => Files' = Store!With(Files, f)
<1> DEFINE f == FileOf(entries'[i], map', blocks')
           G == Store!With(Store!Without(Files, entries[i].name), f)
           H == Store!With(Files, f)
           old == KeyOf(entries[i])
           new == KeyOf(entries'[i])
<1>0. f.name = entries'[i].name /\ FoldOf[f.name] = new
  BY DEF FileOf, KeyOf
<1>1. /\ DOMAIN Files = {KeyOf(entries[j]) : j \in DOMAIN entries}
      /\ \A j \in DOMAIN entries : Files[KeyOf(entries[j])] = FileOf(entries[j], map, blocks)
  BY FilesAt DEF Files, KeyOf, Kept
<1>2. \A j \in DOMAIN entries : j # i => KeyOf(entries[j]) # old /\ KeyOf(entries'[j]) # new
  BY DEF Kept, NamesDistinct, KeyOf
<1> HIDE DEF f, new, old
<1>3. /\ G = [x \in ((DOMAIN Files) \ {old}) \cup {new} |-> IF x = new THEN f ELSE Files[x]]
      /\ H = [x \in (DOMAIN Files) \cup {new} |-> IF x = new THEN f ELSE Files[x]]
  BY <1>0 DEF Store!With, Store!Without, Store!Key, old, KeyOf
<1> HIDE DEF G, H
<1>4. /\ ((DOMAIN Files) \ {old}) \cup {new} = {KeyOf(entries'[j]) : j \in DOMAIN entries'}
      /\ \A j \in DOMAIN entries' : j # i => KeyOf(entries'[j]) \in (DOMAIN Files) \ {old}
      /\ KeyOf(entries'[i]) = new /\ KeyOf(entries[i]) = old
  BY <1>1, <1>2 DEF new, old
<1> HIDE DEF Kept
<1>5. Files' = G
  <2>1. G = [x \in DOMAIN G |-> G[x]] /\ DOMAIN G = {KeyOf(entries'[j]) : j \in DOMAIN entries'}
    BY <1>3, <1>4
  <2>2. \A j \in DOMAIN entries' : G[KeyOf(entries'[j])] = FileOf(entries'[j], map', blocks')
    BY <1>1, <1>2, <1>3, <1>4 DEF f
  <2> QED BY <2>1, <2>2, FilesAreNext
<1>6. new = old => G = H
  <2>1. new = old => ((DOMAIN Files) \ {old}) \cup {new} = (DOMAIN Files) \cup {new}
    OBVIOUS
  <2> QED BY <1>3, <2>1
<1> QED BY <1>4, <1>5, <1>6 DEF f, G, H

-----------------------------------------------------------------------------
(***************************************************************************)
(* The calls, one by one.                                                  *)
(***************************************************************************)
\* Any call on a volume that is locked.
LEMMA LockedCall ==
  ASSUME ReadOnly, Fails("VolumeLocked")
  PROVE  Store!Next
<1>1. Files' = Files /\ Disk' = Disk /\ result' = "VolumeLocked"
  BY FailedFiles
<1>2. ~Disk.writable
  BY DEF Disk, ReadOnly
<1>3. Store!NoFileChanges
  BY <1>1, <1>2 DEF Store!NoFileChanges
<1> QED BY <1>1, <1>3 DEF Store!Next

\* create_file adds an empty file.
LEMMA CreateIsStores ==
  ASSUME Kept, NamesDistinct', NEW n \in FileNames, NEW c \in Codes, NEW now \in Times,
         CreateFile(n, c, now)
  PROVE  Store!Next
<1> DEFINE new   == NewEntry(n, c, now)
           grown == Append(entries, new)
           v     == CreateVerdict(n, grown)
<1>1. Store!Exists(n) <=> Found(n)
  BY FileNamed
<1>2. NameOk(n, MaxFileName) <=> n \in {x \in FileNames : NameOk(x, MaxFileName)}
  OBVIOUS
<1>3. call' = <<"create", n, c>>
  BY DEF CreateFile
<1>4. CASE Fails(v)
  <2>1. Files' = Files /\ Disk' = Disk /\ result' = v /\ v # "Ok"
    BY <1>4, FailedFiles DEF Fails
  <2>2. CASE ReadOnly
    <3>1. v = "VolumeLocked"
      BY <2>2 DEF CreateVerdict
    <3> QED BY <1>4, <2>2, <3>1, LockedCall
  <2>3. CASE ~ReadOnly
    <3>1. \/ v = "InvalidName" /\ ~NameOk(n, MaxFileName)
          \/ v = "FileExists" /\ Found(n)
          \/ v = "DirectoryFull" /\ NameOk(n, MaxFileName) /\ ~Found(n)
      BY <2>1, <2>3 DEF CreateVerdict
    <3> HIDE DEF v
    <3>2. Store!Create(n, c)
      BY <1>1, <1>2, <1>3, <2>1, <3>1 DEF Store!Create, Store!Refuse
    <3> QED BY <2>1, <3>2 DEF Store!Next
  <2> QED BY <2>2, <2>3
<1>5. CASE ~Fails(v)
  <2>1. /\ v = "Ok" /\ result' = "Ok" /\ entries' = grown /\ map' = map /\ blocks' = blocks
        /\ mdb' = Counted([mdb EXCEPT !.ls_mod = now, !.nxt_fnum = (@ + 1) % FnumMod], map, grown)
    BY <1>5 DEF CreateFile, Succeeds
  <2>2. ~ReadOnly /\ NameOk(n, MaxFileName) /\ ~Found(n)
    BY <2>1 DEF CreateVerdict
  <2>3. Disk' = Disk /\ Disk.writable
    <3>1. mdb'.locked = mdb.locked
      BY <2>1 DEF Counted, Kept, TypeOK, MdbType
    <3>2. Disk' = Disk
      BY <2>1, <3>1, DiskStays
    <3> QED BY <2>2, <3>2 DEF Disk, ReadOnly
  <2>4. /\ KeyOf(new) = FoldOf[n] /\ new.name = n /\ new.locked = FALSE /\ new.code = c
        /\ \A k \in Forks : new.fork[k] = NoFork
    BY DEF NewEntry, KeyOf
  <2> DEFINE f == Store!NewFile(n, c)
  <2>5. FileOf(new, map', blocks') = f
    <3>1. 0 \div BlkSiz = 0
      BY BlocksDivide, VolumeAssumption
    <3>2. \A k \in Forks : ReadOf(map', blocks', new.fork[k]).data = <<>> /\ new.fork[k].alloc = 0
      BY <2>4 DEF ReadOf, NoFork, Bytes
    <3>3. [k \in Forks |-> [bytes |-> ReadOf(map', blocks', new.fork[k]).data,
                            size  |-> new.fork[k].alloc \div BlkSiz]]
          = [k \in Forks |-> [bytes |-> <<>>, size |-> 0]]
      BY <3>1, <3>2
    <3>4. Store!Forks = Forks
      BY DEF Store!Forks, Forks
    <3> HIDE DEF new
    <3> QED BY <2>4, <3>3, <3>4 DEF FileOf, Store!NewFile, Store!Stored
  <2>6. /\ DOMAIN entries = 1 .. Len(entries) /\ Len(entries) \in Nat
        /\ DOMAIN entries' = 1 .. Len(entries) + 1
        /\ \A j \in DOMAIN entries : entries'[j] = entries[j]
        /\ entries'[Len(entries) + 1] = new
    <3> HIDE DEF new
    <3>1. entries \in Seq(EntryType)
      BY DEF Kept, TypeOK
    <3> QED BY <2>1, <3>1
  <2> DEFINE G == Store!With(Files, f)
  <2>7. G = [x \in (DOMAIN Files) \cup {FoldOf[n]} |-> IF x = FoldOf[n] THEN f ELSE Files[x]]
    BY DEF Store!With, Store!Key, Store!NewFile
  <2>8. /\ DOMAIN Files = {KeyOf(entries[j]) : j \in DOMAIN entries}
        /\ \A j \in DOMAIN entries : Files[KeyOf(entries[j])] = FileOf(entries[j], map, blocks)
    BY FilesAt DEF Files, KeyOf, Kept
  <2>9. \A j \in DOMAIN entries : KeyOf(entries[j]) # FoldOf[n]
    BY <2>2, NotFound DEF KeyOf
  <2> HIDE DEF G, f, new, grown
  <2>10. Files' = G
    <3>1. \A j \in DOMAIN entries' : j \in DOMAIN entries \/ j = Len(entries) + 1
      BY <2>6
    <3>2. (DOMAIN Files) \cup {FoldOf[n]} = {KeyOf(entries'[j]) : j \in DOMAIN entries'}
      <4>1. ASSUME NEW x \in {KeyOf(entries'[j]) : j \in DOMAIN entries'}
            PROVE  x \in (DOMAIN Files) \cup {FoldOf[n]}
        BY <2>4, <2>6, <2>8, <3>1
      <4>2. Len(entries) + 1 \in DOMAIN entries' /\ DOMAIN entries \subseteq DOMAIN entries'
        BY <2>6
      <4>3. ASSUME NEW x \in (DOMAIN Files) \cup {FoldOf[n]}
            PROVE  \E j \in DOMAIN entries' : x = KeyOf(entries'[j])
        BY <2>4, <2>6, <2>8, <4>2
      <4> QED BY <4>1, <4>3
    <3>3. G = [x \in DOMAIN G |-> G[x]] /\ DOMAIN G = {KeyOf(entries'[j]) : j \in DOMAIN entries'}
      BY <2>7, <3>2
    <3>4. ASSUME NEW j \in DOMAIN entries'
          PROVE  G[KeyOf(entries'[j])] = FileOf(entries'[j], map', blocks')
      <4>1. CASE j \in DOMAIN entries
        BY <2>1, <2>6, <2>7, <2>8, <2>9, <4>1
      <4>2. CASE j = Len(entries) + 1
        BY <2>4, <2>5, <2>6, <2>7, <4>2
      <4> QED BY <3>1, <4>1, <4>2
    <3> QED BY <3>3, <3>4, FilesAreNext
  <2>11. Store!Create(n, c)
    BY <1>1, <1>2, <1>3, <2>1, <2>2, <2>3, <2>10 DEF Store!Create, Store!Do, G, f
  <2> QED BY <2>3, <2>11 DEF Store!Next
<1> QED BY <1>4, <1>5

\* Entries with the same forks are files that differ in their own fields only.
LEMMA SameForksFile ==
  ASSUME NEW e, NEW g, g.fork = e.fork
  PROVE  FileOf(g, map, blocks) =
           [name |-> g.name, locked |-> g.locked, code |-> g.code,
            fork |-> FileOf(e, map, blocks).fork]
<1>1. FileOf(g, map, blocks).fork = FileOf(e, map, blocks).fork
  BY DEF FileOf
<1> QED BY <1>1 DEF FileOf

\* A call that replaces an entry by one with the same forks.
LEMMA EntryReplaced ==
  ASSUME Kept, NamesDistinct', NEW i \in DOMAIN entries, NEW e,
         entries' = [entries EXCEPT ![i] = e], map' = map, blocks' = blocks
  PROVE  LET f == FileOf(e, map, blocks)
         IN  /\ Files' = Store!With(Store!Without(Files, entries[i].name), f)
             /\ KeyOf(e) = KeyOf(entries[i]) => Files' = Store!With(Files, f)
<1>1. /\ DOMAIN entries' = DOMAIN entries /\ entries'[i] = e
      /\ \A j \in DOMAIN entries : j # i => entries'[j] = entries[j]
  OBVIOUS
<1>2. FileOf(entries'[i], map', blocks') = FileOf(e, map, blocks)
  BY <1>1
<1>3. \A j \in DOMAIN entries : j # i =>
        /\ FileOf(entries'[j], map', blocks') = FileOf(entries[j], map, blocks)
        /\ KeyOf(entries'[j]) = KeyOf(entries[j])
  BY <1>1
<1> QED BY <1>1, <1>2, <1>3, FileReplaced

\* A setter of the file n that replaces its entry by e, which keeps its name.
LEMMA SetterFiles ==
  ASSUME Kept, NamesDistinct', NEW n, Found(n), NEW e, NEW now, SetEntry(n, e, now),
         e.name = entries[IndexOf(n)].name
  PROVE  /\ Files' = Store!With(Files, FileOf(e, map, blocks))
         /\ result' = "Ok" /\ Disk' = Disk /\ Disk.writable
<1>1. IndexOf(n) \in DOMAIN entries
  BY FileNamed
<1>2. /\ entries' = [entries EXCEPT ![IndexOf(n)] = e] /\ map' = map /\ blocks' = blocks
      /\ Touched(now) /\ result' = "Ok" /\ ~ReadOnly
  BY DEF SetEntry, SetVerdict, Succeeds
<1>3. KeyOf(e) = KeyOf(entries[IndexOf(n)])
  BY DEF KeyOf
<1>4. Files' = Store!With(Files, FileOf(e, map, blocks))
  BY <1>1, <1>2, <1>3, EntryReplaced
<1>5. Disk' = Disk
  BY <1>2, TouchedLock, DiskStays DEF Kept
<1> QED BY <1>2, <1>4, <1>5 DEF Disk, ReadOnly

\* A setter that fails: the volume is locked or there is no such file.
LEMMA SetterFails ==
  ASSUME Kept, NEW n, Fails(SetVerdict(n))
  PROVE  \/ Store!Next
         \/ Store!NotFound(n) /\ Disk' = Disk
<1>1. CASE ReadOnly
  BY <1>1, LockedCall DEF SetVerdict
<1>2. CASE ~ReadOnly
  <2>1. result' = "FileNotFound" /\ Files' = Files /\ Disk' = Disk /\ ~Found(n)
    BY <1>2, FailedFiles DEF SetVerdict, Fails
  <2> QED BY <2>1, FileNamed DEF Store!NotFound, Store!Refuse
<1> QED BY <1>1, <1>2

\* set_type_creator replaces the file's codes.
LEMMA SetCodeIsStores ==
  ASSUME Kept, NamesDistinct', NEW n \in FileNames, NEW c \in Codes, NEW now \in Times,
         SetTypeCreator(n, c, now)
  PROVE  Store!Next
<1> DEFINE i == IndexOf(n)
           e == [entries[i] EXCEPT !.code = c]
<1>1. call' = <<"set code", n, c>>
  BY DEF SetTypeCreator
<1>2. CASE Fails(SetVerdict(n))
  <2>1. Store!Next \/ (Store!NotFound(n) /\ Disk' = Disk)
    BY <1>2, SetterFails
  <2>2. Store!NotFound(n) => Store!SetCode(n, c)
    BY <1>1 DEF Store!SetCode
  <2> QED BY <2>1, <2>2 DEF Store!Next
<1>3. CASE Found(n) /\ SetEntry(n, e, now)
  <2>1. /\ i \in DOMAIN entries /\ Files[FoldOf[n]] = FileOf(entries[i], map, blocks)
        /\ Store!Exists(n)
    BY <1>3, FileNamed
  <2>2. entries[i] \in EntryType
    BY <2>1 DEF Kept, TypeOK
  <2>3. e.name = entries[i].name /\ FileOf(e, map, blocks) = [FileOf(entries[i], map, blocks) EXCEPT !.code = c]
    <3>1. /\ e.fork = entries[i].fork /\ e.name = entries[i].name
          /\ e.locked = entries[i].locked /\ e.code = c
      BY <2>2 DEF EntryType
    <3> HIDE DEF e, i
    <3>2. FileOf(e, map, blocks) = [name |-> e.name, locked |-> e.locked, code |-> e.code,
                                    fork |-> FileOf(entries[i], map, blocks).fork]
      BY <3>1, SameForksFile
    <3>3. FileOf(entries[i], map, blocks) =
            [name |-> entries[i].name, locked |-> entries[i].locked, code |-> entries[i].code,
             fork |-> FileOf(entries[i], map, blocks).fork]
      BY SameForksFile
    <3> QED BY <3>1, <3>2, <3>3
  <2> HIDE DEF e
  <2>4. /\ Files' = Store!With(Files, FileOf(e, map, blocks))
        /\ result' = "Ok" /\ Disk' = Disk /\ Disk.writable
    BY <1>3, <2>3, SetterFiles
  <2>5. Store!SetCode(n, c)
    BY <1>1, <2>1, <2>3, <2>4 DEF Store!SetCode, Store!Do, Store!Key
  <2> QED BY <2>4, <2>5 DEF Store!Next
<1> QED BY <1>2, <1>3 DEF SetTypeCreator

\* set_locked locks the file or unlocks it.
LEMMA SetLockedIsStores ==
  ASSUME Kept, NamesDistinct', NEW n \in FileNames, NEW l \in BOOLEAN, NEW now \in Times,
         SetLocked(n, l, now)
  PROVE  Store!Next
<1> DEFINE i == IndexOf(n)
           e == [entries[i] EXCEPT !.locked = l]
<1>1. call' = <<"set locked", n, l>>
  BY DEF SetLocked
<1>2. CASE Fails(SetVerdict(n))
  <2>1. Store!Next \/ (Store!NotFound(n) /\ Disk' = Disk)
    BY <1>2, SetterFails
  <2>2. Store!NotFound(n) => Store!SetLocked(n, l)
    BY <1>1 DEF Store!SetLocked
  <2> QED BY <2>1, <2>2 DEF Store!Next
<1>3. CASE Found(n) /\ SetEntry(n, e, now)
  <2>1. /\ i \in DOMAIN entries /\ Files[FoldOf[n]] = FileOf(entries[i], map, blocks)
        /\ Store!Exists(n)
    BY <1>3, FileNamed
  <2>2. entries[i] \in EntryType
    BY <2>1 DEF Kept, TypeOK
  <2>3. e.name = entries[i].name /\ FileOf(e, map, blocks) = [FileOf(entries[i], map, blocks) EXCEPT !.locked = l]
    <3>1. /\ e.fork = entries[i].fork /\ e.name = entries[i].name
          /\ e.code = entries[i].code /\ e.locked = l
      BY <2>2 DEF EntryType
    <3> HIDE DEF e, i
    <3>2. FileOf(e, map, blocks) = [name |-> e.name, locked |-> e.locked, code |-> e.code,
                                    fork |-> FileOf(entries[i], map, blocks).fork]
      BY <3>1, SameForksFile
    <3>3. FileOf(entries[i], map, blocks) =
            [name |-> entries[i].name, locked |-> entries[i].locked, code |-> entries[i].code,
             fork |-> FileOf(entries[i], map, blocks).fork]
      BY SameForksFile
    <3> QED BY <3>1, <3>2, <3>3
  <2> HIDE DEF e
  <2>4. /\ Files' = Store!With(Files, FileOf(e, map, blocks))
        /\ result' = "Ok" /\ Disk' = Disk /\ Disk.writable
    BY <1>3, <2>3, SetterFiles
  <2>5. Store!SetLocked(n, l)
    BY <1>1, <2>1, <2>3, <2>4 DEF Store!SetLocked, Store!Do, Store!Key
  <2> QED BY <2>4, <2>5 DEF Store!Next
<1> QED BY <1>2, <1>3 DEF SetLocked

\* set_times changes no file of the store, which has no dates.
LEMMA SetTimesIsStores ==
  ASSUME Kept, NamesDistinct', NEW n \in FileNames, NEW now \in Times, SetTimes(n, now)
  PROVE  Store!Next
<1>1. call'[1] = "set times"
  BY DEF SetTimes
<1>2. Files' = Files /\ Disk' = Disk
  <2>1. CASE Fails(SetVerdict(n))
    BY <2>1, FailedFiles
  <2>2. CASE ~Fails(SetVerdict(n))
    <3> DEFINE i == IndexOf(n)
    <3>1. Found(n)
      BY <2>2 DEF SetTimes
    <3>2. i \in DOMAIN entries /\ Files[FoldOf[n]] = FileOf(entries[i], map, blocks)
          /\ KeyOf(entries[i]) = FoldOf[n] /\ FoldOf[n] \in DOMAIN Files
      BY <3>1, FileNamed DEF Store!Exists, Store!Key
    <3>3. entries[i] \in EntryType
      BY <3>2 DEF Kept, TypeOK
    <3>4. PICK t, m : SetEntry(n, [entries[i] EXCEPT !.created = t, !.modified = m], now)
      BY <2>2 DEF SetTimes
    <3> DEFINE e == [entries[i] EXCEPT !.created = t, !.modified = m]
    <3>5. e.name = entries[i].name /\ FileOf(e, map, blocks) = FileOf(entries[i], map, blocks)
      BY <3>3 DEF EntryType, FileOf
    <3> HIDE DEF e
    <3>6. Files' = Store!With(Files, FileOf(e, map, blocks)) /\ Disk' = Disk
      BY <3>1, <3>4, <3>5, SetterFiles DEF e
    <3>7. FoldOf[FileOf(e, map, blocks).name] = FoldOf[n]
      BY <3>2, <3>5 DEF FileOf, KeyOf
    <3>8. DOMAIN Files = (DOMAIN Files) \cup {FoldOf[n]} /\ Files = [x \in DOMAIN Files |-> Files[x]]
      BY <3>2 DEF Files
    <3>9. Store!With(Files, FileOf(e, map, blocks)) = Files
      BY <3>2, <3>5, <3>7, <3>8 DEF Store!With, Store!Key
    <3> QED BY <3>6, <3>9
  <2> QED BY <2>1, <2>2
<1> QED BY <1>1, <1>2 DEF Store!Next, Store!NoFileChanges

\* Neither do calls that concern the volume's name or the boot blocks.
LEMMA VolumeCallsAreStores ==
  ASSUME Kept, NEW now \in Times,
         \/ \E n \in VolumeNames : RenameVolume(n, now)
         \/ \E bb \in BootBlocks : SetBootBlocks(bb)
  PROVE  Store!Next
<1>1. call'[1] \in {"rename volume", "set boot"}
  <2>1. ASSUME NEW n, RenameVolume(n, now) PROVE call'[1] = "rename volume"
    BY <2>1 DEF RenameVolume
  <2>2. ASSUME NEW bb, SetBootBlocks(bb) PROVE call'[1] = "set boot"
    BY <2>2 DEF SetBootBlocks
  <2> QED BY <2>1, <2>2
<1>2. map' = map /\ entries' = entries /\ blocks' = blocks
  BY DEF RenameVolume, SetBootBlocks, Fails, volume
<1>3. mdb'.locked = mdb.locked
  BY DEF RenameVolume, SetBootBlocks, Fails, volume, Counted, Kept, TypeOK, MdbType
<1>4. Files' = Files /\ Disk' = Disk
  BY <1>2, <1>3, FilesStay, DiskStays
<1> QED BY <1>1, <1>4 DEF Store!Next, Store!NoFileChanges

\* rename_file gives the file another name, which may be its own in another case.
LEMMA RenameIsStores ==
  ASSUME Kept, NamesDistinct', NEW old \in FileNames, NEW new \in FileNames, NEW now \in Times,
         RenameFile(old, new, now)
  PROVE  Store!Next
<1> DEFINE i == IndexOf(old)
           v == RenameVerdict(old, new)
           e == [entries[i] EXCEPT !.name = new]
<1>1. /\ Store!Exists(old) <=> Found(old)
      /\ Store!Exists(new) <=> Found(new)
  BY FileNamed
<1>2. NameOk(new, MaxFileName) <=> new \in {x \in FileNames : NameOk(x, MaxFileName)}
  OBVIOUS
<1>3. call' = <<"rename", old, new>>
  BY DEF RenameFile
<1>4. Found(old) /\ Found(new) => (IndexOf(new) = i <=> FoldOf[new] = FoldOf[old])
  <2> SUFFICES ASSUME Found(old), Found(new) PROVE IndexOf(new) = i <=> FoldOf[new] = FoldOf[old]
    OBVIOUS
  <2>1. /\ i \in DOMAIN entries /\ KeyOf(entries[i]) = FoldOf[old]
        /\ IndexOf(new) \in DOMAIN entries /\ KeyOf(entries[IndexOf(new)]) = FoldOf[new]
    BY FileNamed
  <2> QED BY <2>1 DEF Kept, NamesDistinct, KeyOf
<1>5. CASE Fails(v)
  <2>1. Files' = Files /\ Disk' = Disk /\ result' = v /\ v # "Ok"
    BY <1>5, FailedFiles DEF Fails
  <2>2. CASE ReadOnly
    <3>1. v = "VolumeLocked"
      BY <2>2 DEF RenameVerdict
    <3> QED BY <1>5, <2>2, <3>1, LockedCall
  <2>3. CASE ~ReadOnly
    <3>1. \/ v = "InvalidName" /\ ~NameOk(new, MaxFileName)
          \/ v = "FileNotFound" /\ ~Found(old)
          \/ v = "FileExists" /\ Found(old) /\ Found(new) /\ IndexOf(new) # i
          \/ v = "DirectoryFull" /\ Found(old)
      BY <2>1, <2>3 DEF RenameVerdict
    <3> HIDE DEF v, i
    <3>2. Store!Rename(old, new)
      BY <1>1, <1>2, <1>3, <1>4, <2>1, <3>1
         DEF Store!Rename, Store!Refuse, Store!NotFound, Store!Key
    <3> QED BY <2>1, <3>2 DEF Store!Next
  <2> QED BY <2>2, <2>3
<1>6. CASE ~Fails(v)
  <2>1. /\ v = "Ok" /\ result' = "Ok" /\ map' = map /\ blocks' = blocks /\ Touched(now)
        /\ entries' = [entries EXCEPT ![i].name = new]
    BY <1>6 DEF RenameFile, Succeeds
  <2>2. /\ ~ReadOnly /\ NameOk(new, MaxFileName) /\ Found(old)
        /\ Found(new) => IndexOf(new) = i
    BY <2>1 DEF RenameVerdict
  <2>3. /\ i \in DOMAIN entries /\ Files[FoldOf[old]] = FileOf(entries[i], map, blocks)
        /\ KeyOf(entries[i]) = FoldOf[old]
    BY <2>2, FileNamed
  <2>4. entries[i] \in EntryType
    BY <2>3 DEF Kept, TypeOK
  <2>5. FileOf(e, map, blocks) = [FileOf(entries[i], map, blocks) EXCEPT !.name = new]
    <3>1. /\ e.fork = entries[i].fork /\ e.name = new
          /\ e.locked = entries[i].locked /\ e.code = entries[i].code
      BY <2>4 DEF EntryType
    <3> HIDE DEF e, i, v
    <3>2. FileOf(e, map, blocks) = [name |-> e.name, locked |-> e.locked, code |-> e.code,
                                    fork |-> FileOf(entries[i], map, blocks).fork]
      BY <3>1, SameForksFile
    <3>3. FileOf(entries[i], map, blocks) =
            [name |-> entries[i].name, locked |-> entries[i].locked, code |-> entries[i].code,
             fork |-> FileOf(entries[i], map, blocks).fork]
      BY SameForksFile
    <3> QED BY <3>1, <3>2, <3>3
  <2>6. entries' = [entries EXCEPT ![i] = e]
    BY <2>1
  <2> HIDE DEF e, i, v
  <2>7. Files' = Store!With(Store!Without(Files, entries[i].name), FileOf(e, map, blocks))
    BY <2>1, <2>3, <2>6, EntryReplaced
  <2>8. Store!Without(Files, entries[i].name) = Store!Without(Files, old)
    BY <2>3 DEF Store!Without, Store!Key, KeyOf
  <2>9. Disk' = Disk /\ Disk.writable
    <3>1. Disk' = Disk
      BY <2>1, TouchedLock, DiskStays DEF Kept
    <3> QED BY <2>2, <3>1 DEF Disk, ReadOnly
  <2>10. Store!Rename(old, new)
    <3>1. Files' = Store!With(Store!Without(Files, old), [Files[FoldOf[old]] EXCEPT !.name = new])
      BY <2>3, <2>5, <2>7, <2>8
    <3> QED BY <1>1, <1>2, <1>3, <1>4, <2>1, <2>2, <2>9, <3>1
            DEF Store!Rename, Store!Do, Store!Key
  <2> QED BY <2>9, <2>10 DEF Store!Next
<1> QED BY <1>5, <1>6

\* The walk of a fork's chain does not fail, on a sound volume.
LEMMA NothingBreaks ==
  ASSUME Kept, NEW n, Found(n), NEW k \in Forks
  PROVE  ~Breaks(map, OldStart(n, k))
<1>1. IndexOf(n) \in DOMAIN entries
  BY FileNamed
<1>2. entries[IndexOf(n)].fork[k].st # 0 => ChainOk(map, entries[IndexOf(n)].fork[k].st)
  BY <1>1, SizeIs DEF Kept, Clean
<1> QED BY <1>2 DEF Breaks, OldStart, ForkOf

\* What the store has room for is what write_fork counts.
LEMMA RoomForIs ==
  ASSUME Kept, NEW n, Found(n), NEW k \in Forks
  PROVE  /\ Store!RoomFor(n, k) = FreeCount(map) + OldLen(n, k)
         /\ FreeCount(map) \in Nat /\ OldLen(n, k) \in Nat
<1> DEFINE f == entries[IndexOf(n)].fork[k]
<1>1. IndexOf(n) \in DOMAIN entries /\ Files[FoldOf[n]] = FileOf(entries[IndexOf(n)], map, blocks)
  BY FileNamed
<1>2. /\ f.alloc \div BlkSiz = IF f.st = 0 THEN 0 ELSE ChainLen(map, f.st)
      /\ f.st # 0 => f.st \in Blocks
  BY <1>1, SizeIs DEF Kept, Clean
<1>3. OldLen(n, k) = f.alloc \div BlkSiz
  BY <1>2 DEF OldLen, OldStart, ForkOf
<1>4. Files[FoldOf[n]].fork[k].size = f.alloc \div BlkSiz
  BY <1>1 DEF FileOf
<1> HIDE DEF f
<1>5. f.alloc \div BlkSiz \in Nat
  BY <1>2, ChainLenType
<1>6. /\ Disk.capacity \in Nat /\ Store!Used \in Nat /\ FreeCount(map) \in Nat
      /\ Disk.capacity = Store!Used + FreeCount(map)
  BY RoomIs
<1>7. Store!RoomFor(n, k) = Disk.capacity - Store!Used + Files[FoldOf[n]].fork[k].size
  BY DEF Store!RoomFor, Store!Key
<1> QED BY <1>3, <1>4, <1>5, <1>6, <1>7

\* delete_file removes the file and nothing else.
LEMMA DeleteIsStores ==
  ASSUME Kept, TypeOK', NamesDistinct', NEW n \in FileNames, NEW now \in Times, DeleteFile(n, now)
  PROVE  Store!Next
<1> DEFINE i     == IndexOf(n)
           v     == DeleteVerdict(n)
           freed == Released(map, OldStart(n, "data"))
           rsrc  == OldStart(n, "rsrc")
<1>1. call' = <<"delete", n>>
  BY DEF DeleteFile
<1>2. CASE Fails(v)
  <2>1. Files' = Files /\ Disk' = Disk /\ result' = v /\ v # "Ok"
    BY <1>2, FailedFiles DEF Fails
  <2>2. CASE ReadOnly
    <3>1. v = "VolumeLocked"
      BY <2>2 DEF DeleteVerdict, FileVerdict
    <3> QED BY <1>2, <2>2, <3>1, LockedCall
  <2>3. CASE ~ReadOnly
    <3>1. \/ v = "FileNotFound" /\ ~Found(n)
          \/ v = "FileLocked" /\ Found(n) /\ entries[i].locked
      BY <2>1, <2>3, NothingBreaks DEF DeleteVerdict, FileVerdict, Forks
    <3>2. Store!Delete(n)
      <4> HIDE DEF v
      <4> QED BY <1>1, <2>1, <3>1, FileNamed DEF Store!Delete, Store!Refuse, Store!NotFound
    <3> QED BY <2>1, <3>2 DEF Store!Next
  <2> QED BY <2>2, <2>3
<1>3. CASE ~Fails(v)
  <2>1. v = "Ok"
    BY <1>3 DEF DeleteFile
  <2>2. ~ReadOnly /\ Found(n) /\ ~entries[i].locked
    BY <2>1 DEF DeleteVerdict, FileVerdict
  <2>3. /\ i \in DOMAIN entries /\ KeyOf(entries[i]) = FoldOf[n]
        /\ Store!Exists(n) /\ ~Store!IsLocked(n)
    BY <2>2, FileNamed
  <2>4. /\ ~Breaks(map, OldStart(n, "data")) /\ ~Breaks(map, rsrc)
    BY <2>2, NothingBreaks DEF Forks
  <2>5. ~(result' = "CorruptVolume" /\ map' = freed /\ Breaks(freed, rsrc))
    <3>1. SUFFICES ASSUME result' = "CorruptVolume", map' = freed, Breaks(freed, rsrc) PROVE FALSE
      OBVIOUS
    <3>2. result' # "Ok" => map' = map
      BY DeleteFileClean DEF Kept, volume
    <3> QED BY <2>4, <3>1, <3>2
  <2>6. /\ result' = "Ok" /\ ~Breaks(freed, rsrc) /\ map' = Released(freed, rsrc)
        /\ entries' = RemoveAt(entries, i) /\ blocks' = blocks /\ Touched(now)
    BY <1>3, <2>5 DEF DeleteFile, Succeeds
  <2>7. Disk' = Disk /\ Disk.writable
    <3>1. ASSUME NEW b \in Blocks PROVE map'[b] = RESERVED <=> map[b] = RESERVED
      <4>1. freed[b] = RESERVED <=> map[b] = RESERVED
        BY <2>4, ReleasedReserves
      <4> HIDE DEF freed, rsrc
      <4>2. Released(freed, rsrc)[b] = RESERVED <=> freed[b] = RESERVED
        BY <2>6, ReleasedReserves
      <4> QED BY <2>6, <4>1, <4>2
    <3>2. Disk' = Disk
      BY <2>6, <3>1, TouchedLock, DiskStays DEF Kept
    <3> QED BY <2>2, <3>2 DEF Disk, ReadOnly
  <2>8. /\ DOMAIN entries = 1 .. Len(entries) /\ Len(entries) \in Nat
        /\ entries' \in Seq(EntryType) /\ Len(entries') = Len(entries) - 1
        /\ \A x \in 1 .. Len(entries) - 1 :
             entries'[x] = IF x < i THEN entries[x] ELSE entries[x + 1]
    <3>1. entries \in Seq(EntryType)
      BY DEF Kept, TypeOK
    <3> HIDE DEF i
    <3> QED BY <2>3, <2>6, <3>1, RemovedEntry
  <2> DEFINE Old(x) == IF x < i THEN x ELSE x + 1
  <2>9. ASSUME NEW x \in DOMAIN entries'
        PROVE  /\ Old(x) \in DOMAIN entries /\ Old(x) # i
               /\ entries'[x] = entries[Old(x)]
    BY <2>3, <2>8
  <2>10. ASSUME NEW g \in DOMAIN entries, g # i
         PROVE  \E x \in DOMAIN entries' : Old(x) = g
    <3> DEFINE x == IF g < i THEN g ELSE g - 1
    <3>1. x \in DOMAIN entries' /\ Old(x) = g
      BY <2>3, <2>8, <2>10
    <3> QED BY <3>1
  <2> HIDE DEF Old
  <2>11. ASSUME NEW x \in DOMAIN entries'
         PROVE  /\ FileOf(entries'[x], map', blocks') = FileOf(entries[Old(x)], map, blocks)
                /\ KeyOf(entries'[x]) = KeyOf(entries[Old(x)])
    <3> DEFINE g == Old(x)
    <3>1. g \in DOMAIN entries /\ g # i /\ entries'[x] = entries[g]
      BY <2>9
    <3> HIDE DEF g
    <3>2. ASSUME NEW h \in Forks, <<g, h>> \in HasBlocks, Private(<<g, h>>), NEW b \in Owned(<<g, h>>)
          PROVE  map'[b] = map[b] /\ blocks'[b] = blocks[b]
      BY <1>3, <3>1, <3>2, DeleteKeepsBlocks DEF Kept
    <3>3. At(g, x)
      BY <3>1, <3>2 DEF At
    <3> QED BY <3>1, <3>3, FileStays DEF g
  <2> DEFINE G == Store!Without(Files, n)
  <2>12. G = [y \in (DOMAIN Files) \ {FoldOf[n]} |-> Files[y]]
    BY DEF Store!Without, Store!Key
  <2>13. /\ DOMAIN Files = {KeyOf(entries[j]) : j \in DOMAIN entries}
         /\ \A j \in DOMAIN entries : Files[KeyOf(entries[j])] = FileOf(entries[j], map, blocks)
    BY FilesAt DEF Files, KeyOf, Kept
  <2>14. \A j \in DOMAIN entries : j # i => KeyOf(entries[j]) # FoldOf[n]
    BY <2>3 DEF Kept, NamesDistinct, KeyOf
  <2> HIDE DEF G, i, freed, rsrc, v
  <2>15. Files' = G
    <3>1. ASSUME NEW x \in DOMAIN entries'
          PROVE  /\ KeyOf(entries'[x]) \in (DOMAIN Files) \ {FoldOf[n]}
                 /\ G[KeyOf(entries'[x])] = FileOf(entries'[x], map', blocks')
      <4>1. Old(x) \in DOMAIN entries /\ Old(x) # i
        BY <2>9
      <4>2. KeyOf(entries'[x]) = KeyOf(entries[Old(x)])
        BY <2>11
      <4>3. KeyOf(entries'[x]) \in (DOMAIN Files) \ {FoldOf[n]}
        BY <2>13, <2>14, <4>1, <4>2
      <4>4. Files[KeyOf(entries'[x])] = FileOf(entries'[x], map', blocks')
        BY <2>11, <2>13, <4>1, <4>2
      <4> QED BY <2>12, <4>3, <4>4
    <3>2. ASSUME NEW y \in (DOMAIN Files) \ {FoldOf[n]}
          PROVE  \E x \in DOMAIN entries' : y = KeyOf(entries'[x])
      <4>1. PICK j \in DOMAIN entries : y = KeyOf(entries[j]) /\ j # i
        BY <2>3, <2>13
      <4>2. PICK x \in DOMAIN entries' : Old(x) = j
        BY <2>10, <4>1
      <4> QED BY <2>11, <4>1, <4>2
    <3>3. G = [y \in DOMAIN G |-> G[y]] /\ DOMAIN G = {KeyOf(entries'[x]) : x \in DOMAIN entries'}
      BY <2>12, <3>1, <3>2
    <3> QED BY <3>1, <3>3, FilesAreNext
  <2>16. Store!Delete(n)
    BY <1>1, <2>3, <2>6, <2>7, <2>15 DEF Store!Delete, Store!Do, G
  <2> QED BY <2>7, <2>16 DEF Store!Next
<1> QED BY <1>2, <1>3

\* write_fork touches no entry but the file's, and in it neither lock nor codes.
LEMMA WriteFields ==
  ASSUME TypeOK, NEW n \in FileNames, NEW k \in Forks, NEW d \in Contents, NEW now \in Times,
         WriteFork(n, k, d, now), ~Fails(WriteVerdict(n, k, d)), NEW j \in DOMAIN entries
  PROVE  entries'[j].locked = entries[j].locked /\ entries'[j].code = entries[j].code
<1> DEFINE i   == IndexOf(n)
           new == [st |-> FirstOf(Allotted(Released(map, OldStart(n, k)), Needed(d))),
                   len |-> Len(d), alloc |-> Needed(d) * BlkSiz]
<1>1. entries' = [entries EXCEPT ![i].modified = now, ![i].fork[k] = new]
  BY DEF WriteFork
<1>2. entries[j] \in EntryType
  BY DEF TypeOK
<1> HIDE DEF i, new
<1> QED BY <1>1, <1>2 DEF EntryType

\* write_fork replaces the contents of the fork, and disturbs no other.
LEMMA WriteIsStores ==
  ASSUME Kept, NamesDistinct', NEW n \in FileNames, NEW k \in Forks, NEW d \in Contents,
         NEW now \in Times, WriteFork(n, k, d, now)
  PROVE  Store!Next
<1> DEFINE i     == IndexOf(n)
           v     == WriteVerdict(n, k, d)
           freed == Released(map, OldStart(n, k))
           got   == Allotted(freed, Needed(d))
           new   == [st |-> FirstOf(got), len |-> Len(d), alloc |-> Needed(d) * BlkSiz]
<1>0. TypeOK /\ Addressable /\ d \in Seq(Byte)
  BY VolumeAssumption DEF Kept, Clean
<1>1. call' = <<"write", n, k, d>>
  BY DEF WriteFork
<1>2. Store!BlocksFor(d) = Needed(d) /\ Needed(d) \in Nat
  BY <1>0, NeededBlocks DEF Store!BlocksFor, Needed
<1>3. k \in Store!Forks
  BY DEF Store!Forks, Forks
<1>4. CASE Fails(v)
  <2>1. Files' = Files /\ Disk' = Disk /\ result' = v /\ v # "Ok"
    BY <1>4, FailedFiles DEF Fails
  <2>2. CASE ReadOnly
    <3>1. v = "VolumeLocked"
      BY <2>2 DEF WriteVerdict, FileVerdict
    <3> QED BY <1>4, <2>2, <3>1, LockedCall
  <2>3. CASE ~ReadOnly
    <3>1. \/ v = "FileNotFound" /\ ~Found(n)
          \/ v = "FileLocked" /\ Found(n) /\ entries[i].locked
          \/ v = "VolumeFull" /\ Found(n) /\ FreeCount(map) + OldLen(n, k) < Needed(d)
      BY <2>1, <2>3, NothingBreaks DEF WriteVerdict, FileVerdict
    <3>2. Found(n) => /\ Store!RoomFor(n, k) = FreeCount(map) + OldLen(n, k)
                      /\ FreeCount(map) \in Nat /\ OldLen(n, k) \in Nat
      BY RoomForIs
    <3>3. CASE v = "VolumeFull" /\ Found(n) /\ FreeCount(map) + OldLen(n, k) < Needed(d)
      <4>1. Store!BlocksFor(d) > Store!RoomFor(n, k)
        BY <1>2, <3>2, <3>3
      <4>2. Store!Exists(n)
        BY <3>3, FileNamed
      <4>3. Store!Write(n, k, d)
        BY <1>1, <2>1, <3>3, <4>1, <4>2 DEF Store!Write, Store!Refuse
      <4> QED BY <1>3, <2>1, <4>3 DEF Store!Next
    <3>4. CASE v # "VolumeFull"
      <4> HIDE DEF v
      <4>1. Store!Write(n, k, d)
        BY <1>1, <2>1, <3>1, <3>4, FileNamed DEF Store!Write, Store!Refuse, Store!NotFound
      <4> QED BY <1>3, <2>1, <4>1 DEF Store!Next
    <3> QED BY <3>1, <3>3, <3>4
  <2> QED BY <2>2, <2>3
<1>5. CASE ~Fails(v)
  <2>1. v = "Ok" /\ result' = "Ok" /\ Touched(now)
    BY <1>5 DEF WriteFork, Succeeds
  <2>2. /\ ~ReadOnly /\ Found(n) /\ ~entries[i].locked
        /\ ~(FreeCount(map) + OldLen(n, k) < Needed(d))
    BY <2>1 DEF WriteVerdict, FileVerdict
  <2>3. /\ i \in DOMAIN entries /\ KeyOf(entries[i]) = FoldOf[n]
        /\ Files[FoldOf[n]] = FileOf(entries[i], map, blocks)
        /\ Store!Exists(n) /\ ~Store!IsLocked(n)
    BY <2>2, FileNamed
  <2>4. Store!BlocksFor(d) <= Store!RoomFor(n, k)
    <3>1. /\ Store!RoomFor(n, k) = FreeCount(map) + OldLen(n, k)
          /\ FreeCount(map) \in Nat /\ OldLen(n, k) \in Nat
      BY <2>2, RoomForIs
    <3> QED BY <1>2, <2>2, <3>1
  <2>5. /\ ~Breaks(map, OldStart(n, k))
        /\ got \in SUBSET Blocks /\ got \subseteq FreeBlocks(freed) /\ Cardinality(got) = Needed(d)
        /\ map' = Linked(freed, got)
        /\ \A b \in Blocks : blocks'[b] = IF b \in got THEN Chunk(d, PlaceOf(got, b)) ELSE blocks[b]
        /\ DOMAIN entries' = DOMAIN entries
        /\ \A j \in DOMAIN entries :
             /\ entries'[j].name = entries[j].name /\ entries'[j].fnum = entries[j].fnum
             /\ \A g \in Forks :
                  entries'[j].fork[g] = IF j = i /\ g = k THEN new ELSE entries[j].fork[g]
    BY <1>0, <1>5, WriteDone
  <2> DEFINE f == FileOf(entries'[i], map', blocks')
             old == FileOf(entries[i], map, blocks)
  <2>6. Disk' = Disk /\ Disk.writable
    <3>1. ASSUME NEW b \in Blocks PROVE map'[b] = RESERVED <=> map[b] = RESERVED
      <4>1. freed[b] = RESERVED <=> map[b] = RESERVED
        BY <2>5, ReleasedReserves
      <4> HIDE DEF freed, got
      <4>2. Linked(freed, got)[b] = RESERVED <=> freed[b] = RESERVED
        BY <1>0, <2>5, LinkedReserves
      <4> QED BY <2>5, <4>1, <4>2
    <3>2. Disk' = Disk
      BY <1>0, <2>1, <3>1, TouchedLock, DiskStays
    <3> QED BY <2>2, <3>2 DEF Disk, ReadOnly
  <2>7. ASSUME NEW g \in DOMAIN entries, NEW h \in Forks, <<g, h>> # <<i, k>>,
               <<g, h>> \in HasBlocks, NEW b \in Owned(<<g, h>>)
        PROVE  map'[b] = map[b] /\ blocks'[b] = blocks[b]
    <3>1. Private(<<g, h>>)
      BY <2>7, CleanChainsPrivate DEF Kept, Clean
    <3> QED BY <1>0, <1>5, <2>7, <3>1, WriteKeepsBlocks
  <2>8. \A j \in DOMAIN entries : j # i =>
          /\ FileOf(entries'[j], map', blocks') = FileOf(entries[j], map, blocks)
          /\ KeyOf(entries'[j]) = KeyOf(entries[j])
    <3> SUFFICES ASSUME NEW j \in DOMAIN entries, j # i
                 PROVE  /\ FileOf(entries'[j], map', blocks') = FileOf(entries[j], map, blocks)
                        /\ KeyOf(entries'[j]) = KeyOf(entries[j])
      OBVIOUS
    <3> HIDE DEF new
    <3>1. At(j, j)
      BY <2>5, <2>7 DEF At
    <3>2. entries'[j].locked = entries[j].locked /\ entries'[j].code = entries[j].code
      BY <1>0, <1>5, WriteFields
    <3> QED BY <2>5, <3>1, <3>2, FileStays
  <2>9. f.fork[k] = Store!Stored(d, Store!BlocksFor(d))
    <3>1. ReadOf(map', blocks', new) = Bytes(d)
      <4>1. new.st = FirstOf(got) /\ new.len = Len(d)
        OBVIOUS
      <4>2. \A b \in got : blocks'[b] = Chunk(d, PlaceOf(got, b))
        BY <2>5
      <4> HIDE DEF new, got, freed
      <4> QED BY <1>0, <2>5, <4>1, <4>2, NewForkReads
    <3>2. new.alloc \div BlkSiz = Needed(d)
      BY <1>2, BlocksDivide
    <3>3. entries'[i].fork[k] = new
      BY <2>3, <2>5
    <3> HIDE DEF new, i
    <3>4. f.fork[k] = [bytes |-> d, size |-> Needed(d)]
      BY <3>1, <3>2, <3>3 DEF FileOf, Bytes
    <3> QED BY <1>2, <3>4 DEF Store!Stored
  <2>10. ASSUME NEW h \in Forks, h # k PROVE f.fork[h] = old.fork[h]
    <3> DEFINE e == entries[i].fork[h]
    <3>1. e \in ForkType /\ (e.st # 0 => <<i, h>> \in HasBlocks)
      BY <2>3, SizeIs DEF Kept, Clean
    <3>2. Owned(<<i, h>>) = Visited(map, e.st)
      BY DEF Owned, ForkOf
    <3>3. entries'[i].fork[h] = e
      BY <2>3, <2>5, <2>10
    <3> HIDE DEF e, new
    <3>4. e.st # 0 => \A b \in Visited(map, e.st) : map'[b] = map[b] /\ blocks'[b] = blocks[b]
      BY <2>3, <2>7, <2>10, <3>1, <3>2
    <3>5. ReadOf(map', blocks', e) = ReadOf(map, blocks, e)
      BY <3>1, <3>4, ReadFrame
    <3>6. f.fork[h] = [bytes |-> ReadOf(map', blocks', e).data, size |-> e.alloc \div BlkSiz]
      BY <3>3 DEF FileOf
    <3>7. old.fork[h] = [bytes |-> ReadOf(map, blocks, e).data, size |-> e.alloc \div BlkSiz]
      BY DEF FileOf, e
    <3> QED BY <3>5, <3>6, <3>7
  <2>11. /\ f = [name |-> f.name, locked |-> f.locked, code |-> f.code, fork |-> f.fork]
         /\ old = [name |-> old.name, locked |-> old.locked, code |-> old.code, fork |-> old.fork]
         /\ f.fork = [h \in Forks |-> f.fork[h]] /\ old.fork = [h \in Forks |-> old.fork[h]]
    BY DEF FileOf
  <2>12. f.name = old.name /\ f.locked = old.locked /\ f.code = old.code
    <3>1. entries'[i].locked = entries[i].locked /\ entries'[i].code = entries[i].code
      BY <1>0, <1>5, <2>3, WriteFields
    <3>2. entries'[i].name = entries[i].name
      BY <2>3, <2>5
    <3> HIDE DEF i
    <3> QED BY <3>1, <3>2 DEF FileOf
  <2> HIDE DEF f, old
  <2>13. f = [old EXCEPT !.fork[k] = Store!Stored(d, Store!BlocksFor(d))]
    <3>1. f.fork = [old.fork EXCEPT ![k] = Store!Stored(d, Store!BlocksFor(d))]
      BY <2>9, <2>10, <2>11
    <3> QED BY <2>11, <2>12, <3>1
  <2>14. Files' = Store!With(Files, f)
    <3>1. KeyOf(entries'[i]) = KeyOf(entries[i])
      BY <2>3, <2>5 DEF KeyOf
    <3> HIDE DEF i, new
    <3> QED BY <2>3, <2>5, <2>8, <3>1, FileReplaced DEF f
  <2>15. Store!Write(n, k, d)
    <3>1. Files' = Store!With(Files, [Files[FoldOf[n]] EXCEPT !.fork[k] =
                                        Store!Stored(d, Store!BlocksFor(d))])
      BY <2>3, <2>13, <2>14 DEF old
    <3> QED BY <1>1, <2>1, <2>3, <2>4, <2>6, <3>1 DEF Store!Write, Store!Do, Store!Key
  <2> QED BY <1>3, <2>6, <2>15 DEF Store!Next
<1> QED BY <1>4, <1>5

-----------------------------------------------------------------------------
(***************************************************************************)
(* The refinement.                                                         *)
(***************************************************************************)
\* A step of a volume that is kept is a step of the store.
LEMMA StoreStep ==
  ASSUME Kept, TypeOK', NamesDistinct', [Next]_vars
  PROVE  [Store!Next]_(Store!vars)
<1>1. CASE UNCHANGED vars
  <2>1. Files' = Files /\ Disk' = Disk
    BY <1>1, FilesStay DEF vars, Disk
  <2> QED BY <1>1, <2>1 DEF vars, Store!vars
<1>2. CASE Next
  <2>1. PICK now \in Times :
           \/ \E n \in FileNames, c \in Codes : mdb.nxt_fnum < FnumBound /\ CreateFile(n, c, now)
           \/ \E n \in FileNames :
                \/ \E c \in Codes : SetTypeCreator(n, c, now)
                \/ \E l \in BOOLEAN : SetLocked(n, l, now)
                \/ SetTimes(n, now)
           \/ \E n \in FileNames, k \in Forks, d \in Contents : WriteFork(n, k, d, now)
           \/ \E n \in FileNames : DeleteFile(n, now)
           \/ \E old, new \in FileNames : RenameFile(old, new, now)
           \/ \E n \in VolumeNames : RenameVolume(n, now)
           \/ \E bb \in BootBlocks : SetBootBlocks(bb)
    BY <1>2, NextCases, Zenon
  <2>2. ASSUME NEW n \in FileNames, NEW c \in Codes, CreateFile(n, c, now) PROVE Store!Next
    BY <2>2, CreateIsStores
  <2>3. ASSUME NEW n \in FileNames,
               \/ \E c \in Codes : SetTypeCreator(n, c, now)
               \/ \E l \in BOOLEAN : SetLocked(n, l, now)
               \/ SetTimes(n, now)
        PROVE  Store!Next
    BY <2>3, SetCodeIsStores, SetLockedIsStores, SetTimesIsStores
  <2>4. ASSUME NEW n \in FileNames, NEW k \in Forks, NEW d \in Contents, WriteFork(n, k, d, now)
        PROVE  Store!Next
    BY <2>4, WriteIsStores
  <2>5. ASSUME NEW n \in FileNames, DeleteFile(n, now) PROVE Store!Next
    BY <2>5, DeleteIsStores
  <2>6. ASSUME NEW old \in FileNames, NEW new \in FileNames, RenameFile(old, new, now)
        PROVE  Store!Next
    BY <2>6, RenameIsStores
  <2>7. ASSUME \/ \E n \in VolumeNames : RenameVolume(n, now)
               \/ \E bb \in BootBlocks : SetBootBlocks(bb)
        PROVE  Store!Next
    BY <2>7, VolumeCallsAreStores
  <2>8. Store!Next
    BY <2>1, <2>2, <2>3, <2>4, <2>5, <2>6, <2>7
  <2> QED BY <2>8
<1> QED BY <1>1, <1>2

\* A volume that is kept is a store.
LEMMA StoreInit ==
  ASSUME Kept
  PROVE  Store!Init
<1>1. ASSUME NEW x \in DOMAIN Files PROVE FoldOf[Files[x].name] = x
  <2>1. PICK i \in DOMAIN entries : KeyOf(entries[i]) = x
    BY DEF Files, KeyOf
  <2>2. Files[x] = FileOf(entries[i], map, blocks)
    BY <2>1, FileAt DEF Kept
  <2> QED BY <2>1, <2>2 DEF FileOf, KeyOf
<1>2. Store!Used <= Disk.capacity
  BY RoomIs
<1> QED BY <1>1, <1>2 DEF Store!Init, Store!Key

\* Every image check() finds nothing wrong with, whose files all have names of
\* their own, behaves as a file store once it is opened: whatever is called, reads
\* return what was last written, files do not disturb each other, no block is lost,
\* and a write is refused only when it does not fit.
THEOREM OpenedIsAFileStore ==
  TypeOK /\ Clean /\ NamesDistinct /\ [][Next]_vars => ImplementsFileStore
<1>1. TypeOK /\ [Next]_vars => TypeOK'
  BY TypeStep
<1>2. TypeOK /\ TypeOK' /\ Clean /\ [Next]_vars => Clean'
  BY CleanStep
<1>3. TypeOK /\ NamesDistinct /\ [Next]_vars => NamesDistinct'
  BY NamesStep
<1>4. TypeOK /\ Clean /\ NamesDistinct => Store!Init
  BY StoreInit DEF Kept
<1>5. TypeOK /\ Clean /\ NamesDistinct /\ TypeOK' /\ NamesDistinct' /\ [Next]_vars
        => [Store!Next]_(Store!vars)
  BY StoreStep DEF Kept
<1> QED BY <1>1, <1>2, <1>3, <1>4, <1>5, PTL DEF ImplementsFileStore, Store!Spec

\* And so does every volume mkfs formats.
THEOREM FormattedIsAFileStore ==
  ASSUME NBlocks < CountMod
  PROVE  Spec => ImplementsFileStore
<1>1. FreshInit => TypeOK /\ Clean
  BY FreshType, FreshClean
<1>2. FreshInit => NamesDistinct
  BY DEF FreshInit, NamesDistinct
<1> QED BY <1>1, <1>2, OpenedIsAFileStore, PTL DEF Spec

-----------------------------------------------------------------------------
(***************************************************************************)
(* The directory a save packs.                                             *)
(***************************************************************************)
\* The entries a directory holds can be written, one by one and all of them.
FitToSave(es) == Fits(es, DirLen) /\ \A i \in 1 .. Len(es) : Writable(es[i])

\* A name create_file and rename_file take makes an entry that fits in a sector.
LEMMA AnyNameWritable ==
  ASSUME NEW e, NameOk(e.name, MaxFileName), e.name \in FileNames
  PROVE  Writable(e)
<1> DEFINE n == NameLen[e.name]
<1>1. n \in Nat /\ n <= MaxFileName /\ MaxFileName \in Nat /\ EntryLenFor(MaxFileName) <= SectorLen
  BY VolumeAssumption DEF NameOk
<1> HIDE DEF n
<1>2. /\ EntryLenFor(n) \in Nat /\ EntryLenFor(n) >= FixedLen
      /\ EntryLenFor(n) <= EntryLenFor(MaxFileName) /\ EntryLenFor(MaxFileName) \in Nat
  BY <1>1, DirectoryAssumption DEF EntryLenFor
<1>3. EntryLen(e) = EntryLenFor(n)
  BY DEF EntryLen, n
<1> QED BY <1>1, <1>2, <1>3, DirectoryAssumption DEF Writable

\* Entries that keep their names keep their room.
LEMMA SameNamesFit ==
  ASSUME TypeOK, FitToSave(entries), NEW es \in Seq(EntryType), Len(es) = Len(entries),
         \A i \in 1 .. Len(entries) : es[i].name = entries[i].name
  PROVE  FitToSave(es)
<1>1. entries \in Seq(EntryType) /\ DirLen \in Nat
  BY VolumeAssumption DEF TypeOK
<1>2. \A i \in 1 .. Len(entries) : EntryLen(es[i]) = EntryLen(entries[i]) /\ Writable(entries[i])
  BY DEF EntryLen, FitToSave
<1>3. \A i \in 1 .. Len(entries) : EntryLen(es[i]) \in Nat /\ EntryLen(es[i]) <= EntryLen(entries[i])
  BY <1>2, DirectoryAssumption DEF Writable
<1>4. Fits(es, DirLen)
  BY <1>1, <1>2, <1>3, ShorterFit DEF FitToSave
<1> QED BY <1>2, <1>4 DEF FitToSave, Writable

\* What a call does to the directory: it leaves it alone, or marks it dirty; and what
\* it leaves in it can be saved.
LEMMA DirectoryStep ==
  ASSUME TypeOK, TypeOK', FitToSave(entries), [Next]_vars
  PROVE  /\ FitToSave(entries')
         /\ dirDirty' = TRUE \/ (entries' = entries /\ dirDirty' = dirDirty)
<1> DEFINE Still == entries' = entries /\ dirDirty' = dirDirty
           Done == FitToSave(entries') /\ (dirDirty' = TRUE \/ Still)
<1>0. Still => Done
  OBVIOUS
<1>1. /\ entries \in Seq(EntryType) /\ entries' \in Seq(EntryType) /\ DirLen \in Nat
      /\ DOMAIN entries = 1 .. Len(entries) /\ Len(entries) \in Nat
      /\ \A i \in 1 .. Len(entries) : entries[i] \in EntryType
  BY VolumeAssumption DEF TypeOK
<1>2. ASSUME NEW now \in Times, NEW n \in FileNames, NEW c \in Codes, CreateFile(n, c, now)
      PROVE  Done
  <2> DEFINE new == NewEntry(n, c, now)
             grown == Append(entries, new)
  <2>1. CASE Fails(CreateVerdict(n, grown))
    BY <1>0, <2>1 DEF Fails, volume
  <2>2. CASE ~Fails(CreateVerdict(n, grown))
    <3>1. CreateVerdict(n, grown) = "Ok" /\ entries' = grown /\ dirDirty' = TRUE
      BY <1>2, <2>2 DEF CreateFile
    <3>2. NameOk(n, MaxFileName) /\ Fits(grown, DirLen)
      BY <3>1 DEF CreateVerdict
    <3>3. Writable(new)
      <4>1. new.name = n
        BY DEF NewEntry
      <4> HIDE DEF new
      <4> QED BY <3>2, <4>1, AnyNameWritable
    <3>4. Len(grown) = Len(entries) + 1 /\ \A i \in 1 .. Len(grown) : grown[i] = IF i <= Len(entries) THEN entries[i] ELSE new
      <4> HIDE DEF new
      <4> QED BY <1>1
    <3> HIDE DEF new, grown
    <3>5. \A i \in 1 .. Len(grown) : Writable(grown[i])
      <4> SUFFICES ASSUME NEW i \in 1 .. Len(grown) PROVE Writable(grown[i])
        OBVIOUS
      <4>1. CASE i <= Len(entries)
        <5>1. i \in 1 .. Len(entries) /\ grown[i] = entries[i]
          BY <1>1, <3>4, <4>1
        <5> QED BY <5>1 DEF FitToSave
      <4>2. CASE ~(i <= Len(entries))
        BY <3>3, <3>4, <4>2
      <4> QED BY <4>1, <4>2
    <3> QED BY <3>1, <3>2, <3>5 DEF FitToSave
  <2> QED BY <2>1, <2>2
<1>3. ASSUME NEW now \in Times, NEW n \in FileNames,
             \/ \E c \in Codes : SetTypeCreator(n, c, now)
             \/ \E l \in BOOLEAN : SetLocked(n, l, now)
             \/ SetTimes(n, now)
      PROVE  Done
  <2>1. CASE Fails(SetVerdict(n))
    BY <1>0, <2>1 DEF Fails, volume
  <2>2. CASE ~Fails(SetVerdict(n))
    <3>1. PICK e \in EntryType : /\ IndexOf(n) \in DOMAIN entries /\ SetEntry(n, e, now)
                                 /\ e.name = entries[IndexOf(n)].name
      BY <1>3, <2>2, SettersReplace
    <3>2. entries' = [entries EXCEPT ![IndexOf(n)] = e] /\ dirDirty' = TRUE
      BY <3>1 DEF SetEntry, Touched
    <3>3. Len(entries') = Len(entries) /\ \A j \in 1 .. Len(entries) : entries'[j].name = entries[j].name
      BY <1>1, <3>1, <3>2
    <3> QED BY <1>1, <3>2, <3>3, SameNamesFit
  <2> QED BY <2>1, <2>2
<1>4. ASSUME NEW now \in Times, NEW n \in FileNames, NEW k \in Forks, NEW d \in Contents,
             WriteFork(n, k, d, now)
      PROVE  Done
  <2>1. CASE Fails(WriteVerdict(n, k, d))
    BY <1>0, <2>1 DEF Fails, volume
  <2>2. CASE ~Fails(WriteVerdict(n, k, d))
    <3>1. PICK new : entries' = [entries EXCEPT ![IndexOf(n)].modified = now,
                                                ![IndexOf(n)].fork[k] = new]
      BY <1>4, <2>2 DEF WriteFork
    <3>2. dirDirty' = TRUE
      BY <1>4, <2>2 DEF WriteFork, Touched
    <3>3. Len(entries') = Len(entries) /\ \A j \in 1 .. Len(entries) : entries'[j].name = entries[j].name
      BY <1>1, <3>1 DEF EntryType
    <3> QED BY <1>1, <3>2, <3>3, SameNamesFit
  <2> QED BY <2>1, <2>2
<1>5. ASSUME NEW now \in Times, NEW n \in FileNames, DeleteFile(n, now)
      PROVE  Done
  <2>1. CASE UNCHANGED <<entries, dirDirty>>
    BY <1>0, <2>1
  <2>2. CASE ~UNCHANGED <<entries, dirDirty>>
    <3>1. entries' = RemoveAt(entries, IndexOf(n)) /\ Touched(now) /\ Found(n)
      BY <1>5, <2>2 DEF DeleteFile, Fails, volume, DeleteVerdict, FileVerdict
    <3>2. IndexOf(n) \in DOMAIN entries
      BY <3>1, Lookup DEF TypeOK
    <3>3. /\ Len(entries') = Len(entries) - 1
          /\ \A j \in 1 .. Len(entries) - 1 :
               entries'[j] = IF j < IndexOf(n) THEN entries[j] ELSE entries[j + 1]
      BY <1>1, <3>1, <3>2, RemovedEntry
    <3>4. \A i \in 1 .. Len(entries) : Writable(entries[i])
      BY DEF FitToSave
    <3>5. Fits(entries', DirLen)
      BY <1>1, <3>1, <3>2, <3>4, ThinnedFit DEF FitToSave
    <3>6. ASSUME NEW j \in 1 .. Len(entries') PROVE Writable(entries'[j])
      <4>1. j \in 1 .. Len(entries) - 1 /\ j \in 1 .. Len(entries) /\ j + 1 \in 1 .. Len(entries)
        BY <1>1, <3>3
      <4> QED BY <3>3, <3>4, <4>1
    <3> QED BY <3>1, <3>5, <3>6 DEF FitToSave, Touched
  <2> QED BY <2>1, <2>2
<1>6. ASSUME NEW now \in Times, NEW old \in FileNames, NEW new \in FileNames,
             RenameFile(old, new, now)
      PROVE  Done
  <2>1. CASE Fails(RenameVerdict(old, new))
    BY <1>0, <2>1 DEF Fails, volume
  <2>2. CASE ~Fails(RenameVerdict(old, new))
    <3>1. /\ RenameVerdict(old, new) = "Ok" /\ Touched(now)
          /\ entries' = [entries EXCEPT ![IndexOf(old)].name = new]
      BY <1>6, <2>2 DEF RenameFile
    <3>2. NameOk(new, MaxFileName) /\ Fits(entries', DirLen)
      BY <3>1 DEF RenameVerdict
    <3>3. Len(entries') = Len(entries)
      BY <1>1, <3>1
    <3>4. ASSUME NEW j \in 1 .. Len(entries') PROVE Writable(entries'[j])
      <4>1. j \in DOMAIN entries /\ j \in 1 .. Len(entries)
        BY <1>1, <3>3
      <4>2. CASE j # IndexOf(old)
        <5>1. entries'[j] = entries[j]
          BY <3>1, <4>1, <4>2
        <5> QED BY <4>1, <5>1 DEF FitToSave
      <4>3. CASE j = IndexOf(old)
        <5>1. entries'[j].name = new
          BY <1>1, <3>1, <4>1, <4>3 DEF EntryType
        <5> QED BY <3>2, <5>1, AnyNameWritable
      <4> QED BY <4>2, <4>3
    <3> QED BY <3>1, <3>2, <3>4 DEF FitToSave, Touched
  <2> QED BY <2>1, <2>2
<1>7. ASSUME NEW now \in Times,
             \/ \E n \in VolumeNames : RenameVolume(n, now)
             \/ \E bb \in BootBlocks : SetBootBlocks(bb)
      PROVE  Done
  BY <1>0, <1>7 DEF RenameVolume, SetBootBlocks, Fails, volume
<1>8. CASE UNCHANGED vars
  BY <1>0, <1>8 DEF vars
<1>9. CASE Next
  <2>1. PICK now \in Times :
          \/ \E n \in FileNames, c \in Codes : mdb.nxt_fnum < FnumBound /\ CreateFile(n, c, now)
          \/ \E n \in FileNames :
               \/ \E c \in Codes : SetTypeCreator(n, c, now)
               \/ \E l \in BOOLEAN : SetLocked(n, l, now)
               \/ SetTimes(n, now)
          \/ \E n \in FileNames, k \in Forks, d \in Contents : WriteFork(n, k, d, now)
          \/ \E n \in FileNames : DeleteFile(n, now)
          \/ \E old, new \in FileNames : RenameFile(old, new, now)
          \/ \E n \in VolumeNames : RenameVolume(n, now)
          \/ \E bb \in BootBlocks : SetBootBlocks(bb)
    BY <1>9, NextCases, Zenon
  <2> HIDE DEF Done
  <2>2. Done
    BY <2>1, <1>2, <1>3, <1>4, <1>5, <1>6, <1>7
  <2> QED BY <2>2 DEF Done
<1> QED BY <1>8, <1>9

-----------------------------------------------------------------------------
(***************************************************************************)
(* A volume and an image in the same terms: what must hold of a map, a     *)
(* directory, an MDB, an allocation area and boot blocks.                  *)
(***************************************************************************)
TableOf(es) == [r \in (DOMAIN es) \X Forks |-> es[r[1]].fork[r[2]]]

\* What is typed, clean and has a name for each file.
VolumeOk(m, es, rec, bl, bt) ==
  /\ m \in MapType /\ es \in Seq(EntryType) /\ rec \in MdbType
  /\ bl \in [Blocks -> [1 .. BlkSiz -> Byte]] /\ bt \in BootBlocks
  /\ SoundFor(m, TableOf(es))
  /\ rec.free_bks = FreeCount(m) % CountMod /\ rec.nm_fls = Len(es) % CountMod
  /\ \A i, j \in DOMAIN es : FoldOf[es[i].name] = FoldOf[es[j].name] => i = j

FilesOf(m, es, bl) ==
  [x \in {FoldOf[es[i].name] : i \in DOMAIN es} |->
     FileOf(es[CHOOSE i \in DOMAIN es : FoldOf[es[i].name] = x], m, bl)]

DiskOf(m, rec) ==
  [capacity |-> Cardinality({b \in Blocks : m[b] # RESERVED}), writable |-> ~rec.locked]

LEMMA KeptIs ==
  Kept <=> /\ VolumeOk(map, entries, mdb, blocks, boot)
           /\ Addressable /\ dirDirty \in BOOLEAN /\ result \in Results
<1>1. ForkTable = TableOf(entries)
  BY DEF ForkTable, TableOf, ForkRefs, ForkOf
<1>2. ForksDisjointAndSound <=> SoundFor(map, TableOf(entries))
  BY <1>1, SoundTable
<1>3. TypeOK <=> /\ map \in MapType /\ entries \in Seq(EntryType) /\ mdb \in MdbType
                 /\ blocks \in [Blocks -> [1 .. BlkSiz -> Byte]] /\ boot \in BootBlocks
                 /\ dirDirty \in BOOLEAN /\ result \in Results
  BY Zenon DEF TypeOK, Results
<1> QED BY <1>2, <1>3, Zenon DEF Kept, Clean, CountersFresh, NamesDistinct, VolumeOk

\* The same of the state a step leads to.
LEMMA KeptIsNext ==
  Kept' <=> /\ VolumeOk(map', entries', mdb', blocks', boot')
            /\ Addressable /\ dirDirty' \in BOOLEAN /\ result' \in Results
<1>1. (Kept <=> /\ VolumeOk(map, entries, mdb, blocks, boot)
                /\ Addressable /\ dirDirty \in BOOLEAN /\ result \in Results)'
  BY KeptIs, PTL
<1> QED BY <1>1

LEMMA FilesAndDiskAre ==
  /\ Files = FilesOf(map, entries, blocks) /\ Disk = DiskOf(map, mdb)
  /\ Files' = FilesOf(map', entries', blocks') /\ Disk' = DiskOf(map', mdb')
<1>1. Files = FilesOf(map, entries, blocks)
  BY DEF Files, AsFile, ReadFork, ForkOf, FilesOf, FileOf, ReadOf, ByteOf
<1>2. Disk = DiskOf(map, mdb)
  BY DEF Disk, DiskOf
<1>3. (Files = FilesOf(map, entries, blocks) /\ Disk = DiskOf(map, mdb))'
  BY <1>1, <1>2, PTL
<1> QED BY <1>1, <1>2, <1>3

-----------------------------------------------------------------------------
(***************************************************************************)
(* What holds of a volume and its image.                                   *)
(***************************************************************************)
Written == [used : BOOLEAN, e : EntryType]

\* Directory sectors that from_parts accepts.
Readable(sectors) == sectors \in [1 .. DirLen -> Seq(Written)] /\ Parses(sectors)

\* An image just opened, whatever check() makes of it.
AnyOpened ==
  /\ TypeOK
  /\ Readable(region) /\ entries = ParseDirectory(region) /\ dirDirty = FALSE
  /\ file = Serialized(region)

\* The volume's directory: it can be saved, and the buffer holds it unless it is dirty.
Held ==
  /\ TypeOK /\ FitToSave(entries)
  /\ Readable(region)
  /\ dirDirty = FALSE => ParseDirectory(region) = entries

\* The image can be opened.
CanOpen ==
  /\ file = [boot |-> file.boot, mdb |-> file.mdb, map |-> file.map, dir |-> file.dir,
             blocks |-> file.blocks]
  /\ Readable(file.dir)
  /\ file.map \in MapType /\ file.mdb \in MdbType
  /\ file.blocks \in [Blocks -> [1 .. BlkSiz -> Byte]] /\ file.boot \in BootBlocks

\* An image just opened, one check() finds nothing wrong with.
Opened ==
  /\ Kept
  /\ Readable(region) /\ entries = ParseDirectory(region) /\ dirDirty = FALSE
  /\ file = Serialized(region)
  /\ touched = FALSE /\ kept = Files

\* The volume in memory.
InMemory ==
  /\ Kept /\ FitToSave(entries)
  /\ Readable(region)
  /\ dirDirty = FALSE => ParseDirectory(region) = entries

\* The image: it could be opened at any time, and would be what was saved.
OnImage ==
  /\ file = [boot |-> file.boot, mdb |-> file.mdb, map |-> file.map, dir |-> file.dir,
             blocks |-> file.blocks]
  /\ Readable(file.dir)
  /\ VolumeOk(file.map, SavedEntries, file.mdb, file.blocks, file.boot)
  /\ kept = FilesOf(file.map, SavedEntries, file.blocks)
  /\ Disk = DiskOf(file.map, file.mdb)

\* As long as no call succeeded the one is as the other.
Untouched ==
  /\ touched \in BOOLEAN
  /\ touched = FALSE => dirDirty = FALSE /\ file = Serialized(region)

Together == InMemory /\ OnImage /\ Untouched

\* What a directory is read as can be saved.
LEMMA ReadableFits ==
  ASSUME NEW sectors, Readable(sectors)
  PROVE  ParseDirectory(sectors) \in Seq(EntryType) /\ FitToSave(ParseDirectory(sectors))
<1>1. \A t \in Written : t.e \in EntryType /\ Named(t.e)
  BY VolumeAssumption DEF Written, EntryType, Named
<1>2. DirLen \in Nat /\ sectors \in [1 .. DirLen -> Seq(Written)] /\ Parses(sectors)
  BY VolumeAssumption DEF Readable
<1>3. ParseDirectory(sectors) \in Seq(EntryType)
  BY <1>1, <1>2, ParsedAre
<1>4. FitToSave(ParseDirectory(sectors))
  BY <1>1, <1>2, ParsedFit DEF FitToSave
<1> QED BY <1>3, <1>4

\* What is packed is read back.
LEMMA PackedReadable ==
  ASSUME Held
  PROVE  /\ Readable(Packed) /\ ParseDirectory(Packed) = entries
         /\ ~(dirDirty /\ ~Fits(entries, DirLen))
<1>1. entries \in Seq(EntryType) /\ DirLen \in Nat /\ FitToSave(entries) /\ dirDirty \in BOOLEAN
  BY VolumeAssumption DEF Held, TypeOK
<1>2. CASE dirDirty
  <2> DEFINE R == WriteDirectory(entries, DirLen)
             T == {Slot(e) : e \in EntryType}
  <2>1. Fits(entries, DirLen) /\ \A i \in 1 .. Len(entries) : Writable(entries[i])
    BY <1>1 DEF FitToSave
  <2>2. R \in [1 .. DirLen -> Seq(T)] /\ Parses(R) /\ ParseDirectory(R) = entries
    BY <1>1, <2>1, RoundTrip
  <2>3. T \subseteq Written
    <3>1. ASSUME NEW e \in EntryType PROVE Slot(e) \in Written
      <4> HIDE DEF EntryType
      <4> QED BY DEF Slot, Written
    <3> QED BY <3>1
  <2> HIDE DEF R, T
  <2>4. Seq(T) \subseteq Seq(Written)
    BY <2>3
  <2>5. R \in [1 .. DirLen -> Seq(Written)]
    BY <2>2, <2>4
  <2> QED BY <1>1, <1>2, <2>2, <2>5 DEF Packed, R, Readable, FitToSave
<1>3. CASE ~dirDirty
  BY <1>1, <1>3 DEF Packed, Held
<1> QED BY <1>2, <1>3

LEMMA OpenedTogether == Opened => Together
<1> SUFFICES ASSUME Opened PROVE Together
  OBVIOUS
<1>1. FitToSave(entries) /\ Readable(region) /\ entries = ParseDirectory(region)
  BY ReadableFits DEF Opened
<1>2. InMemory
  BY <1>1 DEF Opened, InMemory
<1>3. /\ file.boot = boot /\ file.mdb = mdb /\ file.map = map /\ file.dir = region
      /\ file.blocks = blocks /\ SavedEntries = entries
  BY DEF Opened, Serialized, SavedEntries
<1>4. VolumeOk(map, entries, mdb, blocks, boot)
  BY KeptIs DEF Opened
<1>5. OnImage
  BY <1>1, <1>3, <1>4, FilesAndDiskAre DEF OnImage, Opened, Serialized
<1> QED BY <1>2, <1>5 DEF Together, Untouched, Opened

\* The calls of a volume leave its image alone.
LEMMA CallTogether ==
  ASSUME Together, [Next]_vars, UNCHANGED <<region, file, kept>>,
         touched' \in BOOLEAN,
         touched' = FALSE => touched = FALSE /\ (UNCHANGED vars \/ result' # "Ok")
  PROVE  Together'
<1>1. TypeOK /\ Clean /\ NamesDistinct /\ FitToSave(entries)
  BY DEF Together, InMemory, Kept
<1>2. TypeOK'
  BY <1>1, TypeStep
<1>3. Clean' /\ NamesDistinct'
  BY <1>1, <1>2, CleanStep, NamesStep
<1>4. /\ FitToSave(entries')
      /\ dirDirty' = TRUE \/ (entries' = entries /\ dirDirty' = dirDirty)
  BY <1>1, <1>2, DirectoryStep
<1>5. InMemory'
  BY <1>2, <1>3, <1>4 DEF InMemory, Kept, Together, Readable, FitToSave
<1>6. Disk' = Disk
  <2>1. [Store!Next]_(Store!vars)
    BY <1>1, <1>2, <1>3, StoreStep DEF Kept
  <2> QED BY <2>1 DEF Store!Next, Store!vars
<1>7. OnImage'
  <2>1. /\ file' = file /\ kept' = kept /\ SavedEntries' = SavedEntries
    BY DEF SavedEntries
  <2>2. OnImage
    BY DEF Together
  <2> QED BY <1>6, <2>1, <2>2 DEF OnImage, Readable
<1>8. Untouched'
  <2>1. touched' \in BOOLEAN
    OBVIOUS
  <2>2. ASSUME touched' = FALSE PROVE dirDirty' = FALSE /\ file' = Serialized(region)'
    <3>1. touched = FALSE /\ UNCHANGED volume
      <4>1. [result' # "Ok" => UNCHANGED volume]_vars
        BY <1>1, <1>2, FailedCall
      <4>2. touched = FALSE /\ (UNCHANGED vars \/ result' # "Ok")
        BY <2>2
      <4> QED BY <4>1, <4>2 DEF vars, volume
    <3> QED BY <3>1 DEF Together, Untouched, Serialized, volume
  <2> QED BY <2>1, <2>2 DEF Untouched
<1> QED BY <1>5, <1>7, <1>8 DEF Together

\* A save never runs out of directory, and the image then is the volume.
LEMMA SaveTogether ==
  ASSUME Together, Save
  PROVE  /\ Together' /\ result' = "Ok" /\ UNCHANGED volume
         /\ file' = Serialized(Packed) /\ SavedEntries' = entries /\ kept' = Files
         /\ touched = FALSE => file' = file
<1>1. Readable(Packed) /\ ParseDirectory(Packed) = entries /\ ~(dirDirty /\ ~Fits(entries, DirLen))
  BY PackedReadable DEF Together, InMemory, Held, Kept
<1>2. /\ result' = "Ok" /\ region' = Packed /\ file' = Serialized(Packed) /\ kept' = Files
      /\ UNCHANGED volume /\ touched' = touched
  BY <1>1 DEF Save
<1>3. /\ file'.boot = boot /\ file'.mdb = mdb /\ file'.map = map /\ file'.dir = Packed
      /\ file'.blocks = blocks
      /\ map' = map /\ entries' = entries /\ mdb' = mdb /\ dirDirty' = dirDirty
      /\ blocks' = blocks /\ boot' = boot
  BY <1>2 DEF Serialized, volume
<1>4. SavedEntries' = entries
  BY <1>1, <1>3 DEF SavedEntries
<1>5. VolumeOk(map, entries, mdb, blocks, boot) /\ dirDirty \in BOOLEAN /\ Addressable
  BY KeptIs DEF Together, InMemory
<1>6. Kept'
  BY <1>2, <1>3, <1>5, KeptIsNext DEF Results
<1>7. InMemory'
  BY <1>1, <1>2, <1>3, <1>6 DEF Together, InMemory, FitToSave, Readable
<1>8. OnImage'
  <2>1. VolumeOk(file'.map, SavedEntries', file'.mdb, file'.blocks, file'.boot)
    BY <1>3, <1>4, <1>5
  <2>2. kept' = FilesOf(file'.map, SavedEntries', file'.blocks)
    BY <1>2, <1>3, <1>4, FilesAndDiskAre
  <2>3. Disk' = DiskOf(file'.map, file'.mdb)
    BY <1>3, FilesAndDiskAre
  <2>4. file' = [boot |-> file'.boot, mdb |-> file'.mdb, map |-> file'.map, dir |-> file'.dir,
                 blocks |-> file'.blocks]
    BY <1>2 DEF Serialized
  <2>5. Readable(file.dir)'
    BY <1>1, <1>3 DEF Readable
  <2> QED BY <2>1, <2>2, <2>3, <2>4, <2>5 DEF OnImage
<1>9. ASSUME touched = FALSE
      PROVE  file' = file /\ dirDirty' = FALSE /\ file' = Serialized(region)'
  <2>1. dirDirty = FALSE /\ file = Serialized(region)
    BY <1>9 DEF Together, Untouched
  <2>2. Packed = region
    BY <2>1 DEF Packed
  <2> QED BY <1>2, <1>3, <2>1, <2>2 DEF Serialized
<1>10. Untouched'
  BY <1>2, <1>9 DEF Together, Untouched
<1> QED BY <1>2, <1>4, <1>7, <1>8, <1>9, <1>10 DEF Together

\* Opening brings back the volume as the image has it.
LEMMA OpenTogether ==
  ASSUME Together, Open
  PROVE  Together' /\ result' = "Ok" /\ Files' = kept /\ kept' = kept /\ Disk' = Disk /\ file' = file
<1>1. /\ result' = "Ok" /\ touched' = FALSE
      /\ map' = file.map /\ mdb' = file.mdb /\ blocks' = file.blocks /\ boot' = file.boot
      /\ entries' = SavedEntries /\ region' = file.dir /\ dirDirty' = FALSE
      /\ file' = file /\ kept' = kept
  <2>1. Parses(file.dir)
    BY DEF Together, OnImage, Readable
  <2> QED BY <2>1 DEF Open
<1>2. SavedEntries' = SavedEntries
  BY <1>1 DEF SavedEntries
<1>3. Kept'
  <2>1. VolumeOk(map', entries', mdb', blocks', boot')
    BY <1>1 DEF Together, OnImage
  <2>2. Addressable
    BY KeptIs DEF Together, InMemory
  <2> QED BY <1>1, <2>1, <2>2, KeptIsNext DEF Results
<1>4. Files' = kept /\ Disk' = Disk
  BY <1>1, FilesAndDiskAre DEF Together, OnImage
<1>5. Readable(file.dir) /\ FitToSave(SavedEntries)
  BY ReadableFits DEF Together, OnImage, SavedEntries
<1>6. InMemory'
  BY <1>1, <1>2, <1>3, <1>5 DEF InMemory, Readable, FitToSave, SavedEntries
<1>7. OnImage'
  BY <1>1, <1>2, <1>4 DEF Together, OnImage, Readable
<1>8. Untouched'
  BY <1>1 DEF Together, OnImage, Untouched, Serialized
<1> QED BY <1>1, <1>4, <1>6, <1>7, <1>8 DEF Together

LEMMA TogetherStep ==
  ASSUME Together, [SavedNext]_all
  PROVE  Together'
<1>1. CASE Call
  <2>1. touched \in BOOLEAN /\ touched' = (touched \/ result' = "Ok")
    BY <1>1 DEF Call, Together, Untouched
  <2> QED BY <1>1, <2>1, CallTogether DEF Call
<1>2. CASE Save
  BY <1>2, SaveTogether
<1>3. CASE Open
  BY <1>3, OpenTogether
<1>4. CASE UNCHANGED all
  <2>1. touched \in BOOLEAN /\ touched' = touched /\ UNCHANGED vars /\ UNCHANGED <<region, file, kept>>
    BY <1>4 DEF all, Together, Untouched
  <2> QED BY <2>1, CallTogether
<1> QED BY <1>1, <1>2, <1>3, <1>4 DEF SavedNext

\* No call of a volume is a save or an open.
LEMMA OtherCalls ==
  ASSUME Next
  PROVE  call' # <<"save">> /\ call' # <<"open">>
<1>1. call'[1] # "save" /\ call'[1] # "open"
  <2>1. PICK now \in Times :
          \/ \E n \in FileNames, c \in Codes : mdb.nxt_fnum < FnumBound /\ CreateFile(n, c, now)
          \/ \E n \in FileNames :
               \/ \E c \in Codes : SetTypeCreator(n, c, now)
               \/ \E l \in BOOLEAN : SetLocked(n, l, now)
               \/ SetTimes(n, now)
          \/ \E n \in FileNames, k \in Forks, d \in Contents : WriteFork(n, k, d, now)
          \/ \E n \in FileNames : DeleteFile(n, now)
          \/ \E old, new \in FileNames : RenameFile(old, new, now)
          \/ \E n \in VolumeNames : RenameVolume(n, now)
          \/ \E bb \in BootBlocks : SetBootBlocks(bb)
    BY NextCases, Zenon
  <2>2. call'[1] \in {"create", "set code", "set locked", "set times", "write", "delete", "rename",
                     "rename volume", "set boot"}
    <3>1. ASSUME NEW n \in FileNames, NEW c \in Codes, CreateFile(n, c, now) PROVE call'[1] = "create"
      BY <3>1 DEF CreateFile
    <3>2. ASSUME NEW n \in FileNames, NEW c \in Codes, SetTypeCreator(n, c, now) PROVE call'[1] = "set code"
      BY <3>2 DEF SetTypeCreator
    <3>3. ASSUME NEW n \in FileNames, NEW l \in BOOLEAN, SetLocked(n, l, now) PROVE call'[1] = "set locked"
      BY <3>3 DEF SetLocked
    <3>4. ASSUME NEW n \in FileNames, SetTimes(n, now) PROVE call'[1] = "set times"
      BY <3>4 DEF SetTimes
    <3>5. ASSUME NEW n \in FileNames, NEW k \in Forks, NEW d \in Contents, WriteFork(n, k, d, now)
          PROVE  call'[1] = "write"
      BY <3>5 DEF WriteFork
    <3>6. ASSUME NEW n \in FileNames, DeleteFile(n, now) PROVE call'[1] = "delete"
      BY <3>6 DEF DeleteFile
    <3>7. ASSUME NEW old \in FileNames, NEW new \in FileNames, RenameFile(old, new, now)
          PROVE  call'[1] = "rename"
      BY <3>7 DEF RenameFile
    <3>8. ASSUME NEW n \in VolumeNames, RenameVolume(n, now) PROVE call'[1] = "rename volume"
      BY <3>8 DEF RenameVolume
    <3>9. ASSUME NEW bb \in BootBlocks, SetBootBlocks(bb) PROVE call'[1] = "set boot"
      BY <3>9 DEF SetBootBlocks
    <3> QED BY <2>1, <3>1, <3>2, <3>3, <3>4, <3>5, <3>6, <3>7, <3>8, <3>9
  <2> QED BY <2>2
<1> QED BY <1>1

\* Of the steps of a volume and its image, one that says it is a save is one.
LEMMA SaysSave ==
  ASSUME SavedNext, call' = <<"save">>
  PROVE  Save
<1>1. ~Call
  BY OtherCalls DEF Call
<1>2. ~Open
  <2>1. <<"open">>[1] # <<"save">>[1]
    OBVIOUS
  <2> QED BY <2>1 DEF Open
<1> QED BY <1>1, <1>2 DEF SavedNext

\* And one that says it is an open is one.
LEMMA SaysOpen ==
  ASSUME SavedNext, call' = <<"open">>
  PROVE  Open
<1>1. ~Call
  BY OtherCalls DEF Call
<1>2. ~Save
  <2>1. <<"open">>[1] # <<"save">>[1]
    OBVIOUS
  <2> QED BY <2>1 DEF Save
<1> QED BY <1>1, <1>2 DEF SavedNext

LEMMA AnyOpenedHeld == AnyOpened => Held /\ CanOpen
<1> SUFFICES ASSUME AnyOpened PROVE Held /\ CanOpen
  OBVIOUS
<1>1. FitToSave(entries)
  BY ReadableFits DEF AnyOpened
<1>2. /\ file.boot = boot /\ file.mdb = mdb /\ file.map = map /\ file.dir = region
      /\ file.blocks = blocks
  BY DEF AnyOpened, Serialized
<1>3. CanOpen
  BY <1>2 DEF CanOpen, AnyOpened, Serialized, TypeOK
<1> QED BY <1>1, <1>3 DEF Held, AnyOpened

\* A save of any volume succeeds: the image then is the volume, and can be opened.
LEMMA SaveHeld ==
  ASSUME Held, Save
  PROVE  /\ Held' /\ CanOpen' /\ result' = "Ok" /\ UNCHANGED volume
         /\ file' = Serialized(Packed) /\ SavedEntries' = entries
<1>1. Readable(Packed) /\ ParseDirectory(Packed) = entries /\ ~(dirDirty /\ ~Fits(entries, DirLen))
  BY PackedReadable
<1>2. /\ result' = "Ok" /\ region' = Packed /\ file' = Serialized(Packed)
      /\ UNCHANGED volume
  BY <1>1 DEF Save
<1>3. /\ file'.boot = boot /\ file'.mdb = mdb /\ file'.map = map /\ file'.dir = Packed
      /\ file'.blocks = blocks
      /\ map' = map /\ entries' = entries /\ mdb' = mdb /\ dirDirty' = dirDirty
      /\ blocks' = blocks /\ boot' = boot
  BY <1>2 DEF Serialized, volume
<1>4. SavedEntries' = entries
  BY <1>1, <1>3 DEF SavedEntries
<1>5. TypeOK'
  BY <1>2, <1>3 DEF Held, TypeOK
<1>6. Held'
  BY <1>1, <1>2, <1>3, <1>5 DEF Held, FitToSave, Readable
<1>7. CanOpen'
  <2>1. Readable(file.dir)'
    BY <1>1, <1>3 DEF Readable
  <2>2. file' = [boot |-> file'.boot, mdb |-> file'.mdb, map |-> file'.map, dir |-> file'.dir,
                 blocks |-> file'.blocks]
    BY <1>2 DEF Serialized
  <2> QED BY <1>3, <2>1, <2>2 DEF CanOpen, Held, TypeOK
<1> QED BY <1>2, <1>4, <1>6, <1>7

\* An open of any image that was saved, or was opened before, succeeds.
LEMMA OpenHeld ==
  ASSUME CanOpen, Open
  PROVE  /\ Held' /\ CanOpen' /\ result' = "Ok" /\ file' = file /\ SavedEntries' = SavedEntries
         /\ map' = file.map /\ mdb' = file.mdb /\ blocks' = file.blocks /\ boot' = file.boot
         /\ entries' = SavedEntries
<1>1. /\ result' = "Ok"
      /\ map' = file.map /\ mdb' = file.mdb /\ blocks' = file.blocks /\ boot' = file.boot
      /\ entries' = SavedEntries /\ region' = file.dir /\ dirDirty' = FALSE
      /\ file' = file
  <2>1. Parses(file.dir)
    BY DEF CanOpen, Readable
  <2> QED BY <2>1 DEF Open
<1>2. SavedEntries' = SavedEntries
  BY <1>1 DEF SavedEntries
<1>3. SavedEntries \in Seq(EntryType) /\ FitToSave(SavedEntries) /\ Readable(file.dir)
  BY ReadableFits DEF CanOpen, SavedEntries
<1>4. TypeOK'
  BY <1>1, <1>3 DEF CanOpen, TypeOK
<1>5. Held'
  BY <1>1, <1>3, <1>4 DEF Held, FitToSave, Readable, SavedEntries
<1>6. CanOpen'
  BY <1>1, <1>3 DEF CanOpen, Readable
<1> QED BY <1>1, <1>2, <1>5, <1>6

\* Calls leave a directory that can be saved, on a volume check() objects to as well.
LEMMA CallHeld ==
  ASSUME Held, CanOpen, [Next]_vars, UNCHANGED <<region, file>>
  PROVE  Held' /\ CanOpen'
<1>1. TypeOK /\ TypeOK'
  BY TypeStep DEF Held
<1>2. /\ FitToSave(entries')
      /\ dirDirty' = TRUE \/ (entries' = entries /\ dirDirty' = dirDirty)
  BY <1>1, DirectoryStep DEF Held
<1>3. Held'
  BY <1>1, <1>2 DEF Held, Readable, FitToSave
<1>4. CanOpen'
  BY DEF CanOpen, Readable
<1> QED BY <1>3, <1>4

LEMMA HeldStep ==
  ASSUME Held, CanOpen, [SavedNext]_all
  PROVE  Held' /\ CanOpen'
<1>1. CASE Call
  BY <1>1, CallHeld DEF Call
<1>2. CASE Save
  BY <1>2, SaveHeld
<1>3. CASE Open
  BY <1>3, OpenHeld
<1>4. CASE UNCHANGED all
  BY <1>4, CallHeld DEF all
<1> QED BY <1>1, <1>2, <1>3, <1>4 DEF SavedNext

\* As long as dir_dirty is not set the buffer's directory sectors say what the entries
\* do, whatever image was opened, one check() finds damaged included.
THEOREM CleanDirectoryStaysCurrent ==
  AnyOpened /\ [][SavedNext]_all => []CleanDirectoryIsCurrent
<1>1. Held => CleanDirectoryIsCurrent
  BY DEF Held, CleanDirectoryIsCurrent, TypeOK
<1>2. Held /\ CanOpen /\ [SavedNext]_all => Held' /\ CanOpen'
  BY HeldStep
<1> QED BY <1>1, <1>2, AnyOpenedHeld, PTL

\* What was saved is what is opened, the MDB's counters, the volume's name and the boot
\* blocks too,
\* whatever image it is saved over.
THEOREM SavesKeepEverything ==
  AnyOpened /\ [][SavedNext]_all => SaveKeepsEverything
<1>1. Held /\ [SavedNext]_all =>
        [call' = <<"save">> /\ result' = "Ok" =>
           <<file.map, SavedEntries, file.blocks, file.mdb, file.boot>>'
             = <<map, entries, blocks, mdb, boot>>']_all
  <2> SUFFICES ASSUME Held, SavedNext, call' = <<"save">>
               PROVE  <<file.map, SavedEntries, file.blocks, file.mdb, file.boot>>'
                        = <<map, entries, blocks, mdb, boot>>'
    OBVIOUS
  <2>1. Save
    BY SaysSave
  <2>2. /\ file' = Serialized(Packed) /\ SavedEntries' = entries /\ UNCHANGED volume
    BY <2>1, SaveHeld
  <2> QED BY <2>2 DEF Serialized, volume
<1>2. Held /\ CanOpen /\ [SavedNext]_all => Held' /\ CanOpen'
  BY HeldStep
<1> QED BY <1>1, <1>2, AnyOpenedHeld, PTL DEF SaveKeepsEverything

\* No save is turned away for a directory that has no room, and no image that was saved
\* is turned away when it is opened: create_file and rename_file ask for the room that
\* write_to will need, in the sectors it will put the entries in.
THEOREM SavesAndOpensSucceed ==
  AnyOpened /\ [][SavedNext]_all
    => [][call' \in {<<"save">>, <<"open">>} => result' = "Ok"]_all
<1>1. Held /\ CanOpen /\ [SavedNext]_all =>
        [call' \in {<<"save">>, <<"open">>} => result' = "Ok"]_all
  <2>1. ASSUME Held, SavedNext, call' = <<"save">> PROVE result' = "Ok"
    BY <2>1, SaysSave, SaveHeld
  <2>2. ASSUME CanOpen, SavedNext, call' = <<"open">> PROVE result' = "Ok"
    BY <2>2, SaysOpen, OpenHeld
  <2> QED BY <2>1, <2>2
<1>2. Held /\ CanOpen /\ [SavedNext]_all => Held' /\ CanOpen'
  BY HeldStep
<1> QED BY <1>1, <1>2, AnyOpenedHeld, PTL

\* A volume no call has changed is saved as the bytes it was opened from.
THEOREM UntouchedSavesKeepBytes ==
  Opened /\ [][SavedNext]_all => UntouchedSaveKeepsBytes
<1>1. Together /\ [SavedNext]_all => [call' = <<"save">> /\ ~touched => file' = file]_all
  <2> SUFFICES ASSUME Together, SavedNext, ~touched PROVE file' = file
    OBVIOUS
  <2>1. touched = FALSE
    BY DEF Together, Untouched
  <2> QED BY <2>1, SaveTogether DEF SavedNext, Call, Open
<1>2. Together /\ [SavedNext]_all => Together'
  BY TogetherStep
<1> QED BY <1>1, <1>2, OpenedTogether, PTL DEF UntouchedSaveKeepsBytes

-----------------------------------------------------------------------------
(***************************************************************************)
(* check() of the image.                                                   *)
(***************************************************************************)
LEMMA SameCount ==
  ASSUME NEW S
  PROVE  OnDisk!Cardinality(S) = Cardinality(S)
BY DEF OnDisk!Cardinality, Cardinality

\* The map's operators are the same for the image.
LEMMA SameWalks ==
  ASSUME NEW m, NEW s
  PROVE  /\ OnDisk!Blocks = Blocks
         /\ OnDisk!Visited(m, s) = Visited(m, s) /\ OnDisk!ChainOk(m, s) = ChainOk(m, s)
         /\ OnDisk!ChainLen(m, s) = ChainLen(m, s) /\ OnDisk!FreeCount(m) = FreeCount(m)
         /\ OnDisk!FREE = FREE /\ OnDisk!RESERVED = RESERVED
<1>1. OnDisk!Blocks = Blocks /\ OnDisk!FREE = FREE /\ OnDisk!RESERVED = RESERVED /\ OnDisk!LAST = LAST
  BY DEF OnDisk!Blocks, Blocks, OnDisk!FREE, FREE, OnDisk!RESERVED, RESERVED, OnDisk!FIRST_BLOCK,
         FIRST_BLOCK, OnDisk!LAST, LAST
<1>2. \A b : OnDisk!MovesOn(m, b) <=> MovesOn(m, b)
  BY <1>1 DEF OnDisk!MovesOn, MovesOn, OnDisk!InRange, InRange
<1>3. \A R : OnDisk!ClosedUnder(m, R) <=> ClosedUnder(m, R)
  BY <1>2 DEF OnDisk!ClosedUnder, ClosedUnder
<1>4. OnDisk!Visited(m, s) = Visited(m, s)
  BY <1>1, <1>3 DEF OnDisk!Visited, Visited
<1>5. OnDisk!ChainOk(m, s) = ChainOk(m, s)
  BY <1>1, <1>4, Zenon DEF OnDisk!ChainOk, ChainOk, OnDisk!InRange, InRange
<1>6. OnDisk!ChainLen(m, s) = ChainLen(m, s)
  <2>1. OnDisk!Cardinality(OnDisk!Visited(m, s)) = Cardinality(Visited(m, s))
    BY <1>4, SameCount
  <2> QED BY <2>1 DEF OnDisk!ChainLen, ChainLen
<1>7. OnDisk!FreeCount(m) = FreeCount(m)
  <2>1. OnDisk!FreeBlocks(m) = FreeBlocks(m)
    BY <1>1 DEF OnDisk!FreeBlocks, FreeBlocks
  <2> QED BY <2>1, SameCount DEF OnDisk!FreeCount, FreeCount
<1> QED BY <1>1, <1>4, <1>5, <1>6, <1>7

LEMMA OnDiskSound ==
  SoundFor(file.map, TableOf(SavedEntries)) => OnDisk!ForksDisjointAndSound
<1> SUFFICES ASSUME SoundFor(file.map, TableOf(SavedEntries)) PROVE OnDisk!ForksDisjointAndSound
  OBVIOUS
<1> DEFINE m == file.map
           es == SavedEntries
           refs == (DOMAIN es) \X Forks
           F == [r \in refs |-> es[r[1]].fork[r[2]]]
<1>1. OnDisk!ForkRefs = refs /\ \A r : OnDisk!ForkOf(r[1], r[2]) = es[r[1]].fork[r[2]]
  BY DEF OnDisk!ForkRefs, OnDisk!Forks, Forks, OnDisk!ForkOf
<1>2. /\ DOMAIN F = refs /\ \A r \in refs : F[r] = OnDisk!ForkOf(r[1], r[2])
  BY <1>1
<1>3. SoundFor(m, F)
  BY DEF TableOf
<1> HIDE DEF refs, F, m
<1>4. \A r \in refs : OnDisk!HasBlocks = {x \in refs : F[x].st # 0}
  BY <1>1, <1>2 DEF OnDisk!HasBlocks
<1>5. ASSUME NEW r \in refs
      PROVE  OnDisk!Owned(r) = Visited(m, F[r].st) /\ (OnDisk!Walks(r) <=> ChainOk(m, F[r].st))
  BY <1>2, SameWalks DEF OnDisk!Owned, OnDisk!Walks, m
<1>6. OnDisk!ForksSound
  <2> SUFFICES ASSUME NEW r \in refs PROVE OnDisk!ForkSound(r)
    BY <1>1 DEF OnDisk!ForksSound
  <2>1. SoundFork(m, F[r])
    BY <1>2, <1>3 DEF SoundFor
  <2>2. F[r] = OnDisk!ForkOf(r[1], r[2])
    BY <1>2
  <2>3. OnDisk!ChainLen(m, F[r].st) = ChainLen(m, F[r].st)
    BY SameWalks
  <2> QED BY <1>5, <2>1, <2>2, <2>3 DEF SoundFork, OnDisk!ForkSound, EmptyForkSound, OnDisk!EmptyForkSound, m
<1>7. OnDisk!NoSharing
  <2> SUFFICES ASSUME NEW r \in OnDisk!HasBlocks, NEW s \in OnDisk!HasBlocks, r # s
               PROVE  OnDisk!Owned(r) \cap OnDisk!Owned(s) = {}
    BY DEF OnDisk!NoSharing
  <2>1. r \in refs /\ s \in refs /\ F[r].st # 0 /\ F[s].st # 0
    <3>1. OnDisk!HasBlocks \subseteq refs
      BY <1>1 DEF OnDisk!HasBlocks
    <3> QED BY <1>4, <3>1
  <2>2. Disjoint(m, F[r], F[s])
    BY <1>2, <1>3, <2>1 DEF SoundFor
  <2> QED BY <1>5, <2>1, <2>2 DEF Disjoint
<1>8. OnDisk!NoOrphans
  <2> SUFFICES ASSUME NEW b \in Blocks, m[b] \notin {FREE, RESERVED}
               PROVE  \E r \in OnDisk!HasBlocks : b \in OnDisk!Owned(r)
    BY SameWalks DEF OnDisk!NoOrphans, m
  <2>1. PICK r \in refs : F[r].st # 0 /\ b \in Visited(m, F[r].st)
    BY <1>2, <1>3 DEF SoundFor
  <2> QED BY <1>4, <1>5, <2>1
<1> QED BY <1>6, <1>7, <1>8 DEF OnDisk!ForksDisjointAndSound

\* check() has nothing to say of the image at any time, as long as the counters can hold
\* what they count.
THEOREM ImagesStayClean ==
  ASSUME NBlocks < CountMod
  PROVE  Opened /\ [][SavedNext]_all => [](Len(SavedEntries) < CountMod => ImageStaysClean)
<1>1. Together => (Len(SavedEntries) < CountMod => ImageStaysClean)
  <2> SUFFICES ASSUME Together, Len(SavedEntries) < CountMod PROVE OnDisk!CheckIsClean
    BY DEF ImageStaysClean
  <2>1. VolumeOk(file.map, SavedEntries, file.mdb, file.blocks, file.boot)
    BY DEF Together, OnImage
  <2>2. FreeCount(file.map) \in Nat /\ FreeCount(file.map) <= NBlocks
    <3>1. FreeBlocks(file.map) \subseteq Blocks
      BY DEF FreeBlocks
    <3> QED BY <3>1, BlocksFinite, FS_Subset, FS_CardinalityType DEF FreeCount
  <2>3. Len(SavedEntries) \in Nat /\ CountMod \in Nat \ {0} /\ NBlocks \in Nat
    BY <2>1, VolumeAssumption, BlockMapAssumption DEF VolumeOk
  <2>4. FreeCount(file.map) % CountMod = FreeCount(file.map) /\ Len(SavedEntries) % CountMod = Len(SavedEntries)
    BY <2>2, <2>3
  <2>5. OnDisk!ForksDisjointAndSound
    BY <2>1, OnDiskSound DEF VolumeOk
  <2> QED BY <2>1, <2>4, <2>5, SameWalks DEF VolumeOk, OnDisk!CheckIsClean
<1>2. Together /\ [SavedNext]_all => Together'
  BY TogetherStep
<1> QED BY <1>1, <1>2, OpenedTogether, PTL

-----------------------------------------------------------------------------
(***************************************************************************)
(* The durable store.                                                      *)
(***************************************************************************)
\* A durable store's calls are a file store's.
LEMMA SameStore ==
  /\ Store!Init => Durable!Init
  /\ Store!Next => Durable!Next
<1>1. \A n : Durable!Exists(n) = Store!Exists(n) /\ Durable!Key(n) = Store!Key(n)
  BY DEF Durable!Exists, Store!Exists, Durable!Key, Store!Key
<1>2. \A fs, f : Durable!With(fs, f) = Store!With(fs, f)
  BY DEF Durable!With, Store!With, Durable!Key, Store!Key
<1>3. \A fs, n : Durable!Without(fs, n) = Store!Without(fs, n)
  BY DEF Durable!Without, Store!Without, Durable!Key, Store!Key
<1>4. Durable!Used = Store!Used
  BY DEF Durable!Used, Store!Used, Durable!MapThenSumSet, Store!MapThenSumSet,
         Durable!MapThenFoldSet, Store!MapThenFoldSet, Durable!Forks, Store!Forks
<1>5. Store!Init => Durable!Init
  BY <1>4 DEF Store!Init, Durable!Init, Store!Key, Durable!Key
<1>6. ASSUME NEW fs PROVE Store!Do(fs) => Durable!Do(fs)
  BY DEF Store!Do, Durable!Do
<1>7. ASSUME NEW e PROVE Store!Refuse(e) => Durable!Refuse(e)
  BY DEF Store!Refuse, Durable!Refuse
<1>8. ASSUME NEW n
      PROVE  (Store!NotFound(n) => Durable!NotFound(n)) /\ Durable!IsLocked(n) = Store!IsLocked(n)
  BY <1>1, <1>7 DEF Store!NotFound, Durable!NotFound, Store!IsLocked, Durable!IsLocked
<1>9. ASSUME NEW n, NEW c PROVE Store!Create(n, c) => Durable!Create(n, c)
  BY <1>1, <1>2, <1>6, <1>7 DEF Store!Create, Durable!Create, Store!NewFile, Durable!NewFile,
     Store!Stored, Durable!Stored, Store!Forks, Durable!Forks
<1>10. ASSUME NEW n, NEW k, NEW d PROVE Store!Write(n, k, d) => Durable!Write(n, k, d)
  BY <1>1, <1>2, <1>4, <1>6, <1>7, <1>8 DEF Store!Write, Durable!Write, Store!RoomFor, Durable!RoomFor,
     Store!BlocksFor, Durable!BlocksFor, Store!Stored, Durable!Stored
<1>11. ASSUME NEW n PROVE Store!Delete(n) => Durable!Delete(n)
  BY <1>1, <1>3, <1>6, <1>7, <1>8 DEF Store!Delete, Durable!Delete
<1>12. ASSUME NEW old, NEW new PROVE Store!Rename(old, new) => Durable!Rename(old, new)
  BY <1>1, <1>2, <1>3, <1>6, <1>7, <1>8 DEF Store!Rename, Durable!Rename
<1>13. ASSUME NEW n, NEW c PROVE Store!SetCode(n, c) => Durable!SetCode(n, c)
  BY <1>1, <1>2, <1>6, <1>8 DEF Store!SetCode, Durable!SetCode
<1>14. ASSUME NEW n, NEW l PROVE Store!SetLocked(n, l) => Durable!SetLocked(n, l)
  BY <1>1, <1>2, <1>6, <1>8 DEF Store!SetLocked, Durable!SetLocked
<1>15. Store!NoFileChanges => Durable!NoFileChanges
  BY DEF Store!NoFileChanges, Durable!NoFileChanges
<1>16. Store!Next => Durable!Next
  <2>1. Durable!Forks = Store!Forks
    BY DEF Durable!Forks, Store!Forks
  <2> QED BY <2>1, <1>9, <1>10, <1>11, <1>12, <1>13, <1>14, <1>15 DEF Store!Next, Durable!Next
<1> QED BY <1>5, <1>16

LEMMA DurableStep ==
  ASSUME Together, Together', [SavedNext]_all
  PROVE  [Durable!Call \/ Durable!Save \/ Durable!Open]_(Durable!durable)
<1>1. CASE [Next]_vars /\ UNCHANGED kept
  <2>1. Kept /\ TypeOK' /\ NamesDistinct'
    BY DEF Together, InMemory, Kept
  <2>2. [Store!Next]_(Store!vars)
    BY <1>1, <2>1, StoreStep
  <2> QED BY <1>1, <2>2, SameStore DEF Store!vars, Durable!Call, Durable!durable
<1>2. CASE Save
  <2>1. result' = "Ok" /\ UNCHANGED volume /\ kept' = Files /\ call' = <<"save">>
    BY <1>2, SaveTogether DEF Save
  <2>2. Files' = Files /\ Disk' = Disk
    BY <2>1, FilesAndDiskAre DEF volume
  <2> QED BY <2>1, <2>2 DEF Durable!Save
<1>3. CASE Open
  BY <1>3, OpenTogether DEF Open, Durable!Open
<1> QED BY <1>1, <1>2, <1>3 DEF SavedNext, Call, all

\* A volume and its image are a durable store: a save keeps every change made so far, and
\* opening, after a crash too, brings back exactly what was saved.
THEOREM OpenedIsADurableStore ==
  Opened /\ [][SavedNext]_all => ImplementsDurableStore
<1>1. Opened => Durable!DurableInit
  <2>1. Opened => Store!Init /\ kept = Files
    BY StoreInit DEF Opened
  <2> QED BY <2>1, SameStore DEF Durable!DurableInit
<1>2. Together /\ [SavedNext]_all => Together'
  BY TogetherStep
<1>3. Together /\ Together' /\ [SavedNext]_all => [Durable!Call \/ Durable!Save \/ Durable!Open]_(Durable!durable)
  BY DurableStep
<1> QED BY <1>1, <1>2, <1>3, OpenedTogether, PTL DEF ImplementsDurableStore, Durable!DurableSpec

-----------------------------------------------------------------------------
(***************************************************************************)
(* File numbers, in memory and on the image.                               *)
(***************************************************************************)
\* No two entries have the same number, and the next one is above them all.
NumbersApart(es, next) ==
  \A i, j \in DOMAIN es : es[i].fnum < next /\ (es[i].fnum = es[j].fnum => i = j)

\* What a call makes of the directory, as far as numbers go.
LEMMA NumbersMove ==
  ASSUME TypeOK, [Next]_vars
  PROVE  \/ /\ DOMAIN entries' = DOMAIN entries
            /\ \A j \in DOMAIN entries : entries'[j].fnum = entries[j].fnum
         \/ \E e : entries' = Append(entries, e) /\ e.fnum = mdb.nxt_fnum
         \/ \E i \in DOMAIN entries : entries' = RemoveAt(entries, i)
<1> DEFINE Same == /\ DOMAIN entries' = DOMAIN entries
                   /\ \A j \in DOMAIN entries : entries'[j].fnum = entries[j].fnum
           Done == \/ Same
                   \/ \E e : entries' = Append(entries, e) /\ e.fnum = mdb.nxt_fnum
                   \/ \E i \in DOMAIN entries : entries' = RemoveAt(entries, i)
<1>0. entries' = entries => Done
  OBVIOUS
<1>1. /\ DOMAIN entries = 1 .. Len(entries) /\ entries \in Seq(EntryType)
      /\ \A j \in DOMAIN entries : entries[j] \in EntryType
  BY DEF TypeOK
<1>2. ASSUME NEW now \in Times, NEW n \in FileNames, NEW c \in Codes, CreateFile(n, c, now)
      PROVE  Done
  <2>1. CASE entries' = entries
    BY <1>0, <2>1
  <2>2. CASE entries' # entries
    <3>1. entries' = Append(entries, NewEntry(n, c, now))
      BY <1>2, <2>2 DEF CreateFile, Fails, volume
    <3>2. NewEntry(n, c, now).fnum = mdb.nxt_fnum
      BY DEF NewEntry
    <3> QED BY <3>1, <3>2
  <2> QED BY <2>1, <2>2
<1>3. ASSUME NEW now \in Times, NEW n \in FileNames,
             \/ \E c \in Codes : SetTypeCreator(n, c, now)
             \/ \E l \in BOOLEAN : SetLocked(n, l, now)
             \/ SetTimes(n, now)
      PROVE  Done
  <2>1. CASE Fails(SetVerdict(n))
    BY <1>0, <2>1 DEF Fails, volume
  <2>2. CASE ~Fails(SetVerdict(n))
    <3>1. PICK e \in EntryType : SetEntry(n, e, now) /\ e.fnum = entries[IndexOf(n)].fnum
      BY <1>3, <2>2, SettersReplace
    <3>2. entries' = [entries EXCEPT ![IndexOf(n)] = e]
      BY <3>1 DEF SetEntry
    <3>3. Same
      BY <1>1, <3>1, <3>2
    <3> QED BY <3>3
  <2> QED BY <2>1, <2>2
<1>4. ASSUME NEW now \in Times, NEW n \in FileNames, NEW k \in Forks, NEW d \in Contents,
             WriteFork(n, k, d, now)
      PROVE  Done
  <2>1. CASE Fails(WriteVerdict(n, k, d))
    BY <1>0, <2>1 DEF Fails, volume
  <2>2. CASE ~Fails(WriteVerdict(n, k, d))
    <3>1. PICK new : entries' = [entries EXCEPT ![IndexOf(n)].modified = now,
                                                ![IndexOf(n)].fork[k] = new]
      BY <1>4, <2>2 DEF WriteFork
    <3>2. Same
      BY <1>1, <3>1 DEF EntryType
    <3> QED BY <3>2
  <2> QED BY <2>1, <2>2
<1>5. ASSUME NEW now \in Times, NEW n \in FileNames, DeleteFile(n, now)
      PROVE  Done
  <2>1. CASE entries' = entries
    BY <1>0, <2>1
  <2>2. CASE entries' # entries
    <3>1. entries' = RemoveAt(entries, IndexOf(n)) /\ Found(n)
      BY <1>5, <2>2 DEF DeleteFile, Fails, volume, DeleteVerdict, FileVerdict
    <3>2. IndexOf(n) \in DOMAIN entries
      BY <3>1, Lookup DEF TypeOK
    <3> QED BY <3>1, <3>2
  <2> QED BY <2>1, <2>2
<1>6. ASSUME NEW now \in Times, NEW old \in FileNames, NEW new \in FileNames,
             RenameFile(old, new, now)
      PROVE  Done
  <2>1. CASE Fails(RenameVerdict(old, new))
    BY <1>0, <2>1 DEF Fails, volume
  <2>2. CASE ~Fails(RenameVerdict(old, new))
    <3>1. entries' = [entries EXCEPT ![IndexOf(old)].name = new]
      BY <1>6, <2>2 DEF RenameFile
    <3>2. Same
      BY <1>1, <3>1 DEF EntryType
    <3> QED BY <3>2
  <2> QED BY <2>1, <2>2
<1>7. ASSUME NEW now \in Times,
             \/ \E n \in VolumeNames : RenameVolume(n, now)
             \/ \E bb \in BootBlocks : SetBootBlocks(bb)
      PROVE  Done
  BY <1>0, <1>7 DEF RenameVolume, SetBootBlocks, Fails, volume
<1>8. CASE UNCHANGED vars
  BY <1>0, <1>8 DEF vars
<1>9. CASE Next
  <2>1. PICK now \in Times :
          \/ \E n \in FileNames, c \in Codes : mdb.nxt_fnum < FnumBound /\ CreateFile(n, c, now)
          \/ \E n \in FileNames :
               \/ \E c \in Codes : SetTypeCreator(n, c, now)
               \/ \E l \in BOOLEAN : SetLocked(n, l, now)
               \/ SetTimes(n, now)
          \/ \E n \in FileNames, k \in Forks, d \in Contents : WriteFork(n, k, d, now)
          \/ \E n \in FileNames : DeleteFile(n, now)
          \/ \E old, new \in FileNames : RenameFile(old, new, now)
          \/ \E n \in VolumeNames : RenameVolume(n, now)
          \/ \E bb \in BootBlocks : SetBootBlocks(bb)
    BY <1>9, NextCases, Zenon
  <2> HIDE DEF Done
  <2>2. Done
    BY <2>1, <1>2, <1>3, <1>4, <1>5, <1>6, <1>7
  <2> QED BY <2>2 DEF Done
<1> QED BY <1>8, <1>9

LEMMA ApartStep ==
  ASSUME FnumBound \in Nat, FnumBound < FnumMod, TypeOK, TypeOK', [Next]_vars,
         NumbersApart(entries, mdb.nxt_fnum)
  PROVE  NumbersApart(entries', mdb'.nxt_fnum)
<1>0. /\ DOMAIN entries = 1 .. Len(entries) /\ Len(entries) \in Nat /\ entries \in Seq(EntryType)
      /\ \A j \in DOMAIN entries : entries[j].fnum \in Nat
      /\ mdb.nxt_fnum \in Nat /\ mdb'.nxt_fnum \in Nat
  <2>1. \A j \in DOMAIN entries : entries[j] \in EntryType
    BY DEF TypeOK
  <2> QED BY <2>1 DEF TypeOK, MdbType, EntryType
<1>1. \A j \in DOMAIN entries' : entries'[j].fnum < mdb'.nxt_fnum
  <2>1. CASE UNCHANGED vars
    BY <2>1 DEF vars, NumbersApart
  <2>2. CASE Next
    <3>1. NumbersKept
      BY <2>2, NumbersStep
    <3>2. ASSUME NEW j \in DOMAIN entries' PROVE entries'[j].fnum < mdb'.nxt_fnum
      <4>1. CASE \E i \in DOMAIN entries : entries[i].fnum = entries'[j].fnum
        <5>1. PICK i \in DOMAIN entries : entries[i].fnum = entries'[j].fnum
          BY <4>1
        <5>2. entries[i].fnum < mdb.nxt_fnum /\ entries[i].fnum \in Nat
          BY <1>0 DEF NumbersApart
        <5>3. mdb'.nxt_fnum >= mdb.nxt_fnum
          BY <3>1 DEF NumbersKept
        <5> QED BY <1>0, <5>1, <5>2, <5>3
      <4> QED BY <3>1, <4>1 DEF NumbersKept
    <3> QED BY <3>2
  <2> QED BY <2>1, <2>2
<1>2. \A i, j \in DOMAIN entries : entries[i].fnum < mdb.nxt_fnum /\ (entries[i].fnum = entries[j].fnum => i = j)
  BY DEF NumbersApart
<1>3. ASSUME NEW i \in DOMAIN entries', NEW j \in DOMAIN entries', entries'[i].fnum = entries'[j].fnum
      PROVE  i = j
  <2>1. CASE /\ DOMAIN entries' = DOMAIN entries
             /\ \A h \in DOMAIN entries : entries'[h].fnum = entries[h].fnum
    BY <1>2, <1>3, <2>1
  <2>2. CASE \E e : entries' = Append(entries, e) /\ e.fnum = mdb.nxt_fnum
    <3>1. PICK e : entries' = Append(entries, e) /\ e.fnum = mdb.nxt_fnum
      BY <2>2
    <3>2. \A h \in DOMAIN entries' :
            \/ h \in DOMAIN entries /\ entries'[h] = entries[h]
            \/ h = Len(entries) + 1 /\ entries'[h] = e
      BY <1>0, <3>1
    <3>3. \A h \in DOMAIN entries : entries[h].fnum # mdb.nxt_fnum
      BY <1>0, <1>2
    <3> QED BY <1>2, <1>3, <3>1, <3>2, <3>3
  <2>3. CASE \E r \in DOMAIN entries : entries' = RemoveAt(entries, r)
    <3>1. PICK r \in DOMAIN entries : entries' = RemoveAt(entries, r)
      BY <2>3
    <3>2. /\ entries' \in Seq(EntryType) /\ Len(entries') = Len(entries) - 1
          /\ \A h \in 1 .. Len(entries) - 1 :
               entries'[h] = IF h < r THEN entries[h] ELSE entries[h + 1]
      BY <1>0, <3>1, RemovedEntry
    <3> DEFINE o(h) == IF h < r THEN h ELSE h + 1
    <3>3. ASSUME NEW h \in DOMAIN entries' PROVE h \in Nat /\ o(h) \in DOMAIN entries /\ entries'[h] = entries[o(h)]
      <4>1. h \in 1 .. Len(entries) - 1
        BY <3>2
      <4> QED BY <1>0, <3>2, <4>1
    <3>4. o(i) = o(j)
      <4> HIDE DEF o
      <4> QED BY <1>2, <1>3, <3>3
    <3>5. r \in Nat /\ i \in Nat /\ j \in Nat
      BY <1>0, <3>3
    <3> QED BY <3>4, <3>5
  <2> QED BY <2>1, <2>2, <2>3, NumbersMove
<1> QED BY <1>1, <1>3 DEF NumbersApart

\* The numbers of the files on an image differ, and lie below its counter: one issued,
\* lost in a crash and issued again never meets itself, as long as the counter has not
\* gone through all its values.  The image need be sound in nothing but its numbers.
THEOREM SavedNumbersDiffer ==
  ASSUME FnumBound \in Nat, FnumBound < FnumMod
  PROVE  AnyOpened /\ NumbersApart(entries, mdb.nxt_fnum) /\ [][SavedNext]_all
           => []NumbersOnDiskDiffer
<1> DEFINE Apart == /\ NumbersApart(entries, mdb.nxt_fnum)
                    /\ NumbersApart(SavedEntries, file.mdb.nxt_fnum)
<1>1. AnyOpened /\ NumbersApart(entries, mdb.nxt_fnum) => Apart
  BY DEF AnyOpened, Serialized, SavedEntries
<1>2. ASSUME Held, Held', CanOpen, Apart, [SavedNext]_all PROVE Apart'
  <2>1. TypeOK /\ TypeOK'
    BY <1>2 DEF Held
  <2>2. CASE [Next]_vars /\ UNCHANGED file
    <3>1. NumbersApart(entries', mdb'.nxt_fnum)
      BY <1>2, <2>1, <2>2, ApartStep
    <3> QED BY <1>2, <2>2, <3>1 DEF NumbersApart, SavedEntries
  <2>3. CASE Save
    <3>1. file'.mdb = mdb /\ SavedEntries' = entries /\ mdb' = mdb /\ entries' = entries
      BY <1>2, <2>3, SaveHeld DEF Serialized, volume
    <3> QED BY <1>2, <3>1 DEF NumbersApart
  <2>4. CASE Open
    <3>1. file' = file /\ SavedEntries' = SavedEntries /\ mdb' = file.mdb /\ entries' = SavedEntries
      BY <1>2, <2>4, OpenHeld
    <3> QED BY <1>2, <3>1 DEF NumbersApart
  <2> QED BY <1>2, <2>2, <2>3, <2>4 DEF SavedNext, Call, all
<1>3. Apart => NumbersOnDiskDiffer
  BY DEF NumbersApart, NumbersOnDiskDiffer
<1>4. Held /\ CanOpen /\ [SavedNext]_all => Held' /\ CanOpen'
  BY HeldStep
<1> HIDE DEF Apart
<1> QED BY <1>1, <1>2, <1>3, <1>4, AnyOpenedHeld, PTL
=============================================================================
