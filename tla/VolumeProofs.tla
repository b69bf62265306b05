---------------------------- MODULE VolumeProofs ----------------------------
(***************************************************************************)
(* Theorems about a volume, for every number of blocks, block size,        *)
(* directory size, set of names and contents: types, names, numbers, that  *)
(* check() stays clean and that a call that fails has changed nothing;     *)
(* then what reads return: the bytes read_fork puts together from the      *)
(* blocks of a chain, and what a call leaves of the forks it is not about. *)
(***************************************************************************)
EXTENDS Volume, StructureProofs

-----------------------------------------------------------------------------
(***************************************************************************)
(* Arithmetic of blocks.                                                   *)
(***************************************************************************)
\* Contents take the least number of blocks they fit in.
LEMMA NeededBlocks ==
  ASSUME NEW d \in Seq(Byte)
  PROVE  /\ Needed(d) \in Nat
         /\ Len(d) <= Needed(d) * BlkSiz
         /\ Needed(d) = 0 => Len(d) = 0
<1>1. Len(d) \in Nat /\ BlkSiz \in Nat \ {0}
  BY VolumeAssumption
<1>2. ASSUME NEW a \in Nat, NEW b \in Nat \ {0}
      PROVE  /\ (a + b - 1) \div b \in Nat
             /\ a <= ((a + b - 1) \div b) * b
             /\ (a + b - 1) \div b = 0 => a = 0
  OBVIOUS
<1> QED BY <1>1, <1>2 DEF Needed

\* Every block of contents is a whole block of bytes.
LEMMA ChunkType ==
  ASSUME NEW d \in Seq(Byte), NEW i \in Nat \ {0}
  PROVE  Chunk(d, i) \in [1 .. BlkSiz -> Byte]
<1>1. BlkSiz \in Nat /\ Zero \in Byte
  BY VolumeAssumption
<1> SUFFICES ASSUME NEW j \in 1 .. BlkSiz PROVE Chunk(d, i)[j] \in Byte
  BY DEF Chunk
<1>2. (i - 1) * BlkSiz + j \in Nat \ {0}
  <2>1. i - 1 \in Nat /\ j \in Nat /\ j >= 1
    BY <1>1
  <2>2. (i - 1) * BlkSiz \in Nat
    BY <2>1, <1>1
  <2> QED BY <2>1, <2>2
<1>3. CASE (i - 1) * BlkSiz + j <= Len(d)
  BY <1>1, <1>2, <1>3 DEF Chunk
<1>4. CASE ~((i - 1) * BlkSiz + j <= Len(d))
  BY <1>1, <1>4 DEF Chunk
<1> QED BY <1>3, <1>4

-----------------------------------------------------------------------------
(***************************************************************************)
(* Chains that walk to their end.                                          *)
(***************************************************************************)
\* A walk stops at one block only.
LEMMA OneStop ==
  ASSUME NEW m, NEW start \in Blocks,
         NEW b \in Visited(m, start), NEW e \in Visited(m, start),
         ~MovesOn(m, b), ~MovesOn(m, e)
  PROVE  b = e
<1> DEFINE V == Visited(m, start)
           D == {c \in V : b \in Visited(m, c) /\ e \in Visited(m, c)}
<1>1. V \subseteq Blocks /\ start \in V /\ ClosedUnder(m, V)
  BY VisitedClosed
<1>2. SUFFICES ASSUME b # e PROVE FALSE
  OBVIOUS
<1>3. ASSUME NEW c \in Blocks, ~MovesOn(m, c) PROVE Visited(m, c) = {c}
  <2>1. ClosedUnder(m, {c})
    BY <1>3 DEF ClosedUnder
  <2> QED BY <2>1, VisitedLeast, VisitedClosed
<1>4. ASSUME NEW c \in Blocks, MovesOn(m, c)
      PROVE  m[c] \in Blocks /\ Visited(m, c) \subseteq {c} \cup Visited(m, m[c])
  <2>1. m[c] \in Blocks
    BY <1>4 DEF MovesOn, InRange
  <2>2. /\ Visited(m, m[c]) \subseteq Blocks
        /\ m[c] \in Visited(m, m[c])
        /\ ClosedUnder(m, Visited(m, m[c]))
    BY <2>1, VisitedClosed
  <2>3. ClosedUnder(m, {c} \cup Visited(m, m[c]))
    BY <2>2 DEF ClosedUnder
  <2> QED BY <2>1, <2>2, <2>3, VisitedLeast
<1>5. ClosedUnder(m, D)
  <2> SUFFICES ASSUME NEW c \in D, MovesOn(m, c) PROVE m[c] \in D
    BY DEF ClosedUnder
  <2>1. c \in Blocks /\ m[c] \in V
    BY <1>1 DEF ClosedUnder
  <2>2. b # c /\ e # c
    OBVIOUS
  <2> QED BY <2>1, <2>2, <1>4
<1>6. start \in D
  BY <1>1
<1>7. V \subseteq D
  BY <1>1, <1>5, <1>6, VisitedLeast
<1>8. e \in Visited(m, b) /\ b \in Blocks
  BY <1>1, <1>7
<1> QED BY <1>2, <1>3, <1>8

\* No block of a chain that walks to its end is free or reserved.
LEMMA ChainBlocksTaken ==
  ASSUME NEW m, NEW start, ChainOk(m, start), NEW b \in Visited(m, start)
  PROVE  m[b] \notin {FREE, RESERVED}
<1>1. start \in Blocks /\ Visited(m, start) \subseteq Blocks /\ ClosedUnder(m, Visited(m, start))
  BY VisitedClosed DEF ChainOk, InRange
<1>2. PICK e \in Visited(m, start) : m[e] = LAST
  BY DEF ChainOk
<1>3. ~MovesOn(m, e)
  BY <1>2 DEF MovesOn
<1>4. LAST # FREE /\ LAST # RESERVED
  BY BlockMapAssumption DEF LAST, FREE, RESERVED
<1>5. CASE MovesOn(m, b)
  BY <1>5 DEF MovesOn
<1>6. CASE ~MovesOn(m, b)
  BY <1>1, <1>2, <1>3, <1>4, <1>6, OneStop
<1> QED BY <1>5, <1>6

\* Releasing a chain makes exactly its blocks free, once each.
LEMMA FreedCount ==
  ASSUME NEW m, NEW start, ChainOk(m, start)
  PROVE  /\ FreeBlocks(FreeChain(m, start)) = FreeBlocks(m) \cup Visited(m, start)
         /\ FreeCount(FreeChain(m, start)) = FreeCount(m) + ChainLen(m, start)
         /\ FreeCount(m) \in Nat /\ ChainLen(m, start) \in Nat
<1> DEFINE V == Visited(m, start)
<1>1. V \subseteq Blocks
  BY DEF Visited
<1>2. FreeBlocks(FreeChain(m, start)) = FreeBlocks(m) \cup V
  BY <1>1 DEF FreeBlocks, FreeChain
<1>3. FreeBlocks(m) \cap V = {}
  BY ChainBlocksTaken DEF FreeBlocks
<1>4. FreeBlocks(m) \subseteq Blocks
  BY DEF FreeBlocks
<1>5. IsFiniteSet(FreeBlocks(m)) /\ IsFiniteSet(V)
  BY <1>1, <1>4, BlocksFinite, FS_Subset
<1>6. Cardinality(FreeBlocks(m)) \in Nat /\ Cardinality(V) \in Nat
  BY <1>5, FS_CardinalityType
<1>7. Cardinality(FreeBlocks(m) \cup V) = Cardinality(FreeBlocks(m)) + Cardinality(V)
  <2>1. Cardinality(FreeBlocks(m) \cup V) =
          Cardinality(FreeBlocks(m)) + Cardinality(V) - Cardinality(FreeBlocks(m) \cap V)
    BY <1>5, FS_Union, Zenon
  <2>2. Cardinality(FreeBlocks(m) \cap V) = 0
    BY <1>3, FS_EmptySet
  <2> QED BY <1>6, <2>1, <2>2
<1> QED BY <1>2, <1>6, <1>7 DEF FreeCount, ChainLen

\* What releasing a fork's chain does to the map, whether it has one or not.
LEMMA ReleasedMap ==
  ASSUME NEW m \in MapType, NEW start, ~Breaks(m, start)
  PROVE  /\ Released(m, start) \in MapType
         /\ FreeCount(Released(m, start)) =
              FreeCount(m) + (IF start = 0 THEN 0 ELSE ChainLen(m, start))
         /\ FreeCount(m) \in Nat
<1>1. FreeCount(m) \in Nat
  <2>1. FreeBlocks(m) \subseteq Blocks
    BY DEF FreeBlocks
  <2> QED BY <2>1, BlocksFinite, FS_Subset, FS_CardinalityType DEF FreeCount
<1>2. CASE start = 0
  BY <1>1, <1>2 DEF Released
<1>3. CASE start # 0
  <2>1. ChainOk(m, start)
    BY <1>3 DEF Breaks
  <2> QED BY <1>3, <2>1, FreedCount, FreeChainType DEF Released
<1> QED BY <1>1, <1>2, <1>3

-----------------------------------------------------------------------------
(***************************************************************************)
(* Type correctness.                                                       *)
(***************************************************************************)
\* The file a lookup finds is in the directory and answers to the name.
LEMMA Lookup ==
  ASSUME TypeOK, NEW n, Found(n)
  PROVE  IndexOf(n) \in DOMAIN entries /\ FoldOf[entries[IndexOf(n)].name] = FoldOf[n]
<1>1. Matches(n) \subseteq Nat /\ Matches(n) # {}
  <2>1. DOMAIN entries = 1 .. Len(entries) /\ Len(entries) \in Nat
    BY DEF TypeOK
  <2> QED BY <2>1 DEF Matches, Found
<1>2. IndexOf(n) \in Matches(n)
  BY <1>1, LeastOf DEF IndexOf
<1> QED BY <1>2 DEF Matches

\* The directory stays a sequence of entries when one of them is replaced.
LEMMA ReplacedEntry ==
  ASSUME TypeOK, NEW i \in DOMAIN entries, NEW e \in EntryType
  PROVE  [entries EXCEPT ![i] = e] \in Seq(EntryType)
BY DEF TypeOK

\* The counters a mutator leaves behind.
LEMMA CountedType ==
  ASSUME NEW rec \in MdbType, NEW m, NEW es, IsFiniteSet(FreeBlocks(m)), Len(es) \in Nat
  PROVE  Counted(rec, m, es) \in MdbType
<1>1. FreeCount(m) \in Nat
  BY FS_CardinalityType DEF FreeCount
<1>2. FreeCount(m) % CountMod \in Nat /\ Len(es) % CountMod \in Nat
  BY <1>1, VolumeAssumption
<1> QED BY <1>2 DEF Counted, MdbType

\* The free blocks are among the blocks, and finitely many.
LEMMA FreeBlocksFinite ==
  ASSUME NEW m
  PROVE  IsFiniteSet(FreeBlocks(m)) /\ FreeBlocks(m) \subseteq Blocks
<1>1. FreeBlocks(m) \subseteq Blocks
  BY DEF FreeBlocks
<1> QED BY <1>1, BlocksFinite, FS_Subset

\* What Touched leaves of the MDB.
LEMMA TouchedType ==
  ASSUME TypeOK, NEW now \in Times, Touched(now), Len(entries') \in Nat
  PROVE  mdb' \in MdbType /\ dirDirty' \in BOOLEAN
<1>1. [mdb EXCEPT !.ls_mod = now] \in MdbType
  BY DEF TypeOK, MdbType
<1> QED BY <1>1, CountedType, FreeBlocksFinite DEF Touched

\* The blocks write_fork allocates are free ones, as many as the contents need:
\* allocate cannot fail after the test for room.
LEMMA RoomToWrite ==
  ASSUME TypeOK, NEW n \in FileNames, NEW k \in Forks, NEW d \in Contents,
         WriteVerdict(n, k, d) = "Ok"
  PROVE  LET freed == Released(map, OldStart(n, k))
             got   == Allotted(freed, Needed(d))
         IN  /\ Found(n) /\ IndexOf(n) \in DOMAIN entries
             /\ ~entries[IndexOf(n)].locked
             /\ ~Breaks(map, OldStart(n, k))
             /\ freed \in MapType
             /\ got \subseteq FreeBlocks(freed)
             /\ IsFiniteSet(got)
             /\ Cardinality(got) = Needed(d)
<1> DEFINE freed == Released(map, OldStart(n, k))
<1>1. Found(n) /\ ~entries[IndexOf(n)].locked
  BY DEF WriteVerdict, FileVerdict
<1>2. ~Breaks(map, OldStart(n, k)) /\ ~(FreeCount(map) + OldLen(n, k) < Needed(d))
  BY DEF WriteVerdict
<1>3. map \in MapType
  BY DEF TypeOK
<1>4. /\ freed \in MapType
      /\ FreeCount(freed) = FreeCount(map) + OldLen(n, k)
      /\ FreeCount(map) \in Nat
  BY <1>2, <1>3, ReleasedMap DEF OldLen
<1>5. FreeCount(freed) \in Nat /\ Needed(d) \in Nat
  <2>1. d \in Seq(Byte)
    BY VolumeAssumption
  <2> QED BY <2>1, NeededBlocks, FreeBlocksFinite, FS_CardinalityType DEF FreeCount
<1>6. Needed(d) <= Cardinality(FreeBlocks(freed))
  BY <1>2, <1>4, <1>5 DEF FreeCount
<1> HIDE DEF freed
<1>7. FreeBlocks(freed) \in SUBSET Blocks
  BY FreeBlocksFinite
<1>8. /\ Allotted(freed, Needed(d)) \subseteq FreeBlocks(freed)
      /\ IsFiniteSet(Allotted(freed, Needed(d)))
      /\ Cardinality(Allotted(freed, Needed(d))) = Needed(d)
  BY <1>5, <1>6, <1>7, LowestOf DEF Allotted
<1> QED BY <1>1, <1>2, <1>4, <1>8, Lookup DEF freed

\* The first block write_fork notes in the entry is a number; 0 for no block.
LEMMA FirstOfType ==
  ASSUME NEW S, S \subseteq Blocks
  PROVE  FirstOf(S) \in Nat
<1>1. S \subseteq Nat
  BY BlocksFinite
<1> QED BY <1>1, LeastOf DEF FirstOf

\* The results a call can have.
Results == {"Ok", "VolumeLocked", "InvalidName", "FileExists", "FileNotFound",
            "FileLocked", "DirectoryFull", "VolumeFull", "CorruptVolume"}

\* A call that fails leaves the types as they are.
LEMMA FailsType ==
  ASSUME TypeOK, NEW e \in Results, Fails(e)
  PROVE  TypeOK'
BY DEF TypeOK, Fails, volume, Results, MapType

\* write_fork keeps the types: the new chain, entry and blocks are well formed.
LEMMA WriteForkType ==
  ASSUME TypeOK, NEW n \in FileNames, NEW k \in Forks, NEW d \in Contents, NEW now \in Times,
         WriteFork(n, k, d, now)
  PROVE  TypeOK'
<1> DEFINE i     == IndexOf(n)
           freed == Released(map, OldStart(n, k))
           got   == Allotted(freed, Needed(d))
           new   == [st |-> FirstOf(got), len |-> Len(d), alloc |-> Needed(d) * BlkSiz]
<1>1. CASE Fails(WriteVerdict(n, k, d))
  <2>1. WriteVerdict(n, k, d) \in Results
    BY DEF WriteVerdict, FileVerdict, Results
  <2> QED BY <1>1, <2>1, FailsType
<1>2. CASE WriteVerdict(n, k, d) = "Ok" /\ ~Fails(WriteVerdict(n, k, d))
  <2>1. /\ i \in DOMAIN entries /\ freed \in MapType
        /\ got \subseteq FreeBlocks(freed) /\ IsFiniteSet(got)
    BY <1>2, RoomToWrite
  <2>2. got \subseteq Blocks
    BY <2>1, FreeBlocksFinite
  <2>3. d \in Seq(Byte)
    BY VolumeAssumption
  <2>4. new \in ForkType
    <3>1. FirstOf(got) \in Nat
      BY <2>2, FirstOfType
    <3>2. Len(d) \in Nat /\ Needed(d) * BlkSiz \in Nat
      <4>1. Needed(d) \in Nat /\ BlkSiz \in Nat
        BY <2>3, NeededBlocks, VolumeAssumption
      <4> QED BY <2>3, <4>1
    <3> HIDE DEF got
    <3> QED BY <3>1, <3>2 DEF ForkType
  <2> HIDE DEF new, got, freed, i
  <2>5. /\ map' = Linked(freed, got)
        /\ blocks' = [b \in Blocks |-> IF b \in got THEN Chunk(d, PlaceOf(got, b)) ELSE blocks[b]]
        /\ entries' = [entries EXCEPT ![i].modified = now, ![i].fork[k] = new]
        /\ boot' = boot /\ result' = "Ok" /\ Touched(now)
    BY <1>2 DEF WriteFork, Succeeds, i, freed, got, new
  <2>6. map' \in MapType
    BY <2>1, <2>2, <2>5, LinkedType
  <2>7. entries' \in Seq(EntryType)
    <3> DEFINE e == [entries[i] EXCEPT !.modified = now, !.fork[k] = new]
    <3>1. entries[i] \in EntryType
      BY <2>1 DEF TypeOK
    <3>2. e \in EntryType
      BY <3>1, <2>4 DEF EntryType
    <3>3. entries' = [entries EXCEPT ![i] = e]
      BY <2>5
    <3> QED BY <2>1, <3>2, <3>3, ReplacedEntry
  <2>8. blocks' \in [Blocks -> [1 .. BlkSiz -> Byte]]
    <3> SUFFICES ASSUME NEW b \in Blocks PROVE blocks'[b] \in [1 .. BlkSiz -> Byte]
      BY <2>5
    <3>1. CASE b \notin got
      BY <3>1, <2>5 DEF TypeOK
    <3>2. CASE b \in got
      <4>1. {c \in got : c <= b} \subseteq got /\ b \in {c \in got : c <= b}
        BY <3>2, BlocksFinite
      <4>2. IsFiniteSet({c \in got : c <= b})
        BY <4>1, <2>1, FS_Subset
      <4>3. PlaceOf(got, b) \in Nat \ {0}
        BY <4>1, <4>2, FS_CardinalityType, FS_EmptySet DEF PlaceOf
      <4> QED BY <3>2, <4>3, <2>3, <2>5, ChunkType
    <3> QED BY <3>1, <3>2
  <2>9. mdb' \in MdbType /\ dirDirty' \in BOOLEAN
    BY <2>5, <2>7, TouchedType
  <2> QED BY <2>5, <2>6, <2>7, <2>8, <2>9 DEF TypeOK
<1> QED BY <1>1, <1>2 DEF WriteFork

\* delete_file keeps the types, in the case it stops half way too.
LEMMA DeleteFileType ==
  ASSUME TypeOK, NEW n \in FileNames, NEW now \in Times, DeleteFile(n, now)
  PROVE  TypeOK'
<1> DEFINE i     == IndexOf(n)
           freed == Released(map, OldStart(n, "data"))
           rsrc  == OldStart(n, "rsrc")
<1>1. CASE Fails(DeleteVerdict(n))
  <2>1. DeleteVerdict(n) \in Results
    BY DEF DeleteVerdict, FileVerdict, Results
  <2> QED BY <1>1, <2>1, FailsType
<1>2. ASSUME DeleteVerdict(n) = "Ok"
      PROVE  Found(n) /\ i \in DOMAIN entries /\ freed \in MapType
  <2>1. Found(n) /\ ~Breaks(map, OldStart(n, "data"))
    BY <1>2 DEF DeleteVerdict, FileVerdict
  <2> QED BY <2>1, Lookup, ReleasedMap DEF TypeOK
<1>3. CASE /\ DeleteVerdict(n) = "Ok" /\ Breaks(freed, rsrc)
           /\ result' = "CorruptVolume" /\ map' = freed
           /\ UNCHANGED <<entries, mdb, dirDirty, blocks, boot>>
  BY <1>2, <1>3 DEF TypeOK
<1>4. CASE /\ DeleteVerdict(n) = "Ok" /\ ~Breaks(freed, rsrc) /\ Succeeds
           /\ map' = Released(freed, rsrc) /\ entries' = RemoveAt(entries, i)
           /\ UNCHANGED <<blocks, boot>> /\ Touched(now)
  <2>1. map' \in MapType
    BY <1>2, <1>4, ReleasedMap
  <2>2. entries' \in Seq(EntryType)
    BY <1>2, <1>4, RemovedEntry DEF TypeOK
  <2>3. mdb' \in MdbType /\ dirDirty' \in BOOLEAN
    BY <1>4, <2>2, TouchedType
  <2> QED BY <1>4, <2>1, <2>2, <2>3 DEF TypeOK, Succeeds
<1> QED BY <1>1, <1>3, <1>4 DEF DeleteFile

\* create_file keeps the types.
LEMMA CreateFileType ==
  ASSUME TypeOK, NEW n \in FileNames, NEW c \in Codes, NEW now \in Times, CreateFile(n, c, now)
  PROVE  TypeOK'
<1> DEFINE grown == Append(entries, NewEntry(n, c, now))
           v     == CreateVerdict(n, grown)
<1>1. CASE Fails(v)
  <2>1. v \in Results
    BY DEF CreateVerdict, Results
  <2> QED BY <1>1, <2>1, FailsType
<1>2. CASE /\ Succeeds /\ entries' = grown /\ dirDirty' = TRUE
           /\ mdb' = Counted([mdb EXCEPT !.ls_mod = now,
                                         !.nxt_fnum = (@ + 1) % FnumMod], map, grown)
           /\ UNCHANGED <<map, blocks, boot>>
  <2>1. NewEntry(n, c, now) \in EntryType
    <3>1. [k \in Forks |-> NoFork] \in [Forks -> ForkType]
      BY DEF NoFork, ForkType
    <3> QED BY <3>1 DEF NewEntry, EntryType, TypeOK, MdbType
  <2>2. grown \in Seq(EntryType)
    BY <2>1 DEF TypeOK
  <2>3. [mdb EXCEPT !.ls_mod = now, !.nxt_fnum = (@ + 1) % FnumMod] \in MdbType
    <3>1. mdb \in MdbType
      BY DEF TypeOK
    <3>2. (mdb.nxt_fnum + 1) % FnumMod \in Nat
      BY <3>1, VolumeAssumption DEF MdbType
    <3> QED BY <3>1, <3>2 DEF MdbType
  <2>4. mdb' \in MdbType
    BY <1>2, <2>2, <2>3, CountedType, FreeBlocksFinite
  <2> QED BY <1>2, <2>2, <2>4 DEF TypeOK, Succeeds
<1> QED BY <1>1, <1>2 DEF CreateFile

\* rename_file keeps the types.
LEMMA RenameFileType ==
  ASSUME TypeOK, NEW old \in FileNames, NEW new \in FileNames, NEW now \in Times,
         RenameFile(old, new, now)
  PROVE  TypeOK'
<1>1. CASE Fails(RenameVerdict(old, new))
  <2>1. RenameVerdict(old, new) \in Results
    BY DEF RenameVerdict, Results
  <2> QED BY <1>1, <2>1, FailsType
<1>2. CASE /\ RenameVerdict(old, new) = "Ok" /\ Succeeds
           /\ entries' = [entries EXCEPT ![IndexOf(old)].name = new]
           /\ UNCHANGED <<map, blocks, boot>> /\ Touched(now)
  <2>1. Found(old)
    BY <1>2 DEF RenameVerdict
  <2>2. IndexOf(old) \in DOMAIN entries
    BY <2>1, Lookup
  <2> DEFINE i == IndexOf(old)
             e == [entries[i] EXCEPT !.name = new]
  <2>3. e \in EntryType
    <3>1. entries[i] \in EntryType
      BY <2>2 DEF TypeOK
    <3> QED BY <3>1 DEF EntryType
  <2>4. entries' = [entries EXCEPT ![i] = e]
    BY <1>2
  <2> HIDE DEF e, i
  <2>5. entries' \in Seq(EntryType)
    BY <2>2, <2>3, <2>4, ReplacedEntry DEF i
  <2>6. mdb' \in MdbType /\ dirDirty' \in BOOLEAN
    BY <1>2, <2>5, TouchedType
  <2> QED BY <1>2, <2>5, <2>6 DEF TypeOK, Succeeds
<1> QED BY <1>1, <1>2 DEF RenameFile

\* rename_volume keeps the types.
LEMMA RenameVolumeType ==
  ASSUME TypeOK, NEW n \in VolumeNames, NEW now \in Times, RenameVolume(n, now)
  PROVE  TypeOK'
<1> DEFINE v == IF ReadOnly THEN "VolumeLocked"
                ELSE IF ~NameOk(n, MaxVolumeName) THEN "InvalidName" ELSE "Ok"
<1>1. CASE Fails(v)
  <2>1. v \in Results
    BY DEF Results
  <2> QED BY <1>1, <2>1, FailsType
<1>2. CASE /\ Succeeds
           /\ mdb' = Counted([mdb EXCEPT !.name = n, !.ls_mod = now], map, entries)
           /\ UNCHANGED <<map, entries, dirDirty, blocks, boot>>
  <2>1. [mdb EXCEPT !.name = n, !.ls_mod = now] \in MdbType
    BY DEF TypeOK, MdbType
  <2>2. mdb' \in MdbType
    BY <1>2, <2>1, CountedType, FreeBlocksFinite DEF TypeOK
  <2> QED BY <1>2, <2>2 DEF TypeOK, Succeeds
<1> QED BY <1>1, <1>2 DEF RenameVolume

\* set_boot_blocks keeps the types.
LEMMA SetBootBlocksType ==
  ASSUME TypeOK, NEW bb \in BootBlocks, SetBootBlocks(bb)
  PROVE  TypeOK'
BY FailsType DEF SetBootBlocks, Results, Succeeds, TypeOK

\* The calls that replace an entry by one that differs in some field.
LEMMA SetEntryType ==
  ASSUME TypeOK, NEW n \in FileNames, NEW e \in EntryType, NEW now \in Times,
         SetEntry(n, e, now)
  PROVE  TypeOK'
<1>1. IndexOf(n) \in DOMAIN entries
  <2>1. Found(n)
    BY DEF SetEntry, SetVerdict
  <2> QED BY <2>1, Lookup
<1>2. entries' \in Seq(EntryType)
  BY <1>1, ReplacedEntry DEF SetEntry
<1>3. mdb' \in MdbType /\ dirDirty' \in BOOLEAN
  BY <1>2, TouchedType DEF SetEntry
<1> QED BY <1>2, <1>3 DEF TypeOK, SetEntry, Succeeds

\* The setters fail, or replace one entry and leave its name, its number and its
\* forks as they were.
LEMMA SettersReplace ==
  ASSUME TypeOK, NEW n \in FileNames, NEW now \in Times,
         \/ \E c \in Codes : SetTypeCreator(n, c, now)
         \/ \E l \in BOOLEAN : SetLocked(n, l, now)
         \/ SetTimes(n, now)
  PROVE  \/ Fails(SetVerdict(n))
         \/ /\ IndexOf(n) \in DOMAIN entries
            /\ \E e \in EntryType :
                 /\ SetEntry(n, e, now)
                 /\ e.name = entries[IndexOf(n)].name
                 /\ e.fnum = entries[IndexOf(n)].fnum
                 /\ e.fork = entries[IndexOf(n)].fork
<1> SUFFICES ASSUME ~Fails(SetVerdict(n))
             PROVE  /\ IndexOf(n) \in DOMAIN entries
                    /\ \E e \in EntryType :
                         /\ SetEntry(n, e, now)
                         /\ e.name = entries[IndexOf(n)].name
                         /\ e.fnum = entries[IndexOf(n)].fnum
                         /\ e.fork = entries[IndexOf(n)].fork
  OBVIOUS
<1> DEFINE e == entries[IndexOf(n)]
<1>1. Found(n)
  BY DEF SetTypeCreator, SetLocked, SetTimes
<1>2. IndexOf(n) \in DOMAIN entries /\ e \in EntryType
  BY <1>1, Lookup DEF TypeOK
<1>3. CASE \E c \in Codes : SetTypeCreator(n, c, now)
  <2>1. PICK c \in Codes : SetTypeCreator(n, c, now)
    BY <1>3
  <2>2. [e EXCEPT !.code = c] \in EntryType
    BY <1>2 DEF EntryType
  <2>3. SetEntry(n, [e EXCEPT !.code = c], now)
    BY <2>1 DEF SetTypeCreator
  <2> HIDE DEF e
  <2>4. /\ [e EXCEPT !.code = c].name = e.name /\ [e EXCEPT !.code = c].fnum = e.fnum
        /\ [e EXCEPT !.code = c].fork = e.fork
    BY <1>2 DEF EntryType
  <2> QED BY <1>2, <2>2, <2>3, <2>4 DEF e
<1>4. CASE \E l \in BOOLEAN : SetLocked(n, l, now)
  <2>1. PICK l \in BOOLEAN : SetLocked(n, l, now)
    BY <1>4
  <2>2. [e EXCEPT !.locked = l] \in EntryType
    BY <1>2 DEF EntryType
  <2>3. SetEntry(n, [e EXCEPT !.locked = l], now)
    BY <2>1 DEF SetLocked
  <2> HIDE DEF e
  <2>4. /\ [e EXCEPT !.locked = l].name = e.name /\ [e EXCEPT !.locked = l].fnum = e.fnum
        /\ [e EXCEPT !.locked = l].fork = e.fork
    BY <1>2 DEF EntryType
  <2> QED BY <1>2, <2>2, <2>3, <2>4 DEF e
<1>5. CASE SetTimes(n, now)
  <2>1. PICK c \in Times \cup {e.created}, m \in Times \cup {e.modified} :
          SetEntry(n, [e EXCEPT !.created = c, !.modified = m], now)
    BY <1>5 DEF SetTimes
  <2> DEFINE x == [e EXCEPT !.created = c, !.modified = m]
  <2>2. x \in EntryType
    BY <1>2 DEF EntryType
  <2>3. x.name = e.name /\ x.fnum = e.fnum /\ x.fork = e.fork
    BY <1>2 DEF EntryType
  <2> HIDE DEF e, x
  <2> QED BY <1>2, <2>1, <2>2, <2>3 DEF e, x
<1> QED BY <1>3, <1>4, <1>5

\* The setters keep the types.
LEMMA SettersType ==
  ASSUME TypeOK, NEW n \in FileNames, NEW now \in Times,
         \/ \E c \in Codes : SetTypeCreator(n, c, now)
         \/ \E l \in BOOLEAN : SetLocked(n, l, now)
         \/ SetTimes(n, now)
  PROVE  TypeOK'
<1>1. SetVerdict(n) \in Results
  BY DEF SetVerdict, Results
<1> QED BY <1>1, SettersReplace, FailsType, SetEntryType

\* A formatted volume is well formed.
LEMMA FreshType ==
  ASSUME FreshInit
  PROVE  TypeOK
<1>1. map \in MapType
  BY BlockMapAssumption DEF FreshInit, NewEmpty, MapType, Entry, FREE
<1>2. mdb \in MdbType
  BY BlockMapAssumption DEF FreshInit, MdbType
<1>3. entries \in Seq(EntryType)
  BY DEF FreshInit
<1> QED BY <1>1, <1>2, <1>3, VolumeAssumption DEF FreshInit, TypeOK

\* The calls of Next, without the bound on file numbers.
LEMMA NextCases ==
  ASSUME Next
  PROVE  \E now \in Times :
           \/ \E n \in FileNames, c \in Codes : mdb.nxt_fnum < FnumBound /\ CreateFile(n, c, now)
           \/ \E n \in FileNames :
                \/ \E c \in Codes : SetTypeCreator(n, c, now)
                \/ \E l \in BOOLEAN : SetLocked(n, l, now)
                \/ SetTimes(n, now)
           \/ \E n \in FileNames, k \in Forks, d \in Contents : WriteFork(n, k, d, now)
           \/ \E n \in FileNames : DeleteFile(n, now)
           \/ \E old, new \in FileNames : RenameFile(old, new, now)
           \/ \E n \in VolumeNames : RenameVolume(n, now)
           \/ \E bb \in BootBlocks : SetBootBlocks(bb)
BY Zenon DEF Next

\* Every call keeps the types.
LEMMA TypeStep ==
  ASSUME TypeOK, [Next]_vars
  PROVE  TypeOK'
<1>1. CASE Next
  <2>1. PICK now \in Times :
           \/ \E n \in FileNames, c \in Codes : mdb.nxt_fnum < FnumBound /\ CreateFile(n, c, now)
           \/ \E n \in FileNames :
                \/ \E c \in Codes : SetTypeCreator(n, c, now)
                \/ \E l \in BOOLEAN : SetLocked(n, l, now)
                \/ SetTimes(n, now)
           \/ \E n \in FileNames, k \in Forks, d \in Contents : WriteFork(n, k, d, now)
           \/ \E n \in FileNames : DeleteFile(n, now)
           \/ \E old, new \in FileNames : RenameFile(old, new, now)
           \/ \E n \in VolumeNames : RenameVolume(n, now)
           \/ \E bb \in BootBlocks : SetBootBlocks(bb)
    BY <1>1, NextCases, Zenon
  <2> QED BY <2>1, CreateFileType, SettersType, WriteForkType, DeleteFileType,
             RenameFileType, RenameVolumeType, SetBootBlocksType
<1>2. CASE UNCHANGED vars
  BY <1>2 DEF vars, TypeOK, MapType
<1> QED BY <1>1, <1>2

\* Every variable keeps its type, whatever calls are made: entries stay well
\* formed, map entries stay in their width, and every call returns a known result.
THEOREM TypeCorrect == Spec => []TypeOK
<1>1. FreshInit => TypeOK
  BY FreshType
<1>2. TypeOK /\ [Next]_vars => TypeOK'
  BY TypeStep
<1> QED BY <1>1, <1>2, PTL DEF Spec

-----------------------------------------------------------------------------
(***************************************************************************)
(* Names.                                                                  *)
(***************************************************************************)
\* A step that leaves every name where it is keeps them distinct.
LEMMA SameNames ==
  ASSUME NamesDistinct, DOMAIN entries' = DOMAIN entries,
         \A j \in DOMAIN entries : entries'[j].name = entries[j].name
  PROVE  NamesDistinct'
BY DEF NamesDistinct

\* Where lookup finds nothing, no entry answers to the name.
LEMMA NotFound ==
  ASSUME NEW n, ~Found(n), NEW j \in DOMAIN entries
  PROVE  FoldOf[entries[j].name] # FoldOf[n]
BY DEF Found, Matches

\* Every call keeps the names distinct.
LEMMA NamesStep ==
  ASSUME TypeOK, NamesDistinct, [Next]_vars
  PROVE  NamesDistinct'
<1>0. /\ DOMAIN entries = 1 .. Len(entries) /\ Len(entries) \in Nat
      /\ \A j \in DOMAIN entries : entries[j] \in EntryType
  BY DEF TypeOK
<1>1. CASE entries' = entries
  BY <1>1 DEF NamesDistinct
<1>2. ASSUME NEW now \in Times, NEW n \in FileNames, NEW c \in Codes, CreateFile(n, c, now),
             entries' # entries
      PROVE  NamesDistinct'
  <2> DEFINE new == NewEntry(n, c, now)
  <2>1. entries' = Append(entries, new) /\ CreateVerdict(n, Append(entries, new)) = "Ok"
    BY <1>2 DEF CreateFile, Fails, volume
  <2>2. ~Found(n) /\ new.name = n
    BY <2>1 DEF CreateVerdict, NewEntry
  <2> HIDE DEF new
  <2>3. /\ DOMAIN entries' = 1 .. Len(entries) + 1
        /\ \A j \in DOMAIN entries : entries'[j] = entries[j]
        /\ entries'[Len(entries) + 1] = new
    BY <1>0, <2>1
  <2>4. ASSUME NEW j \in DOMAIN entries PROVE FoldOf[entries'[j].name] # FoldOf[n]
    BY <2>2, <2>3, <2>4, NotFound
  <2>5. ASSUME NEW j \in DOMAIN entries' PROVE j \in DOMAIN entries \/ j = Len(entries) + 1
    BY <1>0, <2>3
  <2> QED BY <2>2, <2>3, <2>4, <2>5 DEF NamesDistinct
<1>3. ASSUME NEW now \in Times, NEW n \in FileNames,
             \/ \E c \in Codes : SetTypeCreator(n, c, now)
             \/ \E l \in BOOLEAN : SetLocked(n, l, now)
             \/ SetTimes(n, now),
             entries' # entries
      PROVE  NamesDistinct'
  <2>1. IndexOf(n) \in DOMAIN entries
    BY <1>3, SettersReplace DEF Fails, volume
  <2>2. PICK e \in EntryType : SetEntry(n, e, now) /\ e.name = entries[IndexOf(n)].name
    BY <1>3, SettersReplace DEF Fails, volume
  <2>3. entries' = [entries EXCEPT ![IndexOf(n)] = e]
    BY <2>2 DEF SetEntry
  <2> QED BY <2>1, <2>2, <2>3, SameNames
<1>4. ASSUME NEW now \in Times, NEW n \in FileNames, NEW k \in Forks, NEW d \in Contents,
             WriteFork(n, k, d, now), entries' # entries
      PROVE  NamesDistinct'
  <2>1. PICK new : entries' = [entries EXCEPT ![IndexOf(n)].modified = now,
                                              ![IndexOf(n)].fork[k] = new]
    BY <1>4 DEF WriteFork, Fails, volume
  <2>2. /\ DOMAIN entries' = DOMAIN entries
        /\ \A j \in DOMAIN entries : entries'[j].name = entries[j].name
    BY <1>0, <2>1 DEF EntryType
  <2> QED BY <2>2, SameNames
<1>5. ASSUME NEW now \in Times, NEW n \in FileNames, DeleteFile(n, now), entries' # entries
      PROVE  NamesDistinct'
  <2> DEFINE i == IndexOf(n)
  <2>1. entries' = RemoveAt(entries, i) /\ Found(n)
    BY <1>5 DEF DeleteFile, Fails, volume, DeleteVerdict, FileVerdict
  <2>2. i \in DOMAIN entries /\ entries \in Seq(EntryType)
    BY <2>1, Lookup DEF TypeOK
  <2> HIDE DEF i
  <2>3. /\ entries' \in Seq(EntryType) /\ Len(entries') = Len(entries) - 1
        /\ \A j \in 1 .. Len(entries) - 1 :
             entries'[j] = IF j < i THEN entries[j] ELSE entries[j + 1]
    BY <2>1, <2>2, RemovedEntry
  <2>4. ASSUME NEW g \in DOMAIN entries', NEW h \in DOMAIN entries',
               FoldOf[entries'[g].name] = FoldOf[entries'[h].name]
        PROVE  g = h
    <3> DEFINE Of(j) == IF j < i THEN j ELSE j + 1
    <3>1. /\ g \in 1 .. Len(entries) - 1 /\ h \in 1 .. Len(entries) - 1
          /\ Of(g) \in DOMAIN entries /\ Of(h) \in DOMAIN entries
      BY <1>0, <2>3
    <3>2. entries'[g] = entries[Of(g)] /\ entries'[h] = entries[Of(h)]
      BY <2>3, <3>1
    <3>3. Of(g) = Of(h)
      BY <2>4, <3>1, <3>2 DEF NamesDistinct
    <3> QED BY <1>0, <2>2, <3>1, <3>3
  <2> QED BY <2>4 DEF NamesDistinct
<1>6. ASSUME NEW now \in Times, NEW old \in FileNames, NEW new \in FileNames,
             RenameFile(old, new, now), entries' # entries
      PROVE  NamesDistinct'
  <2> DEFINE i == IndexOf(old)
  <2>1. entries' = [entries EXCEPT ![i].name = new] /\ RenameVerdict(old, new) = "Ok"
    BY <1>6 DEF RenameFile, Fails, volume
  <2>2. Found(old) /\ (Found(new) => IndexOf(new) = i)
    BY <2>1 DEF RenameVerdict
  <2>3. i \in DOMAIN entries
    BY <2>2, Lookup
  <2>4. ASSUME NEW j \in DOMAIN entries, j # i PROVE FoldOf[entries[j].name] # FoldOf[new]
    <3>1. CASE ~Found(new)
      BY <3>1, NotFound
    <3>2. CASE Found(new)
      <4>1. FoldOf[entries[i].name] = FoldOf[new]
        BY <2>2, <3>2, Lookup
      <4> QED BY <4>1, <2>3, <2>4 DEF NamesDistinct
    <3> QED BY <3>1, <3>2
  <2> HIDE DEF i
  <2>5. /\ DOMAIN entries' = DOMAIN entries
        /\ entries'[i].name = new
        /\ \A j \in DOMAIN entries : j # i => entries'[j] = entries[j]
    BY <2>1, <2>3, <1>0 DEF EntryType
  <2> QED BY <2>4, <2>5 DEF NamesDistinct
<1>7. ASSUME NEW now \in Times,
             \/ \E n \in VolumeNames : RenameVolume(n, now)
             \/ \E bb \in BootBlocks : SetBootBlocks(bb)
      PROVE  entries' = entries
  BY <1>7 DEF RenameVolume, SetBootBlocks, Fails, volume
<1>8. CASE UNCHANGED vars
  BY <1>1, <1>8 DEF vars
<1>9. CASE Next
  <2>1. PICK now \in Times :
           \/ \E n \in FileNames, c \in Codes : mdb.nxt_fnum < FnumBound /\ CreateFile(n, c, now)
           \/ \E n \in FileNames :
                \/ \E c \in Codes : SetTypeCreator(n, c, now)
                \/ \E l \in BOOLEAN : SetLocked(n, l, now)
                \/ SetTimes(n, now)
           \/ \E n \in FileNames, k \in Forks, d \in Contents : WriteFork(n, k, d, now)
           \/ \E n \in FileNames : DeleteFile(n, now)
           \/ \E old, new \in FileNames : RenameFile(old, new, now)
           \/ \E n \in VolumeNames : RenameVolume(n, now)
           \/ \E bb \in BootBlocks : SetBootBlocks(bb)
    BY <1>9, NextCases, Zenon
  <2> QED BY <2>1, <1>1, <1>2, <1>3, <1>4, <1>5, <1>6, <1>7
<1> QED BY <1>8, <1>9

\* Lookup without regard to case finds one file at most, after any sequence of
\* creates and renames, those that only change the case of a name included, on any
\* image that was opened without two files of one name.
THEOREM OpenedNamesStayDistinct ==
  TypeOK /\ NamesDistinct /\ [][Next]_vars => []NamesDistinct
<1>1. TypeOK /\ [Next]_vars => TypeOK'
  BY TypeStep
<1>2. TypeOK /\ NamesDistinct /\ [Next]_vars => NamesDistinct'
  BY NamesStep
<1> QED BY <1>1, <1>2, PTL

\* The same of a volume mkfs formatted, which has no files yet.
THEOREM NamesStayDistinct == Spec => []NamesDistinct
<1>1. FreshInit => NamesDistinct
  BY DEF FreshInit, NamesDistinct
<1>2. FreshInit => TypeOK
  BY FreshType
<1> QED BY <1>1, <1>2, OpenedNamesStayDistinct, PTL DEF Spec

-----------------------------------------------------------------------------
(***************************************************************************)
(* File numbers.                                                           *)
(***************************************************************************)
\* What one step does to the numbers in use and to the counter.
NumbersKept ==
  /\ mdb'.nxt_fnum >= mdb.nxt_fnum
  /\ \A j \in DOMAIN entries' :
       \/ \E i \in DOMAIN entries : entries[i].fnum = entries'[j].fnum
       \/ entries'[j].fnum >= mdb.nxt_fnum /\ entries'[j].fnum < mdb'.nxt_fnum

\* Calls other than create_file leave drNxtFNum alone.
LEMMA CounterKept ==
  ASSUME TypeOK, NEW now \in Times, Touched(now)
  PROVE  mdb'.nxt_fnum = mdb.nxt_fnum /\ mdb.nxt_fnum \in Nat
BY DEF TypeOK, MdbType, Touched, Counted

\* Every call numbers new files upward, and none anew.
LEMMA NumbersStep ==
  ASSUME FnumBound \in Nat, FnumBound < FnumMod, TypeOK, Next
  PROVE  NumbersKept
<1>0. /\ DOMAIN entries = 1 .. Len(entries) /\ Len(entries) \in Nat
      /\ \A j \in DOMAIN entries : entries[j] \in EntryType
      /\ mdb.nxt_fnum \in Nat
  BY DEF TypeOK, MdbType
<1>1. ASSUME UNCHANGED <<entries, mdb>> PROVE NumbersKept
  BY <1>0, <1>1 DEF NumbersKept
<1>2. ASSUME NEW now \in Times, NEW n \in FileNames, NEW c \in Codes,
             mdb.nxt_fnum < FnumBound, CreateFile(n, c, now)
      PROVE  NumbersKept
  <2>1. CASE Fails(CreateVerdict(n, Append(entries, NewEntry(n, c, now))))
    BY <2>1, <1>1 DEF Fails, volume
  <2>2. CASE /\ entries' = Append(entries, NewEntry(n, c, now))
             /\ mdb' = Counted([mdb EXCEPT !.ls_mod = now, !.nxt_fnum = (@ + 1) % FnumMod],
                               map, Append(entries, NewEntry(n, c, now)))
    <3>1. mdb'.nxt_fnum = (mdb.nxt_fnum + 1) % FnumMod
      BY <2>2 DEF Counted, TypeOK, MdbType
    <3>2. (mdb.nxt_fnum + 1) % FnumMod = mdb.nxt_fnum + 1
      <4>1. FnumMod \in Nat /\ mdb.nxt_fnum + 1 \in Nat /\ mdb.nxt_fnum + 1 < FnumMod
        BY <1>0, <1>2, VolumeAssumption
      <4>2. \A m, x \in Nat : x < m => x % m = x
        BY SMT
      <4> QED BY <4>1, <4>2
    <3> DEFINE new == NewEntry(n, c, now)
    <3>3. new.fnum = mdb.nxt_fnum
      BY DEF NewEntry
    <3> HIDE DEF new
    <3>4. ASSUME NEW j \in DOMAIN entries'
          PROVE  \/ j \in DOMAIN entries /\ entries'[j] = entries[j]
                 \/ entries'[j] = new
      BY <1>0, <2>2 DEF new
    <3> QED BY <1>0, <3>1, <3>2, <3>3, <3>4 DEF NumbersKept
  <2> QED BY <1>2, <2>1, <2>2 DEF CreateFile
<1>3. ASSUME NEW now \in Times, NEW n \in FileNames,
             \/ \E c \in Codes : SetTypeCreator(n, c, now)
             \/ \E l \in BOOLEAN : SetLocked(n, l, now)
             \/ SetTimes(n, now)
      PROVE  NumbersKept
  <2>1. CASE Fails(SetVerdict(n))
    BY <2>1, <1>1 DEF Fails, volume
  <2>2. CASE ~Fails(SetVerdict(n))
    <3>1. PICK e \in EntryType : SetEntry(n, e, now) /\ e.fnum = entries[IndexOf(n)].fnum
      BY <1>3, <2>2, SettersReplace
    <3>2. entries' = [entries EXCEPT ![IndexOf(n)] = e] /\ Touched(now)
      BY <3>1 DEF SetEntry
    <3>3. mdb'.nxt_fnum = mdb.nxt_fnum
      BY <3>2, CounterKept
    <3>4. \A j \in DOMAIN entries' : j \in DOMAIN entries /\ entries'[j].fnum = entries[j].fnum
      BY <3>1, <3>2
    <3> QED BY <1>0, <3>3, <3>4 DEF NumbersKept
  <2> QED BY <2>1, <2>2
<1>4. ASSUME NEW now \in Times, NEW n \in FileNames, NEW k \in Forks, NEW d \in Contents,
             WriteFork(n, k, d, now)
      PROVE  NumbersKept
  <2>1. CASE Fails(WriteVerdict(n, k, d))
    BY <2>1, <1>1 DEF Fails, volume
  <2>2. CASE ~Fails(WriteVerdict(n, k, d))
    <3>1. PICK new : entries' = [entries EXCEPT ![IndexOf(n)].modified = now,
                                                ![IndexOf(n)].fork[k] = new]
      BY <1>4, <2>2 DEF WriteFork
    <3>2. mdb'.nxt_fnum = mdb.nxt_fnum
      BY <1>4, <2>2, CounterKept DEF WriteFork
    <3>3. \A j \in DOMAIN entries' : j \in DOMAIN entries /\ entries'[j].fnum = entries[j].fnum
      BY <1>0, <3>1 DEF EntryType
    <3> QED BY <1>0, <3>2, <3>3 DEF NumbersKept
  <2> QED BY <2>1, <2>2
<1>5. ASSUME NEW now \in Times, NEW n \in FileNames, DeleteFile(n, now)
      PROVE  NumbersKept
  <2>1. CASE UNCHANGED <<entries, mdb>>
    BY <2>1, <1>1
  <2>2. CASE ~UNCHANGED <<entries, mdb>>
    <3>1. entries' = RemoveAt(entries, IndexOf(n)) /\ Touched(now) /\ Found(n)
      BY <1>5, <2>2 DEF DeleteFile, Fails, volume, DeleteVerdict, FileVerdict
    <3>2. IndexOf(n) \in DOMAIN entries /\ entries \in Seq(EntryType)
      BY <3>1, Lookup DEF TypeOK
    <3>3. mdb'.nxt_fnum = mdb.nxt_fnum
      BY <3>1, CounterKept
    <3>4. /\ Len(entries') = Len(entries) - 1 /\ DOMAIN entries' = 1 .. Len(entries')
          /\ \A j \in 1 .. Len(entries) - 1 :
               entries'[j] = IF j < IndexOf(n) THEN entries[j] ELSE entries[j + 1]
      BY <3>1, <3>2, RemovedEntry
    <3>5. ASSUME NEW j \in DOMAIN entries' PROVE \E i \in DOMAIN entries : entries'[j] = entries[i]
      <4>1. j \in 1 .. Len(entries) - 1 /\ j \in DOMAIN entries /\ j + 1 \in DOMAIN entries
        BY <1>0, <3>4
      <4> QED BY <3>4, <4>1
    <3> QED BY <1>0, <3>3, <3>5 DEF NumbersKept
  <2> QED BY <2>1, <2>2
<1>6. ASSUME NEW now \in Times, NEW old \in FileNames, NEW new \in FileNames,
             RenameFile(old, new, now)
      PROVE  NumbersKept
  <2>1. CASE Fails(RenameVerdict(old, new))
    BY <2>1, <1>1 DEF Fails, volume
  <2>2. CASE ~Fails(RenameVerdict(old, new))
    <3>1. entries' = [entries EXCEPT ![IndexOf(old)].name = new] /\ Touched(now)
      BY <1>6, <2>2 DEF RenameFile
    <3>2. mdb'.nxt_fnum = mdb.nxt_fnum
      BY <3>1, CounterKept
    <3>3. \A j \in DOMAIN entries' : j \in DOMAIN entries /\ entries'[j].fnum = entries[j].fnum
      BY <1>0, <3>1 DEF EntryType
    <3> QED BY <1>0, <3>2, <3>3 DEF NumbersKept
  <2> QED BY <2>1, <2>2
<1>7. ASSUME NEW now \in Times,
             \/ \E n \in VolumeNames : RenameVolume(n, now)
             \/ \E bb \in BootBlocks : SetBootBlocks(bb)
      PROVE  NumbersKept
  <2>1. entries' = entries /\ mdb'.nxt_fnum = mdb.nxt_fnum
    BY <1>7 DEF RenameVolume, SetBootBlocks, Fails, volume, Counted, TypeOK, MdbType
  <2> QED BY <1>0, <2>1 DEF NumbersKept
<1>8. PICK now \in Times :
        \/ \E n \in FileNames, c \in Codes : mdb.nxt_fnum < FnumBound /\ CreateFile(n, c, now)
        \/ \E n \in FileNames :
             \/ \E c \in Codes : SetTypeCreator(n, c, now)
             \/ \E l \in BOOLEAN : SetLocked(n, l, now)
             \/ SetTimes(n, now)
        \/ \E n \in FileNames, k \in Forks, d \in Contents : WriteFork(n, k, d, now)
        \/ \E n \in FileNames : DeleteFile(n, now)
        \/ \E old, new \in FileNames : RenameFile(old, new, now)
        \/ \E n \in VolumeNames : RenameVolume(n, now)
        \/ \E bb \in BootBlocks : SetBootBlocks(bb)
  BY NextCases, Zenon
<1> QED BY <1>8, <1>2, <1>3, <1>4, <1>5, <1>6, <1>7

\* As long as the counter has not gone through all its values, no number is given
\* out twice: a new file's is above every number given out before, on any image,
\* whatever its files' numbers and its counter were.
THEOREM OpenedNumbersNeverReissued ==
  ASSUME FnumBound \in Nat, FnumBound < FnumMod
  PROVE  TypeOK /\ [][Next]_vars => FnumNeverReissued
<1>1. TypeOK /\ [Next]_vars =>
        [/\ mdb'.nxt_fnum >= mdb.nxt_fnum
         /\ \A j \in DOMAIN entries' :
              \/ \E i \in DOMAIN entries : entries[i].fnum = entries'[j].fnum
              \/ entries'[j].fnum >= mdb.nxt_fnum /\ entries'[j].fnum < mdb'.nxt_fnum]_vars
  BY NumbersStep DEF NumbersKept
<1>2. TypeOK /\ [Next]_vars => TypeOK'
  BY TypeStep
<1> QED BY <1>1, <1>2, PTL DEF FnumNeverReissued

\* The same of a volume mkfs formatted.
THEOREM NumbersNeverReissued ==
  ASSUME FnumBound \in Nat, FnumBound < FnumMod
  PROVE  Spec => FnumNeverReissued
<1>1. TypeOK /\ [][Next]_vars => FnumNeverReissued
  BY OpenedNumbersNeverReissued
<1>2. FreshInit => TypeOK
  BY FreshType
<1> QED BY <1>1, <1>2, PTL DEF Spec

-----------------------------------------------------------------------------
(***************************************************************************)
(* check() stays clean, whatever calls are made.  The forks of all files   *)
(* make a table, and the invariant is stated of a map and a table,         *)
(* whatever the forks are called: a call releases chains, links new ones,  *)
(* or renumbers the table.                                                 *)
(***************************************************************************)
ForkTable == [r \in ForkRefs |-> ForkOf(r[1], r[2])]

SoundFork(m, f) ==
  IF f.st = 0 THEN EmptyForkSound(f)
  ELSE /\ ChainOk(m, f.st)
       /\ f.len <= f.alloc
       /\ f.alloc = ChainLen(m, f.st) * BlkSiz

Disjoint(m, f, g) == Visited(m, f.st) \cap Visited(m, g.st) = {}

SoundFor(m, F) ==
  /\ \A r \in DOMAIN F : SoundFork(m, F[r])
  /\ \A r, s \in DOMAIN F : r # s /\ F[r].st # 0 /\ F[s].st # 0 => Disjoint(m, F[r], F[s])
  /\ \A b \in Blocks : m[b] \notin {FREE, RESERVED} =>
       \E r \in DOMAIN F : F[r].st # 0 /\ b \in Visited(m, F[r].st)

\* What check() asks of the volume is what it asks of the map and the table.
LEMMA SoundTable == ForksDisjointAndSound <=> SoundFor(map, ForkTable)
<1>1. /\ DOMAIN ForkTable = ForkRefs
      /\ \A r \in ForkRefs : ForkTable[r] = ForkOf(r[1], r[2])
  BY DEF ForkTable
<1> HIDE DEF ForkTable
<1>2. ForksSound <=> \A r \in ForkRefs : SoundFork(map, ForkTable[r])
  BY <1>1 DEF ForksSound, ForkSound, SoundFork, Walks
<1>3. NoSharing <=>
        \A r, s \in ForkRefs : r # s /\ ForkTable[r].st # 0 /\ ForkTable[s].st # 0
                                 => Disjoint(map, ForkTable[r], ForkTable[s])
  <2>1. \A r : r \in HasBlocks <=> r \in ForkRefs /\ ForkTable[r].st # 0
    BY <1>1 DEF HasBlocks
  <2>2. \A r \in ForkRefs : Owned(r) = Visited(map, ForkTable[r].st)
    BY <1>1 DEF Owned
  <2> HIDE DEF HasBlocks, ForkRefs, Owned
  <2>3. NoSharing <=> \A r, s \in HasBlocks : r # s => Disjoint(map, ForkTable[r], ForkTable[s])
    BY <2>1, <2>2 DEF NoSharing, Disjoint
  <2> QED BY <2>1, <2>3
<1>4. NoOrphans <=>
        \A b \in Blocks : map[b] \notin {FREE, RESERVED} =>
          \E r \in ForkRefs : ForkTable[r].st # 0 /\ b \in Visited(map, ForkTable[r].st)
  BY <1>1 DEF NoOrphans, HasBlocks, Owned
<1> QED BY <1>1, <1>2, <1>3, <1>4 DEF ForksDisjointAndSound, SoundFor

\* A fork that is sound stays so, and keeps its blocks, when the map changes
\* elsewhere.
LEMMA SoundForkFrame ==
  ASSUME NEW m, NEW o, NEW f, SoundFork(m, f),
         f.st # 0 => \A b \in Visited(m, f.st) : o[b] = m[b]
  PROVE  SoundFork(o, f) /\ (f.st # 0 => f.st \in Blocks /\ Visited(o, f.st) = Visited(m, f.st))
<1>1. CASE f.st = 0
  BY <1>1 DEF SoundFork
<1>2. CASE f.st # 0
  <2>1. f.st \in Blocks /\ ChainOk(m, f.st)
    BY <1>2 DEF SoundFork, ChainOk, InRange
  <2>2. /\ Visited(o, f.st) = Visited(m, f.st)
        /\ ChainOk(o, f.st) /\ ChainLen(o, f.st) = ChainLen(m, f.st)
    BY <1>2, <2>1, VisitedFrame, ChainFrame
  <2> QED BY <1>2, <2>1, <2>2 DEF SoundFork
<1> QED BY <1>1, <1>2

\* Releasing one fork's chain leaves the map sound for all the others.
LEMMA ReleaseSound ==
  ASSUME NEW m \in MapType, NEW F, SoundFor(m, F), NEW q \in DOMAIN F
  PROVE  /\ ~Breaks(m, F[q].st)
         /\ SoundFor(Released(m, F[q].st), [F EXCEPT ![q] = NoFork])
<1> DEFINE o == Released(m, F[q].st)
           G == [F EXCEPT ![q] = NoFork]
           V == Visited(m, F[q].st)
<1>1. ~Breaks(m, F[q].st)
  BY DEF SoundFor, SoundFork, Breaks
<1>2. /\ DOMAIN G = DOMAIN F /\ G[q] = NoFork
      /\ \A r \in DOMAIN F \ {q} : G[r] = F[r]
  OBVIOUS
<1>3. ASSUME NEW b \in Blocks
      PROVE  o[b] = IF F[q].st # 0 /\ b \in V THEN FREE ELSE m[b]
  BY DEF Released, FreeChain
<1>4. ASSUME NEW r \in DOMAIN F \ {q}
      PROVE  /\ SoundFork(o, F[r])
             /\ F[r].st # 0 => F[r].st \in Blocks /\ Visited(o, F[r].st) = Visited(m, F[r].st)
  <2>1. SoundFork(m, F[r])
    BY DEF SoundFor
  <2>2. ASSUME F[r].st # 0, NEW b \in Visited(m, F[r].st) PROVE o[b] = m[b]
    <3>1. b \in Blocks
      BY DEF Visited
    <3>2. F[q].st # 0 => b \notin V
      BY <2>2 DEF SoundFor, Disjoint
    <3> QED BY <3>1, <3>2, <1>3
  <2> QED BY <2>1, <2>2, SoundForkFrame
<1>5. ASSUME NEW r \in DOMAIN G PROVE SoundFork(o, G[r])
  BY <1>2, <1>4 DEF SoundFork, NoFork, EmptyForkSound
<1>6. ASSUME NEW r \in DOMAIN G, NEW s \in DOMAIN G, r # s, G[r].st # 0, G[s].st # 0
      PROVE  Disjoint(o, G[r], G[s])
  <2>1. r # q /\ s # q
    BY <1>2, <1>6 DEF NoFork
  <2>2. Disjoint(m, F[r], F[s])
    BY <1>2, <1>6, <2>1 DEF SoundFor
  <2> QED BY <1>2, <1>4, <1>6, <2>1, <2>2 DEF Disjoint
<1>7. ASSUME NEW b \in Blocks, o[b] \notin {FREE, RESERVED}
      PROVE  \E r \in DOMAIN G : G[r].st # 0 /\ b \in Visited(o, G[r].st)
  <2>1. ~(F[q].st # 0 /\ b \in V) /\ o[b] = m[b]
    BY <1>3, <1>7
  <2>2. PICK r \in DOMAIN F : F[r].st # 0 /\ b \in Visited(m, F[r].st)
    BY <1>7, <2>1 DEF SoundFor
  <2>3. r # q
    BY <2>1, <2>2
  <2> QED BY <1>2, <1>4, <2>2, <2>3
<1> HIDE DEF o, G
<1>8. SoundFor(o, G)
  BY <1>5, <1>6, <1>7 DEF SoundFor
<1> QED BY <1>1, <1>8 DEF o, G

\* Linking free blocks into a chain for a fork that has none.
LEMMA AllocSound ==
  ASSUME Addressable, NEW m, NEW F, SoundFor(m, F), NEW q \in DOMAIN F, F[q].st = 0,
         NEW got, got \subseteq FreeBlocks(m), NEW new,
         new.st = FirstOf(got), new.len \in Nat, new.len <= new.alloc,
         new.alloc = Cardinality(got) * BlkSiz, got = {} => new.len = 0
  PROVE  SoundFor(Linked(m, got), [F EXCEPT ![q] = new])
<1> DEFINE o == Linked(m, got)
           G == [F EXCEPT ![q] = new]
<1>1. /\ DOMAIN G = DOMAIN F /\ G[q] = new
      /\ \A r \in DOMAIN F \ {q} : G[r] = F[r]
  OBVIOUS
<1>2. got \subseteq Blocks /\ IsFiniteSet(got) /\ got \subseteq Nat
  BY FreeBlocksFinite, FS_Subset, BlocksFinite
<1>3. ASSUME NEW b \in Blocks, b \notin got PROVE o[b] = m[b]
  BY <1>3 DEF Linked
<1>4. ASSUME NEW r \in DOMAIN F, F[r].st # 0, NEW b \in Visited(m, F[r].st)
      PROVE  b \in Blocks /\ b \notin got
  <2>1. ChainOk(m, F[r].st)
    BY <1>4 DEF SoundFor, SoundFork
  <2>2. m[b] # FREE
    BY <1>4, <2>1, ChainBlocksTaken
  <2> QED BY <2>2 DEF FreeBlocks, Visited
<1>5. ASSUME NEW r \in DOMAIN F
      PROVE  /\ SoundFork(o, F[r])
             /\ F[r].st # 0 => F[r].st \in Blocks /\ Visited(o, F[r].st) = Visited(m, F[r].st)
  <2>1. SoundFork(m, F[r])
    BY DEF SoundFor
  <2>2. ASSUME F[r].st # 0, NEW b \in Visited(m, F[r].st) PROVE o[b] = m[b]
    BY <1>3, <1>4, <2>2
  <2> QED BY <2>1, <2>2, SoundForkFrame
<1>6. got # {} => /\ new.st # 0 /\ Visited(o, new.st) = got
                  /\ ChainOk(o, new.st) /\ ChainLen(o, new.st) = Cardinality(got)
  <2> SUFFICES ASSUME got # {}
               PROVE  /\ new.st # 0 /\ Visited(o, new.st) = got
                      /\ ChainOk(o, new.st) /\ ChainLen(o, new.st) = Cardinality(got)
    OBVIOUS
  <2>1. new.st = Least(got)
    BY DEF FirstOf
  <2>2. Least(got) \in Blocks /\ Visited(o, Least(got)) = got /\ ChainOk(o, Least(got))
    BY <1>2, LinkedIsChain
  <2>3. 0 \notin Blocks
    BY BlockMapAssumption DEF Blocks, FIRST_BLOCK
  <2> QED BY <2>1, <2>2, <2>3 DEF ChainLen
<1>7. got = {} => new.st = 0 /\ EmptyForkSound(new)
  BY FS_EmptySet, VolumeAssumption DEF FirstOf, EmptyForkSound
<1> HIDE DEF o, G
<1>8. ASSUME NEW r \in DOMAIN G PROVE SoundFork(o, G[r])
  <2>1. CASE r = q
    BY <1>1, <1>6, <1>7, <2>1 DEF SoundFork
  <2>2. CASE r # q
    BY <1>1, <1>5, <2>2
  <2> QED BY <2>1, <2>2
<1>9. ASSUME NEW r \in DOMAIN F, r # q, F[r].st # 0, new.st # 0
      PROVE  Disjoint(o, F[r], new)
  BY <1>4, <1>5, <1>6, <1>7, <1>9 DEF Disjoint
<1>10. ASSUME NEW r \in DOMAIN G, NEW s \in DOMAIN G, r # s, G[r].st # 0, G[s].st # 0
       PROVE  Disjoint(o, G[r], G[s])
  <2>1. CASE r = q
    BY <1>1, <1>9, <1>10, <2>1 DEF Disjoint
  <2>2. CASE s = q
    BY <1>1, <1>9, <1>10, <2>2 DEF Disjoint
  <2>3. CASE r # q /\ s # q
    <3>1. Disjoint(m, F[r], F[s])
      BY <1>1, <1>10, <2>3 DEF SoundFor
    <3> QED BY <1>1, <1>5, <1>10, <2>3, <3>1 DEF Disjoint
  <2> QED BY <2>1, <2>2, <2>3
<1>11. ASSUME NEW b \in Blocks, o[b] \notin {FREE, RESERVED}
       PROVE  \E r \in DOMAIN G : G[r].st # 0 /\ b \in Visited(o, G[r].st)
  <2>1. CASE b \in got
    BY <1>1, <1>6, <2>1
  <2>2. CASE b \notin got
    <3>1. o[b] = m[b]
      BY <1>3, <2>2
    <3>2. PICK r \in DOMAIN F : F[r].st # 0 /\ b \in Visited(m, F[r].st)
      BY <1>11, <3>1 DEF SoundFor
    <3>3. r # q
      BY <3>2
    <3> QED BY <1>1, <1>5, <3>2, <3>3
  <2> QED BY <2>1, <2>2
<1> QED BY <1>8, <1>10, <1>11 DEF SoundFor, o, G

\* The table may be renumbered, and forks without blocks come and go.
LEMMA RenumberSound ==
  ASSUME NEW m, NEW F, NEW G, SoundFor(m, F), NEW U, U \subseteq DOMAIN G,
         NEW was \in [U -> DOMAIN F],
         \A x, y \in U : x # y => was[x] # was[y],
         \A x \in U : G[x] = F[was[x]],
         \A x \in DOMAIN G \ U : G[x].st = 0 /\ EmptyForkSound(G[x]),
         \A r \in DOMAIN F : F[r].st # 0 => \E x \in U : was[x] = r
  PROVE  SoundFor(m, G)
<1>1. ASSUME NEW x \in DOMAIN G PROVE SoundFork(m, G[x])
  <2>1. CASE x \in U
    BY <2>1 DEF SoundFor
  <2>2. CASE x \notin U
    BY <2>2 DEF SoundFork
  <2> QED BY <2>1, <2>2
<1>2. ASSUME NEW x \in DOMAIN G, NEW y \in DOMAIN G, x # y, G[x].st # 0, G[y].st # 0
      PROVE  Disjoint(m, G[x], G[y])
  <2>1. x \in U /\ y \in U
    BY <1>2
  <2>2. was[x] \in DOMAIN F /\ was[y] \in DOMAIN F /\ was[x] # was[y]
    BY <1>2, <2>1
  <2>3. G[x] = F[was[x]] /\ G[y] = F[was[y]]
    BY <2>1
  <2> QED BY <1>2, <2>2, <2>3 DEF SoundFor
<1>3. ASSUME NEW b \in Blocks, m[b] \notin {FREE, RESERVED}
      PROVE  \E x \in DOMAIN G : G[x].st # 0 /\ b \in Visited(m, G[x].st)
  <2>1. PICK r \in DOMAIN F : F[r].st # 0 /\ b \in Visited(m, F[r].st)
    BY <1>3 DEF SoundFor
  <2>2. PICK x \in U : was[x] = r
    BY <2>1
  <2> QED BY <2>1, <2>2
<1> QED BY <1>1, <1>2, <1>3 DEF SoundFor

-----------------------------------------------------------------------------
(***************************************************************************)
(* The calls.                                                              *)
(***************************************************************************)
\* The same of the state a step leads to.
LEMMA SoundTableNext == ForksDisjointAndSound' <=> SoundFor(map', ForkTable')
<1>1. (ForksDisjointAndSound <=> SoundFor(map, ForkTable))'
  BY SoundTable, PTL
<1> QED BY <1>1

\* The place of a fork in the table, and what is there.
LEMMA TablePlaces ==
  ASSUME TypeOK
  PROVE  /\ DOMAIN ForkTable = (1 .. Len(entries)) \X Forks
         /\ \A i \in 1 .. Len(entries), k \in Forks : ForkTable[<<i, k>>] = entries[i].fork[k]
         /\ Len(entries) \in Nat
<1>1. DOMAIN entries = 1 .. Len(entries) /\ Len(entries) \in Nat
  BY DEF TypeOK
<1> QED BY <1>1 DEF ForkTable, ForkRefs, ForkOf

\* The same of the state a step leads to.
LEMMA TablePlacesNext ==
  ASSUME TypeOK'
  PROVE  /\ DOMAIN ForkTable' = (1 .. Len(entries')) \X Forks
         /\ \A i \in 1 .. Len(entries'), k \in Forks : ForkTable'[<<i, k>>] = entries'[i].fork[k]
         /\ Len(entries') \in Nat
<1>1. DOMAIN entries' = 1 .. Len(entries') /\ Len(entries') \in Nat
  BY DEF TypeOK
<1> QED BY <1>1 DEF ForkTable, ForkRefs, ForkOf

\* The table does not change when no fork does.
LEMMA SameForks ==
  ASSUME TypeOK, TypeOK', ForksDisjointAndSound, map' = map, Len(entries') = Len(entries),
         \A i \in 1 .. Len(entries) : entries'[i].fork = entries[i].fork
  PROVE  ForksDisjointAndSound'
<1>1. ForkTable' = ForkTable
  <2>1. DOMAIN entries = 1 .. Len(entries) /\ DOMAIN entries' = 1 .. Len(entries)
    BY DEF TypeOK
  <2> QED BY <2>1 DEF ForkTable, ForkRefs, ForkOf
<1> QED BY <1>1, SoundTable, SoundTableNext

\* The counters are right after recompute_counters.
LEMMA CountedFresh ==
  ASSUME NEW rec \in MdbType, mdb' = Counted(rec, map', entries')
  PROVE  CountersFresh'
BY DEF Counted, MdbType, CountersFresh

\* And so they are after every mutator that ends with Touched.
LEMMA TouchedFresh ==
  ASSUME TypeOK, NEW now \in Times, Touched(now)
  PROVE  CountersFresh'
<1>1. [mdb EXCEPT !.ls_mod = now] \in MdbType
  BY DEF TypeOK, MdbType
<1> QED BY <1>1, CountedFresh DEF Touched

\* What the calls keep, of volumes whose blocks a map entry can number.
Clean == Addressable /\ ForksDisjointAndSound /\ CountersFresh

\* A call that changes nothing keeps it.
LEMMA CleanStutter ==
  ASSUME Clean, UNCHANGED <<map, entries, mdb>>
  PROVE  Clean'
BY DEF Clean, ForksDisjointAndSound, CountersFresh, ForksSound, NoSharing, NoOrphans, ForkSound,
       HasBlocks, Owned, Walks, ForkRefs, ForkOf

\* write_fork releases the fork's chain, and links the new one from free blocks.
LEMMA WriteForkClean ==
  ASSUME TypeOK, TypeOK', Clean, NEW n \in FileNames, NEW k \in Forks, NEW d \in Contents,
         NEW now \in Times, WriteFork(n, k, d, now)
  PROVE  Clean'
<1> DEFINE i     == IndexOf(n)
           freed == Released(map, OldStart(n, k))
           got   == Allotted(freed, Needed(d))
           new   == [st |-> FirstOf(got), len |-> Len(d), alloc |-> Needed(d) * BlkSiz]
           q     == <<i, k>>
           F     == [ForkTable EXCEPT ![q] = NoFork]
<1>1. CASE Fails(WriteVerdict(n, k, d))
  BY <1>1, CleanStutter DEF Fails, volume
<1>2. CASE ~Fails(WriteVerdict(n, k, d))
  <2>1. /\ WriteVerdict(n, k, d) = "Ok"
        /\ map' = Linked(freed, got)
        /\ entries' = [entries EXCEPT ![i].modified = now, ![i].fork[k] = new]
        /\ Touched(now)
    BY <1>2 DEF WriteFork
  <2>2. /\ i \in DOMAIN entries /\ freed \in MapType
        /\ got \subseteq FreeBlocks(freed) /\ Cardinality(got) = Needed(d)
    BY <2>1, RoomToWrite
  <2>3. /\ i \in 1 .. Len(entries) /\ q \in DOMAIN ForkTable
        /\ ForkTable[q].st = OldStart(n, k)
    BY <2>2, TablePlaces DEF TypeOK, OldStart, ForkOf
  <2>4. SoundFor(freed, F)
    <3>1. SoundFor(map, ForkTable) /\ map \in MapType
      BY SoundTable DEF Clean, TypeOK
    <3> QED BY <2>3, <3>1, ReleaseSound
  <2>5. q \in DOMAIN F /\ F[q].st = 0
    BY <2>3 DEF NoFork
  <2>6. /\ Len(d) \in Nat /\ Len(d) <= Needed(d) * BlkSiz
        /\ got = {} => Len(d) = 0
    <3>1. d \in Seq(Byte)
      BY VolumeAssumption
    <3> HIDE DEF got
    <3>2. got = {} => Needed(d) = 0
      BY <2>2, FS_EmptySet
    <3> QED BY <3>1, <3>2, NeededBlocks
  <2> HIDE DEF freed, got, F, q, i
  <2>7. SoundFor(Linked(freed, got), [F EXCEPT ![q] = new])
    BY <2>2, <2>4, <2>5, <2>6, AllocSound DEF Clean
  <2>8. ForkTable' = [F EXCEPT ![q] = new]
    <3> HIDE DEF new
    <3>1. /\ Len(entries') = Len(entries)
          /\ \A j \in 1 .. Len(entries), g \in Forks :
               entries'[j].fork[g] = IF j = i /\ g = k THEN new ELSE entries[j].fork[g]
      BY <2>1, <2>3 DEF TypeOK, EntryType
    <3>2. DOMAIN ForkTable' = DOMAIN [F EXCEPT ![q] = new]
      BY <3>1, TablePlaces, TablePlacesNext DEF F
    <3>3. ASSUME NEW r \in DOMAIN ForkTable PROVE ForkTable'[r] = [F EXCEPT ![q] = new][r]
      <4>1. PICK j \in 1 .. Len(entries), g \in Forks : r = <<j, g>>
        BY TablePlaces
      <4>2. ForkTable'[r] = IF r = q THEN new ELSE ForkTable[r]
        BY <3>1, <4>1, TablePlaces, TablePlacesNext DEF q
      <4> QED BY <4>2 DEF F
    <3>4. DOMAIN [F EXCEPT ![q] = new] = DOMAIN ForkTable
      BY DEF F
    <3>5. ForkTable' = [r \in DOMAIN ForkTable' |-> ForkTable'[r]]
      BY DEF ForkTable
    <3> QED BY <3>2, <3>3, <3>4, <3>5
  <2>9. ForksDisjointAndSound'
    BY <2>1, <2>7, <2>8, SoundTableNext
  <2> QED BY <2>1, <2>9, TouchedFresh DEF Clean
<1> QED BY <1>1, <1>2
\* delete_file releases both chains, and takes the file's forks out of the table:
\* the walk of the resource fork does not fail after the data fork's release.
LEMMA DeleteFileClean ==
  ASSUME TypeOK, TypeOK', Clean, NEW n \in FileNames, NEW now \in Times, DeleteFile(n, now)
  PROVE  Clean' /\ (result' # "Ok" => UNCHANGED volume)
<1> DEFINE i     == IndexOf(n)
           freed == Released(map, OldStart(n, "data"))
           rsrc  == OldStart(n, "rsrc")
           p     == <<i, "data">>
           q     == <<i, "rsrc">>
           F     == [ForkTable EXCEPT ![p] = NoFork]
           G     == [F EXCEPT ![q] = NoFork]
<1>1. CASE Fails(DeleteVerdict(n))
  BY <1>1, CleanStutter DEF Fails, volume
<1>2. CASE ~Fails(DeleteVerdict(n))
  <2>1. DeleteVerdict(n) = "Ok" /\ Found(n)
    BY <1>2 DEF DeleteFile, DeleteVerdict, FileVerdict
  <2>2. i \in 1 .. Len(entries) /\ Len(entries) \in Nat
    BY <2>1, Lookup, TablePlaces DEF TypeOK
  <2>3. /\ p \in DOMAIN ForkTable /\ q \in DOMAIN ForkTable /\ p # q
        /\ ForkTable[p].st = OldStart(n, "data") /\ ForkTable[q].st = rsrc
    BY <2>2, TablePlaces DEF OldStart, ForkOf, Forks
  <2>4. SoundFor(freed, F) /\ freed \in MapType
    <3>1. SoundFor(map, ForkTable) /\ map \in MapType
      BY SoundTable DEF Clean, TypeOK
    <3> QED BY <2>3, <3>1, ReleaseSound, ReleasedMap
  <2>5. q \in DOMAIN F /\ F[q].st = rsrc
    BY <2>3
  <2> HIDE DEF freed, rsrc, p, q, F
  <2>6. ~Breaks(freed, rsrc) /\ SoundFor(Released(freed, rsrc), G)
    BY <2>4, <2>5, ReleaseSound
  <2>7. /\ map' = Released(freed, rsrc) /\ entries' = RemoveAt(entries, i)
        /\ Touched(now) /\ result' = "Ok"
    BY <1>2, <2>6 DEF DeleteFile, Succeeds, freed, rsrc
  <2>8. /\ Len(entries') = Len(entries) - 1
        /\ \A j \in 1 .. Len(entries) - 1 :
             entries'[j] = IF j < i THEN entries[j] ELSE entries[j + 1]
    <3>1. entries \in Seq(EntryType) /\ i \in DOMAIN entries
      BY <2>2 DEF TypeOK
    <3> HIDE DEF i
    <3> QED BY <2>7, <3>1, RemovedEntry
  <2>9. /\ DOMAIN G = DOMAIN ForkTable /\ G[p] = NoFork /\ G[q] = NoFork
        /\ \A r \in DOMAIN ForkTable : r # p /\ r # q => G[r] = ForkTable[r]
    BY <2>3 DEF F
  <2> HIDE DEF G
  <2>10. SoundFor(map', ForkTable')
    <3> DEFINE U   == DOMAIN ForkTable'
               Old(j) == IF j < i THEN j ELSE j + 1
               was == [x \in U |-> <<Old(x[1]), x[2]>>]
    <3>1. ASSUME NEW x \in U
          PROVE  \E j \in 1 .. Len(entries) - 1, k \in Forks :
                   /\ x = <<j, k>> /\ was[x] = <<Old(j), k>>
                   /\ Old(j) \in 1 .. Len(entries) /\ Old(j) # i
                   /\ ForkTable'[x] = entries[Old(j)].fork[k]
      <4>1. PICK j \in 1 .. Len(entries) - 1, k \in Forks : x = <<j, k>>
        BY <2>8, TablePlacesNext
      <4>2. Old(j) \in 1 .. Len(entries) /\ Old(j) # i
        BY <2>2
      <4>3. ForkTable'[x] = entries[Old(j)].fork[k]
        BY <2>8, <4>1, TablePlacesNext
      <4> QED BY <4>1, <4>2, <4>3
    <3> HIDE DEF U
    <3>2. was \in [U -> DOMAIN G]
      <4> SUFFICES ASSUME NEW x \in U PROVE was[x] \in DOMAIN G
        OBVIOUS
      <4> HIDE DEF was, Old
      <4> QED BY <2>9, <3>1, TablePlaces
    <3>3. ASSUME NEW x \in U, NEW y \in U, x # y PROVE was[x] # was[y]
      <4>1. PICK j \in 1 .. Len(entries) - 1, k \in Forks : x = <<j, k>> /\ was[x] = <<Old(j), k>>
        BY <3>1
      <4>2. PICK h \in 1 .. Len(entries) - 1, g \in Forks : y = <<h, g>> /\ was[y] = <<Old(h), g>>
        BY <3>1
      <4>3. j # h => Old(j) # Old(h)
        BY <2>2
      <4> HIDE DEF was, Old
      <4> QED BY <3>3, <4>1, <4>2, <4>3
    <3>4. ASSUME NEW x \in U PROVE ForkTable'[x] = G[was[x]]
      <4> HIDE DEF was, Old
      <4>1. PICK j \in 1 .. Len(entries) - 1, k \in Forks :
                   /\ was[x] = <<Old(j), k>>
                   /\ Old(j) \in 1 .. Len(entries) /\ Old(j) # i
                   /\ ForkTable'[x] = entries[Old(j)].fork[k]
        BY <3>1
      <4>2. was[x] \in DOMAIN ForkTable /\ ForkTable[was[x]] = ForkTable'[x]
        BY <4>1, TablePlaces
      <4> QED BY <2>9, <4>1, <4>2 DEF p, q
    <3>5. ASSUME NEW r \in DOMAIN G, G[r].st # 0 PROVE \E x \in U : was[x] = r
      <4>1. PICK j \in 1 .. Len(entries), k \in Forks : r = <<j, k>>
        BY <2>9, TablePlaces
      <4>2. r # p /\ r # q
        BY <2>9, <3>5 DEF NoFork
      <4>3. j # i
        BY <4>1, <4>2 DEF p, q, Forks
      <4> DEFINE x == <<IF j < i THEN j ELSE j - 1, k>>
      <4>4. x \in U
        BY <2>2, <2>8, <4>3, TablePlacesNext DEF U
      <4>5. was[x] = r
        BY <2>2, <4>1, <4>3, <4>4
      <4> QED BY <4>4, <4>5
    <3> HIDE DEF was
    <3>6. \A x \in DOMAIN ForkTable' \ U : FALSE
      BY DEF U
    <3> QED BY <2>6, <2>7, <3>2, <3>3, <3>4, <3>5, <3>6, RenumberSound DEF U
  <2>11. ForksDisjointAndSound'
    BY <2>10, SoundTableNext
  <2> QED BY <2>7, <2>11, TouchedFresh DEF Clean
<1> QED BY <1>1, <1>2

\* create_file adds two forks without blocks to the table.
LEMMA CreateFileClean ==
  ASSUME TypeOK, TypeOK', Clean, NEW n \in FileNames, NEW c \in Codes, NEW now \in Times,
         CreateFile(n, c, now)
  PROVE  Clean'
<1> DEFINE new   == NewEntry(n, c, now)
           grown == Append(entries, new)
<1>1. CASE Fails(CreateVerdict(n, grown))
  BY <1>1, CleanStutter DEF Fails, volume
<1>2. CASE ~Fails(CreateVerdict(n, grown))
  <2>1. /\ entries' = grown /\ map' = map
        /\ mdb' = Counted([mdb EXCEPT !.ls_mod = now,
                                      !.nxt_fnum = (@ + 1) % FnumMod], map, grown)
    BY <1>2 DEF CreateFile
  <2>2. CountersFresh'
    <3>1. [mdb EXCEPT !.ls_mod = now, !.nxt_fnum = (@ + 1) % FnumMod] \in MdbType
      <4>1. mdb \in MdbType /\ (mdb.nxt_fnum + 1) % FnumMod \in Nat
        BY VolumeAssumption DEF TypeOK, MdbType
      <4> QED BY <4>1 DEF MdbType
    <3> HIDE DEF grown
    <3> QED BY <2>1, <3>1, CountedFresh
  <2>3. \A k \in Forks : new.fork[k] = NoFork
    BY DEF NewEntry
  <2> HIDE DEF new
  <2>4. /\ Len(entries') = Len(entries) + 1
        /\ \A j \in 1 .. Len(entries) : entries'[j] = entries[j]
        /\ entries'[Len(entries) + 1] = new
    BY <2>1 DEF TypeOK
  <2>5. SoundFor(map, ForkTable')
    <3> DEFINE U   == DOMAIN ForkTable
               was == [x \in U |-> x]
    <3>1. SoundFor(map, ForkTable)
      BY SoundTable DEF Clean
    <3>2. U \subseteq DOMAIN ForkTable'
      BY <2>4, TablePlaces, TablePlacesNext
    <3>3. ASSUME NEW x \in U PROVE ForkTable'[x] = ForkTable[was[x]]
      BY <2>4, TablePlaces, TablePlacesNext
    <3>4. ASSUME NEW x \in DOMAIN ForkTable' \ U
          PROVE  ForkTable'[x].st = 0 /\ EmptyForkSound(ForkTable'[x])
      <4>1. PICK j \in 1 .. Len(entries) + 1, k \in Forks : x = <<j, k>>
        BY <2>4, TablePlacesNext
      <4>2. j = Len(entries) + 1
        BY <4>1, TablePlaces
      <4>3. ForkTable'[x] = NoFork
        BY <2>3, <2>4, <4>1, <4>2, TablePlacesNext
      <4> QED BY <4>3 DEF NoFork, EmptyForkSound
    <3> HIDE DEF U
    <3>5. /\ was \in [U -> DOMAIN ForkTable]
          /\ \A x, y \in U : x # y => was[x] # was[y]
          /\ \A r \in DOMAIN ForkTable : ForkTable[r].st # 0 => \E x \in U : was[x] = r
      BY DEF U
    <3> HIDE DEF was
    <3> QED BY <3>1, <3>2, <3>3, <3>4, <3>5, RenumberSound
  <2> QED BY <2>1, <2>2, <2>5, SoundTableNext DEF Clean
<1> QED BY <1>1, <1>2
\* rename_file and the setters leave the map and the forks as they are.
LEMMA EntryCallsClean ==
  ASSUME TypeOK, TypeOK', Clean, NEW now \in Times,
         \/ \E n \in FileNames :
              \/ \E c \in Codes : SetTypeCreator(n, c, now)
              \/ \E l \in BOOLEAN : SetLocked(n, l, now)
              \/ SetTimes(n, now)
         \/ \E old, new \in FileNames : RenameFile(old, new, now)
  PROVE  Clean'
<1>0. /\ DOMAIN entries = 1 .. Len(entries) /\ Len(entries) \in Nat
      /\ \A j \in DOMAIN entries : entries[j] \in EntryType
  BY DEF TypeOK
<1>1. ASSUME map' = map, Touched(now), Len(entries') = Len(entries),
             \A j \in 1 .. Len(entries) : entries'[j].fork = entries[j].fork
      PROVE  Clean'
  BY <1>1, SameForks, TouchedFresh DEF Clean
<1>2. ASSUME NEW n \in FileNames,
             \/ \E c \in Codes : SetTypeCreator(n, c, now)
             \/ \E l \in BOOLEAN : SetLocked(n, l, now)
             \/ SetTimes(n, now)
      PROVE  Clean'
  <2>1. CASE Fails(SetVerdict(n))
    BY <2>1, CleanStutter DEF Fails, volume
  <2>2. CASE ~Fails(SetVerdict(n))
    <3>1. PICK e \in EntryType :
             SetEntry(n, e, now) /\ e.fork = entries[IndexOf(n)].fork
      BY <1>2, <2>2, SettersReplace
    <3>2. /\ entries' = [entries EXCEPT ![IndexOf(n)] = e] /\ map' = map /\ Touched(now)
      BY <3>1 DEF SetEntry
    <3>3. /\ Len(entries') = Len(entries)
          /\ \A j \in 1 .. Len(entries) : entries'[j].fork = entries[j].fork
      BY <1>0, <3>1, <3>2
    <3> QED BY <1>1, <3>2, <3>3
  <2> QED BY <2>1, <2>2
<1>3. ASSUME NEW old \in FileNames, NEW new \in FileNames, RenameFile(old, new, now)
      PROVE  Clean'
  <2>1. CASE Fails(RenameVerdict(old, new))
    BY <2>1, CleanStutter DEF Fails, volume
  <2>2. CASE ~Fails(RenameVerdict(old, new))
    <3>1. /\ entries' = [entries EXCEPT ![IndexOf(old)].name = new]
          /\ map' = map /\ Touched(now)
      BY <1>3, <2>2 DEF RenameFile
    <3>2. /\ Len(entries') = Len(entries)
          /\ \A j \in 1 .. Len(entries) : entries'[j].fork = entries[j].fork
      BY <1>0, <3>1 DEF EntryType
    <3> QED BY <1>1, <3>1, <3>2
  <2> QED BY <2>1, <2>2
<1> QED BY <1>2, <1>3

\* rename_volume and set_boot_blocks touch neither the map nor the directory.
LEMMA VolumeCallsClean ==
  ASSUME TypeOK, TypeOK', Clean, NEW now \in Times,
         \/ \E n \in VolumeNames : RenameVolume(n, now)
         \/ \E bb \in BootBlocks : SetBootBlocks(bb)
  PROVE  Clean'
<1>1. CASE UNCHANGED <<map, entries, mdb>>
  BY <1>1, CleanStutter
<1>2. CASE ~UNCHANGED <<map, entries, mdb>>
  <2>1. PICK n \in VolumeNames :
          /\ mdb' = Counted([mdb EXCEPT !.name = n, !.ls_mod = now], map, entries)
          /\ map' = map /\ entries' = entries
    BY <1>2 DEF RenameVolume, SetBootBlocks, Fails, volume
  <2>2. [mdb EXCEPT !.name = n, !.ls_mod = now] \in MdbType
    BY DEF TypeOK, MdbType
  <2>3. CountersFresh'
    BY <2>1, <2>2, CountedFresh
  <2> QED BY <2>1, <2>3, SameForks DEF Clean
<1> QED BY <1>1, <1>2

\* A formatted volume: all blocks are free, and there is no file.
LEMMA FreshClean ==
  ASSUME FreshInit, NBlocks < CountMod
  PROVE  Clean
<1>1. map = [b \in Blocks |-> FREE] /\ entries = <<>> /\ Addressable
  BY DEF FreshInit, NewEmpty
<1>2. FreeBlocks(map) = Blocks
  BY <1>1 DEF FreeBlocks
<1>3. FreeCount(map) = NBlocks /\ NBlocks \in Nat
  BY <1>2, BlocksFinite, BlockMapAssumption DEF FreeCount
<1>4. FreeCount(map) % CountMod = NBlocks /\ Len(entries) % CountMod = 0
  BY <1>1, <1>3, VolumeAssumption
<1>5. mdb.free_bks = NBlocks /\ mdb.nm_fls = 0
  BY DEF FreshInit
<1>6. CountersFresh
  BY <1>4, <1>5 DEF CountersFresh
<1>7. ForkRefs = {}
  BY <1>1 DEF ForkRefs
<1>8. ForksDisjointAndSound
  BY <1>1, <1>7 DEF ForksDisjointAndSound, ForksSound, NoSharing, NoOrphans, HasBlocks
<1> QED BY <1>1, <1>6, <1>8 DEF Clean

\* One call after another keeps the volume clean.
LEMMA CleanStep ==
  ASSUME TypeOK, TypeOK', Clean, [Next]_vars
  PROVE  Clean'
<1>1. CASE Next
  <2>1. PICK now \in Times :
           \/ \E n \in FileNames, c \in Codes : mdb.nxt_fnum < FnumBound /\ CreateFile(n, c, now)
           \/ \E n \in FileNames :
                \/ \E c \in Codes : SetTypeCreator(n, c, now)
                \/ \E l \in BOOLEAN : SetLocked(n, l, now)
                \/ SetTimes(n, now)
           \/ \E n \in FileNames, k \in Forks, d \in Contents : WriteFork(n, k, d, now)
           \/ \E n \in FileNames : DeleteFile(n, now)
           \/ \E old, new \in FileNames : RenameFile(old, new, now)
           \/ \E n \in VolumeNames : RenameVolume(n, now)
           \/ \E bb \in BootBlocks : SetBootBlocks(bb)
    BY <1>1, NextCases, Zenon
  <2> QED BY <2>1, CreateFileClean, WriteForkClean, DeleteFileClean, EntryCallsClean,
             VolumeCallsClean
<1>2. CASE UNCHANGED vars
  BY <1>2, CleanStutter DEF vars
<1> QED BY <1>1, <1>2

\* On a volume mkfs formatted, whatever calls follow: every chain walks to its
\* end and has the blocks its fork needs, no block belongs to two forks, none is
\* lost, and the counters of the MDB are those of the map and the directory.
THEOREM StaysClean ==
  ASSUME NBlocks < CountMod
  PROVE  Spec => [](ForksDisjointAndSound /\ CountersFresh)
<1>1. FreshInit => Clean
  BY FreshClean
<1>2. TypeOK /\ TypeOK' /\ Clean /\ [Next]_vars => Clean'
  BY CleanStep
<1>3. Clean => ForksDisjointAndSound /\ CountersFresh
  BY DEF Clean
<1> QED BY <1>1, <1>2, <1>3, TypeCorrect, PTL DEF Spec

\* The same of any image that check() finds nothing wrong with when it is opened,
\* blocks reserved by the system and locked volumes included.
THEOREM OpenedStaysClean ==
  TypeOK /\ Clean /\ [][Next]_vars => [](ForksDisjointAndSound /\ CountersFresh)
<1>1. TypeOK /\ [Next]_vars => TypeOK'
  BY TypeStep
<1>2. TypeOK /\ TypeOK' /\ Clean /\ [Next]_vars => Clean'
  BY CleanStep
<1>3. Clean => ForksDisjointAndSound /\ CountersFresh
  BY DEF Clean
<1> QED BY <1>1, <1>2, <1>3, PTL

\* check() has nothing to report, as long as the counters can hold what they
\* count: 2^16 exceeds the blocks of a volume, and the number of its files.
THEOREM CheckStaysClean ==
  ASSUME NBlocks < CountMod
  PROVE  Spec => [](Len(entries) < CountMod => CheckIsClean)
<1>1. TypeOK /\ ForksDisjointAndSound /\ CountersFresh
        => (Len(entries) < CountMod => CheckIsClean)
  <2> SUFFICES ASSUME TypeOK, ForksDisjointAndSound, CountersFresh, Len(entries) < CountMod
               PROVE  CheckIsClean
    OBVIOUS
  <2>1. FreeCount(map) \in Nat /\ FreeCount(map) <= NBlocks
    BY FreeBlocksFinite, BlocksFinite, FS_Subset, FS_CardinalityType DEF FreeCount
  <2>2. Len(entries) \in Nat /\ CountMod \in Nat \ {0} /\ NBlocks \in Nat
    BY VolumeAssumption, BlockMapAssumption DEF TypeOK
  <2>3. FreeCount(map) % CountMod = FreeCount(map) /\ Len(entries) % CountMod = Len(entries)
    BY <2>1, <2>2
  <2> QED BY <2>3 DEF CheckIsClean, CountersFresh
<1> QED BY <1>1, StaysClean, TypeCorrect, PTL

\* A call on a clean volume that fails changes nothing: delete_file does not stop
\* between its two forks, which only a bad image makes it do.
LEMMA FailedCall ==
  ASSUME TypeOK, TypeOK', Clean, [Next]_vars
  PROVE  [result' # "Ok" => UNCHANGED volume]_vars
<1> SUFFICES ASSUME Next, result' # "Ok" PROVE UNCHANGED volume
  OBVIOUS
<1>1. PICK now \in Times :
         \/ \E n \in FileNames, c \in Codes : mdb.nxt_fnum < FnumBound /\ CreateFile(n, c, now)
         \/ \E n \in FileNames :
              \/ \E c \in Codes : SetTypeCreator(n, c, now)
              \/ \E l \in BOOLEAN : SetLocked(n, l, now)
              \/ SetTimes(n, now)
         \/ \E n \in FileNames, k \in Forks, d \in Contents : WriteFork(n, k, d, now)
         \/ \E n \in FileNames : DeleteFile(n, now)
         \/ \E old, new \in FileNames : RenameFile(old, new, now)
         \/ \E n \in VolumeNames : RenameVolume(n, now)
         \/ \E bb \in BootBlocks : SetBootBlocks(bb)
  BY NextCases, Zenon
<1>2. ASSUME NEW n \in FileNames, NEW c \in Codes, CreateFile(n, c, now) PROVE UNCHANGED volume
  BY <1>2 DEF CreateFile, Fails, Succeeds
<1>3. ASSUME NEW n \in FileNames,
             \/ \E c \in Codes : SetTypeCreator(n, c, now)
             \/ \E l \in BOOLEAN : SetLocked(n, l, now)
             \/ SetTimes(n, now)
      PROVE  UNCHANGED volume
  BY <1>3, SettersReplace DEF SetEntry, Fails, Succeeds
<1>4. ASSUME NEW n \in FileNames, NEW k \in Forks, NEW d \in Contents, WriteFork(n, k, d, now)
      PROVE  UNCHANGED volume
  BY <1>4 DEF WriteFork, Fails, Succeeds
<1>5. ASSUME NEW old \in FileNames, NEW new \in FileNames, RenameFile(old, new, now)
      PROVE  UNCHANGED volume
  BY <1>5 DEF RenameFile, Fails, Succeeds
<1>6. ASSUME \/ \E n \in VolumeNames : RenameVolume(n, now)
             \/ \E bb \in BootBlocks : SetBootBlocks(bb)
      PROVE  UNCHANGED volume
  BY <1>6 DEF RenameVolume, SetBootBlocks, Fails, Succeeds
<1> QED BY <1>1, <1>2, <1>3, <1>4, <1>5, <1>6, DeleteFileClean

\* A call that returns an error has changed nothing, on a volume mkfs formatted.
THEOREM FailedCallsChangeNothing ==
  ASSUME NBlocks < CountMod
  PROVE  Spec => FailureChangesNothing
<1>1. FreshInit => Clean
  BY FreshClean
<1>2. TypeOK /\ TypeOK' /\ Clean /\ [Next]_vars => Clean'
  BY CleanStep
<1>3. TypeOK /\ TypeOK' /\ Clean /\ [Next]_vars => [result' # "Ok" => UNCHANGED volume]_vars
  BY FailedCall
<1> QED BY <1>1, <1>2, <1>3, TypeCorrect, PTL DEF Spec, FailureChangesNothing

\* Nor has it on any image that check() finds nothing wrong with when it is opened.
THEOREM OpenedFailedCallsChangeNothing ==
  TypeOK /\ Clean /\ [][Next]_vars => FailureChangesNothing
<1>1. TypeOK /\ [Next]_vars => TypeOK'
  BY TypeStep
<1>2. TypeOK /\ TypeOK' /\ Clean /\ [Next]_vars => Clean'
  BY CleanStep
<1>3. TypeOK /\ TypeOK' /\ Clean /\ [Next]_vars => [result' # "Ok" => UNCHANGED volume]_vars
  BY FailedCall
<1> QED BY <1>1, <1>2, <1>3, PTL DEF FailureChangesNothing

-----------------------------------------------------------------------------
(***************************************************************************)
(* Reading a fork.                                                         *)
(***************************************************************************)
\* The byte a read of a chain takes for the j-th of the fork.
ByteOf(m, bl, st, j) == bl[ChainSeq(m, st)[((j - 1) \div BlkSiz) + 1]][((j - 1) % BlkSiz) + 1]

\* read_fork of a fork f, on a map m and an allocation area bl.
ReadOf(m, bl, f) ==
  IF f.st = 0 THEN Bytes(<<>>)
  ELSE IF ~ChainOk(m, f.st) THEN Failure("CorruptVolume")
  ELSE IF ChainLen(m, f.st) * BlkSiz < f.len THEN Failure("CorruptVolume")
  ELSE Bytes([j \in 1 .. f.len |-> ByteOf(m, bl, f.st, j)])

\* read_fork in these terms, before a step and after it.
LEMMA ReadIs ==
  ASSUME NEW i, NEW k
  PROVE  /\ ReadFork(i, k) = ReadOf(map, blocks, entries[i].fork[k])
         /\ ReadFork(i, k)' = ReadOf(map', blocks', entries'[i].fork[k])
BY DEF ReadFork, ReadOf, ByteOf, ForkOf

\* Where in a block the j-th byte of a fork is, and in which.
LEMMA BytePlace ==
  ASSUME NEW j \in Nat \ {0}
  PROVE  /\ (j - 1) \div BlkSiz \in Nat /\ ((j - 1) % BlkSiz) + 1 \in 1 .. BlkSiz
         /\ ((j - 1) \div BlkSiz) * BlkSiz + ((j - 1) % BlkSiz) + 1 = j
<1>1. BlkSiz \in Nat \ {0} /\ j - 1 \in Nat
  BY VolumeAssumption
<1>2. ASSUME NEW a \in Nat, NEW b \in Nat \ {0}
      PROVE  a \div b \in Nat /\ a % b \in 0 .. b - 1 /\ (a \div b) * b + (a % b) = a
  OBVIOUS
<1> DEFINE a == j - 1
           p == a \div BlkSiz
           q == a % BlkSiz
<1>3. p \in Nat /\ q \in 0 .. BlkSiz - 1 /\ p * BlkSiz + q = a
  BY <1>1, <1>2
<1>4. p * BlkSiz \in Nat
  BY <1>1, <1>3
<1> HIDE DEF p, q
<1>5. p * BlkSiz + q + 1 = j /\ q + 1 \in 1 .. BlkSiz
  BY <1>1, <1>3, <1>4
<1> QED BY <1>3, <1>5 DEF p, q

\* Byte j lies within the first n blocks when j does not exceed what they hold.
LEMMA ByteWithin ==
  ASSUME NEW j \in Nat \ {0}, NEW n \in Nat, j <= n * BlkSiz
  PROVE  ((j - 1) \div BlkSiz) + 1 \in 1 .. n
<1> DEFINE p == (j - 1) \div BlkSiz
           q == (j - 1) % BlkSiz
<1>1. p \in Nat /\ q + 1 \in 1 .. BlkSiz /\ p * BlkSiz + q + 1 = j
  BY BytePlace
<1>2. BlkSiz \in Nat \ {0}
  BY VolumeAssumption
<1> HIDE DEF p, q
<1>3. p < n
  <2> SUFFICES ASSUME n <= p PROVE FALSE
    BY <1>1
  <2>1. ASSUME NEW x \in Nat, NEW y \in Nat, NEW z \in Nat, x <= y PROVE x * z <= y * z
    BY <2>1
  <2>2. n * BlkSiz <= p * BlkSiz /\ n * BlkSiz \in Nat /\ p * BlkSiz \in Nat
    BY <1>1, <1>2, <2>1
  <2>3. q \in Int
    BY <1>2, <1>1 DEF q
  <2> QED BY <1>1, <2>2, <2>3
<1> QED BY <1>1, <1>3 DEF p

\* A fork reads the same when neither its chain nor the bytes in its blocks change.
LEMMA ReadFrame ==
  ASSUME NEW m, NEW o, NEW bl, NEW bk, NEW f \in ForkType,
         f.st # 0 => \A b \in Visited(m, f.st) : o[b] = m[b] /\ bk[b] = bl[b]
  PROVE  ReadOf(o, bk, f) = ReadOf(m, bl, f)
<1>1. CASE f.st = 0
  BY <1>1 DEF ReadOf
<1>2. CASE f.st # 0 /\ f.st \notin Blocks
  BY <1>2 DEF ReadOf, ChainOk, InRange
<1>3. CASE f.st # 0 /\ f.st \in Blocks
  <2>1. /\ ChainOk(o, f.st) <=> ChainOk(m, f.st)
        /\ ChainLen(o, f.st) = ChainLen(m, f.st)
        /\ ChainSeq(o, f.st) = ChainSeq(m, f.st)
    BY <1>3, ChainFrame, ChainSeqFrame
  <2>2. CASE ~ChainOk(m, f.st)
    BY <1>3, <2>1, <2>2 DEF ReadOf
  <2>3. CASE ChainLen(m, f.st) * BlkSiz < f.len
    BY <1>3, <2>1, <2>3 DEF ReadOf
  <2>4. CASE ChainOk(m, f.st) /\ ~(ChainLen(m, f.st) * BlkSiz < f.len)
    <3>1. ChainLen(m, f.st) \in Nat /\ f.len \in Nat /\ BlkSiz \in Nat
      BY <1>3, ChainLenType, VolumeAssumption DEF ForkType
    <3>2. ASSUME NEW j \in 1 .. f.len PROVE ByteOf(o, bk, f.st, j) = ByteOf(m, bl, f.st, j)
      <4>1. j \in Nat \ {0} /\ j <= ChainLen(m, f.st) * BlkSiz
        <5>1. ChainLen(m, f.st) * BlkSiz \in Nat
          BY <3>1
        <5> QED BY <2>4, <3>1, <5>1
      <4>2. ((j - 1) \div BlkSiz) + 1 \in 1 .. ChainLen(m, f.st)
        BY <3>1, <4>1, ByteWithin
      <4>3. ChainSeq(m, f.st)[((j - 1) \div BlkSiz) + 1] \in Visited(m, f.st)
        BY <2>4, <4>2, ChainSeqBlock
      <4> QED BY <1>3, <2>1, <4>3 DEF ByteOf
    <3>3. [j \in 1 .. f.len |-> ByteOf(o, bk, f.st, j)] = [j \in 1 .. f.len |-> ByteOf(m, bl, f.st, j)]
      BY <3>2
    <3> QED BY <1>3, <2>1, <2>4, <3>3 DEF ReadOf
  <2> QED BY <2>2, <2>3, <2>4
<1> QED BY <1>1, <1>2, <1>3

-----------------------------------------------------------------------------
(***************************************************************************)
(* What write_fork writes.                                                 *)
(***************************************************************************)
\* Blocks that hold the blocks of contents d in their order, linked by allocate,
\* give back the bytes of d, and zeros behind them.
LEMMA NewForkBytes ==
  ASSUME Addressable, NEW m, NEW bk, NEW got \in SUBSET Blocks, NEW d \in Seq(Byte),
         Cardinality(got) = Needed(d),
         \A b \in got : bk[b] = Chunk(d, PlaceOf(got, b)),
         NEW j \in 1 .. Needed(d) * BlkSiz
  PROVE  ByteOf(Linked(m, got), bk, Least(got), j) = IF j <= Len(d) THEN d[j] ELSE Zero
<1> DEFINE p == (j - 1) \div BlkSiz
           q == (j - 1) % BlkSiz
           b == ChainSeq(Linked(m, got), Least(got))[p + 1]
<1>1. Needed(d) \in Nat /\ BlkSiz \in Nat \ {0}
  BY NeededBlocks, VolumeAssumption
<1>2. j \in Nat \ {0} /\ j <= Needed(d) * BlkSiz
  BY <1>1
<1>3. p \in Nat /\ q + 1 \in 1 .. BlkSiz /\ p * BlkSiz + q + 1 = j
  BY <1>2, BytePlace
<1>4. p + 1 \in 1 .. Cardinality(got)
  BY <1>1, <1>2, ByteWithin
<1>5. b \in got /\ PlaceOf(got, b) = p + 1
  BY <1>4, LinkedOrder
<1>6. ByteOf(Linked(m, got), bk, Least(got), j) = bk[b][q + 1]
  BY DEF ByteOf
<1> HIDE DEF b
<1>7. bk[b] = Chunk(d, p + 1)
  BY <1>5
<1>8. (p + 1 - 1) * BlkSiz + (q + 1) = j
  <2>1. p * BlkSiz \in Nat
    BY <1>1, <1>3
  <2> HIDE DEF p
  <2>2. q \in Int
    BY <1>2, <1>1
  <2> HIDE DEF q
  <2>3. p + 1 - 1 = p
    BY <1>3
  <2> QED BY <1>3, <2>1, <2>2, <2>3
<1> HIDE DEF p, q
<1>9. Chunk(d, p + 1)[q + 1] = IF j <= Len(d) THEN d[j] ELSE Zero
  BY <1>3, <1>8 DEF Chunk
<1> QED BY <1>6, <1>7, <1>9

\* So a read of the fork returns d.
LEMMA NewForkReads ==
  ASSUME Addressable, NEW m, NEW bk, NEW got \in SUBSET Blocks, NEW d \in Seq(Byte),
         Cardinality(got) = Needed(d),
         \A b \in got : bk[b] = Chunk(d, PlaceOf(got, b)),
         NEW f, f.st = FirstOf(got), f.len = Len(d)
  PROVE  ReadOf(Linked(m, got), bk, f) = Bytes(d)
<1>1. /\ Needed(d) \in Nat /\ Len(d) <= Needed(d) * BlkSiz /\ Len(d) \in Nat
      /\ Needed(d) = 0 => Len(d) = 0
  BY NeededBlocks
<1>2. CASE got = {}
  <2>1. Len(d) = 0
    BY <1>1, <1>2, FS_EmptySet
  <2>2. d = <<>>
    BY <2>1
  <2> QED BY <1>2, <2>2 DEF ReadOf, FirstOf
<1>3. CASE got # {}
  <2>1. /\ Least(got) \in Blocks
        /\ Visited(Linked(m, got), Least(got)) = got
        /\ ChainOk(Linked(m, got), Least(got))
    BY <1>3, LinkedIsChain
  <2>2. f.st = Least(got) /\ f.st # 0
    <3>1. 0 \notin Blocks
      BY BlockMapAssumption DEF Blocks, FIRST_BLOCK
    <3> QED BY <1>3, <2>1, <3>1 DEF FirstOf
  <2>3. ChainLen(Linked(m, got), f.st) = Needed(d)
    BY <2>1, <2>2 DEF ChainLen
  <2>4. Needed(d) * BlkSiz \in Nat
    BY <1>1, VolumeAssumption
  <2>5. ASSUME NEW j \in 1 .. Len(d) PROVE ByteOf(Linked(m, got), bk, f.st, j) = d[j]
    <3>1. j \in 1 .. Needed(d) * BlkSiz /\ j <= Len(d)
      BY <1>1, <2>4
    <3> QED BY <2>2, <3>1, NewForkBytes
  <2>6. [j \in 1 .. Len(d) |-> ByteOf(Linked(m, got), bk, f.st, j)] = d
    <3>1. d = [j \in 1 .. Len(d) |-> d[j]]
      OBVIOUS
    <3> QED BY <2>5, <3>1
  <2>7. ~(Needed(d) * BlkSiz < f.len)
    BY <1>1, <2>4
  <2> QED BY <2>1, <2>2, <2>3, <2>6, <2>7 DEF ReadOf
<1> QED BY <1>2, <1>3

\* What a write that does not fail has done.
LEMMA WriteDone ==
  ASSUME TypeOK, NEW n \in FileNames, NEW k \in Forks, NEW d \in Contents, NEW now \in Times,
         WriteFork(n, k, d, now), ~Fails(WriteVerdict(n, k, d))
  PROVE  LET i     == IndexOf(n)
             freed == Released(map, OldStart(n, k))
             got   == Allotted(freed, Needed(d))
             new   == [st |-> FirstOf(got), len |-> Len(d), alloc |-> Needed(d) * BlkSiz]
         IN  /\ i \in DOMAIN entries /\ ~entries[i].locked /\ Found(n)
             /\ ~Breaks(map, OldStart(n, k))
             /\ got \in SUBSET Blocks /\ got \subseteq FreeBlocks(freed)
             /\ Cardinality(got) = Needed(d)
             /\ map' = Linked(freed, got)
             /\ \A b \in Blocks : blocks'[b] = IF b \in got THEN Chunk(d, PlaceOf(got, b))
                                               ELSE blocks[b]
             /\ DOMAIN entries' = DOMAIN entries
             /\ \A j \in DOMAIN entries :
                  /\ entries'[j].name = entries[j].name /\ entries'[j].fnum = entries[j].fnum
                  /\ \A g \in Forks :
                       entries'[j].fork[g] = IF j = i /\ g = k THEN new ELSE entries[j].fork[g]
<1> DEFINE i     == IndexOf(n)
           freed == Released(map, OldStart(n, k))
           got   == Allotted(freed, Needed(d))
           new   == [st |-> FirstOf(got), len |-> Len(d), alloc |-> Needed(d) * BlkSiz]
<1>1. /\ WriteVerdict(n, k, d) = "Ok"
      /\ map' = Linked(freed, got)
      /\ blocks' = [b \in Blocks |-> IF b \in got THEN Chunk(d, PlaceOf(got, b)) ELSE blocks[b]]
      /\ entries' = [entries EXCEPT ![i].modified = now, ![i].fork[k] = new]
  BY DEF WriteFork
<1>2. /\ Found(n) /\ i \in DOMAIN entries /\ ~entries[i].locked
      /\ ~Breaks(map, OldStart(n, k))
      /\ got \subseteq FreeBlocks(freed) /\ Cardinality(got) = Needed(d)
  BY <1>1, RoomToWrite
<1>3. got \in SUBSET Blocks
  BY <1>2, FreeBlocksFinite
<1> HIDE DEF i, freed, got, new
<1>4. \A j \in DOMAIN entries : entries[j] \in EntryType
  BY DEF TypeOK
<1>5. /\ DOMAIN entries' = DOMAIN entries
      /\ \A j \in DOMAIN entries :
           /\ entries'[j].name = entries[j].name /\ entries'[j].fnum = entries[j].fnum
           /\ \A g \in Forks :
                entries'[j].fork[g] = IF j = i /\ g = k THEN new ELSE entries[j].fork[g]
  BY <1>1, <1>2, <1>4 DEF EntryType
<1>6. \A b \in Blocks : blocks'[b] = IF b \in got THEN Chunk(d, PlaceOf(got, b)) ELSE blocks[b]
  BY <1>1
<1> QED BY <1>1, <1>2, <1>3, <1>5, <1>6 DEF i, freed, got, new

\* What a call to write_fork that returns "Ok" has written is read back.
LEMMA WriteReadsBack ==
  ASSUME Addressable, TypeOK, NEW n \in FileNames, NEW k \in Forks, NEW d \in Contents,
         NEW now \in Times, WriteFork(n, k, d, now), result' = "Ok"
  PROVE  Found(n)' /\ ReadFork(IndexOf(n), k)' = Bytes(d)
<1> DEFINE i     == IndexOf(n)
           freed == Released(map, OldStart(n, k))
           got   == Allotted(freed, Needed(d))
           f     == entries'[i].fork[k]
           new   == [st |-> FirstOf(got), len |-> Len(d), alloc |-> Needed(d) * BlkSiz]
<1>1. ~Fails(WriteVerdict(n, k, d))
  BY DEF Fails
<1>2. /\ i \in DOMAIN entries /\ Found(n)
      /\ got \in SUBSET Blocks /\ Cardinality(got) = Needed(d)
      /\ map' = Linked(freed, got)
      /\ \A b \in Blocks : blocks'[b] = IF b \in got THEN Chunk(d, PlaceOf(got, b))
                                        ELSE blocks[b]
      /\ DOMAIN entries' = DOMAIN entries
      /\ \A j \in DOMAIN entries :
           /\ entries'[j].name = entries[j].name
           /\ \A g \in Forks :
                entries'[j].fork[g] = IF j = i /\ g = k THEN new ELSE entries[j].fork[g]
  BY <1>1, WriteDone
<1> HIDE DEF freed, got, i
<1>8. f = new
  BY <1>2
<1>9. /\ f.st = FirstOf(got) /\ f.len = Len(d)
      /\ \A b \in got : blocks'[b] = Chunk(d, PlaceOf(got, b))
  BY <1>2, <1>8
<1> HIDE DEF f, new
<1>3. Matches(n)' = Matches(n)
  BY <1>2 DEF Matches
<1>4. Found(n)' /\ IndexOf(n)' = i
  BY <1>2, <1>3 DEF Found, IndexOf, i
<1>5. d \in Seq(Byte)
  BY VolumeAssumption
<1>6. ReadOf(map', blocks', f) = Bytes(d)
  BY <1>2, <1>5, <1>9, NewForkReads
<1>7. ReadFork(IndexOf(n), k)' = ReadOf(map', blocks', entries'[IndexOf(n)'].fork[k])
  BY DEF ReadFork, ReadOf, ByteOf, ForkOf
<1> QED BY <1>4, <1>6, <1>7 DEF f

\* The other calls do not say that they have written.
LEMMA OnlyWriteWrites ==
  ASSUME TypeOK, Next, call'[1] = "write"
  PROVE  \E n \in FileNames, k \in Forks, d \in Contents, now \in Times :
           WriteFork(n, k, d, now) /\ call' = <<"write", n, k, d>>
<1>1. PICK now \in Times :
         \/ \E n \in FileNames, c \in Codes : mdb.nxt_fnum < FnumBound /\ CreateFile(n, c, now)
         \/ \E n \in FileNames :
              \/ \E c \in Codes : SetTypeCreator(n, c, now)
              \/ \E l \in BOOLEAN : SetLocked(n, l, now)
              \/ SetTimes(n, now)
         \/ \E n \in FileNames, k \in Forks, d \in Contents : WriteFork(n, k, d, now)
         \/ \E n \in FileNames : DeleteFile(n, now)
         \/ \E old, new \in FileNames : RenameFile(old, new, now)
         \/ \E n \in VolumeNames : RenameVolume(n, now)
         \/ \E bb \in BootBlocks : SetBootBlocks(bb)
  BY NextCases, Zenon
<1>2. ASSUME NEW n \in FileNames, NEW c \in Codes, CreateFile(n, c, now) PROVE FALSE
  BY <1>2 DEF CreateFile
<1>3. ASSUME NEW n \in FileNames, NEW c \in Codes, SetTypeCreator(n, c, now) PROVE FALSE
  BY <1>3 DEF SetTypeCreator
<1>4. ASSUME NEW n \in FileNames, NEW l \in BOOLEAN, SetLocked(n, l, now) PROVE FALSE
  BY <1>4 DEF SetLocked
<1>5. ASSUME NEW n \in FileNames, SetTimes(n, now) PROVE FALSE
  BY <1>5 DEF SetTimes
<1>6. ASSUME NEW n \in FileNames, DeleteFile(n, now) PROVE FALSE
  BY <1>6 DEF DeleteFile
<1>7. ASSUME NEW old \in FileNames, NEW new \in FileNames, RenameFile(old, new, now) PROVE FALSE
  BY <1>7 DEF RenameFile
<1>8. ASSUME NEW n \in VolumeNames, RenameVolume(n, now) PROVE FALSE
  BY <1>8 DEF RenameVolume
<1>9. ASSUME NEW bb \in BootBlocks, SetBootBlocks(bb) PROVE FALSE
  BY <1>9 DEF SetBootBlocks
<1>10. ASSUME NEW n \in FileNames, NEW k \in Forks, NEW d \in Contents, WriteFork(n, k, d, now)
       PROVE  call' = <<"write", n, k, d>>
  BY <1>10 DEF WriteFork
<1> QED BY <1>1, <1>2, <1>3, <1>4, <1>5, <1>6, <1>7, <1>8, <1>9, <1>10

\* What write_fork reported written is what read_fork then returns: on every image
\* the crate opens, whose chains may be broken or cross-linked, as long as every
\* block number is a link a map entry can hold.
THEOREM OpenedWritesReadBack ==
  ASSUME Addressable
  PROVE  TypeOK /\ [][Next]_vars => WritesReadBack
<1> DEFINE ReadBack == Found(call[2]) /\ ReadFork(IndexOf(call[2]), call[3]) = Bytes(call[4])
<1>1. TypeOK /\ [Next]_vars => TypeOK'
  BY TypeStep
<1>2. TypeOK /\ [Next]_vars => [call'[1] = "write" /\ result' = "Ok" => ReadBack']_vars
  <2> SUFFICES ASSUME TypeOK, Next, call'[1] = "write", result' = "Ok" PROVE ReadBack'
    OBVIOUS
  <2>1. PICK n \in FileNames, k \in Forks, d \in Contents, now \in Times :
          WriteFork(n, k, d, now) /\ call' = <<"write", n, k, d>>
    BY OnlyWriteWrites
  <2>2. Found(n)' /\ ReadFork(IndexOf(n), k)' = Bytes(d)
    BY <2>1, WriteReadsBack
  <2>3. call'[2] = n /\ call'[3] = k /\ call'[4] = d
    BY <2>1
  <2> QED BY <2>2, <2>3 DEF Found, IndexOf, Matches, ReadFork, ForkOf, Bytes
<1> QED BY <1>1, <1>2, PTL DEF WritesReadBack

\* The same of the volumes mkfs formats.
THEOREM FormattedWritesReadBack == Spec => WritesReadBack
<1>1. ASSUME Addressable PROVE Spec => WritesReadBack
  <2>1. TypeOK /\ [][Next]_vars => WritesReadBack
    BY <1>1, OpenedWritesReadBack
  <2>2. FreshInit => TypeOK
    BY FreshType
  <2> QED BY <2>1, <2>2, PTL DEF Spec
<1>2. ASSUME ~Addressable PROVE Spec => WritesReadBack
  <2>1. ~FreshInit
    BY <1>2 DEF FreshInit
  <2> QED BY <2>1, PTL DEF Spec
<1> QED BY <1>1, <1>2

-----------------------------------------------------------------------------
(***************************************************************************)
(* What a call leaves of the files it is not about.                        *)
(***************************************************************************)
\* Where file g of this state is after the step: in place j, with its forks, and
\* with the blocks of its private chains and their contents.
At(g, j) ==
  /\ entries'[j].fnum = entries[g].fnum
  /\ \A k \in Forks :
       /\ entries'[j].fork[k] = entries[g].fork[k]
       /\ <<g, k>> \in HasBlocks /\ Private(<<g, k>>) =>
            \A b \in Owned(<<g, k>>) : map'[b] = map[b] /\ blocks'[b] = blocks[b]

StaysPut(g) == \E j \in DOMAIN entries' : At(g, j)

\* The blocks of a private chain are taken, and not released with another chain.
LEMMA PrivateBlocks ==
  ASSUME NEW r \in HasBlocks, Private(r), NEW b \in Owned(r)
  PROVE  /\ b \in Blocks /\ map[b] # FREE
         /\ \A s \in HasBlocks \ {r} : Walks(s) => b \notin Owned(s)
<1>1. ChainOk(map, ForkOf(r[1], r[2]).st)
  BY DEF Private, Walks
<1>2. map[b] # FREE
  BY <1>1, ChainBlocksTaken DEF Owned
<1>3. b \in Blocks
  BY DEF Owned, Visited
<1> QED BY <1>2, <1>3 DEF Private

\* A fork that stays put reads as it did.
LEMMA StaysPutReads ==
  ASSUME TypeOK, NEW g \in DOMAIN entries, NEW j \in DOMAIN entries', At(g, j), NEW k \in Forks,
         <<g, k>> \in HasBlocks => Private(<<g, k>>)
  PROVE  ReadFork(j, k)' = ReadFork(g, k)
<1> DEFINE f == entries[g].fork[k]
<1>1. entries[g] \in EntryType
  BY DEF TypeOK
<1>2. f \in ForkType
  BY <1>1 DEF EntryType
<1>3. entries'[j].fork[k] = f
  BY DEF At
<1>4. ASSUME f.st # 0, NEW b \in Visited(map, f.st) PROVE map'[b] = map[b] /\ blocks'[b] = blocks[b]
  <2>1. <<g, k>> \in HasBlocks /\ b \in Owned(<<g, k>>)
    BY <1>4 DEF HasBlocks, ForkRefs, ForkOf, Owned
  <2> QED BY <2>1 DEF At
<1> HIDE DEF f
<1>5. ReadOf(map', blocks', f) = ReadOf(map, blocks, f)
  BY <1>2, <1>4, ReadFrame
<1> QED BY <1>3, <1>5, ReadIs DEF f

\* Calls that leave the map and the blocks alone, and the forks of every file.
LEMMA ForksStayPut ==
  ASSUME NEW g, NEW j \in DOMAIN entries', map' = map, blocks' = blocks,
         entries'[j].fnum = entries[g].fnum, entries'[j].fork = entries[g].fork
  PROVE  StaysPut(g)
BY DEF StaysPut, At

\* write_fork takes no block of a private chain, other than of the fork it writes.
LEMMA WriteKeepsBlocks ==
  ASSUME TypeOK, NEW n \in FileNames, NEW k \in Forks, NEW d \in Contents, NEW now \in Times,
         WriteFork(n, k, d, now), ~Fails(WriteVerdict(n, k, d)),
         NEW r \in HasBlocks, r # <<IndexOf(n), k>>, Private(r), NEW x \in Owned(r)
  PROVE  map'[x] = map[x] /\ blocks'[x] = blocks[x]
<1> DEFINE i     == IndexOf(n)
           freed == Released(map, OldStart(n, k))
           got   == Allotted(freed, Needed(d))
           new   == [st |-> FirstOf(got), len |-> Len(d), alloc |-> Needed(d) * BlkSiz]
<1>1. /\ i \in DOMAIN entries /\ ~entries[i].locked
      /\ ~Breaks(map, OldStart(n, k))
      /\ got \subseteq FreeBlocks(freed)
      /\ map' = Linked(freed, got)
      /\ \A b \in Blocks : blocks'[b] = IF b \in got THEN Chunk(d, PlaceOf(got, b))
                                        ELSE blocks[b]
      /\ DOMAIN entries' = DOMAIN entries
      /\ \A j \in DOMAIN entries : \A h \in Forks :
           entries'[j].fork[h] = IF j = i /\ h = k THEN new ELSE entries[j].fork[h]
  BY WriteDone
<1> HIDE DEF got
<1>2. x \in Blocks /\ map[x] # FREE
  BY PrivateBlocks
<1>3. freed[x] = map[x]
  <2>1. CASE OldStart(n, k) = 0
    BY <2>1 DEF Released
  <2>2. CASE OldStart(n, k) # 0
    <3>1. <<i, k>> \in HasBlocks \ {r} /\ Walks(<<i, k>>)
      BY <1>1, <2>2 DEF HasBlocks, ForkRefs, OldStart, Walks, Breaks
    <3>2. x \notin Visited(map, OldStart(n, k))
      BY <3>1, PrivateBlocks DEF Owned, OldStart
    <3> QED BY <1>2, <2>2, <3>2 DEF Released, FreeChain
  <2> QED BY <2>1, <2>2
<1>4. x \notin got
  BY <1>1, <1>2, <1>3 DEF FreeBlocks
<1> HIDE DEF freed
<1> QED BY <1>1, <1>2, <1>3, <1>4 DEF Linked

\* write_fork disturbs the file it writes to, which is not locked, and no other.
LEMMA WriteStaysPut ==
  ASSUME TypeOK, NEW n \in FileNames, NEW k \in Forks, NEW d \in Contents, NEW now \in Times,
         WriteFork(n, k, d, now), ~Fails(WriteVerdict(n, k, d)),
         NEW g \in DOMAIN entries, g # IndexOf(n) \/ entries[g].locked
  PROVE  StaysPut(g)
<1> DEFINE i   == IndexOf(n)
           got == Allotted(Released(map, OldStart(n, k)), Needed(d))
           new == [st |-> FirstOf(got), len |-> Len(d), alloc |-> Needed(d) * BlkSiz]
<1>1. /\ ~entries[i].locked
      /\ DOMAIN entries' = DOMAIN entries
      /\ \A j \in DOMAIN entries :
           /\ entries'[j].fnum = entries[j].fnum
           /\ \A h \in Forks :
                entries'[j].fork[h] = IF j = i /\ h = k THEN new ELSE entries[j].fork[h]
  BY WriteDone
<1>2. g # i
  BY <1>1
<1> HIDE DEF new
<1>3. ASSUME NEW h \in Forks, <<g, h>> \in HasBlocks, Private(<<g, h>>), NEW b \in Owned(<<g, h>>)
      PROVE  map'[b] = map[b] /\ blocks'[b] = blocks[b]
  BY <1>2, <1>3, WriteKeepsBlocks
<1>4. At(g, g)
  BY <1>1, <1>2, <1>3 DEF At
<1> QED BY <1>1, <1>4 DEF StaysPut

\* What a call to delete_file that does not fail at once has done: the file may
\* still be there, when the walk of its resource fork failed.
LEMMA DeleteDone ==
  ASSUME TypeOK, NEW n \in FileNames, NEW now \in Times,
         DeleteFile(n, now), ~Fails(DeleteVerdict(n))
  PROVE  LET i     == IndexOf(n)
             freed == Released(map, OldStart(n, "data"))
             rsrc  == OldStart(n, "rsrc")
         IN  /\ i \in DOMAIN entries /\ ~entries[i].locked
             /\ ~Breaks(map, OldStart(n, "data"))
             /\ blocks' = blocks
             /\ \/ map' = freed /\ entries' = entries
                \/ /\ ~Breaks(freed, rsrc) /\ map' = Released(freed, rsrc)
                   /\ entries' = RemoveAt(entries, i)
<1>1. DeleteVerdict(n) = "Ok"
  BY DEF DeleteFile
<1>2. Found(n) /\ ~entries[IndexOf(n)].locked /\ ~Breaks(map, OldStart(n, "data"))
  BY <1>1 DEF DeleteVerdict, FileVerdict
<1>3. IndexOf(n) \in DOMAIN entries
  BY <1>2, Lookup
<1> QED BY <1>2, <1>3 DEF DeleteFile

\* delete_file releases no block of a private chain of another file.
LEMMA DeleteKeepsBlocks ==
  ASSUME TypeOK, NEW n \in FileNames, NEW now \in Times,
         DeleteFile(n, now), ~Fails(DeleteVerdict(n)),
         NEW g \in DOMAIN entries, g # IndexOf(n), NEW h \in Forks,
         <<g, h>> \in HasBlocks, Private(<<g, h>>), NEW b \in Owned(<<g, h>>)
  PROVE  map'[b] = map[b] /\ blocks'[b] = blocks[b]
<1> DEFINE i     == IndexOf(n)
           data  == OldStart(n, "data")
           rsrc  == OldStart(n, "rsrc")
           freed == Released(map, data)
<1>1. i \in DOMAIN entries /\ ~Breaks(map, data) /\ blocks' = blocks
  BY DeleteDone
<1>2. b \in Blocks
  BY PrivateBlocks
<1>3. ASSUME NEW k \in Forks, OldStart(n, k) # 0, ChainOk(map, OldStart(n, k))
      PROVE  b \notin Visited(map, OldStart(n, k))
  <2>1. <<i, k>> \in HasBlocks /\ Walks(<<i, k>>) /\ <<i, k>> # <<g, h>>
    BY <1>1, <1>3 DEF HasBlocks, ForkRefs, OldStart, Walks
  <2> QED BY <2>1, PrivateBlocks DEF Owned, OldStart
<1>4. freed[b] = map[b]
  <2>1. data # 0 => b \notin Visited(map, data)
    BY <1>1, <1>3 DEF Breaks, Forks
  <2> HIDE DEF data
  <2> QED BY <1>2, <2>1 DEF Released, FreeChain
<1>5. CASE map' = freed
  BY <1>1, <1>4, <1>5
<1>6. CASE ~Breaks(freed, rsrc) /\ map' = Released(freed, rsrc)
  <2>1. ASSUME rsrc # 0
        PROVE  ChainOk(map, rsrc) /\ Visited(freed, rsrc) = Visited(map, rsrc)
    <3>1. ChainOk(freed, rsrc) /\ rsrc \in Blocks
      BY <1>6, <2>1 DEF Breaks, ChainOk, InRange
    <3> HIDE DEF rsrc
    <3>2. ASSUME NEW c \in Visited(freed, rsrc) PROVE map[c] = freed[c]
      <4>1. freed[c] # FREE /\ c \in Blocks
        BY <3>1, ChainBlocksTaken DEF Visited
      <4> HIDE DEF data
      <4> QED BY <4>1 DEF Released, FreeChain
    <3> HIDE DEF freed
    <3> QED BY <3>1, <3>2, VisitedFrame, ChainFrame
  <2>2. rsrc # 0 => b \notin Visited(freed, rsrc)
    BY <1>3, <2>1 DEF Forks
  <2> HIDE DEF rsrc, freed
  <2> QED BY <1>1, <1>2, <1>4, <1>6, <2>2 DEF Released, FreeChain
<1> HIDE DEF freed, rsrc
<1>7. map' = freed \/ (~Breaks(freed, rsrc) /\ map' = Released(freed, rsrc))
  BY DeleteDone DEF freed, rsrc
<1> QED BY <1>5, <1>6, <1>7

\* delete_file disturbs the file it deletes, which is not locked, and no other:
\* when it stops between the two forks too.
LEMMA DeleteStaysPut ==
  ASSUME TypeOK, NEW n \in FileNames, NEW now \in Times,
         DeleteFile(n, now), ~Fails(DeleteVerdict(n)),
         NEW g \in DOMAIN entries, g # IndexOf(n) \/ entries[g].locked
  PROVE  StaysPut(g)
<1> DEFINE i == IndexOf(n)
           j == IF g < i THEN g ELSE g - 1
<1>1. /\ i \in DOMAIN entries /\ g # i
      /\ entries' = entries \/ entries' = RemoveAt(entries, i)
  BY DeleteDone
<1>2. ASSUME NEW h \in Forks, <<g, h>> \in HasBlocks, Private(<<g, h>>), NEW b \in Owned(<<g, h>>)
      PROVE  map'[b] = map[b] /\ blocks'[b] = blocks[b]
  BY <1>1, <1>2, DeleteKeepsBlocks
<1> HIDE DEF i
<1>3. CASE entries' = entries
  <2>1. At(g, g)
    BY <1>2, <1>3 DEF At
  <2> QED BY <1>3, <2>1 DEF StaysPut
<1>4. CASE entries' = RemoveAt(entries, i)
  <2>1. /\ entries' \in Seq(EntryType) /\ Len(entries') = Len(entries) - 1
        /\ \A x \in 1 .. Len(entries) - 1 :
             entries'[x] = IF x < i THEN entries[x] ELSE entries[x + 1]
    BY <1>1, <1>4, RemovedEntry DEF TypeOK
  <2>2. i \in 1 .. Len(entries) /\ g \in 1 .. Len(entries) /\ Len(entries) \in Nat
    BY <1>1 DEF TypeOK
  <2>3. j \in 1 .. Len(entries) - 1 /\ (j < i => j = g) /\ (~(j < i) => j + 1 = g)
    BY <1>1, <2>2
  <2> HIDE DEF j
  <2>4. j \in DOMAIN entries' /\ entries'[j] = entries[g]
    BY <2>1, <2>3
  <2>5. At(g, j)
    BY <1>2, <2>4 DEF At
  <2> QED BY <2>4, <2>5 DEF StaysPut
<1> QED BY <1>1, <1>3, <1>4

\* Every call is about one file at most; the others stay put, and so does every
\* file that is locked.
LEMMA OthersStayPut ==
  ASSUME TypeOK, Next
  PROVE  \E t : \A g \in DOMAIN entries : g # t \/ entries[g].locked => StaysPut(g)
<1> DEFINE Goal == \E t : \A g \in DOMAIN entries : g # t \/ entries[g].locked => StaysPut(g)
<1>0. /\ DOMAIN entries = 1 .. Len(entries) /\ Len(entries) \in Nat
      /\ \A j \in DOMAIN entries : entries[j] \in EntryType
  BY DEF TypeOK
<1>1. ASSUME UNCHANGED <<map, entries, blocks>> PROVE Goal
  BY <1>1, ForksStayPut
<1>2. ASSUME map' = map, blocks' = blocks,
             \A g \in DOMAIN entries : /\ g \in DOMAIN entries'
                                       /\ entries'[g].fnum = entries[g].fnum
                                       /\ entries'[g].fork = entries[g].fork
      PROVE  Goal
  BY <1>2, ForksStayPut
<1> HIDE DEF Goal
<1>3. ASSUME NEW now \in Times, NEW n \in FileNames, NEW c \in Codes, CreateFile(n, c, now)
      PROVE  Goal
  <2> DEFINE new == NewEntry(n, c, now)
  <2>1. CASE Fails(CreateVerdict(n, Append(entries, new)))
    BY <2>1, <1>1 DEF Fails, volume
  <2>2. CASE ~Fails(CreateVerdict(n, Append(entries, new)))
    <3>1. map' = map /\ blocks' = blocks /\ entries' = Append(entries, new)
      BY <1>3, <2>2 DEF CreateFile
    <3> HIDE DEF new
    <3>2. \A g \in DOMAIN entries : g \in DOMAIN entries' /\ entries'[g] = entries[g]
      BY <1>0, <3>1
    <3> QED BY <1>2, <3>1, <3>2
  <2> QED BY <2>1, <2>2
<1>4. ASSUME NEW now \in Times, NEW n \in FileNames,
             \/ \E c \in Codes : SetTypeCreator(n, c, now)
             \/ \E l \in BOOLEAN : SetLocked(n, l, now)
             \/ SetTimes(n, now)
      PROVE  Goal
  <2>1. CASE Fails(SetVerdict(n))
    BY <2>1, <1>1 DEF Fails, volume
  <2>2. CASE ~Fails(SetVerdict(n))
    <3>1. PICK e \in EntryType : /\ SetEntry(n, e, now)
                                 /\ e.fnum = entries[IndexOf(n)].fnum
                                 /\ e.fork = entries[IndexOf(n)].fork
      BY <1>4, <2>2, SettersReplace
    <3>2. map' = map /\ blocks' = blocks /\ entries' = [entries EXCEPT ![IndexOf(n)] = e]
      BY <3>1 DEF SetEntry
    <3>3. \A g \in DOMAIN entries : /\ g \in DOMAIN entries'
                                    /\ entries'[g].fnum = entries[g].fnum
                                    /\ entries'[g].fork = entries[g].fork
      BY <3>1, <3>2
    <3> QED BY <1>2, <3>2, <3>3
  <2> QED BY <2>1, <2>2
<1>5. ASSUME NEW now \in Times, NEW n \in FileNames, NEW k \in Forks, NEW d \in Contents,
             WriteFork(n, k, d, now)
      PROVE  Goal
  <2>1. CASE Fails(WriteVerdict(n, k, d))
    BY <2>1, <1>1 DEF Fails, volume
  <2>2. CASE ~Fails(WriteVerdict(n, k, d))
    BY <1>5, <2>2, WriteStaysPut DEF Goal
  <2> QED BY <2>1, <2>2
<1>6. ASSUME NEW now \in Times, NEW n \in FileNames, DeleteFile(n, now)
      PROVE  Goal
  <2>1. CASE Fails(DeleteVerdict(n))
    BY <2>1, <1>1 DEF Fails, volume
  <2>2. CASE ~Fails(DeleteVerdict(n))
    BY <1>6, <2>2, DeleteStaysPut DEF Goal
  <2> QED BY <2>1, <2>2
<1>7. ASSUME NEW now \in Times, NEW old \in FileNames, NEW new \in FileNames,
             RenameFile(old, new, now)
      PROVE  Goal
  <2>1. CASE Fails(RenameVerdict(old, new))
    BY <2>1, <1>1 DEF Fails, volume
  <2>2. CASE ~Fails(RenameVerdict(old, new))
    <3>1. /\ map' = map /\ blocks' = blocks
          /\ entries' = [entries EXCEPT ![IndexOf(old)].name = new]
      BY <1>7, <2>2 DEF RenameFile
    <3>2. \A g \in DOMAIN entries : /\ g \in DOMAIN entries'
                                    /\ entries'[g].fnum = entries[g].fnum
                                    /\ entries'[g].fork = entries[g].fork
      BY <1>0, <3>1 DEF EntryType
    <3> QED BY <1>2, <3>1, <3>2
  <2> QED BY <2>1, <2>2
<1>8. ASSUME NEW now \in Times,
             \/ \E n \in VolumeNames : RenameVolume(n, now)
             \/ \E bb \in BootBlocks : SetBootBlocks(bb)
      PROVE  Goal
  BY <1>8, <1>1 DEF RenameVolume, SetBootBlocks, Fails, volume
<1>9. PICK now \in Times :
        \/ \E n \in FileNames, c \in Codes : mdb.nxt_fnum < FnumBound /\ CreateFile(n, c, now)
        \/ \E n \in FileNames :
             \/ \E c \in Codes : SetTypeCreator(n, c, now)
             \/ \E l \in BOOLEAN : SetLocked(n, l, now)
             \/ SetTimes(n, now)
        \/ \E n \in FileNames, k \in Forks, d \in Contents : WriteFork(n, k, d, now)
        \/ \E n \in FileNames : DeleteFile(n, now)
        \/ \E old, new \in FileNames : RenameFile(old, new, now)
        \/ \E n \in VolumeNames : RenameVolume(n, now)
        \/ \E bb \in BootBlocks : SetBootBlocks(bb)
  BY NextCases, Zenon
<1>10. Goal
  BY <1>9, <1>3, <1>4, <1>5, <1>6, <1>7, <1>8
<1> QED BY <1>10 DEF Goal

\* A call disturbs the forks of one file at most, among those whose chains walk to
\* their end and meet no other such chain: on every image the crate opens, however
\* its other chains are broken or cross-linked, and when the call fails half way.
THEOREM OneFileAtMostDisturbed == TypeOK /\ [][Next]_vars => OneFileDisturbed
<1>1. TypeOK /\ [Next]_vars => TypeOK'
  BY TypeStep
<1>2. TypeOK /\ [Next]_vars =>
        [stored' # stored =>
           \A h, i \in DOMAIN entries : h < i => Undisturbed(h) \/ Undisturbed(i)]_vars
  <2> SUFFICES ASSUME TypeOK, Next, NEW h \in DOMAIN entries, NEW i \in DOMAIN entries, h < i
               PROVE  Undisturbed(h) \/ Undisturbed(i)
    OBVIOUS
  <2>1. PICK t : \A g \in DOMAIN entries : g # t \/ entries[g].locked => StaysPut(g)
    BY OthersStayPut
  <2>2. ASSUME NEW g \in DOMAIN entries, StaysPut(g) PROVE Undisturbed(g)
    <3>1. PICK j \in DOMAIN entries' : At(g, j)
      BY <2>2 DEF StaysPut
    <3>2. ASSUME NEW k \in Forks, <<g, k>> \in HasBlocks, Private(<<g, k>>)
          PROVE  ReadFork(j, k)' = ReadFork(g, k)
      BY <3>1, <3>2, StaysPutReads
    <3>3. entries'[j].fnum = entries[g].fnum
      BY <3>1 DEF At
    <3> QED BY <3>2, <3>3 DEF Undisturbed
  <2>3. h # i
    <3>1. DOMAIN entries = 1 .. Len(entries) /\ Len(entries) \in Nat
      BY DEF TypeOK
    <3> QED BY <3>1
  <2> QED BY <2>1, <2>2, <2>3
<1> QED BY <1>1, <1>2, PTL DEF OneFileDisturbed

\* On a sound volume every chain is private.
LEMMA CleanChainsPrivate ==
  ASSUME ForksDisjointAndSound, NEW r \in HasBlocks
  PROVE  Private(r)
<1>1. Walks(r)
  BY DEF ForksDisjointAndSound, ForksSound, ForkSound, HasBlocks
<1>2. ASSUME NEW s \in HasBlocks \ {r} PROVE Owned(r) \cap Owned(s) = {}
  BY <1>2 DEF ForksDisjointAndSound, NoSharing
<1> QED BY <1>1, <1>2 DEF Private

\* A step from a sound volume keeps the contents of every locked file.
LEMMA LockedStep ==
  ASSUME TypeOK, ForksDisjointAndSound, Next, NEW i \in DOMAIN entries, entries[i].locked
  PROVE  \E j \in DOMAIN entries' :
           /\ entries'[j].fnum = entries[i].fnum
           /\ \A k \in Forks : ReadFork(j, k)' = ReadFork(i, k)
<1>1. StaysPut(i)
  BY OthersStayPut
<1>2. PICK j \in DOMAIN entries' : At(i, j)
  BY <1>1 DEF StaysPut
<1>3. ASSUME NEW k \in Forks PROVE ReadFork(j, k)' = ReadFork(i, k)
  BY <1>2, StaysPutReads, CleanChainsPrivate
<1>4. entries'[j].fnum = entries[i].fnum
  BY <1>2 DEF At
<1> QED BY <1>3, <1>4

\* While a file is locked no call changes or removes either of its forks, whatever
\* is done to other files: on every image check() finds nothing wrong with.
THEOREM OpenedLockedFilesKept ==
  TypeOK /\ Clean /\ [][Next]_vars => LockedFileKept
<1>1. TypeOK /\ [Next]_vars => TypeOK'
  BY TypeStep
<1>2. TypeOK /\ TypeOK' /\ Clean /\ [Next]_vars => Clean'
  BY CleanStep
<1>3. TypeOK /\ Clean /\ [Next]_vars =>
        [stored' # stored =>
           \A i \in DOMAIN entries : entries[i].locked =>
             \E j \in DOMAIN entries' :
               /\ entries'[j].fnum = entries[i].fnum
               /\ \A k \in Forks : ReadFork(j, k)' = ReadFork(i, k)]_vars
  BY LockedStep DEF Clean
<1> QED BY <1>1, <1>2, <1>3, PTL DEF LockedFileKept

\* The same of the volumes mkfs formats.
THEOREM FormattedLockedFilesKept ==
  ASSUME NBlocks < CountMod
  PROVE  Spec => LockedFileKept
<1>1. FreshInit => TypeOK /\ Clean
  BY FreshType, FreshClean
<1> QED BY <1>1, OpenedLockedFilesKept, PTL DEF Spec

-----------------------------------------------------------------------------
(***************************************************************************)
(* Behind the end of a fork.                                               *)
(***************************************************************************)
\* The blocks of a fork f hold zeros behind the end of the fork.
ZeroTail(m, bl, f) ==
  f.st # 0 => \A j \in (f.len + 1) .. f.alloc : ByteOf(m, bl, f.st, j) = Zero

\* That the tails are zero, fork by fork, before a step and after it.
LEMMA TailsAre ==
  /\ TailsAreZero <=> \A i \in DOMAIN entries, k \in Forks :
                        ZeroTail(map, blocks, entries[i].fork[k])
  /\ TailsAreZero' <=> \A i \in DOMAIN entries', k \in Forks :
                         ZeroTail(map', blocks', entries'[i].fork[k])
<1>1. TailsAreZero <=> \A i \in DOMAIN entries, k \in Forks :
                         ZeroTail(map, blocks, entries[i].fork[k])
  <2>1. TailsAreZero <=> \A r \in HasBlocks : ZeroTail(map, blocks, ForkOf(r[1], r[2]))
    <3>1. ASSUME NEW r \in HasBlocks
          PROVE  ZeroTail(map, blocks, ForkOf(r[1], r[2])) <=>
                   LET f == ForkOf(r[1], r[2])
                       s == ChainSeq(map, f.st)
                   IN  \A j \in (f.len + 1) .. f.alloc :
                         blocks[s[((j - 1) \div BlkSiz) + 1]][((j - 1) % BlkSiz) + 1] = Zero
      BY DEF ZeroTail, ByteOf, HasBlocks
    <3> QED BY <3>1, Zenon DEF TailsAreZero
  <2>2. \A i \in DOMAIN entries, k \in Forks : ForkOf(i, k).st # 0 <=> <<i, k>> \in HasBlocks
    BY DEF HasBlocks, ForkRefs
  <2>3. \A r \in HasBlocks : \E i \in DOMAIN entries, k \in Forks : r = <<i, k>>
    BY DEF HasBlocks, ForkRefs
  <2>4. \A i \in DOMAIN entries, k \in Forks :
          ForkOf(i, k).st = 0 => ZeroTail(map, blocks, ForkOf(i, k))
    BY DEF ZeroTail
  <2> HIDE DEF HasBlocks, ZeroTail
  <2>5. ASSUME TailsAreZero, NEW i \in DOMAIN entries, NEW k \in Forks
        PROVE  ZeroTail(map, blocks, ForkOf(i, k))
    <3>1. CASE ForkOf(i, k).st = 0
      BY <2>4, <3>1
    <3>2. CASE ForkOf(i, k).st # 0
      <4>1. <<i, k>> \in HasBlocks
        BY <2>2, <3>2
      <4>2. ZeroTail(map, blocks, ForkOf(<<i, k>>[1], <<i, k>>[2]))
        BY <2>1, <2>5, <4>1
      <4> QED BY <4>2
    <3> QED BY <3>1, <3>2
  <2>6. ASSUME \A i \in DOMAIN entries, k \in Forks : ZeroTail(map, blocks, ForkOf(i, k)),
               NEW r \in HasBlocks
        PROVE  ZeroTail(map, blocks, ForkOf(r[1], r[2]))
    <3>1. PICK i \in DOMAIN entries, k \in Forks : r = <<i, k>>
      BY <2>3
    <3>2. ZeroTail(map, blocks, ForkOf(i, k))
      BY <2>6
    <3> QED BY <3>1, <3>2
  <2> QED BY <2>1, <2>5, <2>6 DEF ForkOf
<1>2. (TailsAreZero <=> \A i \in DOMAIN entries, k \in Forks :
                          ZeroTail(map, blocks, entries[i].fork[k]))'
  BY <1>1, PTL
<1>3. ZeroTail(map, blocks, 0)' = ZeroTail(map', blocks', 0)
  BY DEF ZeroTail, ByteOf
<1> QED BY <1>1, <1>2 DEF ZeroTail, ByteOf

\* A sound fork keeps its zeros when neither its chain nor its blocks change.
LEMMA ZeroTailFrame ==
  ASSUME NEW m, NEW o, NEW bl, NEW bk, NEW f \in ForkType, SoundFork(m, f),
         f.st # 0 => \A b \in Visited(m, f.st) : o[b] = m[b] /\ bk[b] = bl[b],
         ZeroTail(m, bl, f)
  PROVE  ZeroTail(o, bk, f)
<1> SUFFICES ASSUME f.st # 0, NEW j \in (f.len + 1) .. f.alloc
             PROVE  ByteOf(o, bk, f.st, j) = Zero
  BY DEF ZeroTail
<1>1. ChainOk(m, f.st) /\ f.alloc = ChainLen(m, f.st) * BlkSiz /\ f.st \in Blocks
  BY DEF SoundFork, ChainOk, InRange
<1>2. ChainLen(m, f.st) \in Nat /\ f.len \in Nat /\ f.alloc \in Nat
  BY <1>1, ChainLenType DEF ForkType
<1>3. j \in Nat \ {0} /\ j <= ChainLen(m, f.st) * BlkSiz
  BY <1>1, <1>2
<1>4. ((j - 1) \div BlkSiz) + 1 \in 1 .. ChainLen(m, f.st)
  BY <1>2, <1>3, ByteWithin
<1>5. ChainSeq(m, f.st)[((j - 1) \div BlkSiz) + 1] \in Visited(m, f.st)
  BY <1>1, <1>4, ChainSeqBlock
<1>6. ChainSeq(o, f.st) = ChainSeq(m, f.st)
  BY <1>1, ChainSeqFrame
<1>7. ByteOf(m, bl, f.st, j) = Zero
  BY DEF ZeroTail
<1> QED BY <1>5, <1>6, <1>7 DEF ByteOf

\* The same of a fork of this state, whatever its place in the next.
LEMMA KeptTail ==
  ASSUME TypeOK, ForksDisjointAndSound, TailsAreZero,
         NEW g \in DOMAIN entries, NEW k \in Forks,
         <<g, k>> \in HasBlocks =>
           \A b \in Owned(<<g, k>>) : map'[b] = map[b] /\ blocks'[b] = blocks[b]
  PROVE  ZeroTail(map', blocks', entries[g].fork[k])
<1> DEFINE f == entries[g].fork[k]
<1>1. entries[g] \in EntryType
  BY DEF TypeOK
<1>2. f \in ForkType
  BY <1>1 DEF EntryType
<1>3. SoundFork(map, f)
  BY DEF ForksDisjointAndSound, ForksSound, ForkSound, SoundFork, ForkRefs, ForkOf, Walks
<1>4. ZeroTail(map, blocks, f)
  BY TailsAre
<1>5. f.st # 0 => \A b \in Visited(map, f.st) : map'[b] = map[b] /\ blocks'[b] = blocks[b]
  BY DEF HasBlocks, ForkRefs, ForkOf, Owned
<1> HIDE DEF f
<1>6. ZeroTail(map', blocks', f)
  BY <1>2, <1>3, <1>4, <1>5, ZeroTailFrame
<1> QED BY <1>6 DEF f

\* A step that keeps the map and the blocks keeps the tails of the forks it keeps.
LEMMA SameForksTails ==
  ASSUME TypeOK, ForksDisjointAndSound, TailsAreZero, map' = map, blocks' = blocks,
         \A j \in DOMAIN entries' :
           \/ \E g \in DOMAIN entries : entries'[j].fork = entries[g].fork
           \/ \A k \in Forks : entries'[j].fork[k] = NoFork
  PROVE  TailsAreZero'
<1> SUFFICES ASSUME NEW j \in DOMAIN entries', NEW k \in Forks
             PROVE  ZeroTail(map', blocks', entries'[j].fork[k])
  BY TailsAre
<1>1. CASE \E g \in DOMAIN entries : entries'[j].fork = entries[g].fork
  BY <1>1, KeptTail
<1>2. CASE entries'[j].fork[k] = NoFork
  BY <1>2 DEF ZeroTail, NoFork
<1> QED BY <1>1, <1>2

\* write_fork fills up the last block it writes, and leaves the other forks alone.
LEMMA WriteForkTails ==
  ASSUME Addressable, TypeOK, ForksDisjointAndSound, TailsAreZero,
         NEW n \in FileNames, NEW k \in Forks, NEW d \in Contents, NEW now \in Times,
         WriteFork(n, k, d, now), ~Fails(WriteVerdict(n, k, d))
  PROVE  TailsAreZero'
<1> DEFINE i     == IndexOf(n)
           freed == Released(map, OldStart(n, k))
           got   == Allotted(freed, Needed(d))
           new   == [st |-> FirstOf(got), len |-> Len(d), alloc |-> Needed(d) * BlkSiz]
<1>1. /\ i \in DOMAIN entries
      /\ got \in SUBSET Blocks /\ Cardinality(got) = Needed(d)
      /\ map' = Linked(freed, got)
      /\ \A b \in Blocks : blocks'[b] = IF b \in got THEN Chunk(d, PlaceOf(got, b))
                                        ELSE blocks[b]
      /\ DOMAIN entries' = DOMAIN entries
      /\ \A j \in DOMAIN entries : \A h \in Forks :
           entries'[j].fork[h] = IF j = i /\ h = k THEN new ELSE entries[j].fork[h]
  BY WriteDone
<1> SUFFICES ASSUME NEW j \in DOMAIN entries', NEW h \in Forks
             PROVE  ZeroTail(map', blocks', entries'[j].fork[h])
  BY TailsAre
<1>2. CASE j = i /\ h = k
  <2>1. d \in Seq(Byte)
    BY VolumeAssumption
  <2>2. Len(d) \in Nat /\ Needed(d) \in Nat
    BY <2>1, NeededBlocks
  <2> HIDE DEF got, freed, i
  <2>3. entries'[j].fork[h] = new
    BY <1>1, <1>2
  <2>4. \A b \in got : blocks'[b] = Chunk(d, PlaceOf(got, b))
    BY <1>1
  <2>5. ASSUME new.st # 0, NEW x \in (Len(d) + 1) .. Needed(d) * BlkSiz
        PROVE  ByteOf(map', blocks', new.st, x) = Zero
    <3>1. new.st = Least(got)
      BY <2>5 DEF FirstOf
    <3>2. x \in 1 .. Needed(d) * BlkSiz /\ ~(x <= Len(d))
      <4>1. Needed(d) * BlkSiz \in Nat
        BY <2>2, VolumeAssumption
      <4> QED BY <2>2, <4>1
    <3> QED BY <1>1, <2>1, <2>4, <3>1, <3>2, NewForkBytes
  <2> QED BY <2>3, <2>5 DEF ZeroTail
<1>3. CASE ~(j = i /\ h = k)
  <2>1. entries'[j].fork[h] = entries[j].fork[h] /\ j \in DOMAIN entries
    BY <1>1, <1>3
  <2>2. <<j, h>> \in HasBlocks =>
          \A b \in Owned(<<j, h>>) : map'[b] = map[b] /\ blocks'[b] = blocks[b]
    BY <1>3, CleanChainsPrivate, WriteKeepsBlocks
  <2> QED BY <2>1, <2>2, KeptTail
<1> QED BY <1>2, <1>3

\* delete_file leaves the forks of the other files alone.
LEMMA DeleteFileTails ==
  ASSUME TypeOK, TypeOK', Clean, TailsAreZero, NEW n \in FileNames, NEW now \in Times,
         DeleteFile(n, now), ~Fails(DeleteVerdict(n))
  PROVE  TailsAreZero'
<1> DEFINE i == IndexOf(n)
<1>1. i \in DOMAIN entries /\ (entries' = entries \/ entries' = RemoveAt(entries, i))
  BY DeleteDone
<1>2. ASSUME NEW g \in DOMAIN entries, g # i, NEW h \in Forks
      PROVE  ZeroTail(map', blocks', entries[g].fork[h])
  <2>1. <<g, h>> \in HasBlocks =>
          \A b \in Owned(<<g, h>>) : map'[b] = map[b] /\ blocks'[b] = blocks[b]
    BY <1>2, CleanChainsPrivate, DeleteKeepsBlocks DEF Clean
  <2> QED BY <2>1, KeptTail DEF Clean
<1>3. CASE entries' = RemoveAt(entries, i)
  <2> HIDE DEF i
  <2>1. /\ entries' \in Seq(EntryType) /\ Len(entries') = Len(entries) - 1
        /\ \A x \in 1 .. Len(entries) - 1 :
             entries'[x] = IF x < i THEN entries[x] ELSE entries[x + 1]
    BY <1>1, <1>3, RemovedEntry DEF TypeOK
  <2>2. i \in 1 .. Len(entries) /\ Len(entries) \in Nat
    BY <1>1 DEF TypeOK
  <2>3. ASSUME NEW j \in DOMAIN entries'
        PROVE  \E g \in DOMAIN entries : g # i /\ entries'[j] = entries[g]
    <3>1. j \in 1 .. Len(entries) - 1 /\ j \in DOMAIN entries /\ j + 1 \in DOMAIN entries
      BY <2>1, <2>2 DEF TypeOK
    <3> QED BY <2>1, <2>2, <3>1
  <2> QED BY <1>2, <2>3, TailsAre
<1>4. CASE result' # "Ok"
  <2>1. UNCHANGED volume
    BY <1>4, DeleteFileClean
  <2> QED BY <2>1, SameForksTails DEF volume, Clean
<1>5. CASE result' = "Ok"
  <2>1. entries' = RemoveAt(entries, i)
    BY <1>5 DEF DeleteFile, Fails
  <2> QED BY <1>3, <2>1
<1> QED BY <1>4, <1>5

\* One call after another leaves zeros behind the end of every fork.
LEMMA TailsStep ==
  ASSUME TypeOK, TypeOK', Clean, TailsAreZero, [Next]_vars
  PROVE  TailsAreZero'
<1>0. /\ DOMAIN entries = 1 .. Len(entries) /\ Len(entries) \in Nat
      /\ \A j \in DOMAIN entries : entries[j] \in EntryType
      /\ ForksDisjointAndSound
  BY DEF TypeOK, Clean
<1>1. ASSUME UNCHANGED <<map, entries, blocks>> PROVE TailsAreZero'
  BY <1>0, <1>1, SameForksTails
<1>2. ASSUME NEW now \in Times, NEW n \in FileNames, NEW c \in Codes, CreateFile(n, c, now)
      PROVE  TailsAreZero'
  <2> DEFINE new == NewEntry(n, c, now)
  <2>1. CASE Fails(CreateVerdict(n, Append(entries, new)))
    BY <2>1, <1>1 DEF Fails, volume
  <2>2. CASE ~Fails(CreateVerdict(n, Append(entries, new)))
    <3>1. map' = map /\ blocks' = blocks /\ entries' = Append(entries, new)
      BY <1>2, <2>2 DEF CreateFile
    <3>2. \A k \in Forks : new.fork[k] = NoFork
      BY DEF NewEntry
    <3> HIDE DEF new
    <3>3. ASSUME NEW j \in DOMAIN entries'
          PROVE  (j \in DOMAIN entries /\ entries'[j] = entries[j]) \/ entries'[j] = new
      BY <1>0, <3>1
    <3> QED BY <1>0, <3>1, <3>2, <3>3, SameForksTails
  <2> QED BY <2>1, <2>2
<1>3. ASSUME NEW now \in Times, NEW n \in FileNames,
             \/ \E c \in Codes : SetTypeCreator(n, c, now)
             \/ \E l \in BOOLEAN : SetLocked(n, l, now)
             \/ SetTimes(n, now)
      PROVE  TailsAreZero'
  <2>1. CASE Fails(SetVerdict(n))
    BY <2>1, <1>1 DEF Fails, volume
  <2>2. CASE ~Fails(SetVerdict(n))
    <3>1. PICK e \in EntryType :
             SetEntry(n, e, now) /\ e.fork = entries[IndexOf(n)].fork
      BY <1>3, <2>2, SettersReplace
    <3>2. map' = map /\ blocks' = blocks /\ entries' = [entries EXCEPT ![IndexOf(n)] = e]
      BY <3>1 DEF SetEntry
    <3>3. \A j \in DOMAIN entries' : j \in DOMAIN entries /\ entries'[j].fork = entries[j].fork
      BY <3>1, <3>2
    <3> QED BY <1>0, <3>2, <3>3, SameForksTails
  <2> QED BY <2>1, <2>2
<1>4. ASSUME NEW now \in Times, NEW n \in FileNames, NEW k \in Forks, NEW d \in Contents,
             WriteFork(n, k, d, now)
      PROVE  TailsAreZero'
  <2>1. CASE Fails(WriteVerdict(n, k, d))
    BY <2>1, <1>1 DEF Fails, volume
  <2>2. CASE ~Fails(WriteVerdict(n, k, d))
    BY <1>0, <1>4, <2>2, WriteForkTails DEF Clean
  <2> QED BY <2>1, <2>2
<1>5. ASSUME NEW now \in Times, NEW n \in FileNames, DeleteFile(n, now)
      PROVE  TailsAreZero'
  <2>1. CASE Fails(DeleteVerdict(n))
    BY <2>1, <1>1 DEF Fails, volume
  <2>2. CASE ~Fails(DeleteVerdict(n))
    BY <1>5, <2>2, DeleteFileTails
  <2> QED BY <2>1, <2>2
<1>6. ASSUME NEW now \in Times, NEW old \in FileNames, NEW new \in FileNames,
             RenameFile(old, new, now)
      PROVE  TailsAreZero'
  <2>1. CASE Fails(RenameVerdict(old, new))
    BY <2>1, <1>1 DEF Fails, volume
  <2>2. CASE ~Fails(RenameVerdict(old, new))
    <3>1. /\ map' = map /\ blocks' = blocks
          /\ entries' = [entries EXCEPT ![IndexOf(old)].name = new]
      BY <1>6, <2>2 DEF RenameFile
    <3>2. \A j \in DOMAIN entries' : j \in DOMAIN entries /\ entries'[j].fork = entries[j].fork
      BY <1>0, <3>1 DEF EntryType
    <3> QED BY <1>0, <3>1, <3>2, SameForksTails
  <2> QED BY <2>1, <2>2
<1>7. ASSUME NEW now \in Times,
             \/ \E n \in VolumeNames : RenameVolume(n, now)
             \/ \E bb \in BootBlocks : SetBootBlocks(bb)
      PROVE  TailsAreZero'
  BY <1>7, <1>1 DEF RenameVolume, SetBootBlocks, Fails, volume
<1>8. CASE UNCHANGED vars
  BY <1>1, <1>8 DEF vars
<1>9. CASE Next
  <2>1. PICK now \in Times :
           \/ \E n \in FileNames, c \in Codes : mdb.nxt_fnum < FnumBound /\ CreateFile(n, c, now)
           \/ \E n \in FileNames :
                \/ \E c \in Codes : SetTypeCreator(n, c, now)
                \/ \E l \in BOOLEAN : SetLocked(n, l, now)
                \/ SetTimes(n, now)
           \/ \E n \in FileNames, k \in Forks, d \in Contents : WriteFork(n, k, d, now)
           \/ \E n \in FileNames : DeleteFile(n, now)
           \/ \E old, new \in FileNames : RenameFile(old, new, now)
           \/ \E n \in VolumeNames : RenameVolume(n, now)
           \/ \E bb \in BootBlocks : SetBootBlocks(bb)
    BY <1>9, NextCases, Zenon
  <2> QED BY <2>1, <1>2, <1>3, <1>4, <1>5, <1>6, <1>7
<1> QED BY <1>8, <1>9

\* What a file held before, or a deleted file left in its blocks, never stays
\* behind the end of a fork: on an image that check() finds nothing wrong with and
\* whose forks have zeros there when it is opened.
THEOREM OpenedTailsStayZero ==
  TypeOK /\ Clean /\ TailsAreZero /\ [][Next]_vars => []TailsAreZero
<1>1. TypeOK /\ [Next]_vars => TypeOK'
  BY TypeStep
<1>2. TypeOK /\ TypeOK' /\ Clean /\ [Next]_vars => Clean'
  BY CleanStep
<1>3. TypeOK /\ TypeOK' /\ Clean /\ TailsAreZero /\ [Next]_vars => TailsAreZero'
  BY TailsStep
<1> QED BY <1>1, <1>2, <1>3, PTL

\* The same of the volumes mkfs formats.
THEOREM FormattedTailsStayZero ==
  ASSUME NBlocks < CountMod
  PROVE  Spec => []TailsAreZero
<1>1. FreshInit => TypeOK /\ Clean
  BY FreshType, FreshClean
<1>2. FreshInit => TailsAreZero
  BY DEF FreshInit, TailsAreZero, HasBlocks, ForkRefs
<1> QED BY <1>1, <1>2, OpenedTailsStayZero, PTL DEF Spec
=============================================================================
