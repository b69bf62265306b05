------------------------------- MODULE Volume -------------------------------
(***************************************************************************)
(* MfsVolume, an MFS volume held in memory (src/volume.rs): the block map, *)
(* the directory entries, the master directory block and the bytes of the  *)
(* allocation area, and every public call that changes them.  A call       *)
(* returns "Ok" or the error it stops with; the X-Verdict operators are    *)
(* the early returns of the calls, in the order the code tests them.       *)
(***************************************************************************)
EXTENDS BlockMap, Directory

CONSTANTS
  FileNames,     \* names callers may pass, valid or not
  FoldOf,        \* a name's form under macroman::eq_ignore_case
  Forbidden,     \* names with a ':', a NUL or a character MacRoman lacks
  MaxFileName,   \* MAX_FILE_NAME, 63 in the source
  VolumeNames, MaxVolumeName,
  Byte, Zero,    \* the values of a byte, and the byte 0
  Contents,      \* fork contents callers write: sequences of bytes
  BlkSiz,        \* drAlBlkSiz
  DirLen,        \* drDirLen
  FnumMod,       \* 2^32 in the source: the width of drNxtFNum
  CountMod,      \* 2^16 in the source: the width of drNmFls and drFreeBks
  FnumBound,     \* bound: no file is created once drNxtFNum has reached it
  Times,         \* what the clock may show, and dates callers may set
  Codes,         \* type and creator codes
  BootBlocks, ZeroBoot   \* contents of the boot blocks, and zeroed ones

ASSUME VolumeAssumption ==
  /\ BlkSiz \in Nat \ {0} /\ DirLen \in Nat \ {0}
  /\ MaxFileName \in Nat /\ EntryLenFor(MaxFileName) <= SectorLen
  /\ FnumMod \in Nat \ {0} /\ CountMod \in Nat \ {0}
  /\ \A n \in FileNames \cup VolumeNames : NameLen[n] \in Nat
  /\ Zero \in Byte /\ Contents \subseteq Seq(Byte) /\ ZeroBoot \in BootBlocks

VARIABLES
  map,           \* MfsVolume.map
  entries,       \* MfsVolume.entries
  mdb,           \* the fields of MfsVolume.mdb that calls read or write
  dirDirty,      \* MfsVolume.dir_dirty
  blocks,        \* the allocation area of MfsVolume.data
  boot,          \* sectors 0 and 1 of MfsVolume.data
  call,          \* the last call made, with its arguments
  result         \* what it returned

volume == <<map, entries, mdb, dirDirty, blocks, boot>>
stored == <<map, entries, blocks>>
vars   == <<map, entries, mdb, dirDirty, blocks, boot, call, result>>

Forks == {"data", "rsrc"}

NoFork == [st |-> 0, len |-> 0, alloc |-> 0]

ReadOnly == mdb.locked

NameOk(n, max) == NameLen[n] \in 1 .. max /\ n \notin Forbidden

\* Mutant: the comparison does not fold case.
CaseMatches(n) == {i \in DOMAIN entries : entries[i].name = n}

\* lookup(n): the entries whose name matches; the first of them is the file.
Matches(n) == {i \in DOMAIN entries : FoldOf[entries[i].name] = FoldOf[n]}
Found(n)   == Matches(n) # {}
IndexOf(n) == Least(Matches(n))

\* Mutant: the files are not counted again.
HalfCounted(rec, m, es) == [rec EXCEPT !.free_bks = FreeCount(m) % CountMod]

\* recompute_counters, of an MDB rec, for the map m and the entries es.
Counted(rec, m, es) ==
  [rec EXCEPT !.free_bks = FreeCount(m) % CountMod, !.nm_fls = Len(es) % CountMod]

-----------------------------------------------------------------------------
(***************************************************************************)
(* Reading.                                                                *)
(***************************************************************************)
Failure(e) == [err |-> e, data |-> <<>>]
Bytes(d)   == [err |-> "Ok", data |-> d]

ForkOf(i, k) == entries[i].fork[k]

\* read_fork.  A fork without blocks reads as empty whatever its length says.
ReadFork(i, k) ==
  LET f   == ForkOf(i, k)
      seq == ChainSeq(map, f.st)
  IN  IF f.st = 0 THEN Bytes(<<>>)
      ELSE IF ~ChainOk(map, f.st) THEN Failure("CorruptVolume")
      ELSE IF ChainLen(map, f.st) * BlkSiz < f.len THEN Failure("CorruptVolume")
      ELSE Bytes([j \in 1 .. f.len |->
                    blocks[seq[((j - 1) \div BlkSiz) + 1]][((j - 1) % BlkSiz) + 1]])

(***************************************************************************)
(* check(), an empty report: one conjunct per complaint it can make.       *)
(***************************************************************************)
ForkRefs   == (DOMAIN entries) \X Forks
HasBlocks  == {r \in ForkRefs : ForkOf(r[1], r[2]).st # 0}
Owned(r)   == Visited(map, ForkOf(r[1], r[2]).st)
Walks(r)   == ChainOk(map, ForkOf(r[1], r[2]).st)

CountersFresh ==
  /\ mdb.free_bks = FreeCount(map) % CountMod
  /\ mdb.nm_fls = Len(entries) % CountMod

EmptyForkSound(f) == f.len = 0 /\ f.alloc = 0

ForkSound(r) ==
  LET f == ForkOf(r[1], r[2])
  IN  IF f.st = 0 THEN EmptyForkSound(f)
      ELSE /\ Walks(r)
           /\ f.len <= f.alloc
           /\ f.alloc = ChainLen(map, f.st) * BlkSiz

ForksSound == \A r \in ForkRefs : ForkSound(r)

NoSharing == \A r, s \in HasBlocks : r # s => Owned(r) \cap Owned(s) = {}

NoOrphans ==
  \A b \in Blocks : map[b] \notin {FREE, RESERVED} => \E r \in HasBlocks : b \in Owned(r)

ForksDisjointAndSound == ForksSound /\ NoSharing /\ NoOrphans

CheckIsClean ==
  /\ mdb.nm_fls = Len(entries)
  /\ mdb.free_bks = FreeCount(map)
  /\ ForksDisjointAndSound

-----------------------------------------------------------------------------
(***************************************************************************)
(* Calls that change the volume.                                           *)
(***************************************************************************)
\* Mutant: the directory is marked dirty before the early returns.
DirtyFails(e) ==
  e # "Ok" /\ result' = e /\ dirDirty' = TRUE /\ UNCHANGED <<map, entries, mdb, blocks, boot>>

Fails(e) == e # "Ok" /\ result' = e /\ UNCHANGED volume

Succeeds == result' = "Ok"

\* Mutant: the directory is not marked dirty.
QuietTouched(now) ==
  UNCHANGED dirDirty /\ mdb' = Counted([mdb EXCEPT !.ls_mod = now], map', entries')

\* Every mutator of an entry that succeeds ends this way.
Touched(now) == dirDirty' = TRUE /\ mdb' = Counted([mdb EXCEPT !.ls_mod = now], map', entries')

\* Mutant: files are numbered by their place in the directory.
PlacedEntry(n, c, now) ==
  [name |-> n, fnum |-> Len(entries) + 1, locked |-> FALSE, code |-> c,
   created |-> now, modified |-> now, fork |-> [k \in Forks |-> NoFork]]

NewEntry(n, c, now) ==
  [name |-> n, fnum |-> mdb.nxt_fnum, locked |-> FALSE, code |-> c,
   created |-> now, modified |-> now, fork |-> [k \in Forks |-> NoFork]]

CreateVerdict(n, grown) ==
  IF ReadOnly THEN "VolumeLocked"
  ELSE IF ~NameOk(n, MaxFileName) THEN "InvalidName"
  ELSE IF Found(n) THEN "FileExists"
  ELSE IF ~Fits(grown, DirLen) THEN "DirectoryFull"
  ELSE "Ok"

CreateFile(n, c, now) ==
  LET grown == Append(entries, NewEntry(n, c, now))
      v     == CreateVerdict(n, grown)
  IN  /\ call' = <<"create", n, c>>
      /\ \/ Fails(v)
         \/ /\ v = "Ok" /\ Succeeds
            /\ entries' = grown
            /\ dirDirty' = TRUE
            /\ mdb' = Counted([mdb EXCEPT !.ls_mod = now,
                                          !.nxt_fnum = (@ + 1) % FnumMod], map, grown)
            /\ UNCHANGED <<map, blocks, boot>>

\* Mutant: the chain is dropped and never freed.
LeakyReleased(m, st) == m

\* The map with the chain of a fork released; a fork without blocks has none.
Released(m, st) == IF st = 0 THEN m ELSE FreeChain(m, st)
Breaks(m, st)   == st # 0 /\ ~ChainOk(m, st)

\* Mutant: a partial last block is not counted.
ShortNeeded(d) == Len(d) \div BlkSiz

Needed(d) == (Len(d) + BlkSiz - 1) \div BlkSiz

\* Mutants: the last block is not filled up; or it is filled up with what the
\* buffer held of the block before.
ShortChunk(d, i) ==
  LET left == Len(d) - (i - 1) * BlkSiz
  IN  SubSeq(d, (i - 1) * BlkSiz + 1, (i - 1) * BlkSiz + (IF left < BlkSiz THEN left ELSE BlkSiz))

StaleChunk(d, i) ==
  [j \in 1 .. BlkSiz |->
     IF (i - 1) * BlkSiz + j <= Len(d) THEN d[(i - 1) * BlkSiz + j]
     ELSE IF i > 1 THEN d[(i - 2) * BlkSiz + j] ELSE Zero]

\* The i-th block of contents d, zero filled behind its end.
Chunk(d, i) ==
  [j \in 1 .. BlkSiz |-> IF (i - 1) * BlkSiz + j <= Len(d)
                         THEN d[(i - 1) * BlkSiz + j] ELSE Zero]

OldStart(n, k) == ForkOf(IndexOf(n), k).st
OldLen(n, k)   == IF OldStart(n, k) = 0 THEN 0 ELSE ChainLen(map, OldStart(n, k))

\* Mutant: the lock of the file is not asked for.
LocklessFileVerdict(n) ==
  IF ReadOnly THEN "VolumeLocked"
  ELSE IF ~Found(n) THEN "FileNotFound"
  ELSE "Ok"

FileVerdict(n) ==
  IF ReadOnly THEN "VolumeLocked"
  ELSE IF ~Found(n) THEN "FileNotFound"
  ELSE IF entries[IndexOf(n)].locked THEN "FileLocked"
  ELSE "Ok"

\* Mutant: the blocks the fork already has are not counted as room.
StingyWriteVerdict(n, k, d) ==
  IF FileVerdict(n) # "Ok" THEN FileVerdict(n)
  ELSE IF Breaks(map, OldStart(n, k)) THEN "CorruptVolume"
  ELSE IF FreeCount(map) < Needed(d) THEN "VolumeFull"
  ELSE "Ok"

WriteVerdict(n, k, d) ==
  IF FileVerdict(n) # "Ok" THEN FileVerdict(n)
  ELSE IF Breaks(map, OldStart(n, k)) THEN "CorruptVolume"
  ELSE IF FreeCount(map) + OldLen(n, k) < Needed(d) THEN "VolumeFull"
  ELSE "Ok"

\* The old chain is freed before the new one is allocated.  allocate cannot
\* fail here: what it needs was counted, old blocks included, just before.
WriteFork(n, k, d, now) ==
  LET v     == WriteVerdict(n, k, d)
      i     == IndexOf(n)
      freed == Released(map, OldStart(n, k))
      got   == Allotted(freed, Needed(d))
  IN  /\ call' = <<"write", n, k, d>>
      /\ \/ Fails(v)
         \/ /\ v = "Ok" /\ Succeeds
            /\ map' = Linked(freed, got)
            /\ blocks' = [b \in Blocks |-> IF b \in got THEN Chunk(d, PlaceOf(got, b))
                                                        ELSE blocks[b]]
            /\ entries' = [entries EXCEPT
                             ![i].modified = now,
                             ![i].fork[k] = [st |-> FirstOf(got), len |-> Len(d),
                                             alloc |-> Needed(d) * BlkSiz]]
            /\ UNCHANGED boot
            /\ Touched(now)

DeleteVerdict(n) ==
  IF FileVerdict(n) # "Ok" THEN FileVerdict(n)
  ELSE IF Breaks(map, OldStart(n, "data")) THEN "CorruptVolume"
  ELSE "Ok"

\* The data fork's blocks are freed before the resource fork's chain is walked:
\* when that walk fails the call returns with the data fork already released.
DeleteFile(n, now) ==
  LET v     == DeleteVerdict(n)
      i     == IndexOf(n)
      freed == Released(map, OldStart(n, "data"))
      rsrc  == OldStart(n, "rsrc")
  IN  /\ call' = <<"delete", n>>
      /\ \/ Fails(v)
         \/ /\ v = "Ok" /\ Breaks(freed, rsrc)
            /\ result' = "CorruptVolume"
            /\ map' = freed
            /\ UNCHANGED <<entries, mdb, dirDirty, blocks, boot>>
         \/ /\ v = "Ok" /\ ~Breaks(freed, rsrc) /\ Succeeds
            /\ map' = Released(freed, rsrc)
            /\ entries' = RemoveAt(entries, i)
            /\ UNCHANGED <<blocks, boot>>
            /\ Touched(now)

RenameVerdict(old, new) ==
  IF ReadOnly THEN "VolumeLocked"
  ELSE IF ~NameOk(new, MaxFileName) THEN "InvalidName"
  ELSE IF ~Found(old) THEN "FileNotFound"
  ELSE IF Found(new) /\ IndexOf(new) # IndexOf(old) THEN "FileExists"
  ELSE IF ~Fits([entries EXCEPT ![IndexOf(old)].name = new], DirLen) THEN "DirectoryFull"
  ELSE "Ok"

RenameFile(old, new, now) ==
  LET v == RenameVerdict(old, new)
  IN  /\ call' = <<"rename", old, new>>
      /\ \/ Fails(v)
         \/ /\ v = "Ok" /\ Succeeds
            /\ entries' = [entries EXCEPT ![IndexOf(old)].name = new]
            /\ UNCHANGED <<map, blocks, boot>>
            /\ Touched(now)

\* The directory is untouched: dir_dirty stays as it was.
RenameVolume(n, now) ==
  LET v == IF ReadOnly THEN "VolumeLocked"
           ELSE IF ~NameOk(n, MaxVolumeName) THEN "InvalidName" ELSE "Ok"
  IN  /\ call' = <<"rename volume", n>>
      /\ \/ Fails(v)
         \/ /\ v = "Ok" /\ Succeeds
            /\ mdb' = Counted([mdb EXCEPT !.name = n, !.ls_mod = now], map, entries)
            /\ UNCHANGED <<map, entries, dirDirty, blocks, boot>>

\* Neither drLsMod nor the counters are brought up to date.
SetBootBlocks(bb) ==
  /\ call' = <<"set boot">>
  /\ \/ ReadOnly /\ Fails("VolumeLocked")
     \/ /\ ~ReadOnly /\ Succeeds
        /\ boot' = bb
        /\ UNCHANGED <<map, entries, mdb, dirDirty, blocks>>

\* set_type_creator, set_locked and set_times replace fields of one entry; none
\* of them asks whether the file is locked.
SetVerdict(n) ==
  IF ReadOnly THEN "VolumeLocked" ELSE IF ~Found(n) THEN "FileNotFound" ELSE "Ok"

SetEntry(n, e, now) ==
  /\ SetVerdict(n) = "Ok" /\ Succeeds
  /\ entries' = [entries EXCEPT ![IndexOf(n)] = e]
  /\ UNCHANGED <<map, blocks, boot>>
  /\ Touched(now)

SetTypeCreator(n, c, now) ==
  /\ call' = <<"set code", n, c>>
  /\ \/ Fails(SetVerdict(n))
     \/ Found(n) /\ SetEntry(n, [entries[IndexOf(n)] EXCEPT !.code = c], now)

SetLocked(n, l, now) ==
  /\ call' = <<"set locked", n, l>>
  /\ \/ Fails(SetVerdict(n))
     \/ Found(n) /\ SetEntry(n, [entries[IndexOf(n)] EXCEPT !.locked = l], now)

\* Either date may be left as it is.
SetTimes(n, now) ==
  /\ call' = <<"set times", n>>
  /\ \/ Fails(SetVerdict(n))
     \/ /\ Found(n)
        /\ LET e == entries[IndexOf(n)]
           IN  \E c \in Times \cup {e.created}, m \in Times \cup {e.modified} :
                 SetEntry(n, [e EXCEPT !.created = c, !.modified = m], now)

Next ==
  \E now \in Times :
    \/ \E n \in FileNames, c \in Codes :
         \/ mdb.nxt_fnum < FnumBound /\ CreateFile(n, c, now)
         \/ SetTypeCreator(n, c, now)
    \/ \E n \in FileNames, k \in Forks, d \in Contents : WriteFork(n, k, d, now)
    \/ \E n \in FileNames : DeleteFile(n, now) \/ SetTimes(n, now)
    \/ \E old, new \in FileNames : RenameFile(old, new, now)
    \/ \E n \in FileNames, l \in BOOLEAN : SetLocked(n, l, now)
    \/ \E n \in VolumeNames : RenameVolume(n, now)
    \/ \E bb \in BootBlocks : SetBootBlocks(bb)

-----------------------------------------------------------------------------
(***************************************************************************)
(* A volume mkfs has just formatted.                                       *)
(***************************************************************************)
FreshInit ==
  /\ Addressable
  /\ map = NewEmpty
  /\ entries = <<>>
  /\ \E n \in VolumeNames, now \in Times :
       /\ NameOk(n, MaxVolumeName)
       /\ mdb = [nxt_fnum |-> 1, free_bks |-> NBlocks, nm_fls |-> 0,
                 ls_mod |-> now, name |-> n, locked |-> FALSE]
  /\ dirDirty = FALSE
  /\ blocks = [b \in Blocks |-> [j \in 1 .. BlkSiz |-> Zero]]
  /\ boot = ZeroBoot
  /\ call = <<"format">> /\ result = "Ok"

Spec == FreshInit /\ [][Next]_vars

-----------------------------------------------------------------------------
ForkType == [st : Nat, len : Nat, alloc : Nat]

EntryType ==
  [name : FileNames, fnum : Nat, locked : BOOLEAN, code : Codes,
   created : Times, modified : Times, fork : [Forks -> ForkType]]

MdbType ==
  [nxt_fnum : Nat, free_bks : Nat, nm_fls : Nat, ls_mod : Times,
   name : VolumeNames, locked : BOOLEAN]

TypeOK ==
  /\ map \in MapType
  /\ entries \in Seq(EntryType)
  /\ mdb \in MdbType
  /\ dirDirty \in BOOLEAN
  /\ blocks \in [Blocks -> [1 .. BlkSiz -> Byte]]
  /\ boot \in BootBlocks
  /\ result \in {"Ok", "VolumeLocked", "InvalidName", "FileExists", "FileNotFound",
                 "FileLocked", "DirectoryFull", "VolumeFull", "CorruptVolume"}

\* Case-insensitive lookup finds one file at most: no sequence of creates and
\* renames, those that only change the case of a name included, makes two files
\* answer to one name (create_file and rename_file).
NamesDistinct ==
  \A i, j \in DOMAIN entries : FoldOf[entries[i].name] = FoldOf[entries[j].name] => i = j

\* What a fork's last block holds behind the end of the fork is zero: contents
\* a file had before, or a deleted file left, do not stay behind (write_fork).
TailsAreZero ==
  \A r \in HasBlocks :
    LET f == ForkOf(r[1], r[2])
        s == ChainSeq(map, f.st)
    IN  \A j \in (f.len + 1) .. f.alloc :
          blocks[s[((j - 1) \div BlkSiz) + 1]][((j - 1) % BlkSiz) + 1] = Zero

\* A fork whose chain is shorter than its logical length is reported as corrupt,
\* never silently cut short (the doc of read_fork).
ShortForkReported ==
  \A r \in ForkRefs :
    LET got == ReadFork(r[1], r[2])
    IN  got.err = "Ok" => Len(got.data) = ForkOf(r[1], r[2]).len

\* A call that returns an error has changed nothing (the crate documentation:
\* a failed operation never leaves a half-written volume behind).
FailureChangesNothing == [][result' # "Ok" => UNCHANGED volume]_vars

\* A file number goes to one file only: a new one is above every number handed
\* out before, and the counter never goes back (drNxtFNum in create_file).
FnumNeverReissued ==
  [][/\ mdb'.nxt_fnum >= mdb.nxt_fnum
     /\ \A j \in DOMAIN entries' :
          \/ \E i \in DOMAIN entries : entries[i].fnum = entries'[j].fnum
          \/ entries'[j].fnum >= mdb.nxt_fnum /\ entries'[j].fnum < mdb'.nxt_fnum]_vars

\* While a file is locked neither of its forks changes and it stays in the
\* directory, whatever is done to other files, and whatever it is renamed to.
LockedFileKept ==
  [][stored' # stored =>
       \A i \in DOMAIN entries : entries[i].locked =>
         \E j \in DOMAIN entries' :
           /\ entries'[j].fnum = entries[i].fnum
           /\ \A k \in Forks : ReadFork(j, k)' = ReadFork(i, k)]_vars

\* On any image, cross-linked ones included: what write_fork reported written
\* is what read_fork then returns.
WritesReadBack ==
  [][call'[1] = "write" /\ result' = "Ok" =>
       (Found(call[2]) /\ ReadFork(IndexOf(call[2]), call[3]) = Bytes(call[4]))']_vars

\* On any image: a call disturbs the forks of one file at most, among those whose
\* chains walk to their end and meet no other fork's walkable chain.
Private(r) == Walks(r) /\ \A s \in HasBlocks \ {r} : Walks(s) => Owned(r) \cap Owned(s) = {}

Undisturbed(i) ==
  \E j \in DOMAIN entries' :
    /\ entries'[j].fnum = entries[i].fnum
    /\ \A k \in Forks : <<i, k>> \in HasBlocks /\ Private(<<i, k>>) =>
         ReadFork(j, k)' = ReadFork(i, k)

OneFileDisturbed ==
  [][stored' # stored =>
       \A h, i \in DOMAIN entries : h < i => Undisturbed(h) \/ Undisturbed(i)]_vars
=============================================================================
