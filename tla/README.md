# A verification project for macfs

`macfs` is a Rust library and a command line tool (`mfs`) for MFS disk images: the file
system of the first Macintoshes, bare or inside a DiskCopy 4.2 container. An image is read
into memory whole, changed there by calls on `MfsVolume`, and written back whole. This
directory holds TLA+ models of it, the TLC configurations that check them, and TLAPS proofs:
that an opened volume behaves as a file store and, with its image, as a durable one, that
the directory, formatting, dates, the container and the commands keep what they promise. Paths
below are relative to the repository; line numbers are those of the commit modelled.

## 1. Inventory

| Component | State | Operations | What makes it correct |
|---|---|---|---|
| Block map, `src/blockmap.rs` | one 12-bit entry per allocation block, blocks numbered from 2: free, last, reserved, or the next block | `chain`, `allocate`, `free_chain`, `pack`, `unpack` | a walk returns the chain or an error, and always returns; allocate and free are all or nothing; pack inverts unpack and keeps nibbles that are not its own |
| Directory, `src/dir.rs` | none: functions on entries and sectors | `parse_directory`, `plan`, `fits`, `write_directory` | what is written is what the next open reads; what `fits` admits, a save can write |
| MDB, `src/mdb.rs` | 14 fields at fixed offsets | `parse`, `write_to` | the layout checks the other stages rely on |
| Volume, `src/volume.rs` | sector buffer, MDB, map, entries, `dir_dirty`, container | `create_file`, `write_fork`, `delete_file`, `rename_file`, `rename_volume`, `set_boot_blocks`, `set_type_creator`, `set_locked`, `set_times`; `read_fork`, `check`; open and save | forks hold what was last written; no block is shared or lost; counters agree with map and directory; names are distinct; a failed call changes nothing |
| Formatting, `src/mkfs.rs` | the variables of the loop in `geometry` | `format` | the parts of the disk do not overlap and fill it; what it writes opens; the circular computation ends |
| Image, `src/volume.rs` | the file: MDB, map, directory sectors, blocks, boot blocks | `from_image_bytes`, `from_parts`, `serialize`, `save_to`, `save_path`, `block_offset` | opening brings back exactly what was saved last; an untouched save keeps its bytes; blocks lie in the image |
| Container, `src/dc42.rs` | header, data, tags | `detect`, `parse`, `to_bytes`, `new_blank` | damage is noticed; what is saved opens; untouched images keep their bytes |
| Tool, `src/bin/mfs.rs` | the image file | `add`, `rm`, `mv`, `mkfs`, `bootblocks`, and commands that only look | an update reported is in the image; no command works on a mixture of two saves |
| Names, `src/macroman.rs` | none | `encode`, `decode`, `eq_ignore_case`; `encode_name` | names that answer to each other never name two files |
| Times, `src/timestamp.rs` | none | `to_unix`, `from_unix`, `now`, `to_ymd_hms` | every day has its date; a clock out of range saturates |
| Errors, byte helpers | none | | not modelled, see section 8 |

**How they interact.** Opening reads the file, takes the container apart (`dc42`), parses the
MDB, unpacks the map and parses the directory. A call on the volume reads and changes map,
entries, MDB and allocation area, and asks `dir::fits` before it lets an entry grow. Saving
writes MDB, map and (when dirty) directory back into the buffer, wraps it in its container and
writes it, after truncating the file. There are no callbacks and no threads: the only
concurrency is between runs of the tool on one image, which nothing locks.

**Where it is hard.** Calls that free before they allocate, or free two chains in turn, and can
fail in between (`volume.rs:581`, `:629`); images nobody checked, with broken, cyclic or
cross-linked chains; the directory, whose packing is asked about at one time and done at
another; a circular computation with 32-bit sums stored in 16 bits (`mkfs.rs:97-144`); the two
nibbles two map entries share; the directory's dirty mark, which each call must set for itself,
and the parts of the image that have none; images that have to be told from the bytes they
begin with; the whole-file save, which may be cut short or met by a reader.
`PROJECT.json` lists each as a hazard with the properties that watch it.

## 2. Modules

What each module builds on:

    BlockMapLoops       BlockMap, MapCodec              checked by MCBlockMapLoops
    DirectoryLifecycle  Directory                       checked by MCDirectoryLifecycle
    Volume              BlockMap, Directory
    VolumeFiles         Volume, INSTANCE FileStore      checked by MCVolume (with MacRoman)
    DurableStore        FileStore
    SavedVolume         VolumeFiles, INSTANCE DurableStore
                        and VolumeFiles (the image)     checked by MCSavedVolume
    Mkfs                Layout                          checked by MCMkfs (with Timestamp)
    Dc42, MfsCommands                                   checked by MCDc42, MCMfsCommands
    StructureProofs     BlockMap, Directory
    LoopProofs          BlockMapLoops, StructureProofs
    LifecycleProofs     DirectoryLifecycle, StructureProofs
    VolumeProofs        Volume, StructureProofs
    StoreProofs         SavedVolume, VolumeProofs
    LayoutProofs        Mkfs, Timestamp
    Dc42Proofs          Dc42
    CommandProofs       MfsCommands

**BlockMap** is the map as a function from blocks to entries. `chain` is a loop in the source; here
the blocks it visits are the least set that holds the start and is closed under moving on
(`Visited`), the walk succeeds when one of them is marked last (`ChainOk`), and the order is
`ChainSeq`. No recursion, so that it can be proved about. `allocate(n)` takes the `n` lowest free
blocks (`Allotted`) and links them (`Linked`, through the masking of `set`). `EntryMod` is 4096
in the source and a constant here, so that a small map reaches the width of an entry.

**BlockMapLoops** has the loops of `chain`, `free_chain`, `allocate` and `pack` as the code runs
them, one action per branch of an iteration, and compares what they leave with `BlockMap`: the
volume is specified and proved with the operators, and this is what ties them to the code.
LoopProofs proves the tie for maps of any size.
**MapCodec** is one round of `pack` and of `unpack`, on bytes of two nibbles.

**Directory** is `plan`, `fits`, `write_directory` and `parse_directory`. A sector is the sequence
of slots written in it, a slot being an entry and the in-use bit of its flags; lengths in bytes
decide everything (sector boundaries, the fixed part at the end of a sector), contents nothing.
`Plan` gives where packing is after each entry; what is parsed is put in order by each slot's
`Turn` among the slots read, so that no list is grown and both can be proved about.
**DirectoryLifecycle** is the directory of an open volume over its life: any layout that parses
is opened, then creates, renames, deletes, field changes, saves and reopens in any order.

**Volume** is `MfsVolume`: `map`, `entries`, `mdb` (the fields calls read or write), `dirDirty`,
`blocks` (the allocation area, bytes included) and `boot`; `call` and `result` record the last
call. There is one action per public call. The early returns of a call, in the order the code
tests them, are its `...Verdict` operator; `Fails` is a return that changes nothing, and
`Touched` the ending every mutator of an entry shares (`dir_dirty`, `drLsMod`,
`recompute_counters`). `DeleteFile` keeps the path on which the data fork is freed and the
resource fork's chain is then found broken. `ReadFork` and `CheckIsClean` are `read_fork` and an
empty report of `check()`. A volume starts as `mkfs` leaves it (`FreshInit`) or, in MCVolume, as
an image describes it.

**FileStore** is the abstract specification: files by folded name, two forks of bytes, a number of
blocks. It knows no chains and no map. **VolumeFiles** gives the refinement mapping: the files are
the entries with what `read_fork` returns, the capacity is every block not reserved. The two
things that FileStore leaves open are when the directory is full and which dates files have.

**SavedVolume** composes the volume with its image. `file` is the image as `from_parts` reads it
and `serialize` writes it; `region` the directory sectors in the volume's own buffer, which are
packed afresh only when `dirDirty` is set. `Call` is any action of Volume, `Save` is `save_to`, `Open`
is `from_parts`; an `Open` that no `Save` came before is a crash, or a process that ends without
saving. `OnDisk` instantiates VolumeFiles on the image, so that `check()` can be asked of it.
**DurableStore** is the abstract specification: FileStore, and what of it is saved.

**Layout** is where the parts of an image lie: what `Mdb::parse`, `from_parts` and `unpack` ask before
a volume is opened, and `block_offset`, which asks nothing. **Mkfs** is `geometry()` round by round,
the casts to `u16`, and the opening of the result, in the source's own numbers.

**Dc42** is `validate_header`, both checksums, `parse` and `to_bytes`, on words of a few bits, and
`from_image_bytes`: a file is a head, the words behind it, the signature an MDB would have, and
whether it is a whole number of sectors. A bare image has its boot blocks where a container has
its header, and `SetBootBlocks` may put anything there. An image is opened as whatever it is
taken for or told to be, edited, saved, perhaps damaged, and opened again.

**MfsCommands** is the image file under the tool, and under programs that save with `save_to` into the
file they read (`inplace`): a program reads it cell by cell, makes its calls (each may fail),
truncates it (a command does), writes it cell by cell, and may be killed or meet an I/O error
at any step. A part of the volume is the sequence of programs that wrote it, so that a volume
put together from two saves, or an update undone, shows.

**MacRoman** is the table, `decode`, `encode`, what `eq_ignore_case` compares and what `encode_name`
refuses, on code points. Volume has these as constant tables (`FoldOf`, `NameLen`, `Forbidden`);
MCVolume spells its names out and has TLC check the tables (`NamesAsMacRoman`).
**Timestamp** is `timestamp.rs`, in days and seconds of a day, next to a calendar that goes on day by
day; MCMkfs runs it beside one formatting (`DatedNext`), because a formatted volume is where dates
begin, and checks saturation and times of day as assumptions (`ClockSaturates`, `TimesDiffer`).
LayoutProofs proves all three, for every day, clock and second.

## 3. Runs

Properties are stated in the module named; each has a mutant of the code (in the module, marked
*Mutant*) that breaks it under the same configuration.

| Run | Instance | Question and answer |
|---|---|---|
| `block_map` | 3 blocks, 8 entry values: all 512 maps, every start block in and out of range, 64 fillings of the buffer | Do the loops compute what `BlockMap` says, on corrupt maps too, and return? Does `pack` invert `unpack` at every round and leave foreign nibbles? Yes. |
| `directory_lifecycle` | two sectors of 12 bytes, entries of 4, 6, 6 and 8 bytes, up to 2 slots per sector on the disk opened | Can a save find the directory full, or the next open read something else? No. |
| `volume_fresh` | 3 blocks of 2 bytes, names `ß ss dd :`, contents of 0, 1 and 3 bytes; a fresh volume and two creates, and every clean image of two files, locked or not, with reserved blocks or without | Does a volume stay clean, keep names distinct, zero its tails, respect locks, refuse without changing anything, and implement FileStore? Yes. |
| `volume_corrupt` | every map of 3 blocks without reserved ones, any starts, two files; write, delete and create | Does a write read back, and does a call disturb two files that share nothing? Yes; no. |
| `saved_volume` | one block, two directory sectors, names `µ Μ b`, every clean image of up to two files in every layout, locked or not; calls, saves and opens in any order | Does an open bring back exactly what was saved, with every kind of change; does the image stay clean, an untouched save keep its bytes, DurableStore hold? Yes. |
| `mkfs` | all sizes from 190 to 4,100 sectors, and larger ones around 2^16 and 2^22 sectors, both containers; all 49,711 days | Is each size refused, or formatted to a sound volume that opens and wastes one block at most? Yes, while sector numbers fit 16 bits. Is each day shown as the calendar has it? Yes. |
| `dc42` | words of 2 bits, sums of 4 bits, 3 or 4 words, any header sizes, right and wrong sums; bare images of MFS and HFS with any of these heads for boot blocks | Is nothing left out, one changed word noticed, and a save reopened as it was? Yes; a bare image with a head that fits must be told. |
| `mfs_commands` | three programs in turn, or two at once and one after, eight kinds, raw and DiskCopy 4.2 | Is a reported update lost, does an image break other than by a cut save, is a mixture opened? Not by programs in turn; on DiskCopy 4.2 no mixture is opened by concurrent ones or after a cut save either. |
| `volume_half_delete`, `volume_short_fork`, `block_map_wide`, `dc42_padding` | see section 6 | disagreements between documentation and code |

**Why the bounds are enough.** Three blocks allow a chain of every block, two chains, a cycle,
a cross-link, a hole that allocation must jump, and an odd map with a foreign nibble; contents
of 0, 1 and 3 bytes on blocks of 2 give no block, a part of one, and one and a part. Two
names that are one in upper case and differ in length, a name that may be looked up but not given,
and a directory of 10 bytes (two short entries, or one long and one short) make every early
return of `create_file` and `rename_file` happen. What is saved and what is not does not depend
on how many blocks there are, so `saved_volume` has one, and instead two sectors, so that
directories exist that no packing would lay out alike. Three programs let a third open what two
left behind. `FnumBound` in the guard of `CreateFile` bounds how many files are created. `Starts` in
MfsCommands holds the bound on interleavings: only the first two programs run at the same time.

**VIEW and SYMMETRY.** The volume runs view states by `volume`, without `call` and `result`: no
action reads these two, and each transition is still checked with its own values. `saved_volume`
leaves out `kept` besides, which is what is in `file`; `dc42` leaves out `want` wherever no property
reads it. The programs of `mfs_commands` are interchangeable: what each is is chosen when it starts,
and no definition names one. Neither is used with a liveness property.

**Fairness.** Only two specifications state any: BlockMapLoops and Mkfs, `WF_vars(Next)`. The code is
sequential and its loops neither block nor wait, so a step that can be taken is taken;
`EveryCallReturns` and `FormatReturns` then say that the loops end. Nothing else has a liveness
property: a call on a volume is one action, and a program may be killed at any time.

**Deadlock** is checked except in `dc42`, `dc42_padding` and `mfs_commands`, where a behaviour ends
when the image has been reopened, or all programs are done.

## 4. Theorems

For every number of blocks, entry width, set of names, directory size and contents, every size
of a disk, all words and headers of a container and any number of programs that meet the named
assumptions:

| Theorem | Says |
|---|---|
| `StoreProofs!OpenedIsAFileStore` | any image that is clean, with distinct names, when it is opened behaves as `FileStore` does, whatever is called (`ImplementsFileStore`) |
| `StoreProofs!FormattedIsAFileStore` | so does every volume mkfs formats |
| `StoreProofs!OpenedIsADurableStore` | a clean image in any layout, opened, worked on, saved and opened again in any order, behaves as `DurableStore` does: a save keeps every change, an open brings back what was saved |
| `StoreProofs!SavesKeepEverything`, `CleanDirectoryStaysCurrent` | of any image that opens, damaged or not: map, directory, MDB, blocks and boot blocks of the volume are on the image after a save; directory sectors not marked dirty never lag behind the entries |
| `StoreProofs!SavesAndOpensSucceed` | of any image that opens, damaged or not: no save finds the directory full, and no image saved is refused when it is opened |
| `StoreProofs!UntouchedSavesKeepBytes` | a volume no call changed is saved as the bytes it was opened from |
| `StoreProofs!ImagesStayClean` | `check()` has nothing to report of the image either, while the counters hold what they count |
| `StoreProofs!SavedNumbersDiffer` | on any image with such numbers when it was opened, files keep numbers of their own below its counter, across crashes, while the counter has not gone through all its values |
| `LifecycleProofs!SavesAlwaysFit` | whatever layout was opened and whatever was called, a save finds room for the directory |
| `LifecycleProofs!SavedIsReadBack` | what a save writes parses to the entries it had, in order |
| `LifecycleProofs!ShorterNamesFit` | a rename to a name no longer than the old one is never refused for want of room |
| `VolumeProofs!OpenedWritesReadBack`, `FormattedWritesReadBack` | what `write_fork` reports written, `read_fork` returns: on corrupt images too |
| `VolumeProofs!OneFileAtMostDisturbed` | a call, successful or not, disturbs one file at most among those that share no block: on corrupt images too |
| `VolumeProofs!OpenedLockedFilesKept`, `FormattedLockedFilesKept` | no call changes or removes a fork of a locked file |
| `VolumeProofs!OpenedTailsStayZero`, `FormattedTailsStayZero` | behind the end of a fork there are zeros, never what was there before |
| `VolumeProofs!StaysClean`, `OpenedStaysClean` | on a formatted volume, and on an image clean when opened, every chain ends and has the blocks its fork needs, none is shared, none is lost, the counters are right |
| `VolumeProofs!CheckStaysClean` | hence `check()` has nothing to report, while the number of files fits 16 bits |
| `VolumeProofs!FailedCallsChangeNothing`, `OpenedFailedCallsChangeNothing` | on such volumes a call that fails has changed nothing: `delete_file` cannot stop between its two forks |
| `LoopProofs!WalksAreChains` | on any map, broken or cyclic, the loop of `chain` returns the blocks of the chain in order, or an error when the chain has no end |
| `LoopProofs!FreesAllOrNothing`, `AllocatesFirstFit` | the loops of `free_chain` and `allocate` leave what the operators of `BlockMap` say: a whole chain freed or none of it, the lowest free blocks linked or no block touched |
| `LoopProofs!AllocatedIsWalked` | what `allocate` returns is the chain a later walk meets, where an entry can hold every block number |
| `LoopProofs!PackIsInverse`, `PackKeepsForeignBits` | `pack` is the inverse of `unpack` at every round, and leaves an untouched map's bytes and the nibble behind an odd last entry as they were |
| `VolumeProofs!TypeCorrect`, `LoopProofs!LoopTypes` | `Spec => []TypeOK` |
| `VolumeProofs!OpenedNamesStayDistinct`, `NamesStayDistinct` | two files never come to answer to one name, on corrupt images too |
| `VolumeProofs!OpenedNumbersNeverReissued`, `NumbersNeverReissued` | on any image, while the counter has not gone through all its values, `drNxtFNum` never gives a number out twice |
| `LayoutProofs!OpenedBlocksApart` | of every image that passes the checks made at opening, each block lies in the image, behind the directory, apart from the others |
| `LayoutProofs!FormatLayoutSound` | `Spec => []LayoutSound` for every size that 32 bits of bytes can hold |
| `LayoutProofs!FormattedUsesAll`, `WhatIsFormattedOpens` | as long as sector numbers fit 16 bits: what blocks leave over goes to the directory, and a size is refused or formatted to a volume that opens |
| `LayoutProofs!NearlyAllAreUsed` | the circular computation ends within one block of the most that fit |
| `LayoutProofs!FormatIsBounded`, `LoopProofs!CallsAreBounded` | each step of `format`, and of `chain`, `free_chain`, `allocate` and `pack` on any map, leaves fewer to go: of 604 at most, and of 2 * `NBlocks` + 4 |
| `LayoutProofs!AllocatedLengthFits` | on an opened image of less than 4 GB, `drAllocLen` of a fork does not overflow |
| `LayoutProofs!NextDayNextDate`, `AlwaysGregorian` | on every day, of every century, `to_ymd_hms` shows the day after the one before; hence what it shows is what the calendar has |
| `LayoutProofs!EveryClockSaturates`, `EverySecondIsShown` | any clock is told as the nearest instant of 32 bits, in order, and unchanged if it can be told; each second of a day is shown, and as one of its own |
| `Dc42Proofs!NothingIsLeftOut` | every word of a container that opens is in its data or its tags |
| `Dc42Proofs!DamageIsDetected` | one word changed in a saved container, of any length, is noticed |
| `Dc42Proofs!UntouchedIsKept` | opened and saved untouched, a container keeps its bytes, if zeros stand behind its name |
| `Dc42Proofs!SavedReopens` | what was saved opens again as it was |
| `CommandProofs!UpdatesStay` | an update reported by programs in turn is in the image for as long as that opens |
| `CommandProofs!OnlySavesBreak` | programs in turn leave an image that opens, unless a save is under way or was cut short |
| `CommandProofs!OpenedAreWhole` | what a program opens was written by one save: of a DiskCopy 4.2 image always, of a raw one unless programs overlapped or a save in place was cut short |

**Assumptions.** `BlockMapAssumption`, `DirectoryAssumption` and `VolumeAssumption`, which TLC
evaluates in the volume runs; `Addressable` (every block number is a link an entry can
hold), which `mkfs` guarantees and `FreshInit` states, which is part of `Clean`, and which
`OpenedWritesReadBack` and `AllocatedIsWalked` state (finding 3 is why they must); and in the theorems about formatted volumes
that `NBlocks < CountMod`, because `drNmAlBlks` is itself a field of 16 bits. `CheckStaysClean` has
the number of files below `CountMod` in its conclusion besides. For layouts
`MkfsAssumption`: sizes of less than 2^32 bytes, and 16-bit fields wide enough for the number of
blocks a map may have, though not for sector numbers: those may wrap. `UntouchedIsKept` assumes
zeros behind the names: finding 4 is what happens without. `BlockMapLoopsAssumption` and
`MapCodecAssumption` have an entry fit three nibbles. `Dc42Assumption` and `MfsCommandsAssumption`
say what kind of constants they have; there may be infinitely many programs.
`LifecycleAssumption`, and the last conjunct of `VolumeAssumption`, say that the longest entry fits a
sector: in the source 51 bytes and a name of 63 at most, of 512. Two kinds of images
are opened in the theorems about the saved image, both in any layout that parses. `AnyOpened` asks for nothing but
types. `Opened` has nothing for `check()` to find and distinct names besides: `UntouchedSavesKeepBytes` needs it because of
finding 1 (a `delete_file` that failed half way has changed the map), the others because they speak of files and clean images. `ImagesStayClean` assumes `NBlocks < CountMod` and concludes for images whose number of files is
below it; `SavedNumbersDiffer` assumes that numbers differ on the image opened, and that no more files are
created than the counter can count (`FnumBound < FnumMod`): it does wrap, see section 6.

**The volume stays clean.** That no block is shared or lost is not inductive by itself: that a chain
walks on after a call depends on what the call did to the map elsewhere. The invariant is
`TypeOK /\ Clean`, where `Clean == Addressable /\ ForksDisjointAndSound /\ CountersFresh`.
`StructureProofs` shows three things about the least closed set: a walk sees only the blocks it
visits, so it stays as it is under any change of the map elsewhere; releasing a chain turns
exactly its blocks free; and a linked set of free blocks is a chain of exactly those blocks,
which needs `Addressable`. `VolumeProofs` lays the forks of all entries out as one table and
shows that releasing a fork, giving one new blocks, and renumbering the rows when an entry is
removed each keep the table sound, disjoint and complete. The actions are combinations of these.
Failed calls change nothing because a clean volume has no broken chain, before or after the
data fork is released.

**The loops.** A walk is known by how far it is from the end: the blocks still to be visited
(`ChainLen`) are one fewer at each step, so the *i*-th block out has all but *i* - 1 of the chain to come
(`Met`), and no two are the same. On a chain without an end no step meets the mark, and the cycle
test stops the walk once more blocks are out than there are. The scan of `allocate` holds the
free blocks below where it is, from the lowest up (`Lists`); the linking and freeing loops have
the map half way between the old one and the operator's (`Through`). A round of `pack` touches the
nibbles of one entry and no other: `PackEven` and `PackOdd` are the two cases, arithmetic on
quotients and remainders in any base.

**What a call does to the bytes.** `StructureProofs` has the order of a chain too: a block's place in it is
one more than its predecessor's, and a linked set of blocks is visited from the lowest
up. So the byte at place *p* of a fork lies in the *p*/`BlkSiz`th of its blocks, what is written there
is what is read there, and the rest of the last block is zeroed. A chain that meets no
other keeps its order and its blocks whatever happens to the others; this needs no clean volume, and
`OneFileAtMostDisturbed` is proved of every image, by cases on what each call releases and writes.

**The file store.** `StoreProofs` shows that every step maps to a step of `FileStore` or a stutter,
with the inductive invariant `Kept == TypeOK /\ Clean /\ NamesDistinct`. The files are the entries
under their folded names, which `NamesDistinct` makes a function; each call's lemma says which
of them it replaces, and the others' forks read as before. The store's capacity is the number of blocks
that are not reserved. That the volume has room exactly when the store has is one equation, `RoomIs`:
the free blocks and those the files' sizes call for make up the capacity. It is where
clean chains count, and is proved over the table of forks, as a sum by induction on sets.

**The directory.** Before `Sound` holds of a volume opened from any layout, that layout has to be compared with
`plan`'s. Every way of putting the entries into sectors in this order has each of them in `plan`'s sector or a
later one (`LaidOutFits`); so what was parsed fits (`ParsedFit`), and so does what is left when an entry goes
(`ThinnedFit`) or one gets shorter (`ShorterFit`), because each again leaves such a way. That
what is written is read back (`RoundTrip`) counts slots: as many come before a given one as there
are entries before the one it holds. `Plan` and `Ends` are functions defined from one number to the next; what they
are is shown for the numbers up to a given one, by induction on finite sets. `Sound` then has
`Fits(entries, DirLen)` at any time, which is why a save never fails, and
`ParseDirectory(region) = entries` whenever the directory is not dirty.

**The saved image.** `Together` describes volume and image in the same terms (`VolumeOk`, `FilesOf`,
`DiskOf`): the image could be opened at any moment, would be clean and fit, and would hold the files that were
saved. TLC found it in every state of `saved_volume` before it was proved. Each call either
marks the directory dirty or leaves its entries alone (`DirectoryStep`), and keeps the entries within the directory,
because every mutator asks `fits` or makes none longer. A save is then `RoundTrip`, and an open restores what
`Together` says of the image to the volume. `Held /\ CanOpen` is the part of it that a
damaged volume has too, since neither `fits` nor `dir_dirty` depends on the map. `OpenedIsADurableStore` adds the calls' refinement from the proof of
the file store. For the numbers it takes both sides at once: those in memory and those
on the image differ and lie below the counter next to them, and a crash takes back both.

**Layouts.** Blocks lie apart because block numbers below the end of the map, times the size of a
block, stay below the end of the allocation area, which is compared with the size of the image. That the
layout of a formatted disk leaves its last two sectors alone needs an invariant of the loop
(`Fitting`): when it is left, the blocks counted fit behind the directory; a cast only ever makes the
start of the allocation area smaller, and one that did so too much is caught when the result is
opened. How much of the disk is used needs another (`Settling`): from the first round on, one
block more than `nBlocks` would have been too many, because the map of a disk of 400 blocks, give or
take, has two sectors at most, so that one round corrects what the last one guessed.

**How long it takes.** `StepsLeft` of either loop module is a number, by the loop the call is in, that the
invariants above keep natural and every step makes smaller: blocks the walk has not put out, blocks the scan has not looked
at, what is left to link, free or pack; blocks that `format` may still take off. There is no infinite run of steps, on a
cyclic map or for any size asked for. That a step is taken when it can be is fairness, and stays with TLC.

**Dates.** The arithmetic counts years from March, in eras of 400 years, which all have 146,097 days. Within an era
`YearStart` is the day a March year begins on. A day of an era is a century, a group of four years and a day of the group
(`Parts`), which gives each quotient of the formula for the year, and with them that the year it finds encloses the day.
Then a date is a day of a March year (`Civil`), and the next day is one more, or the first of March. This
holds of any integer. `Reckoned` takes it to the days of the clock, from 1904 on.

**The container.** A step of the checksum is a bijection of the sum for a given word and of the word
for a given sum: words that differ give sums that do, and equal words after them keep them
different. `Inv` says of each step what the image in memory holds of the file it was opened from.

**The programs.** `Always` is what holds however programs interleave: every cell of the file, and of
what a program has read, comes from some save, at its place. That is enough for DiskCopy 4.2, whose
checksum is modelled as telling any two data apart. `Alone` is what holds until two programs overlap:
one runs at a time, it has read a prefix of the file as it is, has written a prefix of what
it holds, and what it holds has every update reported so far. `Inv == Always /\ (~overlapped => Alone)`.

**Only model-checked.**
* Liveness, `EveryCallReturns` and `FormatReturns`: the prover has no rule for fairness and `ENABLED`. Their safety half
  is proved: only so many steps are left of a call (`CallsAreBounded`, `FormatIsBounded`).
* `NamesAsMacRoman`: a comparison of finite tables.

## 5. What the runs show of the tool

* The image always is what was last saved: calls, however many and of whatever kind, are all in it
  after a save and none of them is before; a crash takes back files and file numbers together.
* A save with `save_to` into the file that was read, cut short, leaves a container that does not open
  (or the old or the new one, where they do not differ), and a bare image that opens as a mixture.
* Commands one after the other are safe: whatever fails before a save leaves the file alone,
  an update reported as made stays, and a save cut short leaves a file that does not open, or
  whose unused last sectors are missing, never half of one volume and half of another.
* Two commands at the same time may undo each other's updates, and a raw image may be read half
  way through a save. DiskCopy 4.2's checksum excludes the second (taking it to tell any two
  data apart).

## 6. Findings

The first four are runs with expectation `violation`: a property that states the documentation, which TLC
finds violated. In the last the code is right and a comment is not; the property that says so passes.

1. `volume_half_delete`: `delete_file` (`volume.rs:629`) frees the data fork's chain, then walks the
   resource fork's. If that is broken it returns `CorruptVolume` with the data fork's blocks free
   and the entry still pointing at them; a later save writes that. The crate documentation says
   a failed operation can never leave a half-written volume behind.
2. `volume_short_fork`: `read_fork` (`volume.rs:385`) returns an empty vector for a fork with no first
   block, whatever its length; its documentation promises `CorruptVolume`.
3. `block_map_wide`: nothing refuses an image with more than 4,094 allocation blocks, and `set`
   (`blockmap.rs:125`) keeps 12 bits of a block number: `allocate` stores 0, which marks a free
   block, in the entry that should name block 4096, against "each one's map entry points at the next"
   (`BlocksAreLinked`). In the run an entry has 6 values and block 6 is the one that is cut. One block
   fewer is too many already: 4095, the number of the last, is stored whole, but a later walk
   reads it as the reserved mark and refuses the chain.
4. `dc42_padding`: `to_bytes` (`dc42.rs:201`) writes zeros behind the image name; other bytes there are
   lost by opening and saving, against "reproduces the original bytes exactly".
5. `mkfs` (`NothingStranded`): a comment in `tests/roundtrip.rs:82-83` says "The 800K geometry leaves slack
   between the end of the directory and the first allocation block", and for that reason the test does
   not assert `drAlBlSt == drDirSt + drDirLen`. The comment is out of date: `geometry` gives the
   directory what the blocks leave over (`mkfs.rs:126`), the unit test at `mkfs.rs:248` asserts the
   equality, and the run has it at every size, 1,600 sectors among them: there the directory is
   sectors 4 to 29 and the first block begins at sector 30.

Noticed while modelling, and not the subject of a run:

* `drNxtFNum` wraps (`volume.rs:545`), while `tests/roundtrip.rs:502` says it only ever counts up.
* `recompute_counters` casts the number of files to `u16` (`volume.rs:744`).
* `plan` never returns to an earlier sector (`dir.rs:177`): next fit, where its documentation says
  first fit. A directory may be full although first fit had room.
* The comment that `next` can exceed `n_blocks` on the first pass only (`mkfs.rs:114-116`) is
  untrue at 600 sectors; the extra block is given up and goes to the directory.
* Above about 2 GB the directory length is cast to `u16` (`mkfs.rs:139`): the volume opens with a
  directory of a few sectors.
* `save_path` truncates the image before the first byte is written (`volume.rs:310`): an I/O error
  then leaves a file that does not open. `save_to` on an open raw image that stops half way leaves
  one that opens, half old and half new.
* A bare image whose boot blocks read as a container header that fits the file is taken for a
  container at the next open, and refused; one that is no whole number of sectors, which
  `open_with_format` accepts and saves, is not recognised without it. The tool's usage text
  (`bin/mfs.rs:439-440`) says the container "is detected when the image is opened and preserved
  when it is written back"; ordinary boot blocks do not meet the case, and the tool has no way to
  tell what an image is.
* A file can be found by names it could never be given: `Μ` (Greek capital mu, which MacRoman has
  not) finds `µ`. The documentation of `eq_ignore_case` mentions only that names compare unlike
  the ROM's table in exotic cases.
* `mfs extract` names its output after the file in the image (`bin/mfs.rs:175-181`): next to an image of
  the same name it overwrites the image.
* Of data with an odd number of bytes the last is in no checksum (`dc42.rs:92`), and changes unnoticed.

## 7. Plan

First stage (done): the block map and its loops, the directory, the volume with its abstract store,
mkfs, the container, the commands; types, distinct names, clean forks and failed calls proved.

Second stage (done): the saved image with its durable store, detection of containers, layouts of opened
images, programs that save in place and `mkfs --force`, names in MacRoman, dates; layouts proved.

Third stage (done), proofs: `WritesReadBack`, `OneFileDisturbed`, `LockedFileKept`, `TailsAreZero`; the
volume implements its file store; the rest of the layouts; the container; the programs in turn;
the loops compute what `BlockMap` says, and `pack` inverts `unpack`.

Fourth stage (done), proofs: what the directory writes is read back, and whether entries fit; the saved image, up to
`ImplementsDurableStore`.

Fifth stage (done), proofs: the arithmetic of dates; that a bounded number of steps remains to each loop, the safety half of the
two liveness properties; those theorems about names, numbers and the saved image that need no clean
volume, of every image that opens; that `drAllocLen` does not overflow.

## 8. Not modelled

* Errors and byte helpers (`error.rs`, `util.rs`): no state. Results are the names of the errors.
* Byte offsets of MDB and directory fields, and fields no call interprets (Finder flags, positions,
  versions, `drClpSiz`): carried along unchanged by the code, and covered by its unit tests.
* Widths of `drAllocLen` (32 bits) and of block indices (16 bits): unbounded here. The first
  overflows on images of 4 GB and more only (`AllocatedLengthFits`), the second on maps that break chains long before
  (`block_map_wide`).
* Argument parsing, listings, and host files other than the image: no state of the system.
* Unicode's `to_uppercase`, but for the characters MacRoman has and the Greek capitals they become.
* `new_blank`'s size test is part of `Refused` in Mkfs.
