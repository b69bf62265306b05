----------------------------- MODULE SavedVolume -----------------------------
(***************************************************************************)
(* A volume in memory and the image it is opened from and saved to: the    *)
(* calls of module Volume, serialize and save_to, and from_parts           *)
(* (volume.rs).  An image is what from_parts reads: the MDB, the map, the  *)
(* directory sectors, the blocks and the boot blocks.  The volume's buffer *)
(* keeps the directory sectors as they were read until a save packs them   *)
(* afresh, which it does only when dir_dirty says so; the MDB and the map  *)
(* are written at every save, boot blocks and blocks by the calls.         *)
(* A crash is an Open that no Save came before.  The container around the  *)
(* image is module Dc42's business, a save cut short MfsCommands'.         *)
(***************************************************************************)
EXTENDS VolumeFiles

VARIABLES
  region,    \* the directory sectors in MfsVolume.data
  file,      \* the image: boot blocks, mdb, map, directory sectors, blocks
  touched,   \* observer: whether a call has succeeded since the image was opened
  kept       \* observer: the files of the volume when it was last saved

all == <<vars, region, file, touched, kept>>

SavedEntries == ParseDirectory(file.dir)

\* The volume as the image has it.
OnDisk == INSTANCE VolumeFiles
            WITH map <- file.map, entries <- SavedEntries, mdb <- file.mdb,
                 dirDirty <- FALSE, blocks <- file.blocks, boot <- file.boot,
                 call <- <<"open">>, result <- "Ok"

-----------------------------------------------------------------------------
\* Any call of module Volume.
Call ==
  /\ Next
  /\ touched' = (touched \/ result' = "Ok")
  /\ UNCHANGED <<region, file, kept>>

\* Mutants: nothing but a changed directory makes a save write the MDB; the
\* directory is packed afresh at every save, or when files came or went only.
LazySerialized(sectors) ==
  [boot |-> boot, mdb |-> IF dirDirty THEN mdb ELSE file.mdb, map |-> map,
   dir |-> sectors, blocks |-> blocks]

EagerPacked == WriteDirectory(entries, DirLen)

RarelyPacked == IF Len(entries) = Len(ParseDirectory(region)) THEN region ELSE EagerPacked

\* serialize: the directory sectors as the buffer then has them, and the image.
Packed == IF dirDirty THEN WriteDirectory(entries, DirLen) ELSE region

Serialized(sectors) ==
  [boot |-> boot, mdb |-> mdb, map |-> map, dir |-> sectors, blocks |-> blocks]

\* save_to.  A directory that does not fit stops it before the first byte is
\* written.  dir_dirty stays as it was: no call ever clears it.
Save ==
  /\ call' = <<"save">>
  /\ IF dirDirty /\ ~Fits(entries, DirLen)
     THEN result' = "DirectoryFull" /\ UNCHANGED <<region, file, kept>>
     ELSE /\ result' = "Ok"
          /\ region' = Packed /\ file' = Serialized(Packed) /\ kept' = Files
  /\ UNCHANGED <<volume, touched>>

\* from_parts, on the image as the last save left it.
Open ==
  /\ call' = <<"open">>
  /\ IF ~Parses(file.dir)
     THEN result' = "CorruptVolume" /\ UNCHANGED <<volume, region, touched>>
     ELSE /\ result' = "Ok" /\ touched' = FALSE
          /\ map' = file.map /\ mdb' = file.mdb /\ blocks' = file.blocks /\ boot' = file.boot
          /\ entries' = SavedEntries
          /\ region' = file.dir
          /\ dirDirty' = FALSE
  /\ UNCHANGED <<file, kept>>

SavedNext == Call \/ Save \/ Open

-----------------------------------------------------------------------------
\* The volume and its image behave as a durable store: a save keeps every change
\* made so far whichever call made it, and opening brings back exactly what was
\* saved, never a change made later and never half of one (save_to, open).
Durable == INSTANCE DurableStore
             WITH files <- Files, disk <- Disk, saved <- kept,
                  ValidNames <- {n \in FileNames : NameOk(n, MaxFileName)}

ImplementsDurableStore == Durable!DurableSpec

\* While dir_dirty is not set the buffer's directory sectors say what the entries
\* do, dates, numbers, codes and locks included: there is no change a save would
\* leave out (dir_dirty, serialize).
CleanDirectoryIsCurrent == ~dirDirty => ParseDirectory(region) = entries

\* What was saved is what is opened, all of it: the counters of the MDB, the volume's
\* name and the boot blocks too, a change of which marks nothing dirty (serialize).
SaveKeepsEverything ==
  [][call' = <<"save">> /\ result' = "Ok" =>
       <<file.map, SavedEntries, file.blocks, file.mdb, file.boot>>'
         = <<map, entries, blocks, mdb, boot>>']_all

\* The image passes check() at any time, whatever was saved when: an MDB is never
\* written with counters that are not those of the map and the directory with it.
ImageStaysClean == OnDisk!CheckIsClean

\* File numbers on the image differ, and lie below the counter next to them: one
\* issued, lost in a crash and issued again never meets itself (create_file).
NumbersOnDiskDiffer ==
  LET es == SavedEntries
  IN  \A i, j \in DOMAIN es :
        es[i].fnum < file.mdb.nxt_fnum /\ (es[i].fnum = es[j].fnum => i = j)

\* "Saving an untouched volume reproduces its bytes exactly" (serialize): after
\* calls that failed, and on a directory no packing would lay out the same way.
UntouchedSaveKeepsBytes == [][call' = <<"save">> /\ ~touched => file' = file]_all
=============================================================================
