------------------------- MODULE DirectoryLifecycle -------------------------
(***************************************************************************)
(* The directory of an open volume, from whatever layout the disk had to   *)
(* the layout a save leaves: the directory side of create_file,            *)
(* rename_file, delete_file and the set_ mutators, of serialize, and of    *)
(* opening the saved image again (volume.rs).  Only create_file and        *)
(* rename_file ask whether the entries still fit; a save that finds they   *)
(* do not fails.  Locks and forks are the business of module Volume.       *)
(***************************************************************************)
EXTENDS Directory

CONSTANTS Names,       \* the names in use, of the lengths NameLen gives
          DirLen,      \* drDirLen
          MaxEntries   \* bound: entries on the disk that is opened

\* Every name makes an entry that fits in a sector: 51 bytes and at most 255 of name.
ASSUME LifecycleAssumption ==
  /\ DirLen \in Nat /\ Names # {}
  /\ \A n \in Names : NameLen[n] \in Nat /\ EntryLenFor(NameLen[n]) <= SectorLen

VARIABLES region,      \* the directory sectors of the image
          entries,     \* MfsVolume.entries
          dirDirty,    \* MfsVolume.dir_dirty
          result       \* what the last call returned, and which call it was

vars == <<region, entries, dirDirty, result>>

NoResult == [op |-> "open", is |-> "Ok"]
EntryOf(n) == [name |-> n]

\* Any layout that parses: real disks pack their entries as they please, and
\* hide entries behind a cleared in-use bit (one such slot is enough: what it
\* holds is never read).
Layouts ==
  LET slots   == {Slot(EntryOf(n)) : n \in Names}
                   \cup {[used |-> FALSE, e |-> EntryOf(CHOOSE n \in Names : TRUE)]}
      sectors == UNION {[1 .. k -> slots] : k \in 0 .. MaxEntries}
  IN  {r \in [1 .. DirLen -> sectors] : Parses(r)}

Init ==
  /\ region \in Layouts
  /\ entries = ParseDirectory(region)
  /\ \A i, j \in DOMAIN entries : entries[i].name = entries[j].name => i = j
  /\ dirDirty = FALSE
  /\ result = NoResult

Taken(n) == \E i \in DOMAIN entries : entries[i].name = n

\* A mutation of the entries goes through, or is undone and refused.
Change(op, es) ==
  /\ IF Fits(es, DirLen)
     THEN /\ entries' = es /\ dirDirty' = TRUE
          /\ result' = [op |-> op, is |-> "Ok"]
     ELSE /\ UNCHANGED <<entries, dirDirty>>
          /\ result' = [op |-> op, is |-> "DirectoryFull"]
  /\ UNCHANGED region

\* The mutators that do not ask: dir::fits is not called on these paths.
Edit(op, es) ==
  /\ entries' = es /\ dirDirty' = TRUE
  /\ result' = [op |-> op, is |-> "Ok"]
  /\ UNCHANGED region

\* Mutants: a rename that does not ask whether the entries fit, and one that
\* asks whether one more entry would.
FreeRename(i, n)   == ~Taken(n) /\ Edit("rename", [entries EXCEPT ![i].name = n])
GreedyRename(i, n) ==
  /\ ~Taken(n)
  /\ IF Fits(Append(entries, EntryOf(n)), DirLen)
     THEN Edit("rename", [entries EXCEPT ![i].name = n])
     ELSE result' = [op |-> "rename", is |-> "DirectoryFull"] /\ UNCHANGED <<region, entries, dirDirty>>

Create(n)    == ~Taken(n) /\ Change("create", Append(entries, EntryOf(n)))
Rename(i, n) == ~Taken(n) /\ Change("rename", [entries EXCEPT ![i].name = n])
Delete(i)    == Edit("delete", RemoveAt(entries, i))
SetField     == entries # <<>> /\ Edit("set", entries)

\* serialize: a directory nobody touched keeps its bytes, a touched one is
\* packed afresh; dir_dirty is not cleared.
Save ==
  /\ region' = IF dirDirty /\ Fits(entries, DirLen)
               THEN WriteDirectory(entries, DirLen) ELSE region
  /\ result' = [op |-> "save",
                is |-> IF dirDirty /\ ~Fits(entries, DirLen) THEN "DirectoryFull" ELSE "Ok"]
  /\ UNCHANGED <<entries, dirDirty>>

\* The image, saved or not, opened again.
Reopen ==
  /\ Parses(region)
  /\ entries' = ParseDirectory(region)
  /\ dirDirty' = FALSE
  /\ result' = NoResult
  /\ UNCHANGED region

Next ==
  \/ \E n \in Names : Create(n)
  \/ \E i \in DOMAIN entries, n \in Names : Rename(i, n)
  \/ \E i \in DOMAIN entries : Delete(i)
  \/ SetField \/ Save \/ Reopen

Spec == Init /\ [][Next]_vars

-----------------------------------------------------------------------------
\* A save never runs out of directory: whatever layout was opened, and however
\* it was thinned out and added to, the entries a volume holds can be packed,
\* so write_directory's DirectoryFull cannot happen at save time (doc of fits).
SaveAlwaysFits == Fits(entries, DirLen)

\* What a save writes is what the next open reads, entry for entry and in order.
SaveThenOpen ==
  result.op = "save" => Parses(region) /\ ParseDirectory(region) = entries

\* A rename to a name that is no longer than the old one is never refused for
\* want of directory space.
ShorterNameFits ==
  [][\A i \in DOMAIN entries, n \in Names :
       Rename(i, n) /\ NameLen[n] <= NameLen[entries[i].name] => result'.is = "Ok"]_vars
=============================================================================
