---------------------------- MODULE MCSavedVolume ----------------------------
(***************************************************************************)
(* Images of up to two files on one block, in two directory sectors: any  *)
(* layout that parses, with both files in one sector, one in each, the     *)
(* first sector empty, or something left behind the last entry in use.     *)
(***************************************************************************)
EXTENDS SavedVolume, MCVolume

MCSavedNames == {"micro", "Mu", "b"}

Hidden == [used |-> FALSE, e |-> OpenedEntry("b", 9, NoFork, NoFork)]

\* The directory sectors es may have been written in: split anywhere, and both
\* followed by a slot that is not in use, or neither.
Layouts(es) ==
  {r \in {<<WriteDirectory(SubSeq(es, 1, k), 1)[1] \o g, WriteDirectory(SubSeq(es, k + 1, Len(es)), 1)[1] \o g>> :
            k \in 0 .. Len(es), g \in {<<>>, <<Hidden>>}} :
     Parses(r) /\ ParseDirectory(r) = es}

Images ==
  {<<>>} \cup {<<OpenedEntry("b", 1, d, NoFork)>> : d \in ImageForks}
         \cup {<<OpenedEntry("micro", 1, d, NoFork), OpenedEntry("b", 2, NoFork, r)>> : d, r \in ImageForks}

SavedInit ==
  /\ OpenedWith(Images, BOOLEAN)
  /\ mdb.locked => entries # <<>>
  /\ CheckIsClean
  /\ region \in Layouts(entries)
  /\ file = [boot |-> boot, mdb |-> mdb, map |-> map, dir |-> region, blocks |-> blocks]
  /\ touched = FALSE /\ kept = Files

SavedSpec == SavedInit /\ [][SavedNext]_all

SavedView == <<volume, region, file, touched>>
=============================================================================
