------------------------------ MODULE MCVolume ------------------------------
(***************************************************************************)
(* Small volumes for TLC.  Names are spelled in characters, and MacRoman   *)
(* says which may name a file, how long they are and which answer to each  *)
(* other: "ss" and the shorter "eszett" do, "colon" is no name, and "Mu"   *)
(* (a Greek capital) is none either but finds the file "micro".  The       *)
(* directory is sectors of 10 bytes: entries take 4 bytes, those of a name *)
(* of two characters 6, so two fit a sector unless both names are long.    *)
(***************************************************************************)
EXTENDS VolumeFiles, MacRoman

MCVolumeNames   == {"vol", ""}
MCSavedVolNames == {"vol", "new"}

\* The names the calls of a run are made with.
MCNames    == {"eszett", "ss", "dd", "colon"}
MCTwoNames == {"a", "b"}

Spelling ==
  [eszett |-> <<\h00DF>>, ss |-> <<115, 115>>, dd |-> <<100, 100>>, colon |-> <<58>>,
   micro |-> <<\h00B5>>, Mu |-> <<\h039C>>, a |-> <<97>>, b |-> <<98>>]

MCFoldOf == [n \in DOMAIN Spelling |->
               CASE n = "eszett" -> "ss" [] n = "micro" -> "Mu" [] OTHER -> n]

MCNameLen == [n \in DOMAIN Spelling \cup MCVolumeNames \cup MCSavedVolNames |->
                CASE n \in {"ss", "dd"} -> 2 [] n \in {"vol", "new"} -> 3 [] n = "" -> 0 [] OTHER -> 1]

MCForbidden == {"colon", "Mu"}

\* A file's name is decoded from the bytes it was stored as, the name it is looked
\* up by is taken as it is.
LookedUpAs(n) == Uppercase(IF Encodes(Spelling[n]) THEN Decode(Encode(Spelling[n])) ELSE Spelling[n])

\* The tables above say of these names what macroman.rs and encode_name do.
ASSUME NamesAsMacRoman ==
  \A m, n \in DOMAIN Spelling :
    /\ MCFoldOf[m] = MCFoldOf[n] <=> LookedUpAs(m) = LookedUpAs(n)
    /\ m \in MCForbidden <=> Refused(Spelling[m])
    /\ m \notin MCForbidden => MCNameLen[m] = Len(Encode(Spelling[m]))

\* Contents of no block, of half a block, and of a block and a half.
MCByte   == 0 .. 9
MCVaried == {<<>>, <<7>>, <<8, 9, 7>>}
MCOneContents == {<<>>, <<7>>}
MCTwoContents == {<<7>>, <<7, 7, 7>>}

\* No call reads which call came before or what it returned: states that differ
\* in call and result only are explored once (every transition is still checked).
CallIsWriteOnly == volume

-----------------------------------------------------------------------------
(***************************************************************************)
(* Volumes opened from an image: two files, and any map.                   *)
(***************************************************************************)
OpenedEntry(n, num, data, rsrc) ==
  [name |-> n, fnum |-> num, locked |-> FALSE, code |-> "c1", created |-> 1, modified |-> 1,
   fork |-> [k \in Forks |-> IF k = "data" THEN data ELSE rsrc]]

\* A fork as an image may describe it: its start anywhere in the map or at no
\* block, its lengths those of one or two blocks, odd or even.
ImageForks == {NoFork} \cup [st : Blocks, len : {1, 3}, alloc : {2, 4}]

NextNumber == 3

OpenedWith(es, locks) ==
  /\ map \in MapType
  /\ entries \in es
  /\ mdb \in [nxt_fnum : {NextNumber}, free_bks : {FreeCount(map)}, nm_fls : {Len(entries)},
              ls_mod : {1}, name : {"vol"}, locked : locks]
  /\ dirDirty = FALSE
  /\ blocks = [b \in Blocks |-> [j \in 1 .. BlkSiz |-> IF j = 1 THEN b ELSE 0]]
  /\ boot = ZeroBoot
  /\ call = <<"open">> /\ result = "Ok"

\* Every image of two files that check() finds nothing wrong with, and whose last
\* blocks are zero behind the files.
CleanInit ==
  /\ OpenedWith({<<OpenedEntry("eszett", 1, d, r), OpenedEntry("dd", 2, e, NoFork)>> :
                   d, r, e \in ImageForks}, BOOLEAN)
  /\ CheckIsClean /\ TailsAreZero

CleanSpec == (FreshInit \/ CleanInit) /\ [][Next]_vars

\* Images whose fork records do not agree with the map: a length without blocks.
ShortInit ==
  OpenedWith({<<OpenedEntry("a", 1, d, NoFork)>> : d \in [st : {0} \cup Blocks, len : {0, 3}, alloc : {0}]},
             {FALSE})

ShortSpec == ShortInit /\ [][Next]_vars

\* Images nobody checked: broken chains, cycles, chains two forks share (a
\* reserved entry breaks a chain as a free one does, and is left out).
AnyFork == {NoFork} \cup [st : Blocks, len : {1}, alloc : {2}]

AnyInit ==
  OpenedWith({<<OpenedEntry("a", 1, d, r), OpenedEntry("b", 2, e, NoFork)>> :
                d, r, e \in AnyFork}, {FALSE})
  /\ \A b \in Blocks : map[b] # RESERVED

\* The calls that move blocks, on the two files there are: the others leave the
\* map, the fork records and the blocks alone.
AnyNext ==
  \E n \in FileNames :
    \/ \E k \in Forks, d \in Contents : WriteFork(n, k, d, 1)
    \/ DeleteFile(n, 1)
    \/ mdb.nxt_fnum < FnumBound /\ CreateFile(n, "c1", 1)

AnySpec == AnyInit /\ [][AnyNext]_vars
=============================================================================
