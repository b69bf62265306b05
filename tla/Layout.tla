------------------------------- MODULE Layout -------------------------------
(***************************************************************************)
(* Where the parts of a volume lie in its image: what Mdb::parse,          *)
(* from_parts and BlockMap::unpack ask of an MDB before a volume is        *)
(* opened, and where block_offset (volume.rs) then looks for a block.      *)
(* Offsets and lengths are in sectors; an image may end in a part of one,  *)
(* which no check counts.                                                  *)
(***************************************************************************)
EXTENDS Integers

SECTOR      == 512
MDB_LEN     == 64
FIRST_BLOCK == 2
MDB_SECTOR  == 2    \* MDB_OFFSET: the map follows the MDB, the directory the map

CeilDiv(a, b) == (a + b - 1) \div b

\* Packed bytes of n 12-bit entries.
MapBytes(n) == CeilDiv(3 * n, 2)

\* Mdb::parse, in sums wide enough not to wrap.  A block size that is no whole
\* number of sectors is one of none here.
MdbParses(g) ==
  /\ g.per_block >= 1
  /\ g.dir_st >= MDB_SECTOR + 1 /\ g.dir_len >= 1
  /\ g.dir_st + g.dir_len <= g.al_bl_st

\* from_parts, and BlockMap::unpack of what lies before the directory.
LayoutOpens(g, sectors) ==
  /\ MdbParses(g)
  /\ g.dir_st + g.dir_len <= sectors
  /\ g.al_bl_st + g.n_blocks * g.per_block <= sectors
  /\ MDB_LEN + MapBytes(g.n_blocks) <= (g.dir_st - MDB_SECTOR) * SECTOR

BlockNumbers(g) == FIRST_BLOCK .. (g.n_blocks + FIRST_BLOCK - 1)

BlockOffset(g, b) == g.al_bl_st + (b - FIRST_BLOCK) * g.per_block

Fields == [dir_st : Nat, dir_len : Nat, al_bl_st : Nat, n_blocks : Nat, per_block : Nat]

-----------------------------------------------------------------------------
\* Of an image that was opened, whoever wrote it, every block the map can name lies
\* in the image, behind the directory, and apart from every other: neither reading
\* nor writing one leaves the buffer, or touches what serialize writes.
BlocksApart(g, sectors) ==
  \A b \in BlockNumbers(g) :
    /\ g.dir_st + g.dir_len <= BlockOffset(g, b)
    /\ BlockOffset(g, b) + g.per_block <= sectors
    /\ \A c \in BlockNumbers(g) : b < c => BlockOffset(g, b) + g.per_block <= BlockOffset(g, c)
=============================================================================
