-------------------------------- MODULE Mkfs --------------------------------
(***************************************************************************)
(* Formatting a volume (mkfs.rs): the layout geometry() computes from the  *)
(* size of the disk, the 16-bit fields it is stored in, and the checks     *)
(* (module Layout) made when format() opens the image it has just written. *)
(* Offsets and lengths are in sectors, and the numbers are those of the    *)
(* source: the run goes over sizes, not over a scaled-down disk.           *)
(***************************************************************************)
EXTENDS Layout

CONSTANTS Sizes,     \* sizes in sectors callers ask for: less than 2^32 bytes
          WordMod    \* 2^16 in the source: the width of drDirSt, drDirLen, drAlBlSt, drNmAlBlks

MIN_SECTORS           == 200
MAX_BLOCKS            == 4078
RESERVED_TAIL_SECTORS == 2
TARGET_BLOCKS         == 400
DIR_SECTORS_PER_400K  == 12
FLOPPIES              == {800, 1600}

\* As many as 32 bits of bytes hold.
MaxSectors == 8388607

ASSUME MkfsAssumption == Sizes \subseteq 0 .. MaxSectors /\ WordMod \in Nat /\ WordMod > MAX_BLOCKS

VARIABLES sectors,   \* the size asked for
          whole,     \* whether it is a multiple of the sector size
          kind,      \* the container asked for
          pc,
          nBlocks, dirSt, alBlSt,   \* n_blocks, dir_st and al_bl_st of geometry()
          geo,       \* the Geometry, its fields cast to u16
          res        \* what format() returned

vars == <<sectors, whole, kind, pc, nBlocks, dirSt, alBlSt, geo, res>>

NoGeometry == [dir_st |-> 0, dir_len |-> 0, al_bl_st |-> 0, n_blocks |-> 0, per_block |-> 1]

Larger(a, b)   == IF a > b THEN a ELSE b
Smaller(a, b)  == IF a < b THEN a ELSE b

\* next_power_of_two, of numbers as large as they come here.
PowersOf2       == {1, 2, 4, 8, 16, 32, 64, 128, 256, 512, 1024, 2048, 4096, 8192, 16384, 32768}
NextFrom(p, n)  == p >= n /\ (p \div 2 < n \/ p = 1)
PowerOf2From(n) == CHOOSE p \in PowersOf2 : NextFrom(p, n)

\* Mutant: the reserved tail is not left out.
WholeUsable == sectors

Usable   == sectors - RESERVED_TAIL_SECTORS
PerBlock == Larger(PowerOf2From(sectors \div TARGET_BLOCKS), 2)
NominalDirLen == Larger((sectors * DIR_SECTORS_PER_400K) \div 800, 1)

MdbSectors(n) == CeilDiv(MDB_LEN + MapBytes(n), SECTOR)

Init ==
  /\ sectors \in Sizes /\ whole \in BOOLEAN /\ kind \in {"raw", "dc42"}
  /\ pc = "start"
  /\ nBlocks = 0 /\ dirSt = 0 /\ alBlSt = 0
  /\ geo = NoGeometry /\ res = "none"

Return(r) == pc' = "done" /\ res' = r

Refused == ~whole \/ sectors < MIN_SECTORS \/ (kind = "dc42" /\ sectors \notin FLOPPIES)

\* Mutant: no more blocks than the rule of thumb says.
CappedStart ==
  /\ pc = "start"
  /\ IF Refused THEN Return("InvalidGeometry") /\ UNCHANGED nBlocks
     ELSE /\ pc' = "round" /\ nBlocks' = Smaller(Usable \div PerBlock, TARGET_BLOCKS)
          /\ UNCHANGED res
  /\ UNCHANGED <<sectors, whole, kind, dirSt, alBlSt, geo>>

Start ==
  /\ pc = "start"
  /\ IF Refused THEN Return("InvalidGeometry") /\ UNCHANGED nBlocks
     ELSE /\ pc' = "round" /\ nBlocks' = Usable \div PerBlock
          /\ UNCHANGED res
  /\ UNCHANGED <<sectors, whole, kind, dirSt, alBlSt, geo>>

\* Mutant: the loop goes on while the count changes, up or down.
RestlessRound ==
  /\ pc = "round"
  /\ dirSt' = 2 + MdbSectors(nBlocks)
  /\ alBlSt' = dirSt' + NominalDirLen
  /\ LET next == (Usable - alBlSt') \div PerBlock
     IN  /\ pc' = IF next = nBlocks THEN "settle" ELSE "round"
         /\ nBlocks' = next
  /\ UNCHANGED <<sectors, whole, kind, geo, res>>

\* One round: where the allocation area starts given the map's size, and how
\* many blocks then fit.
Round ==
  /\ pc = "round"
  /\ dirSt' = 2 + MdbSectors(nBlocks)
  /\ alBlSt' = dirSt' + NominalDirLen
  /\ IF alBlSt' + PerBlock > Usable
     THEN Return("InvalidGeometry") /\ UNCHANGED nBlocks
     ELSE LET next == (Usable - alBlSt') \div PerBlock
          IN  /\ pc' = IF next >= nBlocks THEN "settle" ELSE "round"
              /\ nBlocks' = Smaller(nBlocks, next)
              /\ UNCHANGED res
  /\ UNCHANGED <<sectors, whole, kind, geo>>

\* Mutant: the sectors no block can use are left where they are.
NoSlack == 0

\* The sectors no block can use, handed to the directory; then `as u16`.
Slack == Usable - (alBlSt + nBlocks * PerBlock)

Geometry ==
  [dir_st |-> dirSt % WordMod, dir_len |-> (NominalDirLen + Slack) % WordMod,
   al_bl_st |-> (alBlSt + Slack) % WordMod, n_blocks |-> nBlocks % WordMod,
   per_block |-> PerBlock]

\* Mutant: the directory grows, and the allocation area stays where it was.
StuckSettle ==
  /\ pc = "settle"
  /\ geo' = [Geometry EXCEPT !.al_bl_st = alBlSt % WordMod] /\ pc' = "open"
  /\ UNCHANGED <<sectors, whole, kind, nBlocks, dirSt, alBlSt, res>>

Settle ==
  /\ pc = "settle"
  /\ IF nBlocks = 0 \/ nBlocks > MAX_BLOCKS
     THEN Return("InvalidGeometry") /\ UNCHANGED geo
     ELSE geo' = Geometry /\ pc' = "open" /\ UNCHANGED res
  /\ UNCHANGED <<sectors, whole, kind, nBlocks, dirSt, alBlSt>>

\* format() opens what it wrote, as any image is opened.
Open ==
  /\ pc = "open"
  /\ Return(IF LayoutOpens(geo, sectors) THEN "Ok" ELSE "CorruptVolume")
  /\ UNCHANGED <<sectors, whole, kind, nBlocks, dirSt, alBlSt, geo>>

Returned == pc = "done" /\ UNCHANGED vars

Next == Start \/ Round \/ Settle \/ Open \/ Returned

\* format() is sequential and never blocks.
Spec == Init /\ [][Next]_vars /\ WF_vars(Next)

-----------------------------------------------------------------------------
\* A formatted disk's parts follow each other without overlap, the reserved tail
\* stays out of the allocation area, and every block is a link an entry can hold.
LayoutSound ==
  res = "Ok" =>
    /\ MDB_LEN + MapBytes(geo.n_blocks) <= (geo.dir_st - 2) * SECTOR
    /\ geo.dir_st + geo.dir_len <= geo.al_bl_st
    /\ geo.al_bl_st + geo.n_blocks * geo.per_block <= sectors - RESERVED_TAIL_SECTORS
    /\ geo.n_blocks \in 1 .. MAX_BLOCKS

\* Rule 3: what the blocks leave over goes to the directory: as long as sector
\* numbers fit 16 bits, nothing is stranded before the reserved tail.  It is so of
\* the 800K floppy too, of which tests/roundtrip.rs says there is slack.
NothingStranded ==
  res = "Ok" /\ alBlSt + Slack < WordMod =>
    /\ geo.dir_st + geo.dir_len = geo.al_bl_st
    /\ geo.al_bl_st + geo.n_blocks * geo.per_block = Usable

\* As long as sector numbers fit 16 bits, a size is either refused for its
\* geometry or formatted to a volume that opens.
FormattedOpens == res = "CorruptVolume" => alBlSt + Slack >= WordMod

\* The circular computation comes within one block of the most that fit.
NearlyAllBlocks ==
  res = "Ok" =>
    2 + MdbSectors(nBlocks + 2) + NominalDirLen + (nBlocks + 2) * PerBlock > Usable

\* "The block count only ever shrinks, so this converges": format returns.
FormatReturns == <>(pc = "done")
=============================================================================
