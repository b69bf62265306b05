------------------------------ MODULE BlockMap ------------------------------
(***************************************************************************)
(* The allocation block map of src/blockmap.rs.  Allocation blocks are     *)
(* numbered from 2; the entry of a block is free, the last of a chain,     *)
(* reserved, or the number of the next block of the chain.  The source     *)
(* stores 12-bit entries (EntryMod = 4096): EntryMod is a constant so that *)
(* a small map can reach the edge of the entry width.                      *)
(*                                                                         *)
(* The walks of the source are loops.  Here each is given by what it       *)
(* computes, without recursion, so that it can be reasoned about;          *)
(* BlockMapLoops runs the loops themselves and compares the two.           *)
(***************************************************************************)
EXTENDS Integers, FiniteSets

CONSTANTS NBlocks,    \* drNmAlBlks, the number of allocation blocks
          EntryMod    \* number of values of a map entry (4096 in the source)

ASSUME BlockMapAssumption == NBlocks \in Nat /\ EntryMod \in Nat /\ EntryMod > 3

FREE        == 0
LAST        == 1
RESERVED    == EntryMod - 1
FIRST_BLOCK == 2

Blocks  == FIRST_BLOCK .. (FIRST_BLOCK + NBlocks - 1)
Entry   == 0 .. (EntryMod - 1)
MapType == [Blocks -> Entry]

InRange(b) == b \in Blocks

\* What mkfs guarantees of the volumes it formats (MAX_BLOCKS), and Mdb::parse
\* does not check of an image: every block number is a link a map entry can hold.
Addressable == FIRST_BLOCK + NBlocks - 1 < RESERVED

NewEmpty == [b \in Blocks |-> FREE]

\* Mutant: the last block of a chain passes for a free one.
LooseFreeBlocks(m) == {b \in Blocks : m[b] <= LAST}

FreeBlocks(m) == {b \in Blocks : m[b] = FREE}

FreeCount(m) == Cardinality(FreeBlocks(m))

\* BlockMap::set keeps only the bits an entry has room for.
Masked(v) == v % EntryMod

-----------------------------------------------------------------------------
(***************************************************************************)
(* chain(start).  The walk moves on from a block whose entry is neither    *)
(* free, last nor reserved to the block the entry names.  The blocks it    *)
(* visits are the least set that holds start and is closed under moving    *)
(* on; the walk succeeds exactly when one of them is marked last.          *)
(***************************************************************************)
MovesOn(m, b) == m[b] \notin {FREE, LAST, RESERVED} /\ InRange(m[b])

ClosedUnder(m, R) == \A b \in R : MovesOn(m, b) => m[b] \in R

Visited(m, start) ==
  LET closed == {R \in SUBSET Blocks : start \in R /\ ClosedUnder(m, R)}
  IN  {b \in Blocks : \A R \in closed : b \in R}

ChainOk(m, start) == InRange(start) /\ \E b \in Visited(m, start) : m[b] = LAST

ChainLen(m, start) == Cardinality(Visited(m, start))

\* The blocks in the order the walk meets them: the i-th is the one from which
\* all but i - 1 of them are still to be visited.
ChainSeq(m, start) ==
  LET all  == Visited(m, start)
      left == [b \in all |-> ChainLen(m, b)]
  IN  [i \in 1 .. Cardinality(all) |->
         CHOOSE b \in all : left[b] = Cardinality(all) - i + 1]

\* free_chain(start) of a chain that walks to its end.
FreeChain(m, start) ==
  [b \in Blocks |-> IF b \in Visited(m, start) THEN FREE ELSE m[b]]

-----------------------------------------------------------------------------
(***************************************************************************)
(* allocate(n): the n lowest free blocks, each linked to the next one and  *)
(* the highest marked last.                                                *)
(***************************************************************************)
Lowest(S, n) ==
  CHOOSE T \in SUBSET S : Cardinality(T) = n /\ \A b \in T, c \in S \ T : b < c

After(S, b) == {c \in S : c > b}

Least(S) == CHOOSE b \in S : \A c \in S : b <= c

Linked(m, S) ==
  [b \in Blocks |-> IF b \notin S         THEN m[b]
                    ELSE IF After(S, b) = {} THEN LAST
                    ELSE Masked(Least(After(S, b)))]

Allotted(m, n)  == Lowest(FreeBlocks(m), n)
Allocate(m, n)  == Linked(m, Allotted(m, n))
FirstOf(S)      == IF S = {} THEN 0 ELSE Least(S)
PlaceOf(S, b)   == Cardinality({c \in S : c <= b})
=============================================================================
