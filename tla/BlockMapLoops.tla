--------------------------- MODULE BlockMapLoops ---------------------------
(***************************************************************************)
(* The loops of BlockMap::chain, free_chain, allocate and pack             *)
(* (blockmap.rs), one action per branch of an iteration, run once on an    *)
(* arbitrary map: any map an image can hold, corrupt ones included.  The   *)
(* properties compare what the loops leave behind with the operators of    *)
(* BlockMap, which is what the volume is specified and proved with; pack   *)
(* is compared with unpack.                                                *)
(***************************************************************************)
EXTENDS BlockMap, MapCodec, Sequences

CONSTANT Fillings    \* what pack may find in the image, three bytes at a time

ASSUME BlockMapLoopsAssumption ==
  /\ EntryMod <= Nibbles * Nibbles * Nibbles
  /\ Fillings \subseteq [0 .. 2 -> Octet]

VARIABLES map,      \* self.entries
          before,   \* the map the call found
          op,       \* the call under way
          arg,      \* its argument: a start block, or a number of blocks
          pc,       \* the loop it is in
          cur,      \* chain: the block the walk is at; the scans: the index
          out,      \* chain: out; allocate: blocks
          was, raw, \* pack: the bytes of the image as they were, and as they are
          res       \* what the call returned

vars == <<map, before, op, arg, pc, cur, out, was, raw, res>>

Init ==
  /\ map \in MapType
  /\ before = map
  /\ op = "none" /\ arg = 0 /\ pc = "call" /\ cur = 0 /\ out = <<>> /\ res = "none"
  /\ was = <<>> /\ raw = <<>>

Return(r) == pc' = "done" /\ res' = r

-----------------------------------------------------------------------------
\* A start block comes from a directory entry: any number, in range or not.
CallWalk(o, start) ==
  /\ pc = "call" /\ pc' = "walk"
  /\ op' = o /\ arg' = start /\ cur' = start
  /\ UNCHANGED <<map, before, out, res, was, raw>>

WalkBreaks ==
  /\ pc = "walk"
  /\ InRange(cur) => map[cur] \in {FREE, RESERVED}
  /\ Return("CorruptVolume")
  /\ UNCHANGED <<map, before, op, arg, cur, out, was, raw>>

AtChainBlock == pc = "walk" /\ InRange(cur) /\ map[cur] \notin {FREE, RESERVED}

\* Mutant: off by one, a chain of every block of the map is taken for a cycle.
EarlyWalkCycles ==
  /\ AtChainBlock
  /\ Len(out) + 1 >= NBlocks
  /\ out' = Append(out, cur)
  /\ Return("CorruptVolume")
  /\ UNCHANGED <<map, before, op, arg, cur, was, raw>>

\* out.push(cur) comes before the two tests, and the cycle test before LAST.
WalkCycles ==
  /\ AtChainBlock
  /\ Len(out) + 1 > NBlocks
  /\ out' = Append(out, cur)
  /\ Return("CorruptVolume")
  /\ UNCHANGED <<map, before, op, arg, cur, was, raw>>

WalkEnds ==
  /\ AtChainBlock
  /\ Len(out) + 1 <= NBlocks
  /\ map[cur] = LAST
  /\ out' = Append(out, cur)
  /\ IF op = "free_chain" THEN pc' = "free" /\ UNCHANGED res ELSE Return("Ok")
  /\ cur' = 1
  /\ UNCHANGED <<map, before, op, arg, was, raw>>

\* Mutants: the walk is bounded one block too late; it counts distinct blocks
\* only; it frees blocks as it goes.
LateWalkMovesOn ==
  /\ AtChainBlock
  /\ Len(out) <= NBlocks
  /\ map[cur] # LAST
  /\ out' = Append(out, cur)
  /\ cur' = map[cur]
  /\ UNCHANGED <<map, before, op, arg, pc, res, was, raw>>

DistinctWalkMovesOn ==
  /\ AtChainBlock
  /\ Len(out) + 1 <= NBlocks
  /\ map[cur] # LAST
  /\ out' = IF \E i \in DOMAIN out : out[i] = cur THEN out ELSE Append(out, cur)
  /\ cur' = map[cur]
  /\ UNCHANGED <<map, before, op, arg, pc, res, was, raw>>

FreeingWalkMovesOn ==
  /\ AtChainBlock
  /\ Len(out) + 1 <= NBlocks
  /\ map[cur] # LAST
  /\ out' = Append(out, cur)
  /\ cur' = map[cur]
  /\ map' = IF op = "free_chain" THEN [map EXCEPT ![cur] = FREE] ELSE map
  /\ UNCHANGED <<before, op, arg, pc, res, was, raw>>

WalkMovesOn ==
  /\ AtChainBlock
  /\ Len(out) + 1 <= NBlocks
  /\ map[cur] # LAST
  /\ out' = Append(out, cur)
  /\ cur' = map[cur]
  /\ UNCHANGED <<map, before, op, arg, pc, res, was, raw>>

FreeNext ==
  /\ pc = "free" /\ cur <= Len(out)
  /\ map' = [map EXCEPT ![out[cur]] = Masked(FREE)]
  /\ cur' = cur + 1
  /\ UNCHANGED <<before, op, arg, pc, out, res, was, raw>>

FreeDone ==
  /\ pc = "free" /\ cur > Len(out)
  /\ Return("Ok")
  /\ UNCHANGED <<map, before, op, arg, cur, out, was, raw>>

-----------------------------------------------------------------------------
CallAllocate(n) ==
  /\ pc = "call"
  /\ op' = "allocate" /\ arg' = n
  /\ cur' = FIRST_BLOCK
  /\ IF n = 0 THEN Return("Ok")
     ELSE IF FreeCount(map) < n THEN Return("VolumeFull")
     ELSE pc' = "scan" /\ UNCHANGED res
  /\ UNCHANGED <<map, before, out, was, raw>>

\* Mutant: the last block of a chain passes for a free one.
LooseScanNext ==
  /\ pc = "scan"
  /\ out' = IF map[cur] <= LAST THEN Append(out, cur) ELSE out
  /\ IF Len(out') = arg THEN pc' = "link" /\ cur' = 1
                        ELSE pc' = pc /\ cur' = cur + 1
  /\ UNCHANGED <<map, before, op, arg, res, was, raw>>

ScanNext ==
  /\ pc = "scan"
  /\ out' = IF map[cur] = FREE THEN Append(out, cur) ELSE out
  /\ IF Len(out') = arg THEN pc' = "link" /\ cur' = 1
                        ELSE pc' = pc /\ cur' = cur + 1
  /\ UNCHANGED <<map, before, op, arg, res, was, raw>>

\* Mutant: off by one, the last block but one is marked last.
CutLinkNext ==
  /\ pc = "link" /\ cur <= Len(out)
  /\ map' = [map EXCEPT ![out[cur]] =
               Masked(IF cur + 1 < Len(out) THEN out[cur + 1] ELSE LAST)]
  /\ cur' = cur + 1
  /\ UNCHANGED <<before, op, arg, pc, out, res, was, raw>>

LinkNext ==
  /\ pc = "link" /\ cur <= Len(out)
  /\ map' = [map EXCEPT ![out[cur]] =
               Masked(IF cur + 1 <= Len(out) THEN out[cur + 1] ELSE LAST)]
  /\ cur' = cur + 1
  /\ UNCHANGED <<before, op, arg, pc, out, res, was, raw>>

LinkDone ==
  /\ pc = "link" /\ cur > Len(out)
  /\ Return("Ok")
  /\ UNCHANGED <<map, before, op, arg, cur, out, was, raw>>

-----------------------------------------------------------------------------
Index   == 0 .. (NBlocks - 1)
Offsets == 0 .. (PackedLen(NBlocks) - 1)

\* pack is handed the bytes of the image the map takes, with whatever is in them:
\* here the same three over and over.
CallPack(filling) ==
  /\ pc = "call" /\ pc' = "pack"
  /\ op' = "pack" /\ cur' = 0
  /\ was' = [k \in Offsets |-> filling[k % 3]] /\ raw' = was'
  /\ UNCHANGED <<map, before, arg, out, res>>

PackNext ==
  /\ pc = "pack" /\ cur < NBlocks
  /\ raw' = Packed(raw, cur, map[cur + FIRST_BLOCK])
  /\ cur' = cur + 1
  /\ UNCHANGED <<map, before, op, arg, pc, out, was, res>>

PackDone ==
  /\ pc = "pack" /\ cur = NBlocks
  /\ Return("Ok")
  /\ UNCHANGED <<map, before, op, arg, cur, out, was, raw>>

\* The call has returned.
Returned == pc = "done" /\ UNCHANGED vars

Next ==
  \/ \E o \in {"chain", "free_chain"}, start \in Entry : CallWalk(o, start)
  \/ \E n \in 0 .. (NBlocks + 1) : CallAllocate(n)
  \/ \E filling \in Fillings : CallPack(filling)
  \/ WalkBreaks \/ WalkCycles \/ WalkEnds \/ WalkMovesOn
  \/ FreeNext \/ FreeDone
  \/ ScanNext \/ LinkNext \/ LinkDone
  \/ PackNext \/ PackDone
  \/ Returned

\* A call runs to its end: the code is sequential and never blocks.
Spec == Init /\ [][Next]_vars /\ WF_vars(Next)

-----------------------------------------------------------------------------
TypeOK ==
  /\ map \in MapType /\ before \in MapType
  /\ op \in {"none", "chain", "free_chain", "allocate", "pack"}
  /\ pc \in {"call", "walk", "free", "scan", "link", "pack", "done"}
  /\ out \in Seq(Blocks) /\ Len(out) <= NBlocks + 1
  /\ op = "pack" => was \in [Offsets -> Octet] /\ raw \in [Offsets -> Octet]
  /\ res \in {"none", "Ok", "CorruptVolume", "VolumeFull"}

Done(o) == pc = "done" /\ op = o

\* A walk over any map, cycles and stray links included, returns the blocks of
\* the chain in order when the chain ends, and an error when it does not.
WalkIsChain ==
  Done("chain") => /\ (res = "Ok") <=> ChainOk(before, arg)
                   /\ res = "Ok" => out = ChainSeq(before, arg)
                   /\ map = before

\* free_chain frees exactly the blocks of a chain, or touches nothing: a chain
\* that breaks half way leaves no block freed (doc of free_chain).
FreeIsAllOrNothing ==
  Done("free_chain") =>
    map = IF ChainOk(before, arg) THEN FreeChain(before, arg) ELSE before

\* allocate either leaves the map untouched for want of blocks, or takes the
\* lowest free blocks and no other (doc of allocate).
AllocateIsFirstFit ==
  Done("allocate") =>
    map = IF FreeCount(before) < arg THEN before ELSE Allocate(before, arg)

\* "Each one's map entry points at the next, and the final entry is LAST": what
\* the documentation of allocate says of the blocks it returns, whatever their
\* numbers are (allocate, set).
BlocksAreLinked ==
  Done("allocate") /\ res = "Ok" =>
    \A i \in 1 .. Len(out) : map[out[i]] = IF i < Len(out) THEN out[i + 1] ELSE LAST

\* The blocks allocate returns are the chain a later walk from the first of them
\* meets (allocate, chain).
AllocatedChainWalks ==
  Done("allocate") /\ res = "Ok" /\ arg > 0 =>
    ChainOk(map, out[1]) /\ ChainSeq(map, out[1]) = out

\* pack is the inverse of unpack, at every round: the entries packed so far read
\* back, and no entry yet to come has been disturbed.
PackedSoFar ==
  op = "pack" =>
    \A i \in Index : Unpacked(raw, i) = IF i < cur THEN map[i + FIRST_BLOCK] ELSE Unpacked(was, i)

\* What an untouched map is packed into are the very bytes it was unpacked from,
\* and whatever the map is, the nibble behind an odd last entry is what it was.
ForeignBitsKept ==
  op = "pack" =>
    /\ NBlocks % 2 = 1 => Low(raw[PackedLen(NBlocks) - 1]) = Low(was[PackedLen(NBlocks) - 1])
    /\ (\A i \in Index : map[i + FIRST_BLOCK] = Unpacked(was, i)) => raw = was

\* Every call returns: the cycle test ends the walk of a cyclic chain, and a
\* scan finds its n blocks before it runs off the map.
EveryCallReturns == <>(pc = "done")
=============================================================================
