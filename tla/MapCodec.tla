------------------------------ MODULE MapCodec ------------------------------
(***************************************************************************)
(* BlockMap::pack and unpack (blockmap.rs): map entries of three nibbles,  *)
(* two packed into every three bytes of the sector buffer.  pack runs on   *)
(* the bytes the image had, one entry after the other, and must leave the  *)
(* nibble behind an odd last entry alone: some disks keep data there.      *)
(* The source's nibbles have 4 bits (Nibbles = 16); smaller ones let TLC   *)
(* go through every buffer.  BlockMapLoops runs the loop of pack.          *)
(***************************************************************************)
EXTENDS Integers

CONSTANT Nibbles    \* values of a nibble

ASSUME MapCodecAssumption == Nibbles \in Nat /\ Nibbles > 1

Octet == 0 .. (Nibbles * Nibbles - 1)

\* Bytes n entries take.
PackedLen(n) == (3 * n + 1) \div 2

High(b) == b \div Nibbles
Low(b)  == b % Nibbles

Even(i)  == i % 2 = 0
Place(i) == (i \div 2) * 3

\* One round of unpack: the i-th entry, from 0.
Unpacked(raw, i) ==
  IF Even(i) THEN raw[Place(i)] * Nibbles + High(raw[Place(i) + 1])
  ELSE Low(raw[Place(i) + 1]) * Nibbles * Nibbles + raw[Place(i) + 2]

\* Mutants of pack's body: the nibble that is not the entry's own is zeroed, in
\* the byte two entries share, or behind an even last entry.
ClobberingPacked(raw, i, v) ==
  IF Even(i)
  THEN [raw EXCEPT ![Place(i)] = High(v), ![Place(i) + 1] = Low(v) * Nibbles + Low(@)]
  ELSE [raw EXCEPT ![Place(i) + 1] = v \div (Nibbles * Nibbles),
                   ![Place(i) + 2] = v % (Nibbles * Nibbles)]

ZeroingPacked(raw, i, v) ==
  IF Even(i)
  THEN [raw EXCEPT ![Place(i)] = High(v), ![Place(i) + 1] = Low(v) * Nibbles]
  ELSE [raw EXCEPT ![Place(i) + 1] = High(@) * Nibbles + v \div (Nibbles * Nibbles),
                   ![Place(i) + 2] = v % (Nibbles * Nibbles)]

\* One round of pack: the i-th entry, from 0, is v.
Packed(raw, i, v) ==
  IF Even(i)
  THEN [raw EXCEPT ![Place(i)] = High(v), ![Place(i) + 1] = Low(v) * Nibbles + Low(@)]
  ELSE [raw EXCEPT ![Place(i) + 1] = High(@) * Nibbles + v \div (Nibbles * Nibbles),
                   ![Place(i) + 2] = v % (Nibbles * Nibbles)]
=============================================================================
