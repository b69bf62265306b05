----------------------------- MODULE Directory -----------------------------
(***************************************************************************)
(* The file directory region of src/dir.rs: a run of sectors, each holding *)
(* entries of varying length one after the other, none across a sector     *)
(* boundary.  An entry's length depends on its name only, so a sector is   *)
(* the sequence of the entries written in it: a slot says whether the      *)
(* in-use bit of its flags byte is set, and which entry it holds.          *)
(***************************************************************************)
EXTENDS Integers, Sequences, FiniteSets, SequencesExt

CONSTANTS SectorLen,   \* SECTOR, 512 in the source
          FixedLen,    \* FIXED_LEN, 51 in the source
          NameLen      \* length in bytes of each name

ASSUME DirectoryAssumption == SectorLen \in Nat /\ FixedLen \in Nat /\ FixedLen < SectorLen

\* Rounded up to an even number of bytes: (FIXED_LEN + name_len + 1) & !1.
EntryLenFor(n) == 2 * ((FixedLen + n + 1) \div 2)

EntryLen(e) == EntryLenFor(NameLen[e.name])

-----------------------------------------------------------------------------
\* Mutant: only the fixed part of an entry is kept off the sector boundary.
FixedPlaced(at, e) ==
  LET overruns == at.off + FixedLen > SectorLen
  IN  [sector |-> IF overruns THEN at.sector + 1 ELSE at.sector,
       off    |-> (IF overruns THEN 0 ELSE at.off) + EntryLen(e)]

\* plan: each entry goes behind the previous one, or at the head of the next
\* sector when it would overrun this one.  An earlier sector is never revisited.
Placed(at, e) ==
  LET overruns == at.off + EntryLen(e) > SectorLen
  IN  [sector |-> IF overruns THEN at.sector + 1 ELSE at.sector,
       off    |-> (IF overruns THEN 0 ELSE at.off) + EntryLen(e)]

\* Where plan is after each entry: in which sector, and behind which byte of it.
Plan(es) ==
  LET at[i \in 0 .. Len(es)] ==
        IF i = 0 THEN [sector |-> 1, off |-> 0] ELSE Placed(at[i - 1], es[i])
  IN  at

\* The sector only grows, so the last entry's says whether any lies too far.
Fits(es, nSectors) == es = <<>> \/ Plan(es)[Len(es)].sector <= nSectors

\* write_directory, of entries that fit: every entry is written in use.
Slot(e) == [used |-> TRUE, e |-> e]

SlotsOf(es, s) ==
  LET In == {i \in DOMAIN es : Plan(es)[i].sector = s}
  IN  [j \in 1 .. Cardinality(In) |->
         Slot(es[CHOOSE i \in In : Cardinality({h \in In : h <= i}) = j])]

WriteDirectory(es, nSectors) == [s \in 1 .. nSectors |-> SlotsOf(es, s)]

-----------------------------------------------------------------------------
\* parse_directory reads a sector up to the first slot that is not in use, or
\* that could not hold even the fixed part of an entry.  Where each slot ends:
Ends(sector) ==
  LET end[i \in 0 .. Len(sector)] == IF i = 0 THEN 0 ELSE end[i - 1] + EntryLen(sector[i].e)
  IN  end

Offset(sector, i) == Ends(sector)[i - 1]

Reachable(sector, i) ==
  \A h \in 1 .. i : sector[h].used /\ Offset(sector, h) + FixedLen <= SectorLen

\* "directory entry overruns sector": the error the whole parse stops with.
Overruns(sector) ==
  \E i \in DOMAIN sector :
    Reachable(sector, i) /\ Offset(sector, i) + EntryLen(sector[i].e) > SectorLen

Parses(region) == \A s \in DOMAIN region : ~Overruns(region[s])

\* The slots read, a sector after the other and from the head of each.
SlotsRead(region) ==
  {p \in UNION {{s} \X DOMAIN region[s] : s \in DOMAIN region} : Reachable(region[p[1]], p[2])}

UpTo(p, q) == p[1] < q[1] \/ (p[1] = q[1] /\ p[2] <= q[2])

Turn(read, p) == Cardinality({q \in read : UpTo(q, p)})

ParseDirectory(region) ==
  LET read == SlotsRead(region)
  IN  [j \in 1 .. Cardinality(read) |->
         LET p == CHOOSE p \in read : Turn(read, p) = j IN region[p[1]][p[2]].e]
=============================================================================
