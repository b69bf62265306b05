---------------------------- MODULE LifecycleProofs ----------------------------
(***************************************************************************)
(* The directory of an open volume can always be saved, and is read back   *)
(* as it was: for directories of any number of sectors, packed in any way  *)
(* that parses, entries of any lengths and calls in any order.             *)
(***************************************************************************)
EXTENDS DirectoryLifecycle, StructureProofs

\* What the volumes hold, and what the sectors may.
Entries == [name : Names]
Written == [used : BOOLEAN, e : Entries]

\* The sectors always parse, to the entries in memory when nothing was changed; these
\* always fit, since the layout they came from is no denser than the one plan finds.
Sound ==
  /\ region \in [1 .. DirLen -> Seq(Written)] /\ Parses(region)
  /\ entries \in Seq(Entries) /\ Fits(entries, DirLen)
  /\ dirDirty \in BOOLEAN
  /\ ~dirDirty => ParseDirectory(region) = entries
  /\ result.op = "save" => ParseDirectory(region) = entries

-----------------------------------------------------------------------------
\* Any entry is written, and read, in a sector.
LEMMA EveryEntryWritable ==
  /\ \A n \in Names : EntryOf(n) \in Entries
  /\ \A e \in Entries : Named(e) /\ Writable(e) /\ EntryLen(e) \in Nat
  /\ \A e \in Entries : EntryLen(e) = EntryLenFor(NameLen[e.name])
<1>1. ASSUME NEW e \in Entries PROVE Named(e) /\ Writable(e) /\ EntryLen(e) \in Nat
  <2>1. e.name \in Names
    BY DEF Entries
  <2>2. NameLen[e.name] \in Nat /\ EntryLenFor(NameLen[e.name]) <= SectorLen
    BY <2>1, LifecycleAssumption
  <2>3. Named(e)
    BY <2>2 DEF Named
  <2>4. EntryLen(e) \in Nat /\ EntryLen(e) >= FixedLen
    BY <2>3, EntryLenIs
  <2> QED BY <2>2, <2>3, <2>4, DirectoryAssumption DEF Writable, EntryLen
<1> QED BY <1>1 DEF Entries, EntryOf, EntryLen

LEMMA SlotIsWritten ==
  ASSUME NEW e \in Entries
  PROVE  Slot(e) \in Written
BY DEF Slot, Written

\* What is opened fits, whatever its layout.
LEMMA OpenedFits ==
  ASSUME region \in [1 .. DirLen -> Seq(Written)], Parses(region)
  PROVE  ParseDirectory(region) \in Seq(Entries) /\ Fits(ParseDirectory(region), DirLen)
<1>1. \A t \in Written : t.e \in Entries /\ Named(t.e)
  BY EveryEntryWritable DEF Written
<1>2. DirLen \in Nat
  BY LifecycleAssumption
<1>3. Fits(ParseDirectory(region), DirLen)
  BY <1>1, <1>2, ParsedFit
<1>4. ParseDirectory(region) \in Seq(Entries)
  BY <1>1, <1>2, ParsedAre
<1> QED BY <1>3, <1>4

LEMMA SoundInit == Init => Sound
<1> SUFFICES ASSUME Init PROVE Sound
  OBVIOUS
<1>1. region \in [1 .. DirLen -> Seq(Written)] /\ Parses(region)
  <2> DEFINE slots == {Slot(EntryOf(n)) : n \in Names}
                        \cup {[used |-> FALSE, e |-> EntryOf(CHOOSE n \in Names : TRUE)]}
             sectors == UNION {[1 .. k -> slots] : k \in 0 .. MaxEntries}
  <2>1. region \in [1 .. DirLen -> sectors] /\ Parses(region)
    BY DEF Init, Layouts
  <2>2. slots \subseteq Written
    <3>1. (CHOOSE n \in Names : TRUE) \in Names
      BY LifecycleAssumption
    <3>2. \A n \in Names : EntryOf(n) \in Entries /\ EntryOf(n) = [name |-> n]
      BY EveryEntryWritable DEF EntryOf
    <3>3. \A n \in Names : Slot(EntryOf(n)) \in Written
      BY <3>2, SlotIsWritten
    <3>4. [used |-> FALSE, e |-> EntryOf(CHOOSE n \in Names : TRUE)] \in Written
      <4> DEFINE e == EntryOf(CHOOSE n \in Names : TRUE)
      <4>1. e \in Entries
        BY <3>1, <3>2
      <4> HIDE DEF e
      <4>2. [used |-> FALSE, e |-> e] \in Written
        BY <4>1 DEF Written
      <4> QED BY <4>2 DEF e
    <3> QED BY <3>3, <3>4
  <2> HIDE DEF slots
  <2>3. sectors \subseteq Seq(Written)
    <3> SUFFICES ASSUME NEW k \in 0 .. MaxEntries, NEW s \in [1 .. k -> slots] PROVE s \in Seq(Written)
      OBVIOUS
    <3>1. k \in Nat
      OBVIOUS
    <3> QED BY <2>2, <3>1
  <2> HIDE DEF sectors
  <2> QED BY <2>1, <2>3
<1>2. entries \in Seq(Entries) /\ Fits(entries, DirLen)
  BY <1>1, OpenedFits DEF Init
<1> QED BY <1>1, <1>2 DEF Init, Sound, NoResult

\* Any other entry in the place of one.
LEMMA OtherName ==
  ASSUME entries \in Seq(Entries), NEW i \in DOMAIN entries, NEW n \in Names
  PROVE  LET es == [entries EXCEPT ![i].name = n]
         IN  /\ es \in Seq(Entries) /\ Len(es) = Len(entries)
             /\ \A j \in 1 .. Len(entries) : es[j] = IF j = i THEN EntryOf(n) ELSE entries[j]
<1> DEFINE es == [entries EXCEPT ![i].name = n]
<1>1. entries[i] \in Entries
  OBVIOUS
<1>2. [entries[i] EXCEPT !.name = n] = EntryOf(n) /\ EntryOf(n) \in Entries
  BY <1>1 DEF Entries, EntryOf
<1>3. es = [entries EXCEPT ![i] = EntryOf(n)]
  BY <1>2
<1> HIDE DEF es
<1>4. es \in Seq(Entries) /\ Len(es) = Len(entries) 
  BY <1>2, <1>3
<1>5. \A j \in 1 .. Len(entries) : es[j] = IF j = i THEN EntryOf(n) ELSE entries[j]
  BY <1>3
<1> QED BY <1>4, <1>5 DEF es

\* The longer the name, the longer the entry.
LEMMA LongerName ==
  ASSUME NEW a \in Nat, NEW b \in Nat, a <= b
  PROVE  EntryLenFor(a) <= EntryLenFor(b)
BY DirectoryAssumption DEF EntryLenFor

\* A change that is made or refused.
LEMMA ChangeSound ==
  ASSUME Sound, NEW op, op # "save", NEW es \in Seq(Entries), Change(op, es)
  PROVE  Sound'
<1>1. CASE Fits(es, DirLen)
  BY <1>1 DEF Sound, Change
<1>2. CASE ~Fits(es, DirLen)
  BY <1>2 DEF Sound, Change
<1> QED BY <1>1, <1>2

LEMMA SoundStep == Sound /\ [Next]_vars => Sound'
<1> SUFFICES ASSUME Sound, [Next]_vars PROVE Sound'
  OBVIOUS
<1>1. ASSUME NEW n \in Names, Create(n) PROVE Sound'
  <2>1. Append(entries, EntryOf(n)) \in Seq(Entries)
    BY EveryEntryWritable DEF Sound
  <2> QED BY <1>1, <2>1, ChangeSound DEF Create
<1>2. ASSUME NEW i \in DOMAIN entries, NEW n \in Names, Rename(i, n) PROVE Sound'
  <2>1. [entries EXCEPT ![i].name = n] \in Seq(Entries)
    BY OtherName DEF Sound
  <2> QED BY <1>2, <2>1, ChangeSound DEF Rename
<1>3. ASSUME NEW i \in DOMAIN entries, Delete(i) PROVE Sound'
  <2>1. entries \in Seq(Entries) /\ Fits(entries, DirLen) /\ DirLen \in Nat
    BY LifecycleAssumption DEF Sound
  <2>2. \A j \in 1 .. Len(entries) : Writable(entries[j])
    BY <2>1, EveryEntryWritable
  <2>3. Fits(RemoveAt(entries, i), DirLen)
    BY <2>1, <2>2, ThinnedFit
  <2>4. RemoveAt(entries, i) \in Seq(Entries)
    BY <2>1, RemovedEntry
  <2> QED BY <1>3, <2>3, <2>4 DEF Delete, Edit, Sound
<1>4. ASSUME SetField PROVE Sound'
  BY <1>4 DEF SetField, Edit, Sound
<1>5. ASSUME Save PROVE Sound'
  <2>1. CASE dirDirty
    <3>1. region' = WriteDirectory(entries, DirLen)
      BY <1>5, <2>1 DEF Save, Sound
    <3>2. entries \in Seq(Entries) /\ Fits(entries, DirLen) /\ DirLen \in Nat
      BY LifecycleAssumption DEF Sound
    <3>3. \A j \in 1 .. Len(entries) : Writable(entries[j])
      BY <3>2, EveryEntryWritable
    <3> DEFINE R == WriteDirectory(entries, DirLen)
    <3>4. R \in [1 .. DirLen -> Seq({Slot(e) : e \in Entries})] /\ Parses(R) /\ ParseDirectory(R) = entries
      BY <3>2, <3>3, RoundTrip
    <3> HIDE DEF R
    <3>5. R \in [1 .. DirLen -> Seq(Written)]
      <4>1. {Slot(e) : e \in Entries} \subseteq Written
        BY SlotIsWritten
      <4> DEFINE T == {Slot(e) : e \in Entries}
      <4> HIDE DEF T
      <4>2. Seq(T) \subseteq Seq(Written)
        BY <4>1 DEF T
      <4> QED BY <3>4, <4>2 DEF T
    <3>6. region' = R
      BY <3>1 DEF R
    <3> QED BY <1>5, <3>4, <3>5, <3>6 DEF Save, Sound
  <2>2. CASE ~dirDirty
    BY <1>5, <2>2 DEF Save, Sound
  <2> QED BY <2>1, <2>2
<1>6. ASSUME Reopen PROVE Sound'
  <2>1. ParseDirectory(region) \in Seq(Entries) /\ Fits(ParseDirectory(region), DirLen)
    BY OpenedFits DEF Sound
  <2> QED BY <1>6, <2>1 DEF Reopen, Sound, NoResult
<1>7. CASE UNCHANGED vars
  BY <1>7 DEF Sound, vars
<1> QED BY <1>1, <1>2, <1>3, <1>4, <1>5, <1>6, <1>7 DEF Next

-----------------------------------------------------------------------------
\* The entries a volume holds can always be packed: whatever layout was opened, a save
\* never runs out of directory (serialize, dir::fits).
THEOREM SavesAlwaysFit == Spec => []SaveAlwaysFits
<1>1. Sound => SaveAlwaysFits
  BY DEF Sound, SaveAlwaysFits
<1> QED BY <1>1, SoundInit, SoundStep, PTL DEF Spec

\* What a save writes, packed afresh or as it was, is what the next open reads
\* (write_directory, parse_directory).
THEOREM SavedIsReadBack == Spec => []SaveThenOpen
<1>1. Sound => SaveThenOpen
  BY DEF Sound, SaveThenOpen
<1> QED BY <1>1, SoundInit, SoundStep, PTL DEF Spec

\* A rename to a name no longer than the old one is never refused for want of room
\* (rename_file, dir::fits).
THEOREM ShorterNamesFit == Spec => ShorterNameFits
<1> DEFINE Short == \A i \in DOMAIN entries, n \in Names :
                      Rename(i, n) /\ NameLen[n] <= NameLen[entries[i].name] => result'.is = "Ok"
<1>1. ASSUME Sound, NEW i \in DOMAIN entries, NEW n \in Names,
             Rename(i, n), NameLen[n] <= NameLen[entries[i].name]
      PROVE  result'.is = "Ok"
  <2> DEFINE es == [entries EXCEPT ![i].name = n]
  <2>1. entries \in Seq(Entries) /\ Fits(entries, DirLen) /\ DirLen \in Nat
    BY <1>1, LifecycleAssumption DEF Sound
  <2>2. /\ es \in Seq(Entries) /\ Len(es) = Len(entries)
        /\ \A j \in 1 .. Len(entries) : es[j] = IF j = i THEN EntryOf(n) ELSE entries[j]
    BY <2>1, OtherName
  <2> HIDE DEF es
  <2>3. \A j \in 1 .. Len(entries) : Writable(entries[j]) /\ EntryLen(entries[j]) \in Nat
    BY <2>1, EveryEntryWritable
  <2>4. ASSUME NEW j \in 1 .. Len(entries)
        PROVE  EntryLen(es[j]) \in Nat /\ EntryLen(es[j]) <= EntryLen(entries[j])
    <3>1. CASE j # i
      BY <2>2, <2>3, <3>1
    <3>2. CASE j = i
      <4>1. es[j] = EntryOf(n) /\ EntryOf(n) \in Entries /\ entries[i] \in Entries
        BY <2>1, <2>2, <3>2, EveryEntryWritable
      <4>2. NameLen[n] \in Nat /\ NameLen[entries[i].name] \in Nat
        BY <4>1, LifecycleAssumption DEF Entries
      <4>3. EntryLenFor(NameLen[n]) <= EntryLenFor(NameLen[entries[i].name])
        BY <1>1, <4>2, LongerName
      <4>4. EntryLen(es[j]) = EntryLenFor(NameLen[n])
        BY <4>1 DEF EntryLen, EntryOf
      <4>5. EntryLen(entries[j]) = EntryLenFor(NameLen[entries[i].name])
        BY <3>2 DEF EntryLen
      <4>6. EntryLen(es[j]) \in Nat
        BY <4>1, EveryEntryWritable
      <4> QED BY <4>3, <4>4, <4>5, <4>6
    <3> QED BY <3>1, <3>2
  <2>5. Fits(es, DirLen)
    BY <2>1, <2>2, <2>3, <2>4, ShorterFit
  <2> QED BY <1>1, <2>5 DEF Rename, Change, es
<1>2. Sound /\ [Next]_vars => [Short]_vars
  BY <1>1
<1> QED BY <1>2, SoundInit, SoundStep, PTL DEF Spec, ShorterNameFits
=============================================================================
