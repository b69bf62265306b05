---------------------------- MODULE CommandProofs ----------------------------
(***************************************************************************)
(* Programs that use the library on one image file, any number of them,    *)
(* whatever they do and wherever they stop: what they open is whole, what  *)
(* they reported stays, and only a save that was cut breaks an image.      *)
(***************************************************************************)
EXTENDS MfsCommands, SequenceTheorems, TLAPS

Places  == 1 .. 6
Tags    == Commands \cup {"none", "made"}
VolType == [PartSet -> Seq(Tags)]
CellSet == {Zeros} \cup {Header(v) : v \in VolType} \cup {Cell(v, i) : v \in VolType, i \in Places}

-----------------------------------------------------------------------------
(***************************************************************************)
(* Images and what they open as, for either container k.                   *)
(***************************************************************************)
Off(k)               == IF k = "raw" THEN 0 ELSE 1
PartIn(k, i, cells)  == IF Off(k) + i <= Len(cells) THEN cells[Off(k) + i].by ELSE <<>>
OpensIn(k, cells)    == cells # NoFile /\ IF k = "raw" THEN RawOpens(cells) ELSE Dc42Opens(cells)

\* The parts are six, each in a place of its own; the tail is the last.
LEMMA PartPlaces ==
  /\ DOMAIN Parts = Places /\ PartSet = {Parts[i] : i \in Places}
  /\ \A i, j \in Places : Parts[i] = Parts[j] => i = j
  /\ Parts[6] = "tail" /\ "tail" \in PartSet
  /\ \A i \in 1 .. 5 : Parts[i] # "tail"
<1>1. /\ DOMAIN Parts = Places
      /\ \A i, j \in Places : Parts[i] = Parts[j] => i = j
      /\ Parts[6] = "tail"
      /\ \A i \in 1 .. 5 : Parts[i] # "tail"
  BY DEF Parts, Places
<1>2. PartSet = {Parts[i] : i \in Places}
  BY <1>1 DEF PartSet, ToSet
<1> QED BY <1>1, <1>2 DEF Places

\* What opening reads, in terms of the container.
LEMMA OpenedIs ==
  ASSUME NEW cells
  PROVE  /\ Opens(cells) <=> OpensIn(container, cells)
         /\ \A i \in Places : PartAt(i, cells) = PartIn(container, i, cells)
         /\ Opened(cells) = [x \in PartSet |-> Opened(cells)[x]]
         /\ \A i \in Places : Opened(cells)[Parts[i]] = PartIn(container, i, cells)
<1>1. ASSUME NEW i \in Places PROVE PartAt(i, cells) = PartIn(container, i, cells)
  BY DEF PartAt, PartIn, Off, Places
<1>2. ASSUME NEW i \in Places PROVE Opened(cells)[Parts[i]] = PartIn(container, i, cells)
  <2>1. Parts[i] \in PartSet
    BY PartPlaces
  <2>2. (CHOOSE j \in DOMAIN Parts : Parts[j] = Parts[i]) = i
    BY PartPlaces
  <2> QED BY <1>1, <2>1, <2>2 DEF Opened
<1> QED BY <1>1, <1>2 DEF Opens, OpensIn, Opened

\* The cells of an image: the header of a DiskCopy file, then the parts in order,
\* the tail only where there is one.
LEMMA ImageShape ==
  ASSUME NEW k \in {"raw", "dc42"}, NEW v \in VolType
  PROVE  /\ ImageIn(k, v) \in Seq(CellSet)
         /\ Len(ImageIn(k, v)) = Off(k) + (IF v["tail"] = <<>> THEN 5 ELSE 6)
         /\ \A i \in 1 .. (IF v["tail"] = <<>> THEN 5 ELSE 6) : ImageIn(k, v)[Off(k) + i] = Cell(v, i)
         /\ k = "dc42" => ImageIn(k, v)[1] = Header(v)
<1> DEFINE n == IF v["tail"] = <<>> THEN 5 ELSE 6
<1>1. /\ Data(v) = [i \in 1 .. n |-> Cell(v, i)] /\ n \in Nat /\ n <= 6
  BY DEF Data
<1>2. \A i \in 1 .. n : Cell(v, i) \in CellSet
  BY DEF CellSet, Places
<1> HIDE DEF n
<1>3. Data(v) \in Seq(CellSet) /\ Len(Data(v)) = n
  <2>1. Data(v) \in [1 .. n -> CellSet]
    BY <1>1, <1>2
  <2> QED BY <1>1, <2>1, SeqDef
<1>4. Header(v) \in CellSet
  BY DEF CellSet
<1>5. CASE k = "raw"
  BY <1>1, <1>3, <1>5 DEF ImageIn, Off, n
<1>6. CASE k = "dc42"
  <2>1. ImageIn(k, v) = <<Header(v)>> \o Data(v)
    BY <1>6 DEF ImageIn
  <2>2. <<Header(v)>> \in Seq(CellSet) /\ Len(<<Header(v)>>) = 1 /\ <<Header(v)>>[1] = Header(v)
    BY <1>4
  <2> DEFINE h == <<Header(v)>>
  <2> HIDE DEF h
  <2>3. /\ h \o Data(v) \in Seq(CellSet) /\ Len(h \o Data(v)) = 1 + n
        /\ (h \o Data(v))[1] = Header(v)
        /\ \A i \in 1 .. n : (h \o Data(v))[1 + i] = Data(v)[i]
    BY <1>1, <1>3, <2>2 DEF h
  <2> QED BY <1>1, <1>6, <2>1, <2>3 DEF Off, n, h
<1> QED BY <1>5, <1>6

\* A cell says which programs wrote its part, a header which wrote them all.
LEMMA CellParts ==
  ASSUME NEW v, NEW i \in Places
  PROVE  /\ Cell(v, i) # Zeros /\ Header(v) # Zeros
         /\ Cell(v, i).by = v[Parts[i]]
         /\ Header(v).by = [j \in Places |-> v[Parts[j]]]
<1>1. Parts[i] \in {"boot", "mdb", "map", "dir", "blocks", "tail"}
  BY DEF Parts, Places
<1>2. DOMAIN Parts = Places
  BY PartPlaces
<1> QED BY <1>1, <1>2 DEF Cell, Header, Zeros

\* The cells of an image are cells, and not zeros.
LEMMA ImageCells ==
  ASSUME NEW k \in {"raw", "dc42"}, NEW v \in VolType, NEW j \in DOMAIN ImageIn(k, v)
  PROVE  ImageIn(k, v)[j] # Zeros /\ ImageIn(k, v)[j] \in CellSet
<1> DEFINE n == IF v["tail"] = <<>> THEN 5 ELSE 6
<1>1. /\ ImageIn(k, v) \in Seq(CellSet) /\ Len(ImageIn(k, v)) = Off(k) + n
      /\ \A i \in 1 .. n : ImageIn(k, v)[Off(k) + i] = Cell(v, i)
      /\ k = "dc42" => ImageIn(k, v)[1] = Header(v)
  BY ImageShape
<1>2. n \in {5, 6}
  OBVIOUS
<1> HIDE DEF n
<1>3. j \in 1 .. Off(k) + n
  BY <1>1
<1>4. ImageIn(k, v)[j] \in CellSet
  BY <1>1
<1>5. CASE k = "dc42" /\ j = 1
  <2>1. ImageIn(k, v)[j] = Header(v) /\ 1 \in Places
    BY <1>1, <1>5 DEF Places
  <2> QED BY <1>4, <2>1, CellParts
<1>6. CASE ~(k = "dc42" /\ j = 1)
  <2>1. j - Off(k) \in 1 .. n /\ Off(k) + (j - Off(k)) = j /\ j - Off(k) \in Places
    BY <1>2, <1>3, <1>6 DEF Off, Places
  <2>2. ImageIn(k, v)[j] = Cell(v, j - Off(k))
    BY <1>1, <2>1
  <2>3. Cell(v, j - Off(k)) # Zeros
    BY <2>1, CellParts
  <2> QED BY <1>4, <2>2, <2>3
<1> QED BY <1>5, <1>6

-----------------------------------------------------------------------------
(***************************************************************************)
(* Cells that come from saves.                                             *)
(***************************************************************************)
FromSaves(k, S, cells) ==
  \A j \in DOMAIN cells :
    cells[j] = Zeros \/ \E v \in S : j \in DOMAIN ImageIn(k, v) /\ cells[j] = ImageIn(k, v)[j]

\* What comes from some saves comes from more of them.
LEMMA FromMoreSaves ==
  ASSUME NEW k, NEW S, NEW U, S \subseteq U, NEW cells, FromSaves(k, S, cells)
  PROVE  FromSaves(k, U, cells)
BY DEF FromSaves

\* The offset of the first cell is an offset.
LEMMA StartOfFile == 1 \in Nat \ {0} /\ 1 - 1 = 0
OBVIOUS

\* Nothing is a sequence of anything, and comes from any saves.
LEMMA NoCells ==
  /\ \A S : <<>> \in Seq(S)
  /\ Len(<<>>) = 0 /\ DOMAIN <<>> = {}
  /\ \A k, S : FromSaves(k, S, <<>>)
<1>1. \A S : <<>> \in Seq(S)
  BY EmptySeq
<1>2. Len(<<>>) = 0 /\ DOMAIN <<>> = {}
  <2>1. <<>> \in Seq({}) /\ Len(<<>>) = 0
    BY EmptySeq
  <2>2. DOMAIN <<>> = 1 .. Len(<<>>)
    BY <2>1, LenProperties
  <2> QED BY <2>1, <2>2
<1> QED BY <1>1, <1>2 DEF FromSaves

\* The part read from cells that come from saves is a part some save wrote.
LEMMA PartOfSave ==
  ASSUME NEW k \in {"raw", "dc42"}, NEW S, S \subseteq VolType, NEW cells \in Seq(CellSet),
         FromSaves(k, S, cells), NEW i \in Places
  PROVE  /\ PartIn(k, i, cells) \in Seq(Tags)
         /\ Off(k) + i <= Len(cells) /\ cells[Off(k) + i] # Zeros =>
              \E v \in S : PartIn(k, i, cells) = v[Parts[i]] /\ (i = 6 => v["tail"] # <<>>)
<1>1. CASE ~(Off(k) + i <= Len(cells))
  BY <1>1 DEF PartIn
<1>2. CASE Off(k) + i <= Len(cells)
  <2> DEFINE j == Off(k) + i
  <2>1. j \in DOMAIN cells /\ PartIn(k, i, cells) = cells[j].by
    BY <1>2 DEF PartIn, Off, Places
  <2>2. CASE cells[j] = Zeros
    BY <2>1, <2>2 DEF Zeros
  <2>3. CASE cells[j] # Zeros
    <3>1. PICK v \in S : j \in DOMAIN ImageIn(k, v) /\ cells[j] = ImageIn(k, v)[j]
      BY <2>1, <2>3 DEF FromSaves
    <3>2. v \in VolType
      BY <3>1
    <3>3. j \in 1 .. Off(k) + (IF v["tail"] = <<>> THEN 5 ELSE 6)
      BY <3>1, <3>2, ImageShape
    <3>4. i \in 1 .. (IF v["tail"] = <<>> THEN 5 ELSE 6)
      BY <3>3 DEF Off, Places
    <3>5. cells[j] = Cell(v, i)
      BY <3>1, <3>2, <3>4, ImageShape
    <3>6. PartIn(k, i, cells) = v[Parts[i]]
      BY <2>1, <3>5, CellParts
    <3>7. Parts[i] \in PartSet
      BY PartPlaces
    <3>8. v[Parts[i]] \in Seq(Tags)
      BY <3>2, <3>7 DEF VolType
    <3>9. i = 6 => v["tail"] # <<>>
      BY <3>4
    <3> QED BY <3>1, <3>6, <3>8, <3>9
  <2> QED BY <2>2, <2>3
<1> QED BY <1>1, <1>2

\* A volume is determined by its parts.
LEMMA SameVolume ==
  ASSUME NEW v, NEW w, v = [x \in PartSet |-> v[x]], w = [x \in PartSet |-> w[x]],
         \A i \in Places : v[Parts[i]] = w[Parts[i]]
  PROVE  v = w
<1>1. \A x \in PartSet : v[x] = w[x]
  BY PartPlaces
<1> QED BY <1>1

\* What opens from a DiskCopy file whose cells come from saves is what one save
\* wrote: its checksum sees to it.
LEMMA ChecksumWhole ==
  ASSUME NEW S, S \subseteq VolType, NEW cells, FromSaves("dc42", S, cells),
         OpensIn("dc42", cells), Len(cells) = 7 => DOMAIN cells = 1 .. 7
  PROVE  \E v \in S : \A i \in Places : PartIn("dc42", i, cells) = v[Parts[i]]
<1>1. /\ Len(cells) = 7 /\ cells[1] # Zeros
      /\ cells[1].by = [i \in Places |-> cells[i + 1].by]
  BY PartPlaces DEF OpensIn, Dc42Opens
<1>2. PICK v \in S : 1 \in DOMAIN ImageIn("dc42", v) /\ cells[1] = ImageIn("dc42", v)[1]
  <2>1. 1 \in DOMAIN cells
    BY <1>1
  <2> QED BY <1>1, <2>1 DEF FromSaves
<1>3. cells[1] = Header(v)
  BY <1>2, ImageShape
<1>4. cells[1].by = [j \in Places |-> v[Parts[j]]]
  BY <1>3, CellParts DEF Places
<1>5. ASSUME NEW i \in Places PROVE PartIn("dc42", i, cells) = v[Parts[i]]
  <2>1. PartIn("dc42", i, cells) = cells[i + 1].by
    BY <1>1 DEF PartIn, Off, Places
  <2>2. cells[1].by[i] = cells[i + 1].by
    BY <1>1
  <2>3. cells[1].by[i] = v[Parts[i]]
    BY <1>4
  <2> QED BY <2>1, <2>2, <2>3
<1> QED BY <1>5

\* Where cells are those of an image, so are the parts.
LEMMA PartOfImage ==
  ASSUME NEW k \in {"raw", "dc42"}, NEW v \in VolType, NEW cells \in Seq(CellSet), NEW i \in Places,
         Off(k) + i <= Len(cells), Off(k) + i <= Len(ImageIn(k, v)),
         cells[Off(k) + i] = ImageIn(k, v)[Off(k) + i]
  PROVE  PartIn(k, i, cells) = v[Parts[i]]
<1> DEFINE n == IF v["tail"] = <<>> THEN 5 ELSE 6
<1>1. /\ n \in Int /\ Len(ImageIn(k, v)) = Off(k) + n
      /\ \A a \in 1 .. n : ImageIn(k, v)[Off(k) + a] = Cell(v, a)
  BY ImageShape
<1> HIDE DEF n
<1>2. Off(k) \in Int /\ i \in Int /\ 1 <= i
  BY DEF Off, Places
<1>3. i \in 1 .. n
  BY <1>1, <1>2
<1>4. cells[Off(k) + i] = Cell(v, i)
  BY <1>1, <1>3
<1>5. PartIn(k, i, cells) = cells[Off(k) + i].by
  BY DEF PartIn
<1>6. Cell(v, i).by = v[Parts[i]]
  BY CellParts
<1> QED BY <1>4, <1>5, <1>6

\* An image that was written to its end opens.
LEMMA ImageOpens ==
  ASSUME NEW k \in {"raw", "dc42"}, NEW v \in VolType, k = "dc42" => v["tail"] # <<>>
  PROVE  OpensIn(k, ImageIn(k, v))
<1> DEFINE n == IF v["tail"] = <<>> THEN 5 ELSE 6
           f == ImageIn(k, v)
<1>1. /\ f \in Seq(CellSet) /\ Len(f) = Off(k) + n
      /\ \A i \in 1 .. n : f[Off(k) + i] = Cell(v, i)
      /\ k = "dc42" => f[1] = Header(v)
  BY ImageShape
<1>2. n \in {5, 6} /\ (k = "dc42" => n = 6)
  OBVIOUS
<1>3. \A j \in DOMAIN f : f[j] # Zeros
  BY ImageCells
<1> HIDE DEF n, f
<1>4. f # NoFile
  BY <1>1, <1>2 DEF NoFile, Off
<1>5. CASE k = "raw"
  BY <1>1, <1>2, <1>3, <1>4, <1>5 DEF OpensIn, RawOpens, Off, f
<1>6. CASE k = "dc42"
  <2>1. Len(f) = 7 /\ f[1] # Zeros /\ f[3] # Zeros
    BY <1>1, <1>2, <1>3, <1>6 DEF Off
  <2>2. f[1].by = [j \in Places |-> v[Parts[j]]]
    BY <1>1, <1>6, CellParts DEF Places
  <2>3. ASSUME NEW j \in Places PROVE f[j + 1].by = v[Parts[j]]
    <3>1. j \in 1 .. n /\ Off(k) + j = j + 1
      BY <1>2, <1>6 DEF Off, Places
    <3>2. f[j + 1] = Cell(v, j)
      BY <1>1, <3>1
    <3>3. Cell(v, j).by = v[Parts[j]]
      BY CellParts
    <3> QED BY <3>2, <3>3
  <2>4. f[1].by = [j \in DOMAIN Parts |-> f[j + 1].by]
    BY <2>2, <2>3, PartPlaces
  <2> QED BY <1>4, <1>6, <2>1, <2>4 DEF OpensIn, Dc42Opens, f
<1> QED BY <1>5, <1>6

\* A volume saved as it was opened has an image as long as the one it came from.
LEMMA OpenedLength ==
  ASSUME NEW k \in {"raw", "dc42"}, NEW S, S \subseteq VolType, NEW cells \in Seq(CellSet),
         FromSaves(k, S, cells), \A j \in DOMAIN cells : cells[j] # Zeros,
         OpensIn(k, cells), NEW v \in VolType,
         v["tail"] = PartIn(k, 6, cells)
  PROVE  Len(ImageIn(k, v)) = Len(cells)
<1>1. Len(cells) = Off(k) + 5 \/ Len(cells) = Off(k) + 6
  <2>1. CASE k = "raw"
    BY <2>1 DEF OpensIn, RawOpens, Off
  <2>2. CASE k = "dc42"
    BY <2>2 DEF OpensIn, Dc42Opens, Off
  <2> QED BY <2>1, <2>2
<1>2. CASE Len(cells) = Off(k) + 6
  <2>1. 6 \in Places /\ cells[Off(k) + 6] # Zeros
    BY <1>2 DEF Places, Off
  <2>2. PICK w \in S : PartIn(k, 6, cells) = w[Parts[6]] /\ w["tail"] # <<>>
    BY <1>2, <2>1, PartOfSave DEF Off
  <2>3. v["tail"] # <<>>
    BY <2>2, PartPlaces
  <2> QED BY <1>2, <2>3, ImageShape
<1>3. CASE Len(cells) = Off(k) + 5
  <2>1. v["tail"] = <<>>
    BY <1>3 DEF PartIn, Off
  <2> QED BY <1>3, <2>1, ImageShape
<1> QED BY <1>1, <1>2, <1>3

-----------------------------------------------------------------------------
(***************************************************************************)
(* The inductive invariant.                                                *)
(***************************************************************************)
TypeOK ==
  /\ container \in {"raw", "dc42"}
  /\ file = NoFile \/ file \in Seq(CellSet)
  /\ pc \in [Commands -> {"idle", "format", "read", "edit", "create", "write", "done"}]
  /\ job \in [Commands -> Jobs \cup {"none"}]
  /\ todo \in [Commands -> Seq(DOMAIN Changes)]
  /\ at \in [Commands -> Nat \ {0}]
  /\ buf \in [Commands -> Seq(CellSet)]
  /\ mem \in [Commands -> VolType]
  /\ outcome \in [Commands -> {"none", "ok", "failed", "killed", "save cut"}]
  /\ saves \subseteq VolType
  /\ wiped \subseteq Commands
  /\ overlapped \in BOOLEAN

IsMkfs(c)  == job[c] \in {"mkfs", "mkfs force"}
InPlace(c) == pc[c] = "write" /\ job[c] = "inplace"

\* Program g has left a trace in a volume, or in cells, where the loss of the tail
\* does not remove it.
Trace(g, v)            == \E i \in 1 .. 5 : g \in ToSet(v[Parts[i]])
TraceIn(k, g, cells)   == \E i \in 1 .. 5 : g \in ToSet(PartIn(k, i, cells))

\* What is known of one program, however many run at the same time.
AlwaysOf(c) ==
  /\ pc[c] # "done" => outcome[c] = "none"
  /\ pc[c] \notin {"read", "write"} => at[c] = 1
  /\ pc[c] # "read" => buf[c] = <<>>
  /\ pc[c] \in {"read", "edit", "write"} => file # NoFile
  /\ pc[c] \in {"read", "edit"} => job[c] \in DOMAIN Calls
  /\ pc[c] = "read" => Len(buf[c]) = at[c] - 1
  /\ pc[c] = "write" => mem[c] \in saves
  /\ pc[c] = "format" => IsMkfs(c)
  /\ pc[c] = "create" => job[c] \notin {"look", "inplace"}
  /\ pc[c] = "write" => job[c] # "look"
  /\ FromSaves(container, saves, buf[c])
  /\ container = "dc42" /\ pc[c] \in {"edit", "create", "write"} => mem[c]["tail"] # <<>>
  /\ pc[c] \in {"create", "write"} => Trace(c, mem[c])
  /\ pc[c] = "edit" /\ job[c] # "look" => Trace(c, mem[c]) \/ todo[c] # <<>>
  /\ pc[c] = "read" /\ job[c] # "look" => todo[c] # <<>>

\* What is known of the file and of the saves.
AlwaysFile ==
  /\ file # NoFile => FromSaves(container, saves, file)
  /\ container = "dc42" => \A v \in saves : v["tail"] # <<>>

Always == TypeOK /\ AlwaysFile /\ \A c \in Commands : AlwaysOf(c)

\* While programs run one at a time: what the file holds of a part, the program
\* that has read it holds too.
Outgrown(c) ==
  \A i \in 1 .. 5 : ToSet(PartIn(container, i, file)) \subseteq ToSet(mem[c][Parts[i]])

Editing(c) ==
  OpensIn(container, file) /\ Len(file) = Len(ImageIn(container, mem[c])) /\ Outgrown(c)

Writing(c) ==
  /\ at[c] <= Len(ImageIn(container, mem[c])) + 1
  /\ at[c] <= Len(file) + 1
  /\ \A i \in 1 .. at[c] - 1 : file[i] = ImageIn(container, mem[c])[i]
  /\ job[c] = "inplace" => Len(file) = Len(ImageIn(container, mem[c])) /\ Outgrown(c)
  /\ job[c] # "inplace" => Len(file) = at[c] - 1

TurnOf(c) ==
  /\ pc[c] = "read" => \A i \in DOMAIN buf[c] : i \in DOMAIN file /\ buf[c][i] = file[i]
  /\ pc[c] = "edit" => Editing(c)
  /\ pc[c] = "write" => Writing(c)
  /\ pc[c] \in {"format", "create"} /\ job[c] = "mkfs" => file = NoFile

OneAtATime == \A c, d \in Running : c = d

NoGaps == file # NoFile => \A i \in DOMAIN file : file[i] # Zeros

Good(g) == outcome[g] = "ok" /\ job[g] # "look" /\ g \notin wiped

ReportKept(g) ==
  Good(g) =>
    /\ file # NoFile
    /\ OpensIn(container, file) \/ (\E c \in Commands : InPlace(c)) => TraceIn(container, g, file)
    /\ \A c \in Commands :
         pc[c] = "write" \/ (pc[c] \in {"edit", "create"} /\ ~IsMkfs(c)) => Trace(g, mem[c])

Unbroken ==
  file # NoFile /\ (\A c \in Commands : pc[c] # "write" /\ outcome[c] # "save cut")
    => OpensIn(container, file)

PrefixOf(k, cells, v) ==
  Len(cells) <= Len(ImageIn(k, v)) /\ \A i \in DOMAIN cells : cells[i] = ImageIn(k, v)[i]

OfOneSave ==
  container = "raw" /\ file # NoFile /\ (\A c \in Commands : ~CutInPlace(c) /\ ~InPlace(c))
    => \E v \in saves : PrefixOf(container, file, v)

Alone ==
  /\ OneAtATime /\ NoGaps /\ Unbroken /\ OfOneSave
  /\ \A c \in Commands : TurnOf(c) /\ ReportKept(c)

Inv == Always /\ (~overlapped => Alone)

-----------------------------------------------------------------------------
(***************************************************************************)
(* The first state.                                                        *)
(***************************************************************************)
\* A volume format() leaves is a volume, every part of it the formatting program's.
LEMMA FreshVolume ==
  ASSUME NEW g \in Tags
  PROVE  /\ Fresh(g) \in VolType /\ Fresh(g)["tail"] # <<>> /\ Trace(g, Fresh(g))
<1>1. <<g>> \in Seq(Tags) /\ <<g>> # <<>> /\ g \in ToSet(<<g>>)
  BY DEF ToSet
<1>2. \A x \in PartSet : Fresh(g)[x] = <<g>>
  BY DEF Fresh
<1>3. "tail" \in PartSet /\ Parts[1] \in PartSet
  BY PartPlaces DEF Places
<1> QED BY <1>1, <1>2, <1>3 DEF Fresh, VolType, Trace

\* The invariant holds of the file the programs find.
LEMMA FirstInv ==
  ASSUME Init
  PROVE  Inv
<1>1. container \in {"raw", "dc42"}
  BY MfsCommandsAssumption DEF Init
<1>2. FirstVolume \in VolType /\ FirstVolume["tail"] # <<>> /\ NoVolume \in VolType
  BY FreshVolume DEF FirstVolume, NoVolume, Tags
<1>3. file = NoFile \/ file = ImageIn(container, FirstVolume)
  BY DEF Init
<1>4. ImageIn(container, FirstVolume) \in Seq(CellSet)
  BY <1>1, <1>2, ImageShape
<1>5. TypeOK
  <2>1. [c \in Commands |-> <<>>] \in [Commands -> Seq(DOMAIN Changes)]
    OBVIOUS
  <2>2. [c \in Commands |-> <<>>] \in [Commands -> Seq(CellSet)]
    OBVIOUS
  <2>3. [c \in Commands |-> NoVolume] \in [Commands -> VolType]
    BY <1>2
  <2>4. saves \subseteq VolType /\ (file = NoFile \/ file \in Seq(CellSet))
    BY <1>2, <1>3, <1>4 DEF Init
  <2>5. /\ pc \in [Commands -> {"idle", "format", "read", "edit", "create", "write", "done"}]
        /\ outcome \in [Commands -> {"none", "ok", "failed", "killed", "save cut"}]
        /\ job \in [Commands -> Jobs \cup {"none"}] /\ at \in [Commands -> Nat \ {0}]
    BY DEF Init
  <2>6. /\ todo \in [Commands -> Seq(DOMAIN Changes)] /\ buf \in [Commands -> Seq(CellSet)]
        /\ mem \in [Commands -> VolType] /\ wiped = {} /\ overlapped = FALSE
    BY <2>1, <2>2, <2>3 DEF Init
  <2> QED BY <1>1, <2>4, <2>5, <2>6 DEF TypeOK
<1>6. AlwaysFile
  BY <1>2, <1>3 DEF AlwaysFile, Init, FromSaves
<1>7. \A c \in Commands : AlwaysOf(c)
  BY DEF AlwaysOf, Init, FromSaves
<1>8. OneAtATime /\ \A c \in Commands : TurnOf(c) /\ ReportKept(c)
  BY DEF Init, OneAtATime, Running, TurnOf, ReportKept, Good
<1>9. NoGaps /\ Unbroken /\ OfOneSave
  <2>1. CASE file = NoFile
    BY <2>1 DEF NoGaps, Unbroken, OfOneSave
  <2>2. CASE file = ImageIn(container, FirstVolume)
    <3>1. OpensIn(container, file)
      BY <1>1, <1>2, <2>2, ImageOpens
    <3>2. \A i \in DOMAIN file : file[i] # Zeros
      BY <1>1, <1>2, <2>2, ImageCells
    <3>3. PrefixOf(container, file, FirstVolume) /\ FirstVolume \in saves
      BY <1>4, <2>2 DEF PrefixOf, Init
    <3> QED BY <3>1, <3>2, <3>3 DEF NoGaps, Unbroken, OfOneSave
  <2> QED BY <1>3, <2>1, <2>2
<1> QED BY <1>5, <1>6, <1>7, <1>8, <1>9 DEF Inv, Always, Alone

-----------------------------------------------------------------------------
(***************************************************************************)
(* What a step of one program leaves of the invariant by itself.           *)
(***************************************************************************)
Kept(d) ==
  /\ pc'[d] = pc[d] /\ job'[d] = job[d] /\ outcome'[d] = outcome[d]
  /\ todo'[d] = todo[d] /\ at'[d] = at[d] /\ buf'[d] = buf[d] /\ mem'[d] = mem[d]

Others(c) == \A d \in Commands \ {c} : Kept(d)

\* What ReportKept says when no program but c runs.
ReportWith(c, g) ==
  Good(g) =>
    /\ file # NoFile
    /\ OpensIn(container, file) \/ InPlace(c) => TraceIn(container, g, file)
    /\ pc[c] = "write" \/ (pc[c] \in {"edit", "create"} /\ ~IsMkfs(c)) => Trace(g, mem[c])

\* What is known of a program stays known while others take their steps.
LEMMA OthersAlways ==
  ASSUME NEW d \in Commands, Kept(d), AlwaysOf(d), saves \subseteq saves',
         container' = container, file # NoFile => file' # NoFile
  PROVE  AlwaysOf(d)'
<1>1. FromSaves(container, saves', buf[d])
  BY FromMoreSaves DEF AlwaysOf
<1> QED BY <1>1 DEF AlwaysOf, Kept, IsMkfs

\* Where only c runs, the other programs ask nothing of the file.
LEMMA OthersRest ==
  ASSUME NEW c \in Commands, Running \subseteq {c}, Others(c), TypeOK
  PROVE  /\ OneAtATime'
         /\ \A d \in Commands \ {c} : /\ pc[d] \in {"idle", "done"} /\ pc'[d] = pc[d]
                                      /\ TurnOf(d)' /\ ~InPlace(d) /\ ~InPlace(d)'
<1>1. ASSUME NEW d \in Commands \ {c}
      PROVE  pc[d] \in {"idle", "done"} /\ pc'[d] = pc[d]
  BY DEF Running, Others, Kept
<1>2. ASSUME NEW d \in Commands \ {c}
      PROVE  TurnOf(d)' /\ ~InPlace(d) /\ ~InPlace(d)'
  BY <1>1 DEF TurnOf, InPlace
<1>3. OneAtATime'
  BY <1>1 DEF OneAtATime, Running
<1> QED BY <1>1, <1>2, <1>3

\* A step of c keeps the invariant if it keeps what the invariant says of the
\* file and of c.
LEMMA StepInv ==
  ASSUME Inv, NEW c \in Commands, Others(c), TypeOK', AlwaysFile', AlwaysOf(c)',
         saves \subseteq saves', container' = container, file # NoFile => file' # NoFile,
         ~overlapped' => /\ Running \subseteq {c}
                         /\ NoGaps' /\ Unbroken' /\ OfOneSave' /\ TurnOf(c)'
                         /\ \A g \in Commands : ReportWith(c, g)'
  PROVE  Inv'
<1>1. ASSUME NEW d \in Commands \ {c} PROVE AlwaysOf(d)'
  BY OthersAlways DEF Inv, Always, Others
<1>2. ASSUME ~overlapped' PROVE Alone'
  <2>1. /\ OneAtATime'
        /\ \A d \in Commands \ {c} : pc[d] \in {"idle", "done"} /\ pc'[d] = pc[d]
        /\ \A d \in Commands \ {c} : TurnOf(d)' /\ ~InPlace(d)'
    BY <1>2, OthersRest DEF Inv, Always
  <2>2. ASSUME NEW g \in Commands PROVE ReportKept(g)'
    <3>1. ReportWith(c, g)'
      BY <1>2
    <3> QED BY <2>1, <3>1 DEF ReportKept, ReportWith
  <2> QED BY <1>2, <2>1, <2>2 DEF Alone
<1> QED BY <1>1, <1>2 DEF Inv, Always

\* What the invariant says when c is the one that runs.
LEMMA TurnInv ==
  ASSUME Inv, ~overlapped, NEW c \in Running
  PROVE  /\ Running \subseteq {c} /\ Alone /\ TurnOf(c) /\ \A g \in Commands : ReportWith(c, g)
<1>1. Alone /\ Running \subseteq {c} /\ c \in Commands
  BY DEF Inv, Alone, OneAtATime, Running
<1> QED BY <1>1 DEF Alone, ReportKept, ReportWith

-----------------------------------------------------------------------------
(***************************************************************************)
(* Programs that end without having saved, or in the middle of a save.     *)
(***************************************************************************)
\* A program that has ended holds nothing, and the file is as it was.
LEMMA EndsIs ==
  ASSUME Inv, NEW c \in Commands, NEW how \in {"ok", "failed", "killed", "save cut"}, Ends(c, how),
         pc[c] # "done", UNCHANGED <<file, container, saves, wiped>>,
         job' \in [Commands -> Jobs \cup {"none"}], \A d \in Commands \ {c} : job'[d] = job[d],
         overlapped' \in BOOLEAN
  PROVE  /\ Others(c) /\ TypeOK' /\ AlwaysFile' /\ AlwaysOf(c)'
         /\ pc'[c] = "done" /\ outcome'[c] = how /\ outcome[c] = "none"
<1>1. TypeOK /\ AlwaysFile /\ \A d \in Commands : AlwaysOf(d)
  BY DEF Inv, Always
<1>2. /\ pc'[c] = "done" /\ outcome'[c] = how /\ todo'[c] = <<>> /\ at'[c] = 1
      /\ buf'[c] = <<>> /\ mem'[c] = NoVolume /\ outcome[c] = "none"
  BY <1>1 DEF Ends, TypeOK, AlwaysOf
<1>3. Others(c)
  BY <1>1 DEF Others, Kept, Ends, TypeOK
<1>4. TypeOK'
  <2>1. NoVolume \in VolType
    BY FreshVolume DEF NoVolume, Tags
  <2>2. mem' \in [Commands -> VolType]
    BY <1>1, <2>1 DEF Ends, TypeOK
  <2>3. buf' \in [Commands -> Seq(CellSet)] /\ todo' \in [Commands -> Seq(DOMAIN Changes)]
    <3> QED BY <1>1, NoCells DEF Ends, TypeOK
  <2>4. at' \in [Commands -> Nat \ {0}]
    <3>1. at' = [at EXCEPT ![c] = 1] /\ at \in [Commands -> Nat \ {0}]
      BY <1>1 DEF Ends, TypeOK
    <3> QED BY <3>1, StartOfFile, Zenon
  <2>5. pc' \in [Commands -> {"idle", "format", "read", "edit", "create", "write", "done"}]
    BY <1>1 DEF Ends, TypeOK
  <2>6. outcome' \in [Commands -> {"none", "ok", "failed", "killed", "save cut"}]
    BY <1>1 DEF Ends, TypeOK
  <2> QED BY <1>1, <2>2, <2>3, <2>4, <2>5, <2>6 DEF TypeOK
<1>5. AlwaysFile'
  BY <1>1 DEF AlwaysFile
<1>6. AlwaysOf(c)'
  <2> QED BY <1>2, NoCells DEF AlwaysOf
<1> QED BY <1>2, <1>3, <1>4, <1>5, <1>6

\* A program that ends, however it ends, with the file as the others left it: a save
\* cut short is told by its own lemmas.
LEMMA EndsInv ==
  ASSUME Inv, NEW c \in Commands, NEW how \in {"ok", "failed", "killed", "save cut"}, Ends(c, how),
         pc[c] # "done", UNCHANGED <<file, container, saves, wiped>>,
         job' \in [Commands -> Jobs \cup {"none"}], \A d \in Commands \ {c} : job'[d] = job[d],
         overlapped' \in BOOLEAN, overlapped => overlapped',
         ~overlapped' => Running \subseteq {c},
         how = "ok" => job'[c] = "look",
         job'[c] = job[c] \/ pc[c] = "idle",
         pc[c] = "write" => how = "save cut"
  PROVE  Inv'
<1>1. /\ Others(c) /\ TypeOK' /\ AlwaysFile' /\ AlwaysOf(c)'
      /\ pc'[c] = "done" /\ outcome'[c] = how /\ outcome[c] = "none"
  BY EndsIs
<1>2. ASSUME ~overlapped'
      PROVE  /\ NoGaps' /\ Unbroken' /\ OfOneSave' /\ TurnOf(c)'
             /\ \A g \in Commands : ReportWith(c, g)'
  <2>1. Alone
    BY <1>2 DEF Inv
  <2>2. NoGaps' /\ TurnOf(c)'
    BY <1>1, <2>1 DEF Alone, NoGaps, TurnOf
  <2>3. \A d \in Commands \ {c} : pc'[d] = pc[d] /\ outcome'[d] = outcome[d] /\ job'[d] = job[d]
    BY <1>1 DEF Others, Kept
  <2>4. Unbroken'
    <3>1. ASSUME \A d \in Commands : pc'[d] # "write" /\ outcome'[d] # "save cut"
          PROVE  \A d \in Commands : pc[d] # "write" /\ outcome[d] # "save cut"
      BY <1>1, <2>3, <3>1
    <3> QED BY <2>1, <3>1 DEF Alone, Unbroken
  <2>5. OfOneSave'
    <3>1. ASSUME \A d \in Commands : ~CutInPlace(d)' /\ ~InPlace(d)'
          PROVE  \A d \in Commands : ~CutInPlace(d) /\ ~InPlace(d)
      BY <1>1, <2>3, <3>1 DEF CutInPlace, InPlace
    <3> QED BY <2>1, <3>1 DEF Alone, OfOneSave
  <2>6. ASSUME NEW g \in Commands PROVE ReportWith(c, g)'
    <3>1. Good(g)' => Good(g) /\ g # c
      BY <1>1, <2>3 DEF Good
    <3> QED BY <1>1, <2>1, <3>1 DEF Alone, ReportKept, ReportWith, InPlace
  <2> QED BY <2>2, <2>4, <2>5, <2>6
<1> QED BY <1>1, <1>2, StepInv

\* A program may be killed at any step.
LEMMA KilledInv ==
  ASSUME Inv, NEW c \in Commands, Killed(c)
  PROVE  Inv'
<1>1. /\ pc[c] # "done" /\ job' = job /\ overlapped' = overlapped /\ c \in Running
      /\ job \in [Commands -> Jobs \cup {"none"}] /\ overlapped \in BOOLEAN
  BY DEF Killed, Running, history, Inv, Always, TypeOK
<1>2. ~overlapped' => Running \subseteq {c}
  BY <1>1, TurnInv
<1>3. UNCHANGED <<file, container, saves, wiped>>
  BY DEF Killed, history
<1>4. CASE pc[c] = "write"
  BY <1>1, <1>2, <1>3, <1>4, EndsInv DEF Killed
<1>5. CASE pc[c] # "write"
  BY <1>1, <1>2, <1>3, <1>5, EndsInv DEF Killed
<1> QED BY <1>4, <1>5

\* So do the programs that fail where nothing was saved, and the end of a look.
LEMMA StopsInv ==
  ASSUME Inv, NEW c \in Running, NEW how \in {"ok", "failed", "save cut"}, Ends(c, how),
         UNCHANGED <<file, job, history>>,
         pc[c] = "write" => how = "save cut",
         how = "ok" => job[c] = "look"
  PROVE  Inv'
<1>1. /\ c \in Commands /\ pc[c] # "done" /\ overlapped' = overlapped
      /\ job \in [Commands -> Jobs \cup {"none"}] /\ overlapped \in BOOLEAN
      /\ UNCHANGED <<file, container, saves, wiped>>
  BY DEF Running, history, Inv, Always, TypeOK
<1>2. ~overlapped' => Running \subseteq {c}
  BY <1>1, TurnInv
<1> QED BY <1>1, <1>2, EndsInv

-----------------------------------------------------------------------------
(***************************************************************************)
(* Programs that start, make a volume, or read.                            *)
(***************************************************************************)
\* A program that starts has not touched anything.
LEMMA BeginInv ==
  ASSUME Inv, NEW c \in Commands, NEW j \in Jobs, Starts(c, j),
         NEW where \in {"format", "read"}, GoesTo(c, where),
         UNCHANGED <<file, at, buf, mem>>,
         todo' \in [Commands -> Seq(DOMAIN Changes)],
         \A d \in Commands \ {c} : todo'[d] = todo[d],
         where = "format" => j \in {"mkfs", "mkfs force"} /\ (j = "mkfs" => file = NoFile),
         where = "read" => file # NoFile /\ j \in DOMAIN Calls /\ (j # "look" => todo'[c] # <<>>)
  PROVE  Inv'
<1>1. TypeOK /\ AlwaysFile /\ AlwaysOf(c)
  BY DEF Inv, Always
<1>2. /\ pc[c] = "idle" /\ pc'[c] = where /\ job'[c] = j
      /\ outcome' = outcome /\ at' = at /\ buf' = buf /\ mem' = mem /\ file' = file
      /\ UNCHANGED <<container, saves, wiped>>
  BY <1>1 DEF Starts, GoesTo, TypeOK
<1>3. Others(c)
  BY <1>1 DEF Others, Kept, Starts, GoesTo, TypeOK
<1>4. TypeOK'
  <2>1. pc' \in [Commands -> {"idle", "format", "read", "edit", "create", "write", "done"}]
    BY <1>1 DEF TypeOK, GoesTo
  <2>2. job' \in [Commands -> Jobs \cup {"none"}] /\ overlapped' \in BOOLEAN
    BY <1>1 DEF TypeOK, Starts
  <2> QED BY <1>1, <1>2, <2>1, <2>2 DEF TypeOK
<1>5. AlwaysFile'
  BY <1>1, <1>2 DEF AlwaysFile
<1>6. AlwaysOf(c)'
  <2>1. at[c] = 1 /\ buf[c] = <<>> /\ outcome[c] = "none"
    BY <1>1, <1>2 DEF AlwaysOf
  <2>2. FromSaves(container', saves', <<>>)
    BY NoCells
  <2>3. Len(<<>>) = 1 - 1
    <3>1. Len(<<>>) = 0
      BY EmptySeq
    <3> QED BY <3>1, StartOfFile, Zenon
  <2> QED BY <1>2, <2>1, <2>2, <2>3 DEF AlwaysOf, IsMkfs
<1>7. ASSUME ~overlapped'
      PROVE  /\ Running \subseteq {c}
             /\ NoGaps' /\ Unbroken' /\ OfOneSave' /\ TurnOf(c)'
             /\ \A g \in Commands : ReportWith(c, g)'
  <2>1. Alone /\ Running = {}
    BY <1>7 DEF Inv, Starts
  <2>2. NoGaps'
    BY <1>2, <2>1 DEF Alone, NoGaps
  <2>3. TurnOf(c)'
    <3>1. buf'[c] = <<>>
      BY <1>1, <1>2 DEF AlwaysOf
    <3> QED BY <1>2, <3>1, NoCells DEF TurnOf
  <2>4. \A d \in Commands \ {c} : pc'[d] = pc[d] /\ outcome'[d] = outcome[d] /\ job'[d] = job[d]
    BY <1>3 DEF Others, Kept
  <2>5. outcome[c] = "none"
    BY <1>1, <1>2 DEF AlwaysOf
  <2>6. Unbroken'
    <3>1. ASSUME \A d \in Commands : pc'[d] # "write" /\ outcome'[d] # "save cut"
          PROVE  \A d \in Commands : pc[d] # "write" /\ outcome[d] # "save cut"
      BY <1>2, <2>4, <2>5, <3>1
    <3> QED BY <1>2, <2>1, <3>1 DEF Alone, Unbroken
  <2>7. OfOneSave'
    <3>1. ASSUME \A d \in Commands : ~CutInPlace(d)' /\ ~InPlace(d)'
          PROVE  \A d \in Commands : ~CutInPlace(d) /\ ~InPlace(d)
      BY <1>2, <2>4, <2>5, <3>1 DEF CutInPlace, InPlace
    <3> QED BY <1>2, <2>1, <3>1 DEF Alone, OfOneSave
  <2>8. ASSUME NEW g \in Commands PROVE ReportWith(c, g)'
    <3>1. Good(g)' => Good(g) /\ g # c
      BY <1>2, <2>4, <2>5 DEF Good
    <3> QED BY <1>2, <2>1, <3>1 DEF Alone, ReportKept, ReportWith, InPlace
  <2> QED BY <2>1, <2>2, <2>3, <2>6, <2>7, <2>8
<1> QED BY <1>2, <1>3, <1>4, <1>5, <1>6, <1>7, StepInv

\* A program that fails at once.
LEMMA FailsToStart ==
  ASSUME Inv, NEW c \in Commands, NEW j \in Jobs, Starts(c, j), Ends(c, "failed"), file' = file
  PROVE  Inv'
<1>1. /\ pc[c] = "idle" /\ overlapped \in BOOLEAN
      /\ job \in [Commands -> Jobs \cup {"none"}] /\ job' = [job EXCEPT ![c] = j]
      /\ UNCHANGED <<file, container, saves, wiped>>
      /\ overlapped' = (overlapped \/ Running # {})
  BY DEF Starts, Inv, Always, TypeOK
<1>2. /\ overlapped' \in BOOLEAN /\ (overlapped => overlapped')
      /\ (~overlapped' => Running \subseteq {c})
  BY <1>1
<1>3. /\ job' \in [Commands -> Jobs \cup {"none"}] /\ \A d \in Commands \ {c} : job'[d] = job[d]
  BY <1>1
<1> QED BY <1>1, <1>2, <1>3, EndsInv

\* mkfs starts: it goes on when there is no file, or --force is given.
LEMMA MkfsInv ==
  ASSUME Inv, NEW c \in Commands, Mkfs(c)
  PROVE  Inv'
<1>1. PICK j \in Jobs \cap {"mkfs", "mkfs force"} :
        /\ Starts(c, j)
        /\ IF file = NoFile \/ j = "mkfs force"
           THEN GoesTo(c, "format") /\ UNCHANGED memory ELSE Ends(c, "failed")
        /\ UNCHANGED file
  BY DEF Mkfs
<1>2. CASE file = NoFile \/ j = "mkfs force"
  <2>1. GoesTo(c, "format") /\ UNCHANGED <<file, at, buf, mem>> /\ todo' = todo
    BY <1>1, <1>2 DEF memory
  <2>2. todo \in [Commands -> Seq(DOMAIN Changes)]
    BY DEF Inv, Always, TypeOK
  <2> QED BY <1>1, <1>2, <2>1, <2>2, BeginInv
<1>3. CASE ~(file = NoFile \/ j = "mkfs force")
  BY <1>1, <1>3, FailsToStart
<1> QED BY <1>2, <1>3

\* The calls a program makes are calls there are; only a look makes none.
LEMMA CallsMade ==
  ASSUME NEW j \in DOMAIN Calls, NEW calls \in Calls[j]
  PROVE  calls \in Seq(DOMAIN Changes) /\ (j # "look" => calls # <<>>)
<1>1. /\ "create" \in DOMAIN Changes /\ "write" \in DOMAIN Changes /\ "delete" \in DOMAIN Changes
      /\ "unlock" \in DOMAIN Changes /\ "rename" \in DOMAIN Changes /\ "boot" \in DOMAIN Changes
  BY DEF Changes
<1>2. \/ calls = <<"create", "write">> \/ calls = <<"create", "write", "write">>
      \/ calls = <<"delete">> \/ calls = <<"unlock", "delete">> \/ calls = <<"rename">>
      \/ calls = <<"boot">> \/ calls = <<"write">> \/ (calls = <<>> /\ j = "look")
  BY DEF Calls
<1> DEFINE D == DOMAIN Changes
<1> HIDE DEF D
<1>3. calls \in Seq(D)
  <2>1. /\ "create" \in D /\ "write" \in D /\ "delete" \in D
        /\ "unlock" \in D /\ "rename" \in D /\ "boot" \in D
    BY <1>1 DEF D
  <2>2. \A x \in D : <<x>> \in Seq(D)
    OBVIOUS
  <2>3. \A x, y \in D : <<x, y>> \in Seq(D)
    OBVIOUS
  <2>4. \A x, y, z \in D : <<x, y, z>> \in Seq(D)
    OBVIOUS
  <2>5. <<>> \in Seq(D)
    BY EmptySeq
  <2> QED BY <1>2, <2>1, <2>2, <2>3, <2>4, <2>5
<1> QED BY <1>2, <1>3 DEF D

\* Any other program starts, and ends at once when there is no file.
LEMMA StartInv ==
  ASSUME Inv, NEW c \in Commands, Start(c)
  PROVE  Inv'
<1>1. PICK j \in Jobs \cap DOMAIN Calls :
        /\ Starts(c, j)
        /\ IF file = NoFile THEN Ends(c, "failed")
           ELSE /\ GoesTo(c, "read")
                /\ \E calls \in Calls[j] : todo' = [todo EXCEPT ![c] = calls]
                /\ UNCHANGED <<at, buf, mem>>
        /\ UNCHANGED file
  BY DEF Start
<1>2. CASE file = NoFile
  BY <1>1, <1>2, FailsToStart
<1>3. CASE file # NoFile
  <2>1. PICK calls \in Calls[j] : todo' = [todo EXCEPT ![c] = calls]
    BY <1>1, <1>3
  <2>2. todo \in [Commands -> Seq(DOMAIN Changes)]
    BY DEF Inv, Always, TypeOK
  <2>3. calls \in Seq(DOMAIN Changes) /\ (j # "look" => calls # <<>>)
    BY CallsMade
  <2>4. /\ todo' \in [Commands -> Seq(DOMAIN Changes)] /\ todo'[c] = calls
        /\ \A d \in Commands \ {c} : todo'[d] = todo[d]
    BY <2>1, <2>2, <2>3
  <2> QED BY <1>1, <1>3, <2>3, <2>4, BeginInv
<1> QED BY <1>2, <1>3

\* A step in which a program neither saves nor ends leaves the file as it is known.
LEMMA QuietStep ==
  ASSUME Alone, NEW c \in Commands, Others(c), UNCHANGED <<file, job, outcome, history>>,
         pc[c] # "write", pc'[c] # "write"
  PROVE  NoGaps' /\ Unbroken' /\ OfOneSave' /\ \A g \in Commands : Good(g)' = Good(g)
<1>1. \A d \in Commands : pc'[d] = "write" <=> pc[d] = "write"
  BY DEF Others, Kept
<1>2. UNCHANGED <<container, saves, wiped>>
  BY DEF history
<1>3. NoGaps'
  BY DEF Alone, NoGaps
<1>4. Unbroken'
  BY <1>1, <1>2 DEF Alone, Unbroken
<1>5. OfOneSave'
  BY <1>1, <1>2 DEF Alone, OfOneSave, CutInPlace, InPlace
<1> QED BY <1>2, <1>3, <1>4, <1>5 DEF Good

\* mkfs formats a volume in memory, or refuses the size.
LEMMA FormatInv ==
  ASSUME Inv, NEW c \in Commands, Format(c)
  PROVE  Inv'
<1>1. /\ pc[c] = "format" /\ c \in Running /\ UNCHANGED <<file, job, history>>
      /\ UNCHANGED <<container, saves, wiped, overlapped>>
  BY DEF Format, Running, history
<1>2. CASE Ends(c, "failed")
  BY <1>1, <1>2, StopsInv
<1>3. CASE GoesTo(c, "create") /\ mem' = [mem EXCEPT ![c] = Fresh(c)] /\ UNCHANGED <<todo, at, buf>>
  <2>1. TypeOK /\ AlwaysFile /\ AlwaysOf(c)
    BY DEF Inv, Always
  <2>2. Fresh(c) \in VolType /\ Fresh(c)["tail"] # <<>> /\ Trace(c, Fresh(c))
    BY FreshVolume DEF Tags
  <2>3. /\ pc'[c] = "create" /\ mem'[c] = Fresh(c) /\ outcome' = outcome
        /\ UNCHANGED <<todo, at, buf>>
    BY <1>3, <2>1 DEF GoesTo, TypeOK
  <2>4. Others(c)
    BY <1>1, <1>3, <2>1 DEF Others, Kept, GoesTo, TypeOK
  <2>5. TypeOK'
    <3>1. pc' \in [Commands -> {"idle", "format", "read", "edit", "create", "write", "done"}]
      BY <1>3, <2>1 DEF TypeOK, GoesTo
    <3>2. mem' \in [Commands -> VolType]
      BY <1>3, <2>1, <2>2 DEF TypeOK
    <3> QED BY <1>1, <2>1, <2>3, <3>1, <3>2 DEF TypeOK
  <2>6. AlwaysFile'
    BY <1>1, <2>1 DEF AlwaysFile
  <2>7. AlwaysOf(c)'
    BY <1>1, <2>1, <2>2, <2>3 DEF AlwaysOf, IsMkfs
  <2>8. ASSUME ~overlapped'
        PROVE  /\ Running \subseteq {c}
               /\ NoGaps' /\ Unbroken' /\ OfOneSave' /\ TurnOf(c)'
               /\ \A g \in Commands : ReportWith(c, g)'
    <3>1. /\ Running \subseteq {c} /\ Alone /\ TurnOf(c)
          /\ \A g \in Commands : ReportWith(c, g)
      BY <1>1, <2>8, TurnInv
    <3>2. NoGaps' /\ Unbroken' /\ OfOneSave' /\ \A g \in Commands : Good(g)' = Good(g)
      BY <1>1, <2>3, <2>4, <3>1, QuietStep
    <3>3. TurnOf(c)'
      BY <1>1, <2>3, <3>1 DEF TurnOf
    <3>4. ASSUME NEW g \in Commands PROVE ReportWith(c, g)'
      <4>1. IsMkfs(c)'
        BY <1>1, <2>1 DEF AlwaysOf, IsMkfs
      <4> QED BY <1>1, <2>3, <3>1, <3>2, <4>1 DEF ReportWith, InPlace
    <3> QED BY <3>1, <3>2, <3>3, <3>4
  <2> QED BY <1>1, <2>4, <2>5, <2>6, <2>7, <2>8, StepInv
<1> QED BY <1>2, <1>3 DEF Format

\* A program reads one more cell of the file.
LEMMA ReadNextInv ==
  ASSUME Inv, NEW c \in Commands, ReadNext(c)
  PROVE  Inv'
<1>1. TypeOK /\ AlwaysFile /\ AlwaysOf(c)
  BY DEF Inv, Always
<1>2. /\ pc[c] = "read" /\ c \in Running /\ at[c] <= Len(file)
      /\ buf' = [buf EXCEPT ![c] = Append(@, file[at[c]])] /\ at' = [at EXCEPT ![c] = @ + 1]
      /\ UNCHANGED <<file, pc, job, todo, mem, outcome, history>>
      /\ UNCHANGED <<container, saves, wiped, overlapped>>
  BY DEF ReadNext, Running, history
<1> DEFINE k == at[c]
           b == buf[c]
<1>3. /\ k \in Nat \ {0} /\ file \in Seq(CellSet) /\ k \in DOMAIN file /\ file[k] \in CellSet
      /\ b \in Seq(CellSet) /\ Len(b) = k - 1
      /\ at'[c] = k + 1 /\ buf'[c] = Append(b, file[k])
  <2>1. k \in Nat \ {0} /\ file \in Seq(CellSet)
    BY <1>1, <1>2 DEF TypeOK, AlwaysOf
  <2>2. k \in DOMAIN file
    BY <1>2, <2>1
  <2>3. b \in Seq(CellSet) /\ Len(b) = k - 1
    BY <1>1, <1>2 DEF TypeOK, AlwaysOf
  <2>4. at'[c] = k + 1 /\ buf'[c] = Append(b, file[k])
    BY <1>1, <1>2 DEF TypeOK
  <2> HIDE DEF k, b
  <2> QED BY <2>1, <2>2, <2>3, <2>4
<1>4. /\ buf'[c] \in Seq(CellSet) /\ Len(buf'[c]) = k
      /\ \A i \in DOMAIN b : buf'[c][i] = b[i]
      /\ buf'[c][k] = file[k] /\ DOMAIN buf'[c] = (DOMAIN b) \cup {k}
  BY <1>3
<1>5. Others(c)
  BY <1>1, <1>2 DEF Others, Kept, TypeOK
<1>6. TypeOK'
  <2>1. at' \in [Commands -> Nat \ {0}]
    <3>1. k + 1 \in Nat \ {0}
      BY <1>3
    <3> QED BY <1>1, <1>2, <3>1 DEF TypeOK
  <2>2. buf' \in [Commands -> Seq(CellSet)]
    <3>1. Append(b, file[k]) \in Seq(CellSet)
      BY <1>3, <1>4
    <3> QED BY <1>1, <1>2, <3>1 DEF TypeOK
  <2> QED BY <1>1, <1>2, <2>1, <2>2 DEF TypeOK
<1>7. AlwaysFile'
  BY <1>1, <1>2 DEF AlwaysFile
<1>8. AlwaysOf(c)'
  <2>1. FromSaves(container, saves, buf'[c])
    <3>1. FromSaves(container, saves, file) /\ FromSaves(container, saves, b)
      BY <1>1, <1>2 DEF AlwaysFile, AlwaysOf
    <3>2. ASSUME NEW i \in DOMAIN buf'[c]
          PROVE  \/ buf'[c][i] = Zeros
                 \/ \E v \in saves : i \in DOMAIN ImageIn(container, v) /\ buf'[c][i] = ImageIn(container, v)[i]
      <4>1. CASE i \in DOMAIN b
        BY <1>4, <3>1, <4>1 DEF FromSaves
      <4>2. CASE i = k
        BY <1>3, <1>4, <3>1, <4>2 DEF FromSaves
      <4> QED BY <1>4, <4>1, <4>2
    <3> QED BY <3>2 DEF FromSaves
  <2>2. Len(buf'[c]) = at'[c] - 1
    BY <1>3, <1>4
  <2> QED BY <1>1, <1>2, <2>1, <2>2 DEF AlwaysOf
<1>9. ASSUME ~overlapped'
      PROVE  /\ Running \subseteq {c}
             /\ NoGaps' /\ Unbroken' /\ OfOneSave' /\ TurnOf(c)'
             /\ \A g \in Commands : ReportWith(c, g)'
  <2>1. /\ Running \subseteq {c} /\ Alone /\ TurnOf(c)
        /\ \A g \in Commands : ReportWith(c, g)
    BY <1>2, <1>9, TurnInv
  <2>2. NoGaps' /\ Unbroken' /\ OfOneSave' /\ \A g \in Commands : Good(g)' = Good(g)
    BY <1>2, <1>5, <2>1, QuietStep
  <2>3. TurnOf(c)'
    <3>1. \A i \in DOMAIN b : i \in DOMAIN file /\ b[i] = file[i]
      BY <1>2, <2>1 DEF TurnOf
    <3>2. \A i \in DOMAIN buf'[c] : i \in DOMAIN file /\ buf'[c][i] = file[i]
      BY <1>3, <1>4, <3>1
    <3> QED BY <1>2, <3>2 DEF TurnOf
  <2>4. \A g \in Commands : ReportWith(c, g)'
    BY <1>2, <2>1, <2>2 DEF ReportWith, InPlace
  <2> QED BY <2>1, <2>2, <2>3, <2>4
<1> QED BY <1>2, <1>5, <1>6, <1>7, <1>8, <1>9, StepInv

\* What opens from cells that come from saves is a volume, and of a DiskCopy file
\* one with a tail.
LEMMA OpenedVolume ==
  ASSUME TypeOK, AlwaysFile, NEW cells \in Seq(CellSet), FromSaves(container, saves, cells)
  PROVE  /\ Opened(cells) \in VolType
         /\ Opened(cells)["tail"] = PartIn(container, 6, cells)
         /\ container = "dc42" /\ OpensIn(container, cells) => Opened(cells)["tail"] # <<>>
<1>1. container \in {"raw", "dc42"} /\ saves \subseteq VolType
  BY DEF TypeOK
<1>2. /\ Opened(cells) = [x \in PartSet |-> Opened(cells)[x]]
      /\ \A i \in Places : Opened(cells)[Parts[i]] = PartIn(container, i, cells)
  BY OpenedIs
<1>3. \A i \in Places : PartIn(container, i, cells) \in Seq(Tags)
  BY <1>1, PartOfSave
<1>4. ASSUME NEW x \in PartSet PROVE Opened(cells)[x] \in Seq(Tags)
  <2>1. PICK i \in Places : x = Parts[i]
    BY PartPlaces
  <2> QED BY <1>2, <1>3, <2>1
<1>5. Opened(cells) \in VolType
  BY <1>2, <1>4 DEF VolType
<1>6. Opened(cells)["tail"] = PartIn(container, 6, cells) /\ 6 \in Places
  BY <1>2, PartPlaces DEF Places
<1>7. ASSUME container = "dc42", OpensIn(container, cells)
      PROVE  Opened(cells)["tail"] # <<>>
  <2>1. Len(cells) = 7 => DOMAIN cells = 1 .. 7
    OBVIOUS
  <2>2. PICK v \in saves : \A i \in Places : PartIn("dc42", i, cells) = v[Parts[i]]
    <3>1. FromSaves("dc42", saves, cells) /\ OpensIn("dc42", cells)
      BY <1>7
    <3> QED BY <1>1, <2>1, <3>1, ChecksumWhole
  <2>3. Opened(cells)["tail"] = v["tail"]
    BY <1>6, <1>7, <2>2, PartPlaces
  <2> QED BY <1>7, <2>3 DEF AlwaysFile
<1> QED BY <1>5, <1>6, <1>7

\* A program that runs alone has read the file when it has come to its end.
LEMMA ReadAll ==
  ASSUME NEW f \in Seq(CellSet), NEW b \in Seq(CellSet), NEW k \in Nat, k > Len(f), Len(b) = k - 1,
         \A i \in DOMAIN b : i \in DOMAIN f /\ b[i] = f[i]
  PROVE  b = f
<1>1. ASSUME Len(b) > Len(f) PROVE FALSE
  <2>1. Len(b) \in DOMAIN b
    BY <1>1
  <2>2. Len(b) \in DOMAIN f
    BY <2>1
  <2> QED BY <1>1, <2>2
<1>2. Len(b) = Len(f)
  BY <1>1
<1> QED BY <1>2, SeqEqual

\* A program has read the file: it opens as a volume, or the program fails.
LEMMA OpenInv ==
  ASSUME Inv, NEW c \in Commands, Open(c)
  PROVE  Inv'
<1>1. /\ pc[c] = "read" /\ c \in Running /\ at[c] > Len(file)
      /\ UNCHANGED <<file, job, history>> /\ UNCHANGED <<container, saves, wiped, overlapped>>
      /\ IF Opens(buf[c])
         THEN /\ GoesTo(c, "edit")
              /\ mem' = [mem EXCEPT ![c] = Opened(buf[c])]
              /\ buf' = [buf EXCEPT ![c] = <<>>] /\ at' = [at EXCEPT ![c] = 1]
              /\ UNCHANGED todo
         ELSE Ends(c, "failed")
  BY DEF Open, Running, history
<1>2. CASE ~Opens(buf[c])
  BY <1>1, <1>2, StopsInv
<1>3. CASE Opens(buf[c])
  <2> DEFINE b == buf[c]
             w == Opened(buf[c])
  <2>1. TypeOK /\ AlwaysFile /\ AlwaysOf(c)
    BY DEF Inv, Always
  <2>2. /\ pc'[c] = "edit" /\ mem'[c] = w /\ buf'[c] = <<>> /\ at'[c] = 1
        /\ outcome' = outcome /\ todo' = todo
    BY <1>1, <1>3, <2>1 DEF GoesTo, TypeOK
  <2>3. b \in Seq(CellSet) /\ FromSaves(container, saves, b) /\ OpensIn(container, b)
    BY <1>3, <2>1, OpenedIs DEF TypeOK, AlwaysOf
  <2>4. /\ w \in VolType /\ w["tail"] = PartIn(container, 6, b)
        /\ container = "dc42" => w["tail"] # <<>>
    BY <2>1, <2>3, OpenedVolume
  <2>5. Others(c)
    BY <1>1, <1>3, <2>1 DEF Others, Kept, GoesTo, TypeOK
  <2>6. TypeOK'
    <3>1. pc' \in [Commands -> {"idle", "format", "read", "edit", "create", "write", "done"}]
      BY <1>1, <1>3, <2>1 DEF TypeOK, GoesTo
    <3>2. mem' \in [Commands -> VolType]
      BY <1>1, <1>3, <2>1, <2>4 DEF TypeOK
    <3>3. buf' \in [Commands -> Seq(CellSet)]
      <4>1. buf' = [buf EXCEPT ![c] = <<>>] /\ buf \in [Commands -> Seq(CellSet)]
        BY <1>1, <1>3, <2>1 DEF TypeOK
      <4>2. <<>> \in Seq(CellSet)
        BY EmptySeq
      <4> QED BY <4>1, <4>2, Zenon
    <3>4. at' \in [Commands -> Nat \ {0}]
      <4>1. at' = [at EXCEPT ![c] = 1] /\ at \in [Commands -> Nat \ {0}]
        BY <1>1, <1>3, <2>1 DEF TypeOK
      <4> QED BY <4>1, StartOfFile, Zenon
    <3> QED BY <1>1, <2>1, <2>2, <3>1, <3>2, <3>3, <3>4 DEF TypeOK
  <2>7. AlwaysFile'
    BY <1>1, <2>1 DEF AlwaysFile
  <2>8. AlwaysOf(c)'
    BY <1>1, <2>1, <2>2, <2>4, NoCells DEF AlwaysOf
  <2>9. ASSUME ~overlapped'
        PROVE  /\ Running \subseteq {c}
               /\ NoGaps' /\ Unbroken' /\ OfOneSave' /\ TurnOf(c)'
               /\ \A g \in Commands : ReportWith(c, g)'
    <3>1. /\ Running \subseteq {c} /\ Alone /\ TurnOf(c)
          /\ \A g \in Commands : ReportWith(c, g)
      BY <1>1, <2>9, TurnInv
    <3>2. NoGaps' /\ Unbroken' /\ OfOneSave' /\ \A g \in Commands : Good(g)' = Good(g)
      BY <1>1, <2>2, <2>5, <3>1, QuietStep
    <3>3. file \in Seq(CellSet) /\ file # NoFile
      BY <1>1, <2>1 DEF TypeOK, AlwaysOf
    <3>4. b = file
      <4>1. Len(b) = at[c] - 1 /\ at[c] \in Nat
        BY <1>1, <2>1 DEF AlwaysOf, TypeOK
      <4>2. \A i \in DOMAIN b : i \in DOMAIN file /\ b[i] = file[i]
        BY <1>1, <3>1 DEF TurnOf
      <4> HIDE DEF b
      <4> QED BY <1>1, <2>3, <3>3, <4>1, <4>2, ReadAll
    <3>5. \A i \in Places : w[Parts[i]] = PartIn(container, i, file)
      BY <3>4, OpenedIs
    <3>6. Editing(c)'
      <4>1. Len(ImageIn(container, w)) = Len(file)
        <5>1. \A j \in DOMAIN file : file[j] # Zeros
          BY <3>1, <3>3 DEF Alone, NoGaps
        <5>2. container \in {"raw", "dc42"} /\ saves \subseteq VolType
          BY <2>1 DEF TypeOK
        <5> HIDE DEF w, b
        <5> QED BY <2>3, <2>4, <3>3, <3>4, <5>1, <5>2, OpenedLength
      <4>2. \A i \in 1 .. 5 : PartIn(container, i, file) = w[Parts[i]]
        BY <3>5 DEF Places
      <4> QED BY <1>1, <2>2, <2>3, <3>4, <4>1, <4>2 DEF Editing, Outgrown
    <3>7. TurnOf(c)'
      BY <2>2, <3>6 DEF TurnOf
    <3>8. ASSUME NEW g \in Commands PROVE ReportWith(c, g)'
      <4>1. TraceIn(container, g, file) => Trace(g, w)
        BY <3>5 DEF TraceIn, Trace, Places
      <4> QED BY <1>1, <2>2, <2>3, <3>1, <3>2, <3>4, <4>1 DEF ReportWith, InPlace
    <3> QED BY <3>1, <3>2, <3>7, <3>8
  <2> QED BY <1>1, <2>5, <2>6, <2>7, <2>8, <2>9, StepInv
<1> QED BY <1>2, <1>3

-----------------------------------------------------------------------------
(***************************************************************************)
(* Programs that change the volume they hold.                              *)
(***************************************************************************)
\* The length of an image hangs on the tail alone.
LEMMA SameLength ==
  ASSUME NEW k \in {"raw", "dc42"}, NEW v \in VolType, NEW w \in VolType, w["tail"] = v["tail"]
  PROVE  Len(ImageIn(k, w)) = Len(ImageIn(k, v))
BY ImageShape

\* A call leaves a mark of its caller, outside the tail, and takes no mark away.
LEMMA StampedIs ==
  ASSUME NEW v \in VolType, NEW call \in DOMAIN Changes, NEW c \in Commands
  PROVE  /\ Stamped(v, call, c) \in VolType
         /\ Stamped(v, call, c)["tail"] = v["tail"]
         /\ \A x \in PartSet : ToSet(v[x]) \subseteq ToSet(Stamped(v, call, c)[x])
         /\ Trace(c, Stamped(v, call, c))
<1> DEFINE w == Stamped(v, call, c)
<1>1. w = [x \in PartSet |-> IF x \in Changes[call] THEN Append(v[x], c) ELSE v[x]]
  BY DEF Stamped
<1>2. ASSUME NEW s \in Seq(Tags)
      PROVE  /\ Append(s, c) \in Seq(Tags) /\ ToSet(s) \subseteq ToSet(Append(s, c))
             /\ c \in ToSet(Append(s, c))
  <2>1. c \in Tags
    BY DEF Tags
  <2>2. /\ Append(s, c) \in Seq(Tags) /\ DOMAIN Append(s, c) = 1 .. Len(s) + 1 /\ Len(s) \in Nat
        /\ \A i \in 1 .. Len(s) : Append(s, c)[i] = s[i]
        /\ Append(s, c)[Len(s) + 1] = c /\ DOMAIN s = 1 .. Len(s)
    BY <2>1
  <2> QED BY <2>2 DEF ToSet
<1>3. \A x \in PartSet : v[x] \in Seq(Tags)
  BY DEF VolType
<1>4. w \in VolType
  BY <1>1, <1>2, <1>3 DEF VolType
<1>5. "tail" \notin Changes[call] /\ (Parts[1] \in Changes[call] \/ Parts[2] \in Changes[call])
  BY DEF Changes, Parts
<1>6. w["tail"] = v["tail"]
  BY <1>1, <1>5, PartPlaces
<1>7. \A x \in PartSet : ToSet(v[x]) \subseteq ToSet(w[x])
  BY <1>1, <1>2, <1>3
<1>8. Trace(c, w)
  <2>1. PICK i \in 1 .. 2 : Parts[i] \in Changes[call]
    BY <1>5
  <2>2. Parts[i] \in PartSet
    BY <2>1, PartPlaces DEF Places
  <2>3. c \in ToSet(w[Parts[i]])
    BY <1>1, <1>2, <1>3, <2>1, <2>2
  <2> QED BY <2>3 DEF Trace
<1> QED BY <1>4, <1>6, <1>7, <1>8

\* A program makes one of its calls, which may fail.
LEMMA EditInv ==
  ASSUME Inv, NEW c \in Commands, Edit(c)
  PROVE  Inv'
<1>1. /\ pc[c] = "edit" /\ todo[c] # <<>> /\ c \in Running
      /\ UNCHANGED <<file, job, history>> /\ UNCHANGED <<container, saves, wiped, overlapped>>
  BY DEF Edit, Running, history
<1>2. CASE Ends(c, "failed")
  BY <1>1, <1>2, StopsInv
<1>3. CASE /\ mem' = [mem EXCEPT ![c] = Stamped(@, Head(todo[c]), c)]
           /\ todo' = [todo EXCEPT ![c] = Tail(@)]
           /\ UNCHANGED <<pc, outcome, at, buf>>
  <2> DEFINE v == mem[c]
             w == Stamped(mem[c], Head(todo[c]), c)
  <2>1. TypeOK /\ AlwaysFile /\ AlwaysOf(c)
    BY DEF Inv, Always
  <2>2. /\ v \in VolType /\ mem'[c] = w /\ UNCHANGED <<pc, outcome, at, buf>>
        /\ todo'[c] = Tail(todo[c]) /\ todo[c] \in Seq(DOMAIN Changes)
    BY <1>3, <2>1 DEF TypeOK
  <2>3. Head(todo[c]) \in DOMAIN Changes /\ Tail(todo[c]) \in Seq(DOMAIN Changes)
    BY <1>1, <2>2, HeadTailProperties
  <2>4. /\ w \in VolType /\ w["tail"] = v["tail"] /\ Trace(c, w)
        /\ \A x \in PartSet : ToSet(v[x]) \subseteq ToSet(w[x])
    BY <2>2, <2>3, StampedIs
  <2>5. Others(c)
    BY <1>1, <1>3, <2>1 DEF Others, Kept, TypeOK
  <2> HIDE DEF w
  <2>6. TypeOK'
    <3>1. mem' \in [Commands -> VolType]
      BY <1>3, <2>1, <2>4 DEF TypeOK, w
    <3>2. todo' \in [Commands -> Seq(DOMAIN Changes)]
      BY <1>3, <2>1, <2>3 DEF TypeOK
    <3> QED BY <1>1, <2>1, <2>2, <3>1, <3>2 DEF TypeOK
  <2>7. AlwaysFile'
    BY <1>1, <2>1 DEF AlwaysFile
  <2>8. AlwaysOf(c)'
    BY <1>1, <2>1, <2>2, <2>4 DEF AlwaysOf
  <2>9. ASSUME ~overlapped'
        PROVE  /\ Running \subseteq {c}
               /\ NoGaps' /\ Unbroken' /\ OfOneSave' /\ TurnOf(c)'
               /\ \A g \in Commands : ReportWith(c, g)'
    <3>1. /\ Running \subseteq {c} /\ Alone /\ TurnOf(c)
          /\ \A g \in Commands : ReportWith(c, g)
      BY <1>1, <2>9, TurnInv
    <3>2. NoGaps' /\ Unbroken' /\ OfOneSave' /\ \A g \in Commands : Good(g)' = Good(g)
      BY <1>1, <2>2, <2>5, <3>1, QuietStep
    <3>3. \A i \in 1 .. 5 : ToSet(v[Parts[i]]) \subseteq ToSet(w[Parts[i]])
      BY <2>4, PartPlaces DEF Places
    <3>4. TurnOf(c)'
      <4>1. Editing(c)
        BY <1>1, <3>1 DEF TurnOf
      <4>2. Len(ImageIn(container, w)) = Len(ImageIn(container, v))
        BY <2>1, <2>2, <2>4, SameLength DEF TypeOK
      <4>3. Editing(c)'
        BY <1>1, <2>2, <3>3, <4>1, <4>2 DEF Editing, Outgrown
      <4> QED BY <1>1, <2>2, <4>3 DEF TurnOf
    <3>5. ASSUME NEW g \in Commands PROVE ReportWith(c, g)'
      <4>1. Trace(g, v) => Trace(g, w)
        BY <3>3 DEF Trace
      <4> QED BY <1>1, <2>2, <3>1, <3>2, <4>1 DEF ReportWith, InPlace, IsMkfs
    <3> QED BY <3>1, <3>2, <3>4, <3>5
  <2> QED BY <1>1, <2>5, <2>6, <2>7, <2>8, <2>9, StepInv
<1> QED BY <1>2, <1>3 DEF Edit

\* A program has made its calls: it only looked, or goes on to save.
LEMMA EditedInv ==
  ASSUME Inv, NEW c \in Commands, Edited(c)
  PROVE  Inv'
<1>1. /\ pc[c] = "edit" /\ todo[c] = <<>> /\ c \in Running /\ UNCHANGED <<file, job>>
  BY DEF Edited, Running
<1>2. CASE job[c] = "look"
  BY <1>1, <1>2, StopsInv DEF Edited
<1>3. CASE job[c] # "look"
  <2> DEFINE where == IF job[c] = "inplace" THEN "write" ELSE "create"
  <2>1. TypeOK /\ AlwaysFile /\ AlwaysOf(c)
    BY DEF Inv, Always
  <2>2. /\ GoesTo(c, where) /\ UNCHANGED memory /\ UNCHANGED <<container, wiped, overlapped>>
        /\ saves' = IF job[c] = "inplace" THEN saves \cup {mem[c]} ELSE saves
    BY <1>3 DEF Edited, history
  <2>3. /\ pc'[c] = where /\ UNCHANGED <<todo, at, buf, mem, outcome>>
        /\ saves \subseteq saves' /\ mem[c] \in VolType
    BY <2>1, <2>2 DEF GoesTo, memory, TypeOK
  <2>4. Others(c)
    BY <1>1, <2>1, <2>2 DEF Others, Kept, GoesTo, memory, TypeOK
  <2>5. TypeOK'
    <3>1. pc' \in [Commands -> {"idle", "format", "read", "edit", "create", "write", "done"}]
      BY <2>1, <2>2 DEF TypeOK, GoesTo
    <3>2. saves' \subseteq VolType
      BY <2>1, <2>2, <2>3 DEF TypeOK
    <3> QED BY <1>1, <2>1, <2>2, <2>3, <3>1, <3>2 DEF TypeOK
  <2>6. AlwaysFile'
    <3>1. file # NoFile => FromSaves(container, saves', file)
      BY <2>1, <2>3, FromMoreSaves DEF AlwaysFile
    <3>2. container = "dc42" => mem[c]["tail"] # <<>>
      BY <1>1, <2>1 DEF AlwaysOf
    <3> QED BY <1>1, <2>1, <2>2, <3>1, <3>2 DEF AlwaysFile
  <2>7. AlwaysOf(c)'
    <3>1. buf[c] = <<>>
      BY <1>1, <2>1 DEF AlwaysOf
    <3> QED BY <1>1, <1>3, <2>1, <2>2, <2>3, <3>1, NoCells DEF AlwaysOf
  <2>8. ASSUME ~overlapped'
        PROVE  /\ Running \subseteq {c}
               /\ NoGaps' /\ Unbroken' /\ OfOneSave' /\ TurnOf(c)'
               /\ \A g \in Commands : ReportWith(c, g)'
    <3>1. /\ Running \subseteq {c} /\ Alone /\ TurnOf(c)
          /\ \A g \in Commands : ReportWith(c, g)
      BY <1>1, <2>2, <2>8, TurnInv
    <3>2. /\ Editing(c) /\ at[c] = 1 /\ file # NoFile /\ file \in Seq(CellSet) /\ ~IsMkfs(c)
      <4>1. Editing(c) /\ at[c] = 1 /\ file # NoFile /\ file \in Seq(CellSet)
        BY <1>1, <2>1, <3>1 DEF TurnOf, AlwaysOf, TypeOK
      <4>2. job[c] \in DOMAIN Calls
        BY <1>1, <2>1 DEF AlwaysOf
      <4> QED BY <4>1, <4>2 DEF IsMkfs, Calls
    <3>3. NoGaps'
      BY <1>1, <3>1 DEF Alone, NoGaps
    <3>4. Unbroken'
      BY <1>1, <2>2, <3>2 DEF Unbroken, Editing
    <3>5. CASE job[c] = "inplace"
      <4>1. pc'[c] = "write" /\ InPlace(c)'
        BY <1>1, <2>3, <3>5 DEF InPlace
      <4>2. OfOneSave'
        BY <4>1 DEF OfOneSave
      <4>3. TurnOf(c)'
        <5>1. Len(ImageIn(container, mem[c])) \in Nat /\ Len(file) \in Nat
          <6>1. ImageIn(container, mem[c]) \in Seq(CellSet)
            BY <2>1, <2>3, ImageShape DEF TypeOK
          <6> QED BY <3>2, <6>1, LenProperties
        <5>2. /\ at'[c] <= Len(ImageIn(container, mem[c])) + 1 /\ at'[c] <= Len(file) + 1
              /\ 1 .. at'[c] - 1 = {}
          <6>1. at'[c] = 1
            BY <2>3, <3>2
          <6> QED BY <5>1, <6>1
        <5>3. Len(file) = Len(ImageIn(container, mem[c])) /\ Outgrown(c)'
          BY <1>1, <2>2, <2>3, <3>2 DEF Editing, Outgrown
        <5>4. Writing(c)'
          BY <1>1, <2>2, <2>3, <3>5, <5>2, <5>3 DEF Writing
        <5> QED BY <4>1, <5>4 DEF TurnOf
      <4>4. ASSUME NEW g \in Commands PROVE ReportWith(c, g)'
        <5>1. Good(g)' = Good(g)
          BY <1>1, <2>2, <2>3 DEF Good
        <5> QED BY <1>1, <2>2, <2>3, <3>1, <3>2, <5>1 DEF ReportWith, Editing
      <4> QED BY <3>1, <3>3, <3>4, <4>2, <4>3, <4>4
    <3>6. CASE job[c] # "inplace"
      <4>1. pc'[c] = "create" /\ saves' = saves /\ UNCHANGED history
        BY <2>2, <2>3, <3>6 DEF history
      <4>2. OfOneSave' /\ \A g \in Commands : Good(g)' = Good(g)
        BY <1>1, <2>3, <2>4, <3>1, <4>1, QuietStep
      <4>3. TurnOf(c)'
        BY <1>1, <3>2, <4>1 DEF TurnOf, IsMkfs
      <4>4. ASSUME NEW g \in Commands PROVE ReportWith(c, g)'
        BY <1>1, <2>2, <2>3, <3>1, <3>2, <4>1, <4>2 DEF ReportWith, InPlace, IsMkfs
      <4> QED BY <3>1, <3>3, <3>4, <4>2, <4>3, <4>4
    <3> QED BY <3>5, <3>6
  <2> QED BY <1>1, <2>2, <2>3, <2>4, <2>5, <2>6, <2>7, <2>8, StepInv
<1> QED BY <1>2, <1>3

-----------------------------------------------------------------------------
(***************************************************************************)
(* Programs that save.                                                     *)
(***************************************************************************)
LEMMA CreateFileInv ==
  ASSUME Inv, NEW c \in Commands, CreateFile(c)
  PROVE  Inv'
<1>1. /\ pc[c] = "create" /\ c \in Running /\ UNCHANGED <<job, container, overlapped>>
  BY DEF CreateFile, Running
<1>2. CASE Ends(c, "failed") /\ UNCHANGED <<file, saves, wiped>>
  BY <1>1, <1>2, StopsInv DEF history
<1>3. CASE /\ GoesTo(c, "write") /\ UNCHANGED memory
           /\ file' = <<>>
           /\ saves' = saves \cup {mem[c]}
           /\ wiped' = IF job[c] = "mkfs force" THEN {d \in Commands : outcome[d] = "ok"} ELSE wiped
  <2>1. TypeOK /\ AlwaysFile /\ AlwaysOf(c)
    BY DEF Inv, Always
  <2>2. /\ pc'[c] = "write" /\ UNCHANGED <<todo, at, buf, mem, outcome>>
        /\ saves \subseteq saves' /\ mem[c] \in saves' /\ mem[c] \in VolType
    BY <1>3, <2>1 DEF GoesTo, memory, TypeOK
  <2>3. Others(c)
    BY <1>1, <1>3, <2>1 DEF Others, Kept, GoesTo, memory, TypeOK
  <2>4. <<>> # NoFile /\ <<>> \in Seq(CellSet) /\ Len(<<>>) = 0 /\ DOMAIN <<>> = {}
    BY NoCells DEF NoFile
  <2>5. TypeOK'
    <3>1. pc' \in [Commands -> {"idle", "format", "read", "edit", "create", "write", "done"}]
      BY <1>3, <2>1 DEF TypeOK, GoesTo
    <3>2. saves' \subseteq VolType
      BY <1>3, <2>1, <2>2 DEF TypeOK
    <3>3. wiped' \subseteq Commands
      BY <1>3, <2>1 DEF TypeOK
    <3> QED BY <1>1, <1>3, <2>1, <2>2, <2>4, <3>1, <3>2, <3>3 DEF TypeOK
  <2>6. AlwaysFile'
    <3>1. container = "dc42" => mem[c]["tail"] # <<>>
      BY <1>1, <2>1 DEF AlwaysOf
    <3> QED BY <1>1, <1>3, <2>1, <3>1, NoCells DEF AlwaysFile
  <2>7. AlwaysOf(c)'
    <3>1. buf[c] = <<>>
      BY <1>1, <2>1 DEF AlwaysOf
    <3> QED BY <1>1, <1>3, <2>1, <2>2, <2>4, <3>1, NoCells DEF AlwaysOf
  <2>8. ASSUME ~overlapped'
        PROVE  /\ Running \subseteq {c}
               /\ NoGaps' /\ Unbroken' /\ OfOneSave' /\ TurnOf(c)'
               /\ \A g \in Commands : ReportWith(c, g)'
    <3>1. /\ Running \subseteq {c} /\ Alone /\ TurnOf(c)
          /\ \A g \in Commands : ReportWith(c, g)
      BY <1>1, <2>8, TurnInv
    <3>2. NoGaps' /\ Unbroken'
      BY <1>3, <2>2, <2>4 DEF NoGaps, Unbroken
    <3>3. /\ ImageIn(container, mem[c]) \in Seq(CellSet)
          /\ Len(ImageIn(container, mem[c])) \in Nat
      BY <2>1, <2>2, ImageShape, LenProperties DEF TypeOK
    <3>4. OfOneSave'
      <4>1. PrefixOf(container, <<>>, mem[c])
        BY <2>4, <3>3 DEF PrefixOf
      <4> QED BY <1>1, <1>3, <2>2, <4>1 DEF OfOneSave
    <3>5. at[c] = 1 /\ job[c] # "inplace" /\ outcome[c] = "none"
      BY <1>1, <2>1 DEF AlwaysOf
    <3>6. TurnOf(c)'
      <4>1. /\ at'[c] <= Len(ImageIn(container, mem[c])) + 1 /\ at'[c] <= Len(file') + 1
            /\ 1 .. at'[c] - 1 = {} /\ Len(file') = at'[c] - 1
        <5>1. at'[c] = 1 /\ Len(file') = 0
          BY <1>3, <2>2, <2>4, <3>5
        <5> QED BY <3>3, <5>1
      <4>2. Writing(c)'
        BY <1>1, <2>2, <3>5, <4>1 DEF Writing
      <4> QED BY <2>2, <4>2 DEF TurnOf
    <3>7. ASSUME NEW g \in Commands, Good(g)' PROVE Good(g) /\ ~IsMkfs(c)
      <4>1. job[c] # "mkfs force"
        BY <1>1, <1>3, <2>2, <3>7 DEF Good
      <4>2. Good(g)
        BY <1>1, <1>3, <2>2, <3>7, <4>1 DEF Good
      <4>3. job[c] # "mkfs"
        BY <1>1, <3>1, <4>2 DEF TurnOf, ReportWith
      <4> QED BY <4>1, <4>2, <4>3 DEF IsMkfs
    <3>8. ~OpensIn(container, <<>>)
      <4>1. CASE container = "raw"
        BY <2>4, <4>1 DEF OpensIn, RawOpens
      <4>2. CASE container = "dc42"
        BY <2>4, <4>2 DEF OpensIn, Dc42Opens
      <4> QED BY <2>1, <4>1, <4>2 DEF TypeOK
    <3>9. ASSUME NEW g \in Commands PROVE ReportWith(c, g)'
      <4>1. ~InPlace(c)'
        BY <1>1, <3>5 DEF InPlace
      <4> QED BY <1>1, <1>3, <2>2, <2>4, <3>1, <3>7, <3>8, <4>1 DEF ReportWith
    <3> QED BY <3>1, <3>2, <3>4, <3>6, <3>9
  <2> QED BY <1>1, <1>3, <2>2, <2>3, <2>4, <2>5, <2>6, <2>7, <2>8, StepInv
<1> QED BY <1>2, <1>3 DEF CreateFile

\* An absent file is not a file of cells.
LEMMA AbsentFile == NoFile \notin Seq(CellSet)
<1>1. SUFFICES ASSUME NoFile \in Seq(CellSet) PROVE FALSE
  OBVIOUS
<1>2. NoFile[1] = [part |-> "none", by |-> <<>>] /\ Len(NoFile) = 1
  BY DEF NoFile
<1>3. NoFile[1] \in CellSet
  <2>1. 1 \in 1 .. Len(NoFile)
    BY <1>2
  <2> QED BY <1>1, <2>1, ElementOfSeq
<1>4. NoFile[1].part = "none"
  BY <1>2
<1>5. \A x \in CellSet : x.part # "none"
  <2>1. Zeros.part # "none" /\ \A v \in VolType : Header(v).part # "none"
    BY DEF Zeros, Header
  <2>2. \A v \in VolType, i \in Places : Cell(v, i).part # "none"
    <3>1. \A i \in Places : Parts[i] # "none"
      BY DEF Parts, Places
    <3> QED BY <3>1 DEF Cell
  <2> QED BY <2>1, <2>2 DEF CellSet
<1> QED BY <1>3, <1>4, <1>5

\* A cell written at or behind the end of the cells there are, or over one of them.
LEMMA WrittenIs ==
  ASSUME NEW f \in Seq(CellSet), NEW k \in Nat \ {0}, NEW cell \in CellSet
  PROVE  /\ Written(f, k, cell) \in Seq(CellSet)
         /\ Len(Written(f, k, cell)) = IF k > Len(f) THEN k ELSE Len(f)
         /\ Written(f, k, cell)[k] = cell
         /\ \A i \in DOMAIN Written(f, k, cell) : i # k /\ i \notin DOMAIN f => Written(f, k, cell)[i] = Zeros
<1> DEFINE n == IF k > Len(f) THEN k ELSE Len(f)
           w == Written(f, k, cell)
<1>1. n \in Nat /\ k \in 1 .. n /\ (\A i \in DOMAIN f : i \in 1 .. n) /\ Len(f) \in Nat
  OBVIOUS
<1>2. w = [i \in 1 .. n |-> IF i = k THEN cell ELSE IF i <= Len(f) THEN f[i] ELSE Zeros]
  BY DEF Written
<1>3. Zeros \in CellSet
  BY DEF CellSet
<1> HIDE DEF n, w
<1>4. w \in [1 .. n -> CellSet]
  <2>1. ASSUME NEW i \in 1 .. n
        PROVE  (IF i = k THEN cell ELSE IF i <= Len(f) THEN f[i] ELSE Zeros) \in CellSet
    BY <1>1, <1>3
  <2> QED BY <1>2, <2>1
<1>5. w \in Seq(CellSet) /\ Len(w) = n /\ DOMAIN w = 1 .. n
  BY <1>1, <1>4, SeqDef, LenProperties
<1>6. w[k] = cell
  BY <1>1, <1>2
<1>7. ASSUME NEW i \in DOMAIN w, i # k, i \notin DOMAIN f PROVE w[i] = Zeros
  BY <1>1, <1>2, <1>5, <1>7
<1> QED BY <1>5, <1>6, <1>7 DEF n, w

\* Writing a cell keeps the others.
LEMMA WrittenKeeps ==
  ASSUME NEW f \in Seq(CellSet), NEW n \in Nat \ {0}, NEW cell \in CellSet
  PROVE  \A i \in DOMAIN f : i # n => Written(f, n, cell)[i] = f[i]
<1> DEFINE m == IF n > Len(f) THEN n ELSE Len(f)
<1>1. /\ Written(f, n, cell)
           = [i \in 1 .. m |-> IF i = n THEN cell ELSE IF i <= Len(f) THEN f[i] ELSE Zeros]
      /\ \A i \in DOMAIN f : i \in 1 .. m /\ i <= Len(f)
  BY DEF Written
<1> HIDE DEF m
<1> QED BY <1>1

\* A program that saves into its file changes only parts of it into its own.
LEMMA PartWritten ==
  ASSUME NEW k \in {"raw", "dc42"}, NEW v \in VolType, NEW f \in Seq(CellSet), NEW n \in Nat \ {0},
         n <= Len(ImageIn(k, v)), n <= Len(f), NEW i \in Places
  PROVE  LET w == Written(f, n, ImageIn(k, v)[n])
         IN  PartIn(k, i, w) = PartIn(k, i, f) \/ PartIn(k, i, w) = v[Parts[i]]
<1> DEFINE w == Written(f, n, ImageIn(k, v)[n])
           m == Off(k) + i
<1>1. ImageIn(k, v) \in Seq(CellSet) /\ n \in DOMAIN ImageIn(k, v)
  BY ImageShape, LenProperties
<1>2. ImageIn(k, v)[n] \in CellSet
  BY <1>1, ImageCells
<1>3. /\ w \in Seq(CellSet) /\ Len(w) = Len(f) /\ w[n] = ImageIn(k, v)[n]
      /\ \A j \in DOMAIN f : j # n => w[j] = f[j]
  <2> DEFINE cell == ImageIn(k, v)[n]
  <2> HIDE DEF cell
  <2>1. /\ Written(f, n, cell) \in Seq(CellSet) /\ Written(f, n, cell)[n] = cell
        /\ Len(Written(f, n, cell)) = IF n > Len(f) THEN n ELSE Len(f)
        /\ \A j \in DOMAIN f : j # n => Written(f, n, cell)[j] = f[j]
    <3>1. cell \in CellSet
      BY <1>2 DEF cell
    <3>2. Written(f, n, cell) \in Seq(CellSet)
      BY <3>1, WrittenIs
    <3>3. Written(f, n, cell)[n] = cell
      BY <3>1, WrittenIs
    <3>4. Len(Written(f, n, cell)) = IF n > Len(f) THEN n ELSE Len(f)
      BY <3>1, WrittenIs
    <3>5. \A j \in DOMAIN f : j # n => Written(f, n, cell)[j] = f[j]
      BY <3>1, WrittenKeeps
    <3> QED BY <3>2, <3>3, <3>4, <3>5
  <2>2. (IF n > Len(f) THEN n ELSE Len(f)) = Len(f)
    BY LenProperties
  <2> QED BY <2>1, <2>2 DEF cell
<1>4. m \in Nat \ {0} /\ m = Off(k) + i
  BY DEF Off, Places
<1> HIDE DEF w, m
<1>5. CASE m = n
  <2>1. PartIn(k, i, w) = v[Parts[i]]
    BY <1>3, <1>4, <1>5, PartOfImage
  <2> QED BY <2>1 DEF w
<1>6. CASE m # n /\ m <= Len(f)
  <2>1. w[m] = f[m]
    BY <1>3, <1>4, <1>6
  <2>2. PartIn(k, i, w) = PartIn(k, i, f)
    BY <1>3, <1>4, <1>6, <2>1 DEF PartIn
  <2> QED BY <2>2 DEF w
<1>7. CASE ~(m <= Len(f))
  <2>1. PartIn(k, i, w) = PartIn(k, i, f)
    BY <1>3, <1>4, <1>7 DEF PartIn
  <2> QED BY <2>1 DEF w
<1> QED BY <1>5, <1>6, <1>7

\* What opens of the first cells of an image has all its parts but, perhaps, the tail.
LEMMA OpensParts ==
  ASSUME NEW k \in {"raw", "dc42"}, NEW v \in VolType, NEW cells \in Seq(CellSet),
         PrefixOf(k, cells, v), OpensIn(k, cells)
  PROVE  /\ \A i \in 1 .. 5 : PartIn(k, i, cells) = v[Parts[i]]
         /\ PartIn(k, 6, cells) = v["tail"] \/ (k = "raw" /\ PartIn(k, 6, cells) = <<>>)
<1>1. (Len(cells) = Off(k) + 5 /\ k = "raw") \/ Len(cells) = Off(k) + 6
  <2>1. CASE k = "raw"
    BY <2>1 DEF OpensIn, RawOpens, Off
  <2>2. CASE k = "dc42"
    BY <2>2 DEF OpensIn, Dc42Opens, Off
  <2> QED BY <2>1, <2>2
<1>2. ASSUME NEW i \in Places, Off(k) + i <= Len(cells) PROVE PartIn(k, i, cells) = v[Parts[i]]
  <2>1. Off(k) + i \in DOMAIN cells
    BY <1>2 DEF Off, Places
  <2>2. /\ Len(cells) <= Len(ImageIn(k, v)) /\ cells[Off(k) + i] = ImageIn(k, v)[Off(k) + i]
        /\ Len(ImageIn(k, v)) \in Nat
    BY <2>1, ImageShape, LenProperties DEF PrefixOf
  <2>3. Off(k) + i <= Len(ImageIn(k, v))
    BY <1>2, <2>2 DEF Off, Places
  <2> QED BY <1>2, <2>2, <2>3, PartOfImage
<1>3. ASSUME NEW i \in 1 .. 5 PROVE PartIn(k, i, cells) = v[Parts[i]]
  <2>1. i \in Places /\ i \in Int /\ i <= 5
    BY DEF Places
  <2>2. Off(k) \in Int
    BY DEF Off
  <2>3. Off(k) + i <= Len(cells)
    BY <1>1, <2>1, <2>2
  <2> QED BY <1>2, <2>1, <2>3
<1>4. CASE Len(cells) = Off(k) + 6
  <2>1. 6 \in Places /\ Off(k) + 6 <= Len(cells)
    BY <1>4 DEF Off, Places
  <2>2. PartIn(k, 6, cells) = v["tail"]
    BY <1>2, <2>1, PartPlaces
  <2> QED BY <1>3, <2>2
<1>5. CASE Len(cells) = Off(k) + 5 /\ k = "raw"
  <2>1. PartIn(k, 6, cells) = <<>>
    BY <1>5 DEF PartIn, Off
  <2> QED BY <1>3, <1>5, <2>1
<1> QED BY <1>1, <1>4, <1>5

\* A program writes one more cell of its image, or meets an I/O error.
LEMMA WriteNextInv ==
  ASSUME Inv, NEW c \in Commands, WriteNext(c)
  PROVE  Inv'
<1>1. /\ pc[c] = "write" /\ c \in Running /\ at[c] <= Len(ImageIn(container, mem[c]))
      /\ UNCHANGED <<job, history>> /\ UNCHANGED <<container, saves, wiped, overlapped>>
  BY DEF WriteNext, Running, history, Image
<1>2. CASE Ends(c, "save cut") /\ UNCHANGED file
  BY <1>1, <1>2, StopsInv
<1>3. CASE /\ file' = Written(file, at[c], Image(mem[c])[at[c]])
           /\ at' = [at EXCEPT ![c] = @ + 1]
           /\ UNCHANGED <<pc, outcome, todo, buf, mem>>
  <2> DEFINE k == container
             v == mem[c]
             n == at[c]
             im == ImageIn(k, v)
  <2>1. TypeOK /\ AlwaysFile /\ AlwaysOf(c)
    BY DEF Inv, Always
  <2>2. k \in {"raw", "dc42"} /\ v \in VolType /\ v \in saves /\ n \in Nat \ {0} /\ file \in Seq(CellSet)
    BY <1>1, <2>1 DEF TypeOK, AlwaysOf
  <2>3. im \in Seq(CellSet) /\ n \in DOMAIN im /\ im[n] # Zeros /\ im[n] \in CellSet /\ Len(im) \in Nat
    <3>1. im \in Seq(CellSet)
      BY <2>2, ImageShape
    <3>2. n \in DOMAIN im /\ Len(im) \in Nat
      BY <1>1, <2>2, <3>1, LenProperties
    <3> QED BY <2>2, <3>1, <3>2, ImageCells
  <2>4. file' = Written(file, n, im[n]) /\ at'[c] = n + 1 /\ UNCHANGED <<pc, outcome, todo, buf, mem>>
    BY <1>3, <2>1 DEF Image, TypeOK
  <2> HIDE DEF im
  <2>5. /\ file' \in Seq(CellSet) /\ Len(file') = IF n > Len(file) THEN n ELSE Len(file)
        /\ file'[n] = im[n] /\ \A i \in DOMAIN file : i # n => file'[i] = file[i]
        /\ \A i \in DOMAIN file' : i # n /\ i \notin DOMAIN file => file'[i] = Zeros
    <3> DEFINE cell == im[n]
    <3> HIDE DEF n, v, cell
    <3>1. file' = Written(file, n, cell) /\ cell \in CellSet
      BY <2>3, <2>4 DEF cell
    <3>2. file' \in Seq(CellSet)
      BY <2>2, <3>1, WrittenIs
    <3>3. Len(file') = IF n > Len(file) THEN n ELSE Len(file)
      BY <2>2, <3>1, WrittenIs
    <3>4. file'[n] = im[n]
      BY <2>2, <3>1, WrittenIs DEF cell
    <3>5. \A i \in DOMAIN file : i # n => file'[i] = file[i]
      BY <2>2, <3>1, WrittenKeeps
    <3>6. \A i \in DOMAIN file' : i # n /\ i \notin DOMAIN file => file'[i] = Zeros
      BY <2>2, <3>1, WrittenIs
    <3> QED BY <3>2, <3>3, <3>4, <3>5, <3>6
  <2>6. file' # NoFile
    BY <2>5, AbsentFile
  <2>7. Others(c)
    BY <1>1, <1>3, <2>1 DEF Others, Kept, TypeOK
  <2>8. TypeOK'
    <3>1. at' \in [Commands -> Nat \ {0}]
      <4>1. n + 1 \in Nat \ {0}
        BY <2>2
      <4> QED BY <1>3, <2>1, <4>1 DEF TypeOK
    <3> QED BY <1>1, <2>1, <2>4, <2>5, <3>1 DEF TypeOK
  <2>9. AlwaysFile'
    <3>1. FromSaves(k, saves, file)
      BY <2>1, <2>2, AbsentFile DEF AlwaysFile
    <3>2. ASSUME NEW i \in DOMAIN file'
          PROVE  \/ file'[i] = Zeros
                 \/ \E u \in saves : i \in DOMAIN ImageIn(k, u) /\ file'[i] = ImageIn(k, u)[i]
      <4>1. CASE i = n
        BY <2>2, <2>3, <2>5, <4>1 DEF im
      <4>2. CASE i # n /\ i \in DOMAIN file
        BY <2>5, <3>1, <4>2 DEF FromSaves
      <4>3. CASE i # n /\ i \notin DOMAIN file
        BY <2>5, <4>3
      <4> QED BY <4>1, <4>2, <4>3
    <3>3. FromSaves(k, saves, file')
      BY <3>2 DEF FromSaves
    <3> QED BY <1>1, <2>1, <3>3 DEF AlwaysFile
  <2>10. AlwaysOf(c)'
    BY <1>1, <2>1, <2>4, <2>6 DEF AlwaysOf
  <2>11. ASSUME ~overlapped'
         PROVE  /\ Running \subseteq {c}
                /\ NoGaps' /\ Unbroken' /\ OfOneSave' /\ TurnOf(c)'
                /\ \A g \in Commands : ReportWith(c, g)'
    <3>1. /\ Running \subseteq {c} /\ Alone /\ TurnOf(c)
          /\ \A g \in Commands : ReportWith(c, g)
      BY <1>1, <2>11, TurnInv
    <3>2. /\ n <= Len(file) + 1 /\ Len(file) \in Nat
          /\ \A i \in 1 .. n - 1 : file[i] = im[i]
          /\ job[c] = "inplace" => Len(file) = Len(im) /\ Outgrown(c)
          /\ job[c] # "inplace" => Len(file) = n - 1
      BY <1>1, <2>2, <3>1, LenProperties DEF TurnOf, Writing, im
    <3>3. NoGaps'
      <4>1. ASSUME NEW i \in DOMAIN file' PROVE file'[i] # Zeros
        <5>1. i = n \/ i \in DOMAIN file
          BY <2>2, <2>5, <3>2
        <5>2. CASE i = n
          BY <2>3, <2>5, <5>2
        <5>3. CASE i # n /\ i \in DOMAIN file
          <6>1. file # NoFile
            BY <2>2, AbsentFile
          <6> QED BY <2>5, <3>1, <5>3, <6>1 DEF Alone, NoGaps
        <5> QED BY <5>1, <5>2, <5>3
      <4> QED BY <4>1 DEF NoGaps
    <3>4. Unbroken'
      BY <1>1, <2>4 DEF Unbroken
    <3>5. \A i \in 1 .. n : file'[i] = im[i]
      <4>1. ASSUME NEW i \in 1 .. n PROVE file'[i] = im[i]
        <5>1. CASE i = n
          BY <2>5, <5>1
        <5>2. CASE i # n
          <6>1. i \in 1 .. n - 1 /\ i \in DOMAIN file
            BY <2>2, <3>2, <5>2
          <6> QED BY <2>5, <3>2, <5>2, <6>1
        <5> QED BY <5>1, <5>2
      <4> QED BY <4>1
    <3>6. CASE job[c] = "inplace"
      <4>1. InPlace(c) /\ InPlace(c)'
        BY <1>1, <2>4, <3>6 DEF InPlace
      <4>2. OfOneSave'
        BY <4>1 DEF OfOneSave
      <4>3. n <= Len(file) /\ Len(file') = Len(file)
        BY <1>1, <2>2, <2>5, <3>2, <3>6 DEF im
      <4>4. ASSUME NEW i \in 1 .. 5
            PROVE  PartIn(k, i, file') = PartIn(k, i, file) \/ PartIn(k, i, file') = v[Parts[i]]
        <5>1. i \in Places
          BY DEF Places
        <5> QED BY <1>1, <2>2, <2>4, <4>3, <5>1, PartWritten DEF im
      <4>5. Outgrown(c)'
        <5>1. \A i \in 1 .. 5 : ToSet(PartIn(k, i, file')) \subseteq ToSet(v[Parts[i]])
          BY <3>2, <3>6, <4>4 DEF Outgrown
        <5> QED BY <1>1, <2>4, <5>1 DEF Outgrown
      <4>6. TurnOf(c)'
        <5>1. /\ n + 1 <= Len(im) + 1 /\ n + 1 <= Len(file') + 1 /\ (n + 1) - 1 = n
          BY <1>1, <2>2, <2>3, <3>2, <4>3 DEF im
        <5>2. Writing(c)'
          BY <1>1, <2>4, <3>2, <3>5, <3>6, <4>3, <4>5, <5>1 DEF Writing, im
        <5> QED BY <1>1, <2>4, <5>2 DEF TurnOf
      <4>7. ASSUME NEW g \in Commands PROVE ReportWith(c, g)'
        <5>1. SUFFICES ASSUME Good(g)'
                       PROVE  TraceIn(k, g, file') /\ Trace(g, v)
          BY <1>1, <2>4, <2>6 DEF ReportWith
        <5>2. TraceIn(k, g, file) /\ Trace(g, v)
          BY <1>1, <2>4, <3>1, <4>1, <5>1 DEF ReportWith, Good
        <5>3. PICK i \in 1 .. 5 : g \in ToSet(PartIn(k, i, file))
          BY <5>2 DEF TraceIn
        <5>4. g \in ToSet(v[Parts[i]])
          BY <3>2, <3>6, <5>3 DEF Outgrown
        <5>5. g \in ToSet(PartIn(k, i, file'))
          BY <4>4, <5>3, <5>4
        <5> QED BY <5>2, <5>5 DEF TraceIn
      <4> QED BY <3>1, <3>3, <3>4, <4>2, <4>6, <4>7
    <3>7. CASE job[c] # "inplace"
      <4>1. Len(file') = n
        BY <2>2, <2>5, <3>2, <3>7
      <4>2. PrefixOf(k, file', v)
        BY <1>1, <2>2, <2>5, <3>5, <4>1 DEF PrefixOf, im
      <4>3. OfOneSave'
        BY <1>1, <2>2, <4>2 DEF OfOneSave
      <4>4. TurnOf(c)'
        <5>1. /\ n + 1 <= Len(im) + 1 /\ n + 1 <= Len(file') + 1 /\ (n + 1) - 1 = n
          BY <1>1, <2>2, <2>3, <4>1 DEF im
        <5>2. Writing(c)'
          BY <1>1, <2>4, <3>5, <3>7, <4>1, <5>1 DEF Writing, im
        <5> QED BY <1>1, <2>4, <5>2 DEF TurnOf
      <4>5. ASSUME NEW g \in Commands PROVE ReportWith(c, g)'
        <5>1. SUFFICES ASSUME Good(g)'
                       PROVE  (OpensIn(k, file') => TraceIn(k, g, file')) /\ Trace(g, v)
          BY <1>1, <2>4, <2>6, <3>7 DEF ReportWith, InPlace
        <5>2. Trace(g, v)
          BY <1>1, <2>4, <3>1, <5>1 DEF ReportWith, Good
        <5>3. ASSUME OpensIn(k, file') PROVE TraceIn(k, g, file')
          <6>1. \A i \in 1 .. 5 : PartIn(k, i, file') = v[Parts[i]]
            BY <2>2, <2>5, <4>2, <5>3, OpensParts
          <6> QED BY <5>2, <6>1 DEF Trace, TraceIn
        <5> QED BY <5>2, <5>3
      <4> QED BY <3>1, <3>3, <3>4, <4>3, <4>4, <4>5
    <3> QED BY <3>6, <3>7
  <2> QED BY <1>1, <2>6, <2>7, <2>8, <2>9, <2>10, <2>11, StepInv
<1> QED BY <1>2, <1>3 DEF WriteNext

\* A program has written its image, and reports it.
LEMMA SavedInv ==
  ASSUME Inv, NEW c \in Commands, Saved(c)
  PROVE  Inv'
<1>1. /\ pc[c] = "write" /\ c \in Running /\ at[c] > Len(ImageIn(container, mem[c]))
      /\ UNCHANGED <<file, job, history>> /\ UNCHANGED <<container, saves, wiped, overlapped>>
      /\ Ends(c, "ok")
  BY DEF Saved, Running, history, Image
<1>2. TypeOK /\ AlwaysFile /\ AlwaysOf(c)
  BY DEF Inv, Always
<1>3. /\ Others(c) /\ TypeOK' /\ AlwaysFile' /\ AlwaysOf(c)'
      /\ pc'[c] = "done" /\ outcome'[c] = "ok" /\ outcome[c] = "none"
  <2>1. /\ job' \in [Commands -> Jobs \cup {"none"}] /\ overlapped' \in BOOLEAN
        /\ \A d \in Commands \ {c} : job'[d] = job[d]
    BY <1>1, <1>2 DEF TypeOK
  <2> QED BY <1>1, <2>1, EndsIs
<1>4. ASSUME ~overlapped'
      PROVE  /\ Running \subseteq {c}
             /\ NoGaps' /\ Unbroken' /\ OfOneSave' /\ TurnOf(c)'
             /\ \A g \in Commands : ReportWith(c, g)'
  <2> DEFINE k == container
             v == mem[c]
  <2>1. /\ Running \subseteq {c} /\ Alone /\ TurnOf(c)
        /\ \A g \in Commands : ReportWith(c, g)
    BY <1>1, <1>4, TurnInv
  <2>2. /\ k \in {"raw", "dc42"} /\ v \in VolType /\ v \in saves /\ at[c] \in Nat
        /\ file \in Seq(CellSet) /\ file # NoFile
    BY <1>1, <1>2 DEF TypeOK, AlwaysOf
  <2>3. ImageIn(k, v) \in Seq(CellSet)
    BY <2>2, ImageShape
  <2>4. file = ImageIn(k, v)
    <3> DEFINE im == ImageIn(k, v)
    <3>1. Writing(c)
      BY <1>1, <2>1 DEF TurnOf
    <3>2. /\ at[c] <= Len(im) + 1 /\ \A i \in 1 .. at[c] - 1 : file[i] = im[i]
          /\ job[c] = "inplace" => Len(file) = Len(im)
          /\ job[c] # "inplace" => Len(file) = at[c] - 1
      BY <3>1 DEF Writing
    <3> HIDE DEF im
    <3>3. Len(im) \in Nat /\ at[c] > Len(im)
      BY <1>1, <2>3, LenProperties DEF im
    <3>4. at[c] - 1 = Len(im)
      BY <2>2, <3>2, <3>3
    <3>5. Len(file) = Len(im) /\ \A i \in 1 .. Len(file) : file[i] = im[i]
      BY <3>2, <3>4
    <3> QED BY <2>2, <2>3, <3>5, SeqEqual DEF im
  <2>5. OpensIn(k, file)
    BY <1>1, <1>2, <2>2, <2>4, ImageOpens DEF AlwaysOf
  <2>6. PrefixOf(k, file, v)
    BY <2>3, <2>4, LenProperties DEF PrefixOf
  <2>7. NoGaps' /\ Unbroken' /\ OfOneSave' /\ TurnOf(c)'
    BY <1>1, <1>3, <2>1, <2>2, <2>5, <2>6 DEF Alone, NoGaps, Unbroken, OfOneSave, TurnOf
  <2>8. ASSUME NEW g \in Commands PROVE ReportWith(c, g)'
    <3>1. ASSUME Good(g)' PROVE TraceIn(k, g, file)
      <4>1. CASE g = c
        <5>1. Trace(c, v)
          BY <1>1, <1>2 DEF AlwaysOf
        <5> QED BY <2>2, <2>5, <2>6, <4>1, <5>1, OpensParts DEF Trace, TraceIn
      <4>2. CASE g # c
        <5>1. Good(g)
          BY <1>1, <1>3, <3>1, <4>2 DEF Good, Others, Kept
        <5>2. Trace(g, v)
          BY <1>1, <2>1, <5>1 DEF ReportWith
        <5> QED BY <2>2, <2>5, <2>6, <5>2, OpensParts DEF Trace, TraceIn
      <4> QED BY <4>1, <4>2
    <3> QED BY <1>1, <1>3, <2>2, <3>1 DEF ReportWith
  <2> QED BY <2>1, <2>7, <2>8
<1> QED BY <1>1, <1>3, <1>4, StepInv

-----------------------------------------------------------------------------
(***************************************************************************)
(* The invariant, and what follows from it.                                *)
(***************************************************************************)
LEMMA NextInv ==
  ASSUME Inv, [Next]_vars
  PROVE  Inv'
<1>1. CASE Next
  BY <1>1, MkfsInv, FormatInv, StartInv, ReadNextInv, OpenInv, EditInv, EditedInv,
     CreateFileInv, WriteNextInv, SavedInv, KilledInv DEF Next
<1>2. CASE UNCHANGED vars
  <2>1. UNCHANGED <<container, file, pc, job, todo, at, buf, mem, outcome, saves, wiped, overlapped>>
    BY <1>2 DEF vars, memory, history
  <2>2. TypeOK' /\ AlwaysFile' /\ \A c \in Commands : AlwaysOf(c)'
    BY <2>1 DEF Inv, Always, TypeOK, AlwaysFile, AlwaysOf, IsMkfs
  <2>3. ASSUME ~overlapped' PROVE Alone'
    <3>1. Alone
      BY <2>1, <2>3 DEF Inv
    <3>2. OneAtATime' /\ NoGaps' /\ Unbroken' /\ OfOneSave'
      BY <2>1, <3>1 DEF Alone, OneAtATime, Running, NoGaps, Unbroken, OfOneSave, CutInPlace, InPlace
    <3>3. \A c \in Commands : TurnOf(c)'
      BY <2>1, <3>1 DEF Alone, TurnOf, Editing, Writing, Outgrown
    <3>4. \A c \in Commands : ReportKept(c)'
      BY <2>1, <3>1 DEF Alone, ReportKept, Good, InPlace, IsMkfs
    <3> QED BY <3>2, <3>3, <3>4 DEF Alone
  <2> QED BY <2>2, <2>3 DEF Inv, Always
<1> QED BY <1>1, <1>2

\* The invariant holds in every state, whatever programs there are and whichever way
\* they interleave.
LEMMA InvAlways == Spec => []Inv
<1>1. Init => Inv
  BY FirstInv
<1>2. Inv /\ [Next]_vars => Inv'
  BY NextInv
<1> QED BY <1>1, <1>2, PTL DEF Spec

\* Whatever programs run one after the other, and wherever they stop: the change a
\* program reported is in the image for as long as that opens, until a mkfs --force
\* makes it anew.
THEOREM UpdatesStay == Spec => []NoUpdateLost
<1>1. ASSUME Inv PROVE NoUpdateLost
  <2>1. SUFFICES ASSUME ~overlapped, Opens(file), NEW c \in Commands,
                        outcome[c] = "ok", job[c] # "look", c \notin wiped
                 PROVE  c \in Lineage(Opened(file))
    BY DEF NoUpdateLost
  <2>2. ReportKept(c) /\ Good(c) /\ OpensIn(container, file)
    BY <1>1, <2>1, OpenedIs DEF Inv, Alone, Good
  <2>3. PICK i \in 1 .. 5 : c \in ToSet(PartIn(container, i, file))
    BY <2>2 DEF ReportKept, TraceIn
  <2>4. i \in Places
    BY DEF Places
  <2>5. Parts[i] \in PartSet /\ c \in ToSet(Opened(file)[Parts[i]])
    BY <2>3, <2>4, PartPlaces, OpenedIs
  <2> QED BY <2>5 DEF Lineage
<1> QED BY <1>1, InvAlways, PTL

\* Whatever programs run one after the other: an image stops opening only because a
\* save of it is under way or was cut short.
THEOREM OnlySavesBreak == Spec => []OnlyCutSavesBreak
<1>1. ASSUME Inv PROVE OnlyCutSavesBreak
  <2>1. SUFFICES ASSUME ~overlapped, file # NoFile, ~Opens(file)
                 PROVE  \E c \in Commands : pc[c] = "write" \/ outcome[c] = "save cut"
    BY DEF OnlyCutSavesBreak
  <2>2. Unbroken /\ ~OpensIn(container, file)
    BY <1>1, <2>1, OpenedIs DEF Inv, Alone
  <2> QED BY <2>1, <2>2 DEF Unbroken
<1> QED BY <1>1, InvAlways, PTL

\* A program gets to work only by opening what it has read.
LEMMA WorkBegins ==
  ASSUME TypeOK, Next, NEW c \in Commands, pc[c] = "read", pc'[c] = "edit"
  PROVE  Open(c) /\ Opens(buf[c])
<1>1. pc \in [Commands -> {"idle", "format", "read", "edit", "create", "write", "done"}]
  BY DEF TypeOK
<1>2. PICK d \in Commands :
        \/ Mkfs(d) \/ Format(d) \/ Start(d) \/ ReadNext(d) \/ Open(d) \/ Edit(d) \/ Edited(d)
        \/ CreateFile(d) \/ WriteNext(d) \/ Saved(d) \/ Killed(d)
  BY DEF Next
<1>3. ASSUME NEW e \in Commands, NEW how, Ends(e, how)
      PROVE  (e = c => pc'[c] = "done") /\ (e # c => pc'[c] = pc[c])
  BY <1>1, <1>3 DEF Ends
<1>4. ASSUME NEW e \in Commands, NEW where, GoesTo(e, where)
      PROVE  (e = c => pc'[c] = where) /\ (e # c => pc'[c] = pc[c])
  BY <1>1, <1>4 DEF GoesTo
<1>5. ~Mkfs(d)
  BY <1>3, <1>4 DEF Mkfs, Starts
<1>6. ~Start(d)
  BY <1>3, <1>4 DEF Start, Starts
<1>7. ~Format(d) /\ ~ReadNext(d) /\ ~CreateFile(d) /\ ~Saved(d) /\ ~Killed(d)
  BY <1>3, <1>4 DEF Format, ReadNext, CreateFile, Saved, Killed
<1>8. ~Edit(d) /\ ~Edited(d) /\ ~WriteNext(d)
  BY <1>3, <1>4 DEF Edit, Edited, WriteNext
<1>9. Open(d)
  BY <1>2, <1>5, <1>6, <1>7, <1>8
<1>10. d = c /\ Opens(buf[c])
  BY <1>3, <1>4, <1>9 DEF Open
<1> QED BY <1>9, <1>10

\* Whatever programs run, one after the other or together: what a program gets to
\* work on is a volume some save wrote, of a raw image unless programs ran at the
\* same time or a save into the file itself was cut short.
THEOREM OpenedAreWhole == Spec => OpenedIsWhole
<1>1. ASSUME Inv, [Next]_vars
      PROVE  [\A c \in Commands :
                /\ pc[c] = "read" /\ pc'[c] = "edit"
                /\ container = "dc42" \/ ~(overlapped \/ \E d \in Commands : CutInPlace(d))
                => Whole(mem[c])']_vars
  <2>1. SUFFICES ASSUME Next, NEW c \in Commands, pc[c] = "read", pc'[c] = "edit",
                        container = "dc42" \/ ~(overlapped \/ \E d \in Commands : CutInPlace(d))
                 PROVE  Whole(mem[c])'
    BY <1>1
  <2> DEFINE b == buf[c]
  <2>2. TypeOK /\ AlwaysFile /\ AlwaysOf(c)
    BY <1>1 DEF Inv, Always
  <2>3. Open(c) /\ Opens(buf[c])
    BY <2>1, <2>2, WorkBegins
  <2>4. /\ mem'[c] = Opened(b) /\ saves' = saves /\ OpensIn(container, b)
        /\ b \in Seq(CellSet) /\ FromSaves(container, saves, b)
        /\ container \in {"raw", "dc42"} /\ saves \subseteq VolType
    BY <2>2, <2>3, OpenedIs DEF Open, history, TypeOK, AlwaysOf
  <2>5. /\ Opened(b) = [x \in PartSet |-> Opened(b)[x]]
        /\ \A i \in Places : Opened(b)[Parts[i]] = PartIn(container, i, b)
    BY OpenedIs
  <2> HIDE DEF b
  <2>6. CASE container = "dc42"
    <3>1. Len(b) = 7 => DOMAIN b = 1 .. 7
      BY <2>4
    <3>2. PICK v \in saves : \A i \in Places : PartIn("dc42", i, b) = v[Parts[i]]
      <4>1. FromSaves("dc42", saves, b) /\ OpensIn("dc42", b) /\ saves \subseteq VolType
        BY <2>4, <2>6
      <4> QED BY <3>1, <4>1, ChecksumWhole
    <3>3. v = [x \in PartSet |-> v[x]]
      BY <2>4, <3>2 DEF VolType
    <3>4. Opened(b) = v
      BY <2>5, <2>6, <3>2, <3>3, SameVolume
    <3> QED BY <2>4, <3>2, <3>4 DEF Whole
  <2>7. CASE container = "raw"
    <3>1. ~overlapped /\ c \in Running /\ \A d \in Commands : ~CutInPlace(d)
      BY <2>1, <2>7 DEF Running
    <3>2. Running \subseteq {c} /\ Alone /\ TurnOf(c)
      BY <1>1, <3>1, TurnInv
    <3>3. file \in Seq(CellSet) /\ file # NoFile /\ at[c] \in Nat /\ Len(b) = at[c] - 1
      BY <2>1, <2>2 DEF TypeOK, AlwaysOf, b
    <3>4. b = file
      <4>1. at[c] > Len(file)
        BY <2>3 DEF Open
      <4>2. \A i \in DOMAIN b : i \in DOMAIN file /\ b[i] = file[i]
        BY <2>1, <3>2 DEF TurnOf, b
      <4> QED BY <2>4, <3>3, <4>1, <4>2, ReadAll
    <3>5. \A d \in Commands : ~InPlace(d)
      BY <2>1, <3>2 DEF InPlace, Running
    <3>6. PICK v \in saves : PrefixOf(container, file, v)
      BY <2>7, <3>1, <3>2, <3>3, <3>5 DEF Alone, OfOneSave
    <3>7. /\ \A i \in 1 .. 5 : PartIn(container, i, b) = v[Parts[i]]
          /\ PartIn(container, 6, b) = v["tail"] \/ PartIn(container, 6, b) = <<>>
      BY <2>4, <3>4, <3>6, OpensParts
    <3>8. v = [x \in PartSet |-> v[x]]
      BY <2>4, <3>6 DEF VolType
    <3>9. \A i \in Places : i \in 1 .. 5 \/ i = 6
      BY DEF Places
    <3>10. CASE PartIn(container, 6, b) = v["tail"]
      <4>1. \A i \in Places : Opened(b)[Parts[i]] = v[Parts[i]]
        BY <2>5, <3>7, <3>9, <3>10, PartPlaces
      <4>2. Opened(b) = v
        BY <2>5, <3>8, <4>1, SameVolume
      <4> QED BY <2>4, <3>6, <4>2 DEF Whole
    <3>11. CASE PartIn(container, 6, b) = <<>>
      <4> DEFINE w == [v EXCEPT !["tail"] = <<>>]
      <4>1. w = [x \in PartSet |-> IF x = "tail" THEN <<>> ELSE v[x]]
        BY <3>8
      <4>2. \A i \in Places : w[Parts[i]] = IF i = 6 THEN <<>> ELSE v[Parts[i]]
        BY <3>9, <4>1, PartPlaces
      <4> HIDE DEF w
      <4>3. \A i \in Places : Opened(b)[Parts[i]] = w[Parts[i]]
        BY <2>5, <3>7, <3>9, <3>11, <4>2
      <4>4. w = [x \in PartSet |-> w[x]]
        BY <4>1
      <4>5. Opened(b) = w
        BY <2>5, <4>3, <4>4, SameVolume
      <4> QED BY <2>4, <3>6, <4>5 DEF Whole, w
    <3> QED BY <3>7, <3>10, <3>11
  <2> QED BY <2>4, <2>6, <2>7
<1> QED BY <1>1, InvAlways, PTL DEF Spec, OpenedIsWhole
=============================================================================
