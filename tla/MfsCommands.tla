---------------------------- MODULE MfsCommands ----------------------------
(***************************************************************************)
(* Programs that use the library on one image file: the mfs commands       *)
(* (bin/mfs.rs), and callers who save with save_to into the file they read *)
(* from.  A program reads the whole file, works on the volume in memory,   *)
(* and saves the whole volume once, at its end (save_path and save_to of   *)
(* volume.rs); nothing locks the file.  A read and a save take many steps, *)
(* which other programs may come between, and a save may stop anywhere: at *)
(* an I/O error, or because the process is killed.                         *)
(*                                                                         *)
(* What a program does to the volume is module Volume's business.  Here a  *)
(* part of the volume is the sequence of the programs that have written it *)
(* since it was formatted, so a volume put together from two saves shows.  *)
(*                                                                         *)
(* Bounds: any number of programs may run one after the other; only the    *)
(* first two run at the same time, and others follow when both have ended; *)
(* a mkfs makes the container all images of the behaviour are kept in.     *)
(***************************************************************************)
EXTENDS Integers, Sequences, SequencesExt, FiniteSets

CONSTANTS Commands,    \* the programs that run
          Jobs,        \* what they may be
          Containers   \* what the image may be kept in (and any mkfs is told to use)

ASSUME MfsCommandsAssumption == Containers \subseteq {"raw", "dc42"}

VARIABLES container, \* what the image is kept in
          file,      \* the cells of the image file, or NoFile where there is none
          pc,        \* per program: where it is
          job,       \* what it is
          todo,      \* the calls it still has to make on the volume
          at,        \* its offset in the file
          buf,       \* the cells it has read
          mem,       \* the volume it holds
          outcome,   \* how it ended
          saves,     \* every volume ever handed to a save, and the first one
          wiped,     \* the programs whose reported changes a mkfs --force did away with
          overlapped \* whether two programs have ever run at the same time

memory  == <<todo, at, buf, mem>>
history == <<container, saves, wiped, overlapped>>
vars    == <<file, pc, job, memory, outcome, history>>

-----------------------------------------------------------------------------
(***************************************************************************)
(* Images.  A DiskCopy 4.2 file begins with a header that holds the size   *)
(* of the data and its checksum, taken here to tell any two data apart.    *)
(***************************************************************************)
Parts   == <<"boot", "mdb", "map", "dir", "blocks", "tail">>
PartSet == ToSet(Parts)

Header(v) == [part |-> "header", by |-> [i \in DOMAIN Parts |-> v[Parts[i]]]]
Cell(v, i) == [part |-> Parts[i], by |-> v[Parts[i]]]
Zeros      == [part |-> "zeros", by |-> <<>>]

\* An image whose tail was lost is saved without one.
Data(v)  == [i \in 1 .. (IF v["tail"] = <<>> THEN 5 ELSE 6) |-> Cell(v, i)]
ImageIn(k, v) == IF k = "raw" THEN Data(v) ELSE <<Header(v)>> \o Data(v)
Image(v) == ImageIn(container, v)

NoFile == <<[part |-> "none", by |-> <<>>]>>

\* from_parts asks for the MDB's signature and for a file that reaches to the end
\* of the allocation area: the sectors behind it may be missing.
RawOpens(cells) == Len(cells) \in {5, 6} /\ cells[2] # Zeros

\* Mutant: the header is believed.
TrustingDc42Opens(cells) == Len(cells) = 7 /\ cells[1] # Zeros /\ cells[3] # Zeros

\* Dc42Image::parse, then from_parts: the declared sizes account for the whole file,
\* and the checksum is that of the data.
Dc42Opens(cells) ==
  /\ Len(cells) = 7
  /\ cells[1] # Zeros /\ cells[3] # Zeros
  /\ cells[1].by = [i \in DOMAIN Parts |-> cells[i + 1].by]

Opens(cells) ==
  /\ cells # NoFile
  /\ IF container = "raw" THEN RawOpens(cells) ELSE Dc42Opens(cells)

PartAt(i, cells) ==
  LET k == IF container = "raw" THEN i ELSE i + 1
  IN  IF k <= Len(cells) THEN cells[k].by ELSE <<>>

Opened(cells) == [x \in PartSet |-> PartAt(CHOOSE i \in DOMAIN Parts : Parts[i] = x, cells)]

-----------------------------------------------------------------------------
(***************************************************************************)
(* What the programs do: the calls each makes on the volume, in order, and *)
(* the parts of the image a call changes.                                  *)
(***************************************************************************)
Calls ==
  [add        |-> {<<"create", "write">>, <<"create", "write", "write">>},
   rm         |-> {<<"delete">>, <<"unlock", "delete">>},
   mv         |-> {<<"rename">>},
   bootblocks |-> {<<"boot">>},
   look       |-> {<<>>},
   inplace    |-> {<<"write">>}]

Changes ==
  [create |-> {"mdb", "dir"}, write |-> {"mdb", "map", "dir", "blocks"},
   delete |-> {"mdb", "map", "dir"}, unlock |-> {"mdb", "dir"},
   rename |-> {"mdb", "dir"}, boot |-> {"boot"}]

Fresh(c) == [x \in PartSet |-> <<c>>]

Stamped(v, call, c) == [x \in PartSet |-> IF x \in Changes[call] THEN Append(v[x], c) ELSE v[x]]

NoVolume == Fresh("none")

FirstVolume == Fresh("made")

Init ==
  /\ container \in Containers
  /\ file \in {NoFile, ImageIn(container, FirstVolume)}
  /\ pc = [c \in Commands |-> "idle"]
  /\ job = [c \in Commands |-> "none"]
  /\ todo = [c \in Commands |-> <<>>]
  /\ at = [c \in Commands |-> 1]
  /\ buf = [c \in Commands |-> <<>>]
  /\ mem = [c \in Commands |-> NoVolume]
  /\ outcome = [c \in Commands |-> "none"]
  /\ saves = {FirstVolume}
  /\ wiped = {}
  /\ overlapped = FALSE

\* What a program held in memory goes with it.
Ends(c, how) ==
  /\ pc' = [pc EXCEPT ![c] = "done"] /\ outcome' = [outcome EXCEPT ![c] = how]
  /\ todo' = [todo EXCEPT ![c] = <<>>] /\ at' = [at EXCEPT ![c] = 1]
  /\ buf' = [buf EXCEPT ![c] = <<>>] /\ mem' = [mem EXCEPT ![c] = NoVolume]

GoesTo(c, where) == pc' = [pc EXCEPT ![c] = where] /\ UNCHANGED outcome

Running == {c \in Commands : pc[c] \notin {"idle", "done"}}
Started == {c \in Commands : pc[c] # "idle"}

\* Nothing keeps a program from starting; the second conjunct is the bound.
Starts(c, j) ==
  /\ pc[c] = "idle"
  /\ Running = {} \/ Cardinality(Started) = 1
  /\ job' = [job EXCEPT ![c] = j]
  /\ overlapped' = (overlapped \/ Running # {})
  /\ UNCHANGED <<container, saves, wiped>>

\* Mutant: mkfs without --force does not ask whether the file exists.
RecklessMkfs(c) ==
  \E j \in Jobs \cap {"mkfs", "mkfs force"} :
    /\ Starts(c, j)
    /\ GoesTo(c, "format") /\ UNCHANGED <<file, memory>>

\* mkfs, with --force or without.
Mkfs(c) ==
  \E j \in Jobs \cap {"mkfs", "mkfs force"} :
    /\ Starts(c, j)
    /\ IF file = NoFile \/ j = "mkfs force"
       THEN GoesTo(c, "format") /\ UNCHANGED memory ELSE Ends(c, "failed")
    /\ UNCHANGED file

\* The volume is made in memory: the size, the name and the container may be refused.
Format(c) ==
  /\ pc[c] = "format"
  /\ \/ GoesTo(c, "create") /\ mem' = [mem EXCEPT ![c] = Fresh(c)] /\ UNCHANGED <<todo, at, buf>>
     \/ Ends(c, "failed")
  /\ UNCHANGED <<file, job, history>>

\* Any other program opens the image; a command without --rsrc or --force makes
\* fewer calls.
Start(c) ==
  \E j \in Jobs \cap DOMAIN Calls :
    /\ Starts(c, j)
    /\ IF file = NoFile THEN Ends(c, "failed")
       ELSE /\ GoesTo(c, "read")
            /\ \E calls \in Calls[j] : todo' = [todo EXCEPT ![c] = calls]
            /\ UNCHANGED <<at, buf, mem>>
    /\ UNCHANGED file

ReadNext(c) ==
  /\ pc[c] = "read" /\ at[c] <= Len(file)
  /\ buf' = [buf EXCEPT ![c] = Append(@, file[at[c]])]
  /\ at' = [at EXCEPT ![c] = @ + 1]
  /\ UNCHANGED <<file, pc, job, todo, mem, outcome, history>>

\* End of file.  What was read is a volume, or the program fails.
Open(c) ==
  /\ pc[c] = "read" /\ at[c] > Len(file)
  /\ IF Opens(buf[c])
     THEN /\ GoesTo(c, "edit")
          /\ mem' = [mem EXCEPT ![c] = Opened(buf[c])]
          /\ buf' = [buf EXCEPT ![c] = <<>>] /\ at' = [at EXCEPT ![c] = 1]
          /\ UNCHANGED todo
     ELSE Ends(c, "failed")
  /\ UNCHANGED <<file, job, history>>

\* One call on the volume; an error ends the program without a save.
Edit(c) ==
  /\ pc[c] = "edit" /\ todo[c] # <<>>
  /\ \/ /\ mem' = [mem EXCEPT ![c] = Stamped(@, Head(todo[c]), c)]
        /\ todo' = [todo EXCEPT ![c] = Tail(@)]
        /\ UNCHANGED <<pc, outcome, at, buf>>
     \/ Ends(c, "failed")
  /\ UNCHANGED <<file, job, history>>

\* The calls are made: programs that only looked report, the others save.
Edited(c) ==
  /\ pc[c] = "edit" /\ todo[c] = <<>>
  /\ CASE job[c] = "look" -> Ends(c, "ok") /\ UNCHANGED history
       [] job[c] = "inplace" -> /\ GoesTo(c, "write") /\ UNCHANGED memory
                                /\ saves' = saves \cup {mem[c]}
                                /\ UNCHANGED <<container, wiped, overlapped>>
       [] OTHER -> GoesTo(c, "create") /\ UNCHANGED <<memory, history>>
  /\ UNCHANGED <<file, job>>

\* Mutant: serialize refuses the volume, after File::create has truncated the file.
FailingCreateFile(c) ==
  /\ pc[c] = "create"
  /\ \/ GoesTo(c, "write") /\ UNCHANGED <<memory, saves, wiped>>
     \/ Ends(c, "failed") /\ UNCHANGED <<saves, wiped>>
  /\ file' = <<>>
  /\ UNCHANGED <<job, container, overlapped>>

\* File::create truncates the image before serialize is called.  (serialize itself
\* cannot fail: module DirectoryLifecycle, SaveAlwaysFits.)
CreateFile(c) ==
  /\ pc[c] = "create"
  /\ \/ /\ GoesTo(c, "write") /\ UNCHANGED memory
        /\ file' = <<>>
        /\ saves' = saves \cup {mem[c]}
        /\ wiped' = IF job[c] = "mkfs force" THEN {d \in Commands : outcome[d] = "ok"} ELSE wiped
     \/ Ends(c, "failed") /\ UNCHANGED <<file, saves, wiped>>
  /\ UNCHANGED <<job, container, overlapped>>

\* The file with a cell written at offset k: zeros fill a gap before it.
Written(f, k, cell) ==
  [i \in 1 .. (IF k > Len(f) THEN k ELSE Len(f)) |->
     IF i = k THEN cell ELSE IF i <= Len(f) THEN f[i] ELSE Zeros]

\* save_to, from the start of the file: it truncates nothing itself.
WriteNext(c) ==
  /\ pc[c] = "write" /\ at[c] <= Len(Image(mem[c]))
  /\ \/ /\ file' = Written(file, at[c], Image(mem[c])[at[c]])
        /\ at' = [at EXCEPT ![c] = @ + 1]
        /\ UNCHANGED <<pc, outcome, todo, buf, mem>>
     \/ Ends(c, "save cut") /\ UNCHANGED file
  /\ UNCHANGED <<job, history>>

Saved(c) ==
  /\ pc[c] = "write" /\ at[c] > Len(Image(mem[c]))
  /\ Ends(c, "ok")
  /\ UNCHANGED <<file, job, history>>

\* At any point; in the middle of a save, the save is cut.
Killed(c) ==
  /\ c \in Running
  /\ Ends(c, IF pc[c] = "write" THEN "save cut" ELSE "killed")
  /\ UNCHANGED <<file, job, history>>

Next ==
  \E c \in Commands :
    \/ Mkfs(c) \/ Format(c)
    \/ Start(c) \/ ReadNext(c) \/ Open(c) \/ Edit(c) \/ Edited(c)
    \/ CreateFile(c) \/ WriteNext(c) \/ Saved(c)
    \/ Killed(c)

Spec == Init /\ [][Next]_vars

-----------------------------------------------------------------------------
Whole(v) == v \in saves \/ \E w \in saves : v = [w EXCEPT !["tail"] = <<>>]

CutInPlace(c) == job[c] = "inplace" /\ outcome[c] = "save cut"

\* A program that gets to work on a volume works on one that some save wrote, or
\* the one that was there first, never on a mixture of two: of a DiskCopy 4.2
\* image its checksum sees to it, even when a save was under way while the program
\* was reading, or one into the file itself was cut short (what save_to leaves of
\* the file that was there); of a raw image truncation does, in neither case.
OpenedIsWhole ==
  [][\A c \in Commands :
       /\ pc[c] = "read" /\ pc'[c] = "edit"
       /\ container = "dc42" \/ ~(overlapped \/ \E d \in Commands : CutInPlace(d))
       => Whole(mem[c])']_vars

Lineage(v) == UNION {ToSet(v[x]) : x \in PartSet}

\* Once a program has reported success its change is in the image, for as long as
\* the image opens at all and no mkfs --force gets as far as to make it anew,
\* unless programs were run at the same time.
NoUpdateLost ==
  ~overlapped /\ Opens(file) =>
    \A c \in Commands :
      outcome[c] = "ok" /\ job[c] # "look" /\ c \notin wiped => c \in Lineage(Opened(file))

\* An image stops opening only because a save of it is under way or was cut short
\* (or because two saves went on at the same time): no error before the save, of
\* whichever call, touches the file, nor does a program killed before it.
OnlyCutSavesBreak ==
  ~overlapped /\ file # NoFile /\ ~Opens(file) =>
    \E c \in Commands : pc[c] = "write" \/ outcome[c] = "save cut"
=============================================================================
