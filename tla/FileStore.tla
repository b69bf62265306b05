----------------------------- MODULE FileStore -----------------------------
(***************************************************************************)
(* What a volume promises its callers (the public interface of MfsVolume): *)
(* a store of files, named without regard to case, each with two forks     *)
(* that hold exactly what was last written to them, on a disk of a fixed   *)
(* number of blocks of which none is ever lost.  Nothing here knows of     *)
(* chains, of the block map or of where the files are.                     *)
(***************************************************************************)
EXTENDS Integers, Sequences, FiniteSets, FiniteSetsExt

CONSTANTS FileNames, FoldOf, ValidNames, Contents, BlkSiz, Codes

VARIABLES files,    \* the files by folded name
          disk,     \* how many blocks there are, and whether it may be written
          call,     \* the last call made, with its arguments
          result    \* what it returned

vars == <<files, disk, call, result>>

Forks == {"data", "rsrc"}

\* A fork may have been given more blocks than its contents need.
Stored(d, size) == [bytes |-> d, size |-> size]

NewFile(n, c) ==
  [name |-> n, locked |-> FALSE, code |-> c, fork |-> [k \in Forks |-> Stored(<<>>, 0)]]

Key(n)    == FoldOf[n]
Exists(n) == Key(n) \in DOMAIN files

BlocksFor(d) == (Len(d) + BlkSiz - 1) \div BlkSiz

Used == MapThenSumSet(LAMBDA r : files[r[1]].fork[r[2]].size, (DOMAIN files) \X Forks)

\* The blocks a fork of a file may take up: the free ones and its own.
RoomFor(n, k) == disk.capacity - Used + files[Key(n)].fork[k].size

With(fs, f)    == [x \in (DOMAIN fs) \cup {Key(f.name)} |-> IF x = Key(f.name) THEN f ELSE fs[x]]
Without(fs, n) == [x \in (DOMAIN fs) \ {Key(n)} |-> fs[x]]

Do(fs)     == result' = "Ok" /\ files' = fs /\ disk.writable
Refuse(e)  == result' = e /\ UNCHANGED files
NotFound(n) == ~Exists(n) /\ Refuse("FileNotFound")
IsLocked(n) == Exists(n) /\ files[Key(n)].locked

Create(n, c) ==
  /\ call' = <<"create", n, c>>
  /\ \/ n \in ValidNames /\ ~Exists(n) /\ Do(With(files, NewFile(n, c)))
     \/ n \notin ValidNames /\ Refuse("InvalidName")
     \/ Exists(n) /\ Refuse("FileExists")
     \/ n \in ValidNames /\ ~Exists(n) /\ Refuse("DirectoryFull")

\* Written in full, or not at all: and refused for want of room only when the
\* free blocks and the fork's own do not suffice.
Write(n, k, d) ==
  /\ call' = <<"write", n, k, d>>
  /\ \/ /\ Exists(n) /\ ~IsLocked(n) /\ BlocksFor(d) <= RoomFor(n, k)
        /\ Do(With(files, [files[Key(n)] EXCEPT !.fork[k] = Stored(d, BlocksFor(d))]))
     \/ NotFound(n)
     \/ IsLocked(n) /\ Refuse("FileLocked")
     \/ Exists(n) /\ BlocksFor(d) > RoomFor(n, k) /\ Refuse("VolumeFull")

Delete(n) ==
  /\ call' = <<"delete", n>>
  /\ \/ Exists(n) /\ ~IsLocked(n) /\ Do(Without(files, n))
     \/ NotFound(n)
     \/ IsLocked(n) /\ Refuse("FileLocked")

\* A file may take a name that differs from its own in case only.
Rename(old, new) ==
  /\ call' = <<"rename", old, new>>
  /\ \/ /\ new \in ValidNames /\ Exists(old)
        /\ Exists(new) => Key(new) = Key(old)
        /\ Do(With(Without(files, old), [files[Key(old)] EXCEPT !.name = new]))
     \/ new \notin ValidNames /\ Refuse("InvalidName")
     \/ NotFound(old)
     \/ Exists(new) /\ Key(new) # Key(old) /\ Refuse("FileExists")
     \/ Exists(old) /\ Refuse("DirectoryFull")

SetCode(n, c) ==
  /\ call' = <<"set code", n, c>>
  /\ NotFound(n) \/ (Exists(n) /\ Do(With(files, [files[Key(n)] EXCEPT !.code = c])))

SetLocked(n, l) ==
  /\ call' = <<"set locked", n, l>>
  /\ NotFound(n) \/ (Exists(n) /\ Do(With(files, [files[Key(n)] EXCEPT !.locked = l])))

\* Calls that concern dates, the volume's name or the boot blocks; and any call
\* on a volume that may not be written.
NoFileChanges ==
  /\ UNCHANGED files
  /\ \/ call'[1] \in {"set times", "rename volume", "set boot"}
     \/ ~disk.writable /\ result' = "VolumeLocked"

Next ==
  /\ UNCHANGED disk
  /\ \/ \E n \in FileNames, c \in Codes : Create(n, c) \/ SetCode(n, c)
     \/ \E n \in FileNames, k \in Forks, d \in Contents : Write(n, k, d)
     \/ \E n \in FileNames : Delete(n)
     \/ \E old, new \in FileNames : Rename(old, new)
     \/ \E n \in FileNames, l \in BOOLEAN : SetLocked(n, l)
     \/ NoFileChanges

\* A store may be opened with files in it.
Init == (\A x \in DOMAIN files : Key(files[x].name) = x) /\ Used <= disk.capacity

Spec == Init /\ [][Next]_vars
=============================================================================
