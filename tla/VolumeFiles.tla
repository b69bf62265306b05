---------------------------- MODULE VolumeFiles ----------------------------
(***************************************************************************)
(* A volume implements a FileStore: the files are the directory entries    *)
(* by folded name, each fork holding what read_fork returns in the blocks  *)
(* its entry says it was given, and the capacity is every block that is    *)
(* not reserved.                                                           *)
(***************************************************************************)
EXTENDS Volume

AsFile(i) ==
  [name |-> entries[i].name, locked |-> entries[i].locked, code |-> entries[i].code,
   fork |-> [k \in Forks |-> [bytes |-> ReadFork(i, k).data,
                              size  |-> ForkOf(i, k).alloc \div BlkSiz]]]

Files == [x \in {FoldOf[entries[i].name] : i \in DOMAIN entries} |->
            AsFile(CHOOSE i \in DOMAIN entries : FoldOf[entries[i].name] = x)]

Disk == [capacity |-> Cardinality({b \in Blocks : map[b] # RESERVED}),
         writable |-> ~mdb.locked]

Store == INSTANCE FileStore
           WITH files <- Files, disk <- Disk,
                ValidNames <- {n \in FileNames : NameOk(n, MaxFileName)}

\* A volume fresh from mkfs, or opened from any image check() finds nothing wrong
\* with, behaves through any sequence of calls as a file store: reads return what
\* was last written, files do not disturb each other, no block leaks, and a write
\* is refused only when it truly does not fit.
ImplementsFileStore == Store!Spec
=============================================================================
