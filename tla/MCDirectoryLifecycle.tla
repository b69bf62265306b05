----------------------- MODULE MCDirectoryLifecycle -----------------------
(***************************************************************************)
(* Two sectors of 12 bytes and four names whose entries take 4, 6, 6 and   *)
(* 8 bytes: a sector holds two or three entries, so the packing leaves     *)
(* tails, entries cross sectors when others go, and the directory fills.   *)
(***************************************************************************)
EXTENDS DirectoryLifecycle

MCNames   == {"a", "bcd", "efg", "hijkl"}
MCNameLen == [n \in MCNames |-> CASE n = "a" -> 1 [] n = "hijkl" -> 5 [] OTHER -> 3]
=============================================================================
