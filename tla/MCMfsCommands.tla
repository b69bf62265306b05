--------------------------- MODULE MCMfsCommands ---------------------------
(***************************************************************************)
(* The commands differ in name only: each may be any of Jobs.              *)
(***************************************************************************)
EXTENDS MfsCommands, TLC

Interchangeable == Permutations(Commands)
=============================================================================
