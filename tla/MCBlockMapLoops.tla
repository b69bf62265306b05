-------------------------- MODULE MCBlockMapLoops --------------------------
(***************************************************************************)
(* Every value three bytes, and so two neighbouring entries, can have; or  *)
(* zeros alone.                                                            *)
(***************************************************************************)
EXTENDS BlockMapLoops

MCFillings == [0 .. 2 -> Octet]
MCZeros    == {[k \in 0 .. 2 |-> 0]}
=============================================================================
