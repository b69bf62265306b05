------------------------------- MODULE MCDc42 -------------------------------
(***************************************************************************)
(* Checksums of four bits over words of two, files of up to four words.    *)
(* Images whose name is followed by zeros, and by something else.          *)
(***************************************************************************)
EXTENDS Dc42

MCWords     == 0 .. 3
MCBodies    == UNION {[1 .. k -> MCWords] : k \in 3 .. 4}
MCRawBodies == {<<1, 2>>}
MCSizes     == 0 .. 4
MCNames     == {[len |-> 2, pad |-> 0], [len |-> 4, pad |-> 0]}
MCPadded    == {[len |-> 2, pad |-> 0], [len |-> 2, pad |-> 1]}

\* What an image was to be taken for is read once it has been reopened damaged.
WantWhenRead == <<file, img, found, step, res, IF step = "reopened damaged" THEN want ELSE "any">>
=============================================================================
