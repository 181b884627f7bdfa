--------------------------- MODULE MCRetainInterp ---------------------------
(* Three buffers, one of which belongs to the caller. *)
EXTENDS RetainInterp, TLC
CONSTANTS b1, b2, b3
MCBuffer == {b1, b2, b3}
MCBorrowed == {b3}
=============================================================================
