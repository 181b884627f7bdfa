---------------------------- MODULE MCOwnership ----------------------------
(* Four buffers, one of which belongs to the caller. *)
EXTENDS Ownership, TLC
CONSTANTS b1, b2, b3, b4
MCBuffer == {b1, b2, b3, b4}
MCBorrowed == {b4}
=============================================================================
