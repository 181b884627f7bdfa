---------------------------- MODULE MCRetainScf ----------------------------
(* Four buffers, one of which belongs to the caller, at distinct addresses. *)
EXTENDS RetainScf, TLC
CONSTANTS b1, b2, b3, b4
MCBuffer == {b1, b2, b3, b4}
MCBorrowed == {b4}
MCBase == b1 :> 16 @@ b2 :> 32 @@ b3 :> 48 @@ b4 :> 64
=============================================================================
