--------------------------- MODULE UserangeAnalysis ---------------------------
(***************************************************************************)
(* UserangeAnalysis: the constructor computes the range of an alloc and    *)
(* merges those of its aliases into it (Userange has the ranges,           *)
(* UseIntervals the merges); its clients subtract, intersect and compare   *)
(* ranges.                                                                 *)
(***************************************************************************)
EXTENDS Userange, UseIntervals

CONSTANT Programs       \* the programs that are analysed

\* The set of aliases has no order.
InitAnalysis ==
    /\ op = "analyse" /\ pc = "merge"
    /\ \E p \in Programs : \E v \in p.allocs : \E ranges \in SetToSeqs(AliasRanges(p, v)) :
            /\ subject = <<p, v>>
            /\ a = RangeOf(p, v)
            /\ queue = [n \in DOMAIN ranges |-> ranges[n][2]]
    /\ b = <<>> /\ common = <<>>
    /\ Begins

Init == InitLists \/ InitAnalysis

Spec == Init /\ [][Next]_vars
-----------------------------------------------------------------------------
\* The range of an alloc, once the ranges of all aliases are merged, covers what
\* is executed between two uses of the buffer, in every execution and under
\* whatever name it is used: at no such time another buffer may take its place.
RangeCovers ==
    op = "analyse" /\ pc = "done" =>
        \A k \in Needed(subject[1], subject[2]) : {2 * k - 2, 2 * k - 1} \cap Positions(a) # {}
=============================================================================
