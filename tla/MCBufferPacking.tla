--------------------------- MODULE MCBufferPacking ---------------------------
(* Three allocations, defined close to each other or apart, with use ranges  *)
(* of one or two intervals.                                                   *)
EXTENDS BufferPacking, TLC

Defined == 1 :> 1 @@ 2 :> 3 @@ 3 :> 4

AscendingRanges ==
    {<<r>> : r \in {Interval(5, 5), Interval(5, 8), Interval(6, 7), Interval(7, 10), Interval(10, 10)}}
    \cup {<<Interval(5, 5), Interval(10, 10)>>, <<Interval(5, 6), Interval(9, 10)>>,
          <<Interval(5, 5), Interval(8, 8)>>}
=============================================================================
