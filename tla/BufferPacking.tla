---------------------------- MODULE BufferPacking ----------------------------
(***************************************************************************)
(* The pass buffer-packing (src/transforms/buffer_packing.cc): buffers are *)
(* placed into larger buffers, at positions of the program where those are *)
(* not in use.  SortedPackingStrategy walks the sorted allocations; each   *)
(* test of one allocation against the gaps of another one is a step.       *)
(*                                                                         *)
(* A use range is a list of intervals of positions, as the user range      *)
(* analysis builds it (module UseIntervals).  Memory is counted in         *)
(* segments of 64 bytes.                                                   *)
(***************************************************************************)
EXTENDS Integers, FiniteSetsExt, SequencesExt

CONSTANTS Allocs,       \* the allocations of a function
          DefinedAt,    \* the position of each
          UseRanges,    \* the use ranges they may have
          MaxSegments,  \* bound: the size of a buffer
          WindowSizes   \* option window-size of the pass

\* The intervals of a use range ascend, what the pass takes for granted; a merge
\* with a list of several intervals may break it.  No position is 0
\* (UserangeAnalysis::computeId), so that there is a gap before the first use.
ASSUME RangesAscend ==
    \A r \in UseRanges :
        /\ r \in Seq([start : Nat, end : Nat]) /\ r # <<>>
        /\ \A k \in DOMAIN r : 0 < r[k].start /\ r[k].start <= r[k].end
        /\ \A k, m \in DOMAIN r : k < m => r[k].end < r[m].start

ASSUME FinitelyMany == IsFiniteSet(Allocs) /\ MaxSegments \in Nat

VARIABLES
    buffers,    \* [segments, ranges] of each allocation
    windowSize,
    pc,         \* "sort", "next", "pack" or "done"
    infos,      \* allocInfos: allocations, in the order of the comparator
    current,    \* currentIter
    checked,    \* checkedAllocInfoIter
    gaps,       \* the gaps of *currentIter: intervals and the segments free in them
    offsets,    \* allocBufferOffsets of *currentIter
    packed      \* packedBuffers

input == <<buffers, windowSize>>
vars == <<input, pc, infos, current, checked, gaps, offsets, packed>>

Interval(first, last) == [start |-> first, end |-> last]
Gap(first, last, free) == [start |-> first, end |-> last, free |-> free]
Placed(alloc, offset) == [alloc |-> alloc, offset |-> offset]

\* AllocationInfo
Ranges(x) == buffers[x].ranges
Segments(x) == buffers[x].segments
FirstUse(x) == Ranges(x)[1].start
LastUse(x) == Ranges(x)[Len(Ranges(x))].end
UsedAt(x) == UNION {r.start..r.end : r \in ToSet(Ranges(x))}

Init ==
    /\ buffers \in [Allocs -> [segments : 0..MaxSegments, ranges : UseRanges]]
    /\ windowSize \in WindowSizes
    /\ pc = "sort"
    /\ infos = <<>> /\ current = 1 /\ checked = 1
    /\ gaps = <<>> /\ offsets = <<>> /\ packed = <<>>
-----------------------------------------------------------------------------
(* computeAllocationInfos and the comparators.                             *)

\* A window ends before an allocation that lies more than windowSize behind
\* the one before it.
WindowId(x) ==
    LET earlier(y) == {0} \cup {DefinedAt[z] : z \in {z \in Allocs : DefinedAt[z] < DefinedAt[y]}}
        opens == {y \in Allocs : DefinedAt[y] > Max(earlier(y)) + windowSize}
    IN  Cardinality({y \in opens : DefinedAt[y] <= DefinedAt[x]})

\* AllocInfoMemSizeCompare without a window, or else AllocInfoWinIdComparator.
Precedes(x, y) ==
    IF windowSize = 0 THEN Segments(x) > Segments(y)
    ELSE \/ WindowId(x) < WindowId(y)
         \/ WindowId(x) = WindowId(y) /\ DefinedAt[x] > DefinedAt[y]

\* std::sort: any order of equivalent elements.
Sort ==
    /\ pc = "sort"
    /\ infos' \in {s \in SetToSeqs(Allocs) :
                    \A k \in DOMAIN s : \A m \in 1..k - 1 : ~Precedes(s[k], s[m])}
    /\ pc' = "next"
    /\ UNCHANGED <<input, current, checked, gaps, offsets, packed>>

MaxUserangeId == Max({LastUse(x) : x \in Allocs})

\* Bug variant: the gap begins with the last position that is used.
ComputeGapsTouching(x) ==
    LET r == Ranges(x)
        from(k) == IF k = 1 THEN 0 ELSE r[k - 1].end
    IN  {Gap(from(k), r[k].start - 1, Segments(x)) : k \in {k \in DOMAIN r : from(k) < r[k].start}}
        \cup IF LastUse(x) < MaxUserangeId
             THEN {Gap(LastUse(x), MaxUserangeId, Segments(x))} ELSE {}

\* The gaps before and between the intervals, and one behind them, unless
\* that would be the single position MaxUserangeId.
ComputeGaps(x) ==
    LET r == Ranges(x)
        from(k) == IF k = 1 THEN 0 ELSE r[k - 1].end + 1
    IN  {Gap(from(k), r[k].start - 1, Segments(x)) : k \in {k \in DOMAIN r : from(k) < r[k].start}}
        \cup IF LastUse(x) + 1 < MaxUserangeId
             THEN {Gap(LastUse(x) + 1, MaxUserangeId, Segments(x))} ELSE {}

Ascending(G) ==
    {s \in SetToSeqs(G) : \A k, m \in DOMAIN s : k < m => s[k].start < s[m].start}

\* The next allocation, with its gaps; one without gaps is left as it is.
Begin ==
    /\ pc = "next" /\ current <= Len(infos)
    /\ LET x == infos[current]
       IN  IF ComputeGaps(x) = {}
           THEN /\ current' = current + 1
                /\ UNCHANGED <<pc, checked, gaps, offsets>>
           ELSE /\ gaps' \in Ascending(ComputeGaps(x))
                /\ offsets' = <<Placed(x, 0)>>
                /\ checked' = current + 1
                /\ pc' = "pack" /\ UNCHANGED current
    /\ UNCHANGED <<input, infos, packed>>

\* Bug variant: an allocation may reach beyond the end of the gap.
FitsFirstUse(x, g) ==
    g.free >= Segments(x) /\ FirstUse(x) >= g.start /\ FirstUse(x) <= g.end

Fits(x, g) ==
    g.free >= Segments(x) /\ FirstUse(x) >= g.start /\ LastUse(x) <= g.end

\* The gaps that findGapAndUpdate could choose for x: the search ends at the
\* first one that starts behind the first use of x.
Candidates(x) ==
    {k \in DOMAIN gaps : Fits(x, gaps[k]) /\ \A m \in 1..k : gaps[m].start <= FirstUse(x)}

\* What remains of the gap g around x and in the segments that x leaves free.
Split(g, x) ==
    LET before == IF FirstUse(x) > g.start THEN <<Gap(g.start, FirstUse(x) - 1, g.free)>> ELSE <<>>
        behind == IF LastUse(x) < g.end THEN <<Gap(LastUse(x) + 1, g.end, g.free)>> ELSE <<>>
        rest == IF g.free > Segments(x)
                THEN <<Gap(FirstUse(x), LastUse(x), g.free - Segments(x))>> ELSE <<>>
    IN  before \o rest \o behind

\* A gap has the last segments of the buffer free.
PackInto(x, k) ==
    /\ offsets' = Append(offsets, Placed(x, Segments(infos[current]) - gaps[k].free))
    /\ gaps' = SubSeq(gaps, 1, k - 1) \o Split(gaps[k], x) \o SubSeq(gaps, k + 1, Len(gaps))

\* Bug variant: what was packed remains in the list.
RemoveCheckedKeeps == checked' = checked + 1 /\ UNCHANGED infos

RemoveChecked == infos' = RemoveAt(infos, checked) /\ UNCHANGED checked

TryPack ==
    /\ pc = "pack" /\ checked <= Len(infos)
    /\ LET x == infos[checked]
       IN  IF Segments(x) <= Segments(infos[current]) /\ Candidates(x) # {}
           THEN /\ PackInto(x, Min(Candidates(x)))
                /\ RemoveChecked
           ELSE /\ checked' = checked + 1
                /\ UNCHANGED <<infos, gaps, offsets>>
    /\ UNCHANGED <<input, pc, current, packed>>

\* A buffer of the size of *currentIter, with a view for each of the offsets.
Emit ==
    /\ pc = "pack" /\ checked > Len(infos)
    /\ packed' = Append(packed, [segments |-> Segments(infos[current]), offsets |-> offsets])
    /\ current' = current + 1
    /\ pc' = "next"
    /\ UNCHANGED <<input, infos, checked, gaps, offsets>>

Finish ==
    /\ pc = "next" /\ current > Len(infos)
    /\ pc' = "done"
    /\ UNCHANGED <<input, infos, current, checked, gaps, offsets, packed>>

Done == pc = "done" /\ UNCHANGED vars

Next == Sort \/ Begin \/ TryPack \/ Emit \/ Finish \/ Done

Spec == Init /\ [][Next]_vars
-----------------------------------------------------------------------------
\* The buffer that is being filled, and those that are complete.
Layouts ==
    {b.offsets : b \in ToSet(packed)} \cup (IF pc = "pack" THEN {offsets} ELSE {})

Memory(p) == p.offset..p.offset + Segments(p.alloc) - 1

\* Two allocations whose segments of the same buffer overlap are never in use at
\* the same position, however they were nested into gaps and the rests of gaps.
NoClobber ==
    \A layout \in Layouts : \A k, m \in DOMAIN layout :
        k # m /\ Memory(layout[k]) \cap Memory(layout[m]) # {} =>
            UsedAt(layout[k].alloc) \cap UsedAt(layout[m].alloc) = {}

\* What a gap counts as free is used by no allocation of the buffer during the gap.
GapsAreFree ==
    pc = "pack" =>
        \A g \in ToSet(gaps) : \A p \in ToSet(offsets) :
            UsedAt(p.alloc) \cap (g.start..g.end) # {} =>
                p.offset + Segments(p.alloc) <= Segments(infos[current]) - g.free

\* At the end every allocation has exactly one view, whether it got a buffer of its
\* own or was packed into another one, and the view lies inside that buffer.
PackedOnce ==
    pc = "done" => \A x \in Allocs :
        LET views == {v \in UNION {{<<b, k>> : k \in DOMAIN packed[b].offsets} : b \in DOMAIN packed} :
                        packed[v[1]].offsets[v[2]].alloc = x}
            Inside(v) == packed[v[1]].offsets[v[2]].offset + Segments(x) <= packed[v[1]].segments
        IN  \E v \in views : views = {v} /\ Inside(v)
=============================================================================
