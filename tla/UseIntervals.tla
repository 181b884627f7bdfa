---------------------------- MODULE UseIntervals ----------------------------
(***************************************************************************)
(* The operations on UseInterval::Vector                                   *)
(* (src/analysis/userange_analysis.h and .cc): subtraction, intersection   *)
(* and merge of two lists of positions, and the test whether two user      *)
(* ranges interfere.  Each is one loop over two iterators that inserts     *)
(* into and erases from the list it walks; an iteration is a step.         *)
(* The constructor of UserangeAnalysis is one merge after the other: the   *)
(* ranges of the aliases of an alloc into its own one.                     *)
(***************************************************************************)
EXTENDS Integers, FiniteSetsExt, SequencesExt, UseInterval

CONSTANTS MaxPosition,  \* bound: positions are 0..MaxPosition
          MaxIntervals  \* bound: the length of a list a caller passes

VARIABLES
    op,         \* "subtract", "intersect", "merge", "interfere" or "analyse"
    pc,         \* the loop that runs: "subtract", "intersect", "merge", "scan", or "done"
    a, b,       \* the two lists; a is edited in place
    common,     \* the list that is subtracted: b, or that of a common alias
    i, j,       \* iterA and iterB
    answer,     \* what rangesInterfere returns
    before,     \* history: a as it was passed
    subject,    \* the program and the alloc that are analysed, or <<>>
    queue       \* the ranges of aliases that are still to be merged

input == <<op, common, before, subject>>
lists == <<b, queue>>
vars == <<input, lists, pc, a, i, j, answer>>

Intervals == {v \in [start : 0..MaxPosition, end : 0..MaxPosition] : v.start <= v.end}

InOrder(s) == \A k \in 1..Len(s) - 1 : Before(s[k], s[k + 1])

\* A list as computeInterval builds it: ascending, and neighbours not contiguous.
Regular(s) == InOrder(s) /\ \A k \in 1..Len(s) - 1 : ~Contiguous(s[k], s[k + 1])
Lists == UNION {{s \in [1..n -> Intervals] : Regular(s)} : n \in 0..MaxIntervals}

Begins ==
    /\ i = 1 /\ j = 1
    /\ answer = FALSE
    /\ before = a

\* rangesInterfere subtracts the user range of a common alias.  The analysis has
\* merged it into the ranges of both values; there may be no such alias.
InitLists ==
    /\ op \in {"subtract", "intersect", "merge", "interfere"}
    /\ a \in Lists /\ b \in Lists
    /\ IF op = "interfere"
          THEN common \in {c \in Lists : Positions(c) \subseteq Positions(a) \cap Positions(b)}
          ELSE common = b
    /\ pc = IF op = "interfere" THEN "subtract" ELSE op
    /\ subject = <<>> /\ queue = <<>>
    /\ Begins
-----------------------------------------------------------------------------
Running(loop) == pc = loop /\ i <= Len(a)

\* The loop ends; rangesInterfere goes on to scan a and b, the constructor to
\* the next alias.
Leave ==
    \/ /\ op = "interfere" /\ pc = "subtract"
       /\ pc' = "scan" /\ i' = 1 /\ j' = 1
       /\ UNCHANGED lists
    \/ /\ queue # <<>>
       /\ b' = Head(queue) /\ queue' = Tail(queue) /\ i' = 1 /\ j' = 1
       /\ UNCHANGED pc
    \/ /\ ~(op = "interfere" /\ pc = "subtract") /\ queue = <<>>
       /\ pc' = "done"
       /\ UNCHANGED <<lists, i, j>>

\* One iteration of intervalSubtract on u = *iterA and v = *iterB.  An interval
\* that is split leaves its upper half before its lower half, with iterA on it.
SubtractStep(u, v) ==
    \/ /\ Before(u, v)
       /\ i' = i + 1 /\ UNCHANGED <<a, j>>
    \/ /\ After(u, v)
       /\ j' = j + 1 /\ UNCHANGED <<a, i>>
    \/ /\ ~Before(u, v) /\ ~After(u, v)
       /\ \/ /\ u.start >= v.start /\ u.end > v.end
             /\ a' = [a EXCEPT ![i].start = v.end + 1]
             /\ j' = j + 1 /\ UNCHANGED i
          \/ /\ u.start < v.start /\ u.end <= v.end
             /\ a' = [a EXCEPT ![i].end = v.start - 1]
             /\ i' = i + 1 /\ UNCHANGED j
          \/ /\ u.start < v.start /\ u.end > v.end
             /\ a' = InsertAt(ReplaceAt(a, i, Interval(u.start, v.start - 1)),
                              i, Interval(v.end + 1, u.end))
             /\ j' = j + 1 /\ UNCHANGED i
          \/ /\ u.start >= v.start /\ u.end <= v.end
             /\ a' = RemoveAt(a, i)
             /\ j' = j + 1 /\ UNCHANGED i

Subtract ==
    /\ Running("subtract") /\ j <= Len(common)
    /\ SubtractStep(a[i], common[j])
    /\ UNCHANGED <<input, lists, pc, answer>>

SubtractEnds ==
    /\ pc = "subtract" /\ (i > Len(a) \/ j > Len(common))
    /\ Leave
    /\ UNCHANGED <<input, a, answer>>

\* Bug variant: the part that lies beyond *iterB is dropped.
ClipAndForget(u, v) ==
    /\ a' = ReplaceAt(a, i, Interval(Max({u.start, v.start}), Min({u.end, v.end})))
    /\ i' = i + 1
    /\ j' = IF u.end > v.end THEN j + 1 ELSE j

\* One iteration of intervalIntersect: what lies beyond *iterB is split off.
Clip(u, v) ==
    LET clipped == Interval(Max({u.start, v.start}), Min({u.end, v.end}))
    IN  IF u.end > v.end
           THEN /\ a' = InsertAt(ReplaceAt(a, i, clipped), i + 1, Interval(v.end + 1, u.end))
                /\ i' = i + 1 /\ j' = j + 1
           ELSE /\ a' = ReplaceAt(a, i, clipped)
                /\ i' = i + 1 /\ UNCHANGED j

Intersect ==
    /\ Running("intersect")
    /\ \/ /\ j <= Len(b) => Before(a[i], b[j])
          /\ a' = RemoveAt(a, i)
          /\ UNCHANGED <<i, j>>
       \/ /\ j <= Len(b) /\ After(a[i], b[j])
          /\ j' = j + 1 /\ UNCHANGED <<a, i>>
       \/ /\ j <= Len(b) /\ ~Before(a[i], b[j]) /\ ~After(a[i], b[j])
          /\ Clip(a[i], b[j])
    /\ UNCHANGED <<input, lists, pc, answer>>

IntersectEnds ==
    /\ pc = "intersect" /\ i > Len(a)
    /\ Leave
    /\ UNCHANGED <<input, a, answer>>

\* Bug variant: neighbours are erased, but the interval does not grow to their end.
MergeAndEraseForgets(s, k, v) ==
    LET grown == Merged(s[k], v)
        apart == {n \in k + 1..Len(s) : ~Contiguous(grown, s[n])}
    IN  SubSeq(s, 1, k - 1) \o <<grown>> \o SubSeq(s, Min(apart \cup {Len(s) + 1}), Len(s))

\* mergeAndEraseContiguousIntervals: v joins s[k], then every later neighbour
\* that the grown interval is contiguous with.
MergeAndErase(s, k, v) ==
    LET grown == Merged(s[k], v)
        Upto(n) == Interval(grown.start, Max({grown.end} \cup {s[m].end : m \in k + 1..n}))
        last == Max({n \in k..Len(s) : \A m \in k + 1..n : Contiguous(Upto(m - 1), s[m])})
    IN  SubSeq(s, 1, k - 1) \o <<Upto(last)>> \o SubSeq(s, last + 1, Len(s))

\* One iteration of intervalMerge on u = *iterA and v = *iterB.
MergeStep(u, v) ==
    \/ /\ Before(u, v)
       /\ i' = i + 1
       /\ IF Contiguous(u, v)
             THEN a' = MergeAndErase(a, i, v) /\ j' = j + 1
             ELSE UNCHANGED <<a, j>>
    \/ /\ After(u, v)
       /\ a' = IF Contiguous(v, u) THEN ReplaceAt(a, i, Merged(u, v)) ELSE InsertAt(a, i, v)
       /\ j' = j + 1 /\ UNCHANGED i
    \/ /\ ~Before(u, v) /\ ~After(u, v)
       /\ a' = MergeAndErase(a, i, v)
       /\ j' = j + 1 /\ UNCHANGED i

Merge ==
    /\ Running("merge") /\ j <= Len(b)
    /\ MergeStep(a[i], b[j])
    /\ UNCHANGED <<input, lists, pc, answer>>

\* The intervals of b that are left are appended.
MergeEnds ==
    /\ pc = "merge" /\ (i > Len(a) \/ j > Len(b))
    /\ a' = a \o SubSeq(b, j, Len(b))
    /\ Leave
    /\ UNCHANGED <<input, answer>>

\* The loop of rangesInterfere, after the subtraction.
Scan ==
    /\ Running("scan") /\ j <= Len(b)
    /\ \/ Before(a[i], b[j]) /\ i' = i + 1 /\ UNCHANGED <<j, pc, answer>>
       \/ After(a[i], b[j]) /\ j' = j + 1 /\ UNCHANGED <<i, pc, answer>>
       \/ /\ ~Before(a[i], b[j]) /\ ~After(a[i], b[j])
          /\ answer' = TRUE /\ pc' = "done" /\ UNCHANGED <<i, j>>
    /\ UNCHANGED <<input, lists, a>>

ScanEnds ==
    /\ pc = "scan" /\ (i > Len(a) \/ j > Len(b))
    /\ Leave
    /\ UNCHANGED <<input, a, answer>>

Done == pc = "done" /\ UNCHANGED vars

Next ==
    \/ Subtract \/ SubtractEnds
    \/ Intersect \/ IntersectEnds
    \/ Merge \/ MergeEnds
    \/ Scan \/ ScanEnds
    \/ Done

ListsSpec == InitLists /\ [][Next]_vars
-----------------------------------------------------------------------------
\* Subtraction, whichever way the intervals overlap, never takes a position from
\* a that is not in the list it subtracts, and never adds one: at no step of the
\* loop, though it splits and erases the intervals it walks over.
SubtractKeepsRest ==
    op \in {"subtract", "interfere"} =>
        /\ Positions(before) \ Positions(common) \subseteq Positions(a)
        /\ Positions(a) \subseteq Positions(before)

\* intervalIntersect returns exactly the common positions, in ascending order.
IntersectExact ==
    op = "intersect" /\ pc = "done" =>
        Positions(a) = Positions(before) \cap Positions(b) /\ InOrder(a)

\* intervalMerge loses no position of either list, and adds only single positions
\* between two contiguous intervals. A merge of a single interval, what every merge
\* of the analysis is as long as an alias has one range, leaves a list whose
\* intervals are apart and ascending.
MergeCovers ==
    op = "merge" /\ pc = "done" =>
        LET both == Positions(before) \cup Positions(b)
        IN  /\ both \subseteq Positions(a)
            /\ \A p \in Positions(a) \ both : {p - 1, p + 1} \subseteq both
            /\ Len(b) <= 1 => Regular(a)

\* rangesInterfere never reports an interference of ranges that share no position,
\* and misses none if there is no common alias to subtract; what it subtracts costs
\* no other position.
InterfereSound ==
    /\ SubtractKeepsRest
    /\ op = "interfere" /\ pc = "done" =>
            LET shared == Positions(before) \cap Positions(b)
            IN  /\ answer => shared # {}
                /\ common = <<>> /\ shared # {} => answer
=============================================================================
