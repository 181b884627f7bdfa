------------------------- MODULE BufferPackingProofs -------------------------
(***************************************************************************)
(* Buffer packing, for any allocations, use ranges, sizes and windows.     *)
(* What makes a layout sound is a property of the gaps: what a gap counts  *)
(* as free is used by no allocation of the buffer during the gap           *)
(* (GapsAreFree).  It is inductive only together with the order of the     *)
(* list, which the comment in findGapAndUpdate claims ("The list is        *)
(* sorted, so we can break here"): an allocation that is packed into one   *)
(* gap is not in use during another one because no two gaps overlap.       *)
(***************************************************************************)
EXTENDS BufferPacking, SequenceTheorems, FiniteSetTheorems, FunctionTheorems, TLAPS

Gaps == [start : Nat, end : Nat, free : Nat]
Items == [alloc : Allocs, offset : Nat]

\* The gaps of a list follow each other without overlapping.
Sorted(s) == \A k, m \in DOMAIN s : k < m => s[k].end < s[m].start

\* NoClobber, for one buffer.
Separated(layout) ==
    \A k, m \in DOMAIN layout :
        k # m /\ Memory(layout[k]) \cap Memory(layout[m]) # {} =>
            UsedAt(layout[k].alloc) \cap UsedAt(layout[m].alloc) = {}

TypeOK ==
    /\ buffers \in [Allocs -> [segments : Nat, ranges : UseRanges]]
    /\ pc \in {"sort", "next", "pack", "done"}
    /\ infos \in Seq(Allocs)
    /\ current \in Nat \ {0} /\ checked \in Nat \ {0}
    /\ gaps \in Seq(Gaps)
    /\ offsets \in Seq(Items)
    /\ packed \in Seq([segments : Nat, offsets : Seq(Items)])

GapsInv ==
    pc = "pack" =>
        /\ current \in DOMAIN infos /\ current < checked
        /\ Sorted(gaps)
        /\ \A g \in ToSet(gaps) : g.free <= Segments(infos[current])

\* The complete buffers, and the one that is being filled.
Buffers ==
    IF pc = "pack"
    THEN Append(packed, [segments |-> Segments(infos[current]), offsets |-> offsets])
    ELSE packed

LayoutInv == \A b \in DOMAIN Buffers : Separated(Buffers[b].offsets)

\* PackedOnce, at every point of the walk: an allocation is in the part of the
\* list that is still to be visited, or else it has one view, within its buffer.
Waits(x) ==
    \E k \in DOMAIN infos : infos[k] = x /\ (current < k \/ (current = k /\ pc # "pack"))
Distinct(s) == \A k, m \in DOMAIN s : s[k] = s[m] => k = m
Views(B) == UNION {{<<b, k>> : k \in DOMAIN B[b].offsets} : b \in DOMAIN B}
Viewed(B, v) == B[v[1]].offsets[v[2]].alloc
Inside(B, v) ==
    B[v[1]].offsets[v[2]].offset + Segments(Viewed(B, v)) <= B[v[1]].segments

PlacedInv ==
    /\ pc = "sort" => packed = <<>> /\ current = 1
    /\ pc # "sort" =>
          /\ Distinct(infos)
          /\ \A x \in Allocs : Waits(x) <=> \A v \in Views(Buffers) : Viewed(Buffers, v) # x
          /\ \A v, w \in Views(Buffers) : Viewed(Buffers, v) = Viewed(Buffers, w) => v = w
          /\ \A v \in Views(Buffers) : Inside(Buffers, v)
    /\ pc = "done" => current > Len(infos)

IInv == TypeOK /\ GapsInv /\ GapsAreFree /\ LayoutInv /\ PlacedInv

-----------------------------------------------------------------------------
(* A non-empty set of naturals has a least element, and a finite one a     *)
(* greatest: Min and Max of the code's sets are elements of them.          *)
LEMMA MinProperties ==
  ASSUME NEW T, T \subseteq Nat, T # {}
  PROVE  Min(T) \in T /\ \A y \in T : Min(T) =< y
<1>1. PICK k \in T : \A m \in T : ~(<<m, k>> \in OpToRel(<, Nat))
  BY NatLessThanWellFounded, WFMin
<1>2. \A m \in T : ~(m < k)
  BY <1>1 DEF OpToRel
<1>3. \A m \in T : k =< m
  BY <1>2
<1>4. \E x \in T : \A y \in T : x =< y
  BY <1>3
<1> QED
  BY <1>4 DEF Min

LEMMA MaxExists ==
  ASSUME NEW T, T \subseteq Nat, T # {}, IsFiniteSet(T)
  PROVE  \E x \in T : \A y \in T : x >= y
<1> DEFINE HasMax(S) == \E x \in S : \A y \in S : x >= y
           Bad == {n \in Nat : \E S \in SUBSET Nat : /\ IsFiniteSet(S) /\ S # {}
                                                     /\ Cardinality(S) = n /\ ~HasMax(S)}
<1>1. SUFFICES ASSUME Bad # {} PROVE FALSE
  BY FS_CardinalityType
<1>2. PICK n \in Bad : \A m \in Bad : ~(<<m, n>> \in OpToRel(<, Nat))
  BY <1>1, NatLessThanWellFounded, WFMin
<1>3. \A m \in Bad : ~(m < n)
  BY <1>2 DEF OpToRel
<1>4. PICK S \in SUBSET Nat : IsFiniteSet(S) /\ S # {} /\ Cardinality(S) = n /\ ~HasMax(S)
  BY <1>2
<1>5. PICK y \in S : TRUE
  BY <1>4
<1>6. IsFiniteSet(S \ {y}) /\ Cardinality(S \ {y}) = n - 1 /\ n - 1 \in Nat /\ n \in Nat
  <2>1. IsFiniteSet(S \ {y}) /\ Cardinality(S \ {y}) = n - 1
    BY <1>4, <1>5, FS_RemoveElement
  <2>2. Cardinality(S \ {y}) \in Nat /\ Cardinality(S) \in Nat
    BY <1>4, <2>1, FS_CardinalityType
  <2> QED BY <1>4, <2>1, <2>2
<1>7. CASE S \ {y} = {}
  BY <1>4, <1>5, <1>7
<1>8. CASE S \ {y} # {}
  <2>1. n - 1 < n
    BY <1>6
  <2>2. HasMax(S \ {y})
    BY <1>3, <1>4, <1>6, <1>8, <2>1
  <2>3. PICK x \in S \ {y} : \A z \in S \ {y} : x >= z
    BY <2>2
  <2>4. x \in Nat /\ y \in Nat
    BY <1>4, <1>5, <2>3
  <2>5. CASE x >= y
    BY <1>4, <2>3, <2>5
  <2>6. CASE y >= x
    BY <1>4, <1>5, <2>3, <2>4, <2>6
  <2> QED BY <2>4, <2>5, <2>6
<1> QED BY <1>7, <1>8

LEMMA MaxProperties ==
  ASSUME NEW T, T \subseteq Nat, T # {}, IsFiniteSet(T)
  PROVE  Max(T) \in T /\ \A y \in T : y =< Max(T)
<1>1. \E x \in T : \A y \in T : x >= y
  BY MaxExists
<1>2. Max(T) \in T /\ \A y \in T : Max(T) >= y
  BY <1>1 DEF Max
<1> QED BY <1>2

(* Lists of gaps: cutting one and putting two together.                    *)
LEMMA SortedConcat ==
  ASSUME NEW s \in Seq(Gaps), NEW t \in Seq(Gaps), Sorted(s), Sorted(t),
         \A g \in ToSet(s), h \in ToSet(t) : g.end < h.start
  PROVE  s \o t \in Seq(Gaps) /\ Sorted(s \o t) /\ ToSet(s \o t) = ToSet(s) \cup ToSet(t)
<1>1. /\ s \o t \in Seq(Gaps) /\ Len(s \o t) = Len(s) + Len(t)
      /\ \A k \in 1..Len(s) + Len(t) :
           (s \o t)[k] = IF k <= Len(s) THEN s[k] ELSE t[k - Len(s)]
  BY ConcatProperties
<1>2. /\ Len(s) \in Nat /\ DOMAIN s = 1..Len(s) /\ Len(t) \in Nat /\ DOMAIN t = 1..Len(t)
      /\ DOMAIN (s \o t) = 1..Len(s) + Len(t)
  BY <1>1, LenProperties
<1> DEFINE u == s \o t
<1>3. \A k \in DOMAIN u : \/ k \in DOMAIN s /\ u[k] = s[k]
                          \/ k - Len(s) \in DOMAIN t /\ k > Len(s) /\ u[k] = t[k - Len(s)]
  BY <1>1, <1>2
<1>4. \A k \in DOMAIN s : k \in DOMAIN u /\ u[k] = s[k]
  BY <1>1, <1>2
<1>5. \A k \in DOMAIN t : Len(s) + k \in DOMAIN u /\ u[Len(s) + k] = t[k]
  <2>1. \A k \in DOMAIN t : Len(s) + k \in 1..Len(s) + Len(t)
          /\ ~(Len(s) + k <= Len(s)) /\ Len(s) + k - Len(s) = k
    BY <1>2
  <2> QED BY <1>1, <1>2, <2>1
<1> HIDE DEF u
<1>6. ToSet(u) = ToSet(s) \cup ToSet(t)
  BY <1>3, <1>4, <1>5 DEF ToSet
<1>7. Sorted(u)
  <2> SUFFICES ASSUME NEW k \in DOMAIN u, NEW m \in DOMAIN u, k < m
               PROVE  u[k].end < u[m].start
    BY DEF Sorted
  <2>1. k \in Nat /\ m \in Nat
    BY <1>2 DEF u
  <2>2. CASE m \in DOMAIN s /\ u[m] = s[m]
    BY <1>2, <1>3, <2>1, <2>2 DEF Sorted
  <2>3. CASE m - Len(s) \in DOMAIN t /\ m > Len(s) /\ u[m] = t[m - Len(s)]
    <3>1. CASE k \in DOMAIN s /\ u[k] = s[k]
      BY <2>3, <3>1 DEF ToSet
    <3>2. CASE k - Len(s) \in DOMAIN t /\ k > Len(s) /\ u[k] = t[k - Len(s)]
      <4>1. k - Len(s) < m - Len(s)
        BY <1>2, <2>1
      <4> QED BY <2>3, <3>2, <4>1 DEF Sorted
    <3> QED BY <1>3, <3>1, <3>2
  <2> QED BY <1>3, <2>2, <2>3
<1> QED BY <1>1, <1>6, <1>7 DEF u

LEMMA SortedParts ==
  ASSUME NEW s \in Seq(Gaps), Sorted(s), NEW k \in DOMAIN s
  PROVE  LET front == SubSeq(s, 1, k - 1)
             back == SubSeq(s, k + 1, Len(s))
         IN  /\ front \in Seq(Gaps) /\ Sorted(front)
             /\ ToSet(front) = {s[m] : m \in {m \in DOMAIN s : m < k}}
             /\ back \in Seq(Gaps) /\ Sorted(back)
             /\ ToSet(back) = {s[m] : m \in {m \in DOMAIN s : k < m}}
<1> DEFINE front == SubSeq(s, 1, k - 1)
           back == SubSeq(s, k + 1, Len(s))
<1>1. /\ Len(s) \in Nat /\ DOMAIN s = 1..Len(s) /\ k \in 1..Len(s)
      /\ \A m \in 1..Len(s) : s[m] \in Gaps
  BY LenProperties, ElementOfSeq
<1>2. /\ front \in Seq(Gaps) /\ DOMAIN front = 1..k - 1
      /\ \A m \in 1..k - 1 : front[m] = s[m]
  <2>1. \A m \in 1..k - 1 : s[m] \in Gaps
    BY <1>1
  <2>2. /\ front \in Seq(Gaps) /\ Len(front) = IF 1 <= k - 1 THEN k - 1 - 1 + 1 ELSE 0
        /\ \A m \in 1..k - 1 - 1 + 1 : front[m] = s[1 + m - 1]
    BY <1>1, <2>1, SubSeqProperties, 1 \in Int, k - 1 \in Int
  <2>3. DOMAIN front = 1..Len(front)
    BY <2>2, LenProperties
  <2> HIDE DEF front
  <2> QED BY <1>1, <2>2, <2>3
<1>3. /\ back \in Seq(Gaps) /\ DOMAIN back = 1..Len(s) - k
      /\ \A m \in 1..Len(s) - k : back[m] = s[k + m]
  <2>1. \A m \in k + 1..Len(s) : s[m] \in Gaps
    BY <1>1
  <2>2. /\ back \in Seq(Gaps)
        /\ Len(back) = IF k + 1 <= Len(s) THEN Len(s) - (k + 1) + 1 ELSE 0
        /\ \A m \in 1..Len(s) - (k + 1) + 1 : back[m] = s[k + 1 + m - 1]
    BY <1>1, <2>1, SubSeqProperties, k + 1 \in Int, Len(s) \in Int
  <2>3. DOMAIN back = 1..Len(back)
    BY <2>2, LenProperties
  <2> HIDE DEF back
  <2> QED BY <1>1, <2>2, <2>3
<1> HIDE DEF front, back
<1>4. Sorted(front) /\ ToSet(front) = {s[m] : m \in {m \in DOMAIN s : m < k}}
  <2>1. \A m \in 1..k - 1 : m \in DOMAIN s /\ m < k
    BY <1>1
  <2>2. \A m \in DOMAIN s : m < k => m \in 1..k - 1
    BY <1>1
  <2> QED BY <1>1, <1>2, <2>1, <2>2 DEF Sorted, ToSet
<1>5. Sorted(back)
  <2>1. \A m \in DOMAIN back, n \in DOMAIN back : m < n => k + m < k + n
    BY <1>1, <1>3
  <2>2. \A m \in DOMAIN back : k + m \in DOMAIN s
    BY <1>1, <1>3
  <2> QED BY <1>3, <2>1, <2>2 DEF Sorted
<1>6. ToSet(back) = {s[m] : m \in {m \in DOMAIN s : k < m}}
  <2>1. \A m \in DOMAIN back : k + m \in DOMAIN s /\ k < k + m /\ back[m] = s[k + m]
    BY <1>1, <1>3
  <2>2. \A m \in DOMAIN s : k < m => m - k \in DOMAIN back /\ k + (m - k) = m
    BY <1>1, <1>3
  <2>3. \A m \in DOMAIN s : k < m => m - k \in DOMAIN back /\ back[m - k] = s[m]
    BY <1>3, <2>2
  <2> QED BY <2>1, <2>3 DEF ToSet
<1> QED BY <1>2, <1>3, <1>4, <1>5, <1>6 DEF front, back

-----------------------------------------------------------------------------
(* The positions of an allocation, and the gaps computed from them.        *)
LEMMA RangeFacts ==
  ASSUME TypeOK, NEW x \in Allocs
  PROVE  /\ Segments(x) \in Nat
         /\ FirstUse(x) \in Nat /\ LastUse(x) \in Nat
         /\ 0 < FirstUse(x) /\ FirstUse(x) =< LastUse(x)
         /\ DOMAIN Ranges(x) = 1..Len(Ranges(x)) /\ Len(Ranges(x)) \in Nat /\ Len(Ranges(x)) >= 1
         /\ \A k \in DOMAIN Ranges(x) :
              /\ Ranges(x)[k].start \in Nat /\ Ranges(x)[k].end \in Nat
              /\ 0 < Ranges(x)[k].start /\ Ranges(x)[k].start =< Ranges(x)[k].end
              /\ Ranges(x)[k].end =< LastUse(x)
         /\ \A k, m \in DOMAIN Ranges(x) : k < m => Ranges(x)[k].end < Ranges(x)[m].start
         /\ \A n : n \in UsedAt(x) <=> \E k \in DOMAIN Ranges(x) : n \in Ranges(x)[k].start..Ranges(x)[k].end
         /\ UsedAt(x) \subseteq FirstUse(x)..LastUse(x)
<1> DEFINE r == Ranges(x)
<1>1. r \in UseRanges /\ Segments(x) \in Nat
  BY DEF TypeOK, Ranges, Segments
<1>2. /\ r \in Seq([start : Nat, end : Nat]) /\ r # <<>>
      /\ \A k \in DOMAIN r : 0 < r[k].start /\ r[k].start <= r[k].end
      /\ \A k, m \in DOMAIN r : k < m => r[k].end < r[m].start
  BY <1>1, RangesAscend
<1> HIDE DEF r
<1>3. /\ Len(r) \in Nat /\ DOMAIN r = 1..Len(r) /\ Len(r) # 0
      /\ \A k \in DOMAIN r : r[k] \in [start : Nat, end : Nat]
  BY <1>2, LenProperties, ElementOfSeq, EmptySeq
<1>4. \A k \in DOMAIN r : r[k].start \in Nat /\ r[k].end \in Nat
  BY <1>3
<1>5. 1 \in DOMAIN r /\ Len(r) \in DOMAIN r /\ Len(r) >= 1
  BY <1>3
<1>6. \A k \in DOMAIN r : k >= 1 /\ k =< Len(r)
  BY <1>3
<1>7. \A k \in DOMAIN r : r[1].start =< r[k].start /\ r[k].end =< r[Len(r)].end
  <2> TAKE k \in DOMAIN r
  <2>1. k = 1 \/ 1 < k
    BY <1>3
  <2>2. k = Len(r) \/ k < Len(r)
    BY <1>3
  <2>3. r[1].start =< r[k].start
    <3>1. /\ r[1].start \in Nat /\ r[1].end \in Nat /\ r[k].start \in Nat
          /\ r[1].start <= r[1].end
      BY <1>2, <1>4, <1>5
    <3>2. CASE k = 1
      BY <3>1, <3>2
    <3>3. CASE 1 < k
      <4>1. r[1].end < r[k].start
        BY <1>2, <1>5, <3>3
      <4> QED BY <3>1, <4>1
    <3> QED BY <2>1, <3>2, <3>3
  <2>4. r[k].end =< r[Len(r)].end
    <3>1. /\ r[Len(r)].start \in Nat /\ r[Len(r)].end \in Nat /\ r[k].end \in Nat
          /\ r[Len(r)].start <= r[Len(r)].end
      BY <1>2, <1>4, <1>5
    <3>2. CASE k = Len(r)
      BY <3>1, <3>2
    <3>3. CASE k < Len(r)
      <4>1. r[k].end < r[Len(r)].start
        BY <1>2, <1>5, <3>3
      <4> QED BY <3>1, <4>1
    <3> QED BY <2>2, <3>2, <3>3
  <2> QED BY <2>3, <2>4
<1>8. FirstUse(x) = r[1].start /\ LastUse(x) = r[Len(r)].end
  BY DEF FirstUse, LastUse, r
<1>9. r[1].start =< r[Len(r)].end
  BY <1>2, <1>4, <1>5, <1>7
<1>10. \A n : n \in UsedAt(x) <=> \E k \in DOMAIN r : n \in r[k].start..r[k].end
  BY DEF UsedAt, ToSet, r
<1>11. UsedAt(x) \subseteq r[1].start..r[Len(r)].end
  <2> SUFFICES ASSUME NEW n \in UsedAt(x) PROVE n \in r[1].start..r[Len(r)].end
    OBVIOUS
  <2>1. PICK k \in DOMAIN r : n \in r[k].start..r[k].end
    BY <1>10
  <2>2. r[1].start \in Int /\ r[Len(r)].end \in Int /\ n \in Int /\ r[k].start =< n /\ n =< r[k].end
    BY <1>4, <1>5, <2>1
  <2>3. r[1].start =< r[k].start /\ r[k].end =< r[Len(r)].end /\ r[k].start \in Int /\ r[k].end \in Int
    BY <1>4, <1>7
  <2> QED BY <2>2, <2>3
<1> QED
  BY <1>1, <1>2, <1>3, <1>4, <1>5, <1>7, <1>8, <1>9, <1>10, <1>11 DEF r

LEMMA MaxUserangeIdType == ASSUME TypeOK, Allocs # {} PROVE MaxUserangeId \in Nat
<1> DEFINE last == [x \in Allocs |-> LastUse(x)]
           T == {LastUse(x) : x \in Allocs}
<1>1. T \subseteq Nat /\ T # {}
  BY RangeFacts
<1>2. last \in Surjection(Allocs, T)
  <2>1. last \in [Allocs -> T] /\ \A t \in T : \E x \in Allocs : last[x] = t
    OBVIOUS
  <2> QED BY <2>1, Fun_IsSurj
<1>3. IsFiniteSet(T)
  BY <1>2, FinitelyMany, FS_Surjection
<1>4. Max(T) \in T
  BY <1>1, <1>3, MaxProperties
<1> QED BY <1>1, <1>4 DEF MaxUserangeId

(* The gaps of an allocation lie where it is not in use, and apart.        *)
LEMMA ComputeGapsProperties ==
  ASSUME TypeOK, NEW x \in Allocs
  PROVE  /\ ComputeGaps(x) \subseteq Gaps
         /\ ComputeGaps(x) # {} /\ IsFiniteSet(ComputeGaps(x))
         /\ \A g \in ComputeGaps(x) : /\ g.free = Segments(x)
                                      /\ UsedAt(x) \cap (g.start..g.end) = {}
         /\ \A g, h \in ComputeGaps(x) : g.start < h.start => g.end < h.start
<1> DEFINE r == Ranges(x)
           from(k) == IF k = 1 THEN 0 ELSE r[k - 1].end + 1
           Between == {k \in DOMAIN r : from(k) < r[k].start}
           last == LastUse(x)
           top == MaxUserangeId
<1>1. /\ Segments(x) \in Nat /\ last \in Nat /\ top \in Nat
      /\ DOMAIN r = 1..Len(r) /\ Len(r) \in Nat /\ Len(r) >= 1
      /\ \A k \in DOMAIN r : /\ r[k].start \in Nat /\ r[k].end \in Nat
                             /\ 0 < r[k].start /\ r[k].start =< r[k].end /\ r[k].end =< last
      /\ \A k, m \in DOMAIN r : k < m => r[k].end < r[m].start
      /\ \A n : n \in UsedAt(x) <=> \E k \in DOMAIN r : n \in r[k].start..r[k].end
  BY RangeFacts, MaxUserangeIdType
<1>2. \A g : g \in ComputeGaps(x) <=>
               \/ \E k \in Between : g = Gap(from(k), r[k].start - 1, Segments(x))
               \/ last + 1 < top /\ g = Gap(last + 1, top, Segments(x))
  BY DEF ComputeGaps
<1> HIDE DEF r, last, top
<1>3. \A k \in DOMAIN r : k = 1 \/ (k - 1 \in DOMAIN r /\ k - 1 < k)
  BY <1>1
<1>4. \A k \in DOMAIN r : from(k) \in Nat
  BY <1>1, <1>3
<1>5. \A k, m \in DOMAIN r : k < m => r[k].end < from(m)
  <2> SUFFICES ASSUME NEW k \in DOMAIN r, NEW m \in DOMAIN r, k < m PROVE r[k].end < from(m)
    OBVIOUS
  <2>1. m # 1 /\ m - 1 \in DOMAIN r /\ (k = m - 1 \/ k < m - 1)
    BY <1>1
  <2>2. r[k].end =< r[m - 1].end
    BY <1>1, <2>1
  <2> QED BY <1>1, <2>1, <2>2
<1>6. \A k \in DOMAIN r : from(k) =< last + 1
  BY <1>1, <1>3
<1> HIDE DEF from
(* The gap before an interval.                                             *)
<1>7. ASSUME NEW k \in Between, NEW g, g = Gap(from(k), r[k].start - 1, Segments(x))
      PROVE  /\ g \in Gaps /\ g.free = Segments(x)
             /\ g.start = from(k) /\ g.end = r[k].start - 1
  <2>1. r[k].start \in Nat /\ 0 < r[k].start /\ from(k) \in Nat
    BY <1>1, <1>4
  <2>2. r[k].start - 1 \in Nat
    BY <2>1
  <2> QED BY <1>1, <1>7, <2>1, <2>2 DEF Gap, Gaps
<1>8. ASSUME NEW k \in Between, NEW m \in DOMAIN r, NEW n \in r[m].start..r[m].end
      PROVE  n \notin from(k)..r[k].start - 1
  <2>1. m < k \/ k =< m
    BY <1>1
  <2>2. CASE m < k
    <3>1. r[m].end < from(k) /\ r[m].end \in Nat /\ from(k) \in Nat /\ r[m].start \in Nat
      BY <1>1, <1>4, <1>5, <2>2
    <3> QED BY <3>1
  <2>3. CASE k =< m
    <3>1. r[k].start =< r[m].start
      <4>1. k = m \/ k < m
        BY <1>1, <2>3
      <4> QED BY <1>1, <4>1
    <3>2. r[m].start \in Nat /\ r[k].start \in Nat /\ r[m].end \in Nat
      BY <1>1
    <3> QED BY <3>1, <3>2
  <2> QED BY <2>1, <2>2, <2>3
(* The gap behind the last one.                                            *)
<1>9. ASSUME NEW g, last + 1 < top, g = Gap(last + 1, top, Segments(x))
      PROVE  g \in Gaps /\ g.free = Segments(x) /\ g.start = last + 1 /\ g.end = top
  BY <1>1, <1>9 DEF Gap, Gaps
<1>10. ASSUME NEW m \in DOMAIN r, NEW n \in r[m].start..r[m].end
       PROVE  n \notin last + 1..top
  <2>1. r[m].end =< last /\ r[m].end \in Nat /\ r[m].start \in Nat
    BY <1>1
  <2> QED BY <1>1, <2>1
<1>11. ComputeGaps(x) \subseteq Gaps
  BY <1>2, <1>7, <1>9
<1>12. ComputeGaps(x) # {}
  <2>1. 1 \in DOMAIN r /\ from(1) = 0 /\ from(1) < r[1].start
    BY <1>1 DEF from
  <2> QED BY <1>2, <2>1
<1>13. ASSUME NEW g \in ComputeGaps(x)
       PROVE  g.free = Segments(x) /\ UsedAt(x) \cap (g.start..g.end) = {}
  <2>1. ASSUME NEW k \in Between, g = Gap(from(k), r[k].start - 1, Segments(x))
        PROVE  g.free = Segments(x) /\ UsedAt(x) \cap (g.start..g.end) = {}
    <3>1. g.free = Segments(x) /\ g.start = from(k) /\ g.end = r[k].start - 1
      BY <1>7, <2>1
    <3>2. \A n \in UsedAt(x) : n \notin from(k)..r[k].start - 1
      BY <1>1, <1>8
    <3> QED BY <3>1, <3>2
  <2>2. ASSUME last + 1 < top, g = Gap(last + 1, top, Segments(x))
        PROVE  g.free = Segments(x) /\ UsedAt(x) \cap (g.start..g.end) = {}
    <3>1. g.free = Segments(x) /\ g.start = last + 1 /\ g.end = top
      BY <1>9, <2>2
    <3>2. \A n \in UsedAt(x) : n \notin last + 1..top
      BY <1>1, <1>10
    <3> QED BY <3>1, <3>2
  <2> QED BY <1>2, <2>1, <2>2
<1>14. ASSUME NEW g \in ComputeGaps(x), NEW h \in ComputeGaps(x), g.start < h.start
       PROVE  g.end < h.start
  <2>1. ASSUME NEW k \in Between, g = Gap(from(k), r[k].start - 1, Segments(x)),
               NEW m \in Between, h = Gap(from(m), r[m].start - 1, Segments(x))
        PROVE  g.end < h.start
    <3>1. g.start = from(k) /\ g.end = r[k].start - 1 /\ h.start = from(m)
      BY <1>7, <2>1
    <3>2. /\ k \in Nat /\ m \in Nat
          /\ r[k].start \in Nat /\ r[k].end \in Nat /\ r[k].start =< r[k].end
          /\ r[m].start \in Nat /\ r[m].end \in Nat /\ r[m].start =< r[m].end
          /\ from(k) \in Nat /\ from(m) \in Nat
          /\ from(k) < r[k].start /\ from(m) < r[m].start
      BY <1>1, <1>4
    <3>3. CASE k < m
      <4>1. r[k].end < from(m)
        BY <1>5, <3>3
      <4> QED BY <3>1, <3>2, <4>1
    <3>4. CASE k = m
      BY <1>14, <3>1, <3>2, <3>4
    <3>5. CASE m < k
      <4>1. r[m].end < from(k)
        BY <1>5, <3>5
      <4> QED BY <1>14, <3>1, <3>2, <4>1
    <3> QED BY <3>2, <3>3, <3>4, <3>5
  <2>2. ASSUME NEW k \in Between, g = Gap(from(k), r[k].start - 1, Segments(x)),
               last + 1 < top, h = Gap(last + 1, top, Segments(x))
        PROVE  g.end < h.start
    <3>1. g.end = r[k].start - 1 /\ h.start = last + 1
      BY <1>7, <1>9, <2>2
    <3>2. /\ r[k].start \in Nat /\ r[k].end \in Nat /\ r[k].start =< r[k].end
          /\ r[k].end =< last
      BY <1>1
    <3> QED BY <1>1, <3>1, <3>2
  <2>3. ASSUME NEW m \in Between, h = Gap(from(m), r[m].start - 1, Segments(x)),
               last + 1 < top, g = Gap(last + 1, top, Segments(x))
        PROVE  FALSE
    <3>1. g.start = last + 1 /\ h.start = from(m)
      BY <1>7, <1>9, <2>3
    <3>2. from(m) =< last + 1 /\ from(m) \in Nat
      BY <1>4, <1>6
    <3> QED BY <1>1, <1>14, <3>1, <3>2
  <2>4. ASSUME last + 1 < top, g = Gap(last + 1, top, Segments(x)),
               h = Gap(last + 1, top, Segments(x))
        PROVE  FALSE
    BY <1>1, <1>9, <1>14, <2>4
  <2> QED BY <1>2, <2>1, <2>2, <2>3, <2>4
<1>15. IsFiniteSet(ComputeGaps(x))
  <2> DEFINE before == [k \in Between |-> Gap(from(k), r[k].start - 1, Segments(x))]
             B == {before[k] : k \in Between}
  <2>1. IsFiniteSet(Between)
    <3>1. IsFiniteSet(1..Len(r))
      BY <1>1, FS_Interval
    <3>2. Between \subseteq 1..Len(r)
      BY <1>1
    <3> QED BY <3>1, <3>2, FS_Subset
  <2>2. before \in Surjection(Between, B)
    <3>1. before \in [Between -> B] /\ \A t \in B : \E k \in Between : before[k] = t
      OBVIOUS
    <3> QED BY <3>1, Fun_IsSurj
  <2>3. IsFiniteSet(B)
    BY <2>1, <2>2, FS_Surjection
  <2>4. IsFiniteSet(B \cup {Gap(last + 1, top, Segments(x))})
    BY <2>3, FS_AddElement
  <2>5. ComputeGaps(x) \subseteq B \cup {Gap(last + 1, top, Segments(x))}
    BY <1>2
  <2> QED BY <2>4, <2>5, FS_Subset
<1> QED
  BY <1>11, <1>12, <1>13, <1>14, <1>15

LEMMA AscendingProperties ==
  ASSUME TypeOK, NEW x \in Allocs, NEW s \in Ascending(ComputeGaps(x))
  PROVE  s \in Seq(Gaps) /\ Sorted(s) /\ ToSet(s) \subseteq ComputeGaps(x)
<1> DEFINE G == ComputeGaps(x)
<1>1. /\ s \in [1..Cardinality(G) -> G]
      /\ \A k, m \in DOMAIN s : k < m => s[k].start < s[m].start
  BY DEF Ascending, SetToSeqs
<1>2. /\ G \subseteq Gaps
      /\ \A g, h \in G : g.start < h.start => g.end < h.start
  BY ComputeGapsProperties
<1> HIDE DEF G
<1>3. \A k \in DOMAIN s : s[k] \in G
  BY <1>1
<1>4. Sorted(s)
  BY <1>1, <1>2, <1>3 DEF Sorted
<1>5. s \in Seq(Gaps)
  <2>1. Cardinality(G) \in Nat
    BY ComputeGapsProperties, FS_CardinalityType DEF G
  <2>2. s \in [1..Cardinality(G) -> Gaps]
    BY <1>1, <1>2
  <2> QED BY <2>1, <2>2
<1> QED
  BY <1>3, <1>4, <1>5 DEF ToSet, G

(* What remains of a gap lies within it, and x is not in use there except  *)
(* where its segments are no longer counted as free.                       *)
LEMMA SingleGap ==
  /\ <<>> \in Seq(Gaps) /\ Sorted(<<>>) /\ ToSet(<<>>) = {}
  /\ \A g \in Gaps : <<g>> \in Seq(Gaps) /\ Sorted(<<g>>) /\ ToSet(<<g>>) = {g}
<1>1. <<>> \in Seq(Gaps) /\ DOMAIN <<>> = {}
  BY EmptySeq
<1>2. ASSUME NEW g \in Gaps
      PROVE  <<g>> \in Seq(Gaps) /\ DOMAIN <<g>> = {1} /\ <<g>>[1] = g
  OBVIOUS
<1>3. ToSet(<<>>) = {} /\ Sorted(<<>>)
  BY <1>1 DEF ToSet, Sorted
<1>4. ASSUME NEW g \in Gaps
      PROVE  Sorted(<<g>>) /\ ToSet(<<g>>) = {g}
  BY <1>2 DEF ToSet, Sorted
<1> QED BY <1>1, <1>2, <1>3, <1>4

LEMMA SplitProperties ==
  ASSUME TypeOK, NEW x \in Allocs, NEW g \in Gaps, Fits(x, g)
  PROVE  /\ Split(g, x) \in Seq(Gaps) /\ Sorted(Split(g, x))
         /\ \A h \in ToSet(Split(g, x)) :
              /\ g.start =< h.start /\ h.end =< g.end /\ h.free =< g.free
              /\ \/ h.end < FirstUse(x)
                 \/ LastUse(x) < h.start
                 \/ h.free = g.free - Segments(x)
<1> DEFINE first == FirstUse(x)
           last == LastUse(x)
           size == Segments(x)
           before == IF first > g.start THEN <<Gap(g.start, first - 1, g.free)>> ELSE <<>>
           behind == IF last < g.end THEN <<Gap(last + 1, g.end, g.free)>> ELSE <<>>
           rest == IF g.free > size THEN <<Gap(first, last, g.free - size)>> ELSE <<>>
<1>1. /\ first \in Nat /\ last \in Nat /\ size \in Nat /\ first =< last
      /\ g.start \in Nat /\ g.end \in Nat /\ g.free \in Nat
      /\ g.free >= size /\ first >= g.start /\ last =< g.end
  BY RangeFacts DEF Fits, Gaps
<1>2. Split(g, x) = before \o rest \o behind
  BY DEF Split
<1> HIDE DEF first, last, size
<1>3. /\ before \in Seq(Gaps) /\ Sorted(before)
      /\ \A h \in ToSet(before) : h \in Gaps /\ h.start = g.start /\ h.end = first - 1 /\ h.free = g.free
                                  /\ h.end < first
  <2>1. CASE first > g.start
    <3> DEFINE h == Gap(g.start, first - 1, g.free)
    <3>1. first - 1 \in Nat /\ first - 1 < first
      BY <1>1, <2>1
    <3>2. h \in Gaps /\ h.start = g.start /\ h.end = first - 1 /\ h.free = g.free
      BY <1>1, <3>1 DEF Gap, Gaps
    <3>3. before = <<h>>
      BY <2>1
    <3> HIDE DEF h, before
    <3> QED BY <3>1, <3>2, <3>3, SingleGap
  <2>2. CASE ~(first > g.start)
    BY <2>2, SingleGap
  <2> QED BY <2>1, <2>2
<1>4. /\ behind \in Seq(Gaps) /\ Sorted(behind)
      /\ \A h \in ToSet(behind) : h \in Gaps /\ h.start = last + 1 /\ h.end = g.end /\ h.free = g.free
                                  /\ last < h.start
  <2>1. CASE last < g.end
    <3> DEFINE h == Gap(last + 1, g.end, g.free)
    <3>1. last + 1 \in Nat /\ last < last + 1
      BY <1>1
    <3>2. h \in Gaps /\ h.start = last + 1 /\ h.end = g.end /\ h.free = g.free
      BY <1>1, <3>1 DEF Gap, Gaps
    <3>3. behind = <<h>>
      BY <2>1
    <3> HIDE DEF h, behind
    <3> QED BY <3>1, <3>2, <3>3, SingleGap
  <2>2. CASE ~(last < g.end)
    BY <2>2, SingleGap
  <2> QED BY <2>1, <2>2
<1>5. /\ rest \in Seq(Gaps) /\ Sorted(rest)
      /\ \A h \in ToSet(rest) : h \in Gaps /\ h.start = first /\ h.end = last /\ h.free = g.free - size
                                /\ h.free =< g.free
  <2>1. CASE g.free > size
    <3> DEFINE h == Gap(first, last, g.free - size)
    <3>1. g.free - size \in Nat /\ g.free - size =< g.free
      BY <1>1, <2>1
    <3>2. h \in Gaps /\ h.start = first /\ h.end = last /\ h.free = g.free - size
      BY <1>1, <3>1 DEF Gap, Gaps
    <3>3. rest = <<h>>
      BY <2>1
    <3> HIDE DEF h, rest
    <3> QED BY <3>1, <3>2, <3>3, SingleGap
  <2>2. CASE ~(g.free > size)
    BY <2>2, SingleGap
  <2> QED BY <2>1, <2>2
<1> HIDE DEF before, rest, behind
<1>6. /\ before \o rest \in Seq(Gaps) /\ Sorted(before \o rest)
      /\ ToSet(before \o rest) = ToSet(before) \cup ToSet(rest)
  <2>1. \A h \in ToSet(before), i \in ToSet(rest) : h.end < i.start
    BY <1>3, <1>5
  <2> QED BY <1>3, <1>5, <2>1, SortedConcat
<1>7. /\ Split(g, x) \in Seq(Gaps) /\ Sorted(Split(g, x))
      /\ ToSet(Split(g, x)) = ToSet(before) \cup ToSet(rest) \cup ToSet(behind)
  <2>1. \A h \in ToSet(before) \cup ToSet(rest), i \in ToSet(behind) : h.end < i.start
    <3> SUFFICES ASSUME NEW h \in ToSet(before) \cup ToSet(rest), NEW i \in ToSet(behind)
                 PROVE  h.end < i.start
      OBVIOUS
    <3>1. i.start = last + 1
      BY <1>4
    <3>2. h.end = first - 1 \/ h.end = last
      BY <1>3, <1>5
    <3> QED BY <1>1, <3>1, <3>2
  <2> QED BY <1>2, <1>4, <1>6, <2>1, SortedConcat
<1>8. ASSUME NEW h \in ToSet(Split(g, x))
      PROVE  /\ g.start =< h.start /\ h.end =< g.end /\ h.free =< g.free
             /\ h.end < first \/ last < h.start \/ h.free = g.free - size
  <2>1. CASE h \in ToSet(before)
    BY <1>1, <1>3, <2>1
  <2>2. CASE h \in ToSet(rest)
    BY <1>1, <1>5, <2>2
  <2>3. CASE h \in ToSet(behind)
    BY <1>1, <1>4, <2>3
  <2> QED BY <1>7, <2>1, <2>2, <2>3
<1> QED BY <1>7, <1>8 DEF first, last, size

-----------------------------------------------------------------------------
(* Packing x into the gap j: what the new list of gaps says, and why the   *)
(* buffer remains sound.                                                   *)
LEMMA PackedGaps ==
  ASSUME TypeOK, Sorted(gaps), NEW x \in Allocs, NEW j \in DOMAIN gaps, Fits(x, gaps[j])
  PROVE  LET new == SubSeq(gaps, 1, j - 1) \o Split(gaps[j], x) \o SubSeq(gaps, j + 1, Len(gaps))
         IN  /\ new \in Seq(Gaps) /\ Sorted(new)
             /\ \A h \in ToSet(new) : \E g \in ToSet(gaps) :
                  /\ g.start =< h.start /\ h.end =< g.end /\ h.free =< g.free
                  /\ \/ h.end < FirstUse(x)
                     \/ LastUse(x) < h.start
                     \/ h.free = gaps[j].free - Segments(x)
<1> DEFINE front == SubSeq(gaps, 1, j - 1)
           back == SubSeq(gaps, j + 1, Len(gaps))
           mid == Split(gaps[j], x)
           new == front \o mid \o back
<1>1. /\ gaps \in Seq(Gaps) /\ DOMAIN gaps = 1..Len(gaps)
      /\ \A m \in DOMAIN gaps : /\ gaps[m] \in Gaps
                                /\ gaps[m].start \in Nat /\ gaps[m].end \in Nat /\ gaps[m].free \in Nat
      /\ gaps[j] \in ToSet(gaps)
  <2>1. gaps \in Seq(Gaps)
    BY DEF TypeOK
  <2>2. DOMAIN gaps = 1..Len(gaps) /\ \A m \in DOMAIN gaps : gaps[m] \in Gaps
    BY <2>1, LenProperties, ElementOfSeq
  <2> QED BY <2>1, <2>2 DEF Gaps, ToSet
<1>2. /\ front \in Seq(Gaps) /\ Sorted(front)
      /\ ToSet(front) = {gaps[m] : m \in {m \in DOMAIN gaps : m < j}}
      /\ back \in Seq(Gaps) /\ Sorted(back)
      /\ ToSet(back) = {gaps[m] : m \in {m \in DOMAIN gaps : j < m}}
  BY <1>1, SortedParts
<1>3. /\ mid \in Seq(Gaps) /\ Sorted(mid)
      /\ \A h \in ToSet(mid) :
           /\ gaps[j].start =< h.start /\ h.end =< gaps[j].end /\ h.free =< gaps[j].free
           /\ \/ h.end < FirstUse(x)
              \/ LastUse(x) < h.start
              \/ h.free = gaps[j].free - Segments(x)
  BY <1>1, SplitProperties
<1>4. \A h \in ToSet(mid) : h.start \in Nat /\ h.end \in Nat /\ h.free \in Nat
  <2>1. \A k \in DOMAIN mid : mid[k] \in Gaps
    BY <1>3, LenProperties, ElementOfSeq
  <2> QED BY <2>1 DEF ToSet, Gaps
<1>5. /\ FirstUse(x) \in Nat /\ LastUse(x) \in Nat
      /\ gaps[j].start =< FirstUse(x) /\ LastUse(x) =< gaps[j].end
  BY RangeFacts, <1>1 DEF Fits
<1> HIDE DEF front, mid, back
<1>6. \A m \in DOMAIN gaps : m < j => gaps[m].end < gaps[j].start
  BY DEF Sorted
<1>7. \A m \in DOMAIN gaps : j < m => gaps[j].end < gaps[m].start
  BY DEF Sorted
<1>8. \A h \in ToSet(front) : h \in ToSet(gaps) /\ h.end < gaps[j].start /\ h.end \in Nat /\ h.start \in Nat /\ h.free \in Nat
  BY <1>1, <1>2, <1>6 DEF ToSet
<1>9. \A h \in ToSet(back) : h \in ToSet(gaps) /\ gaps[j].end < h.start /\ h.end \in Nat /\ h.start \in Nat /\ h.free \in Nat
  BY <1>1, <1>2, <1>7 DEF ToSet
<1>10. /\ front \o mid \in Seq(Gaps) /\ Sorted(front \o mid)
       /\ ToSet(front \o mid) = ToSet(front) \cup ToSet(mid)
  <2>1. \A h \in ToSet(front), i \in ToSet(mid) : h.end < i.start
    BY <1>1, <1>3, <1>4, <1>8
  <2> QED BY <1>2, <1>3, <2>1, SortedConcat
<1>11. \A h \in ToSet(front) \cup ToSet(mid), i \in ToSet(back) : h.end < i.start
  <2> SUFFICES ASSUME NEW h \in ToSet(front) \cup ToSet(mid), NEW i \in ToSet(back)
               PROVE  h.end < i.start
    OBVIOUS
  <2>1. CASE h \in ToSet(front)
    <3>1. gaps[j].start =< gaps[j].end
      BY <1>1, <1>5, RangeFacts
    <3> QED BY <1>1, <1>8, <1>9, <2>1, <3>1
  <2>2. CASE h \in ToSet(mid)
    BY <1>1, <1>3, <1>4, <1>9, <2>2
  <2> QED BY <2>1, <2>2
<1>12. /\ new \in Seq(Gaps) /\ Sorted(new)
       /\ ToSet(new) = ToSet(front) \cup ToSet(mid) \cup ToSet(back)
  BY <1>2, <1>10, <1>11, SortedConcat
<1>13. ASSUME NEW h \in ToSet(new)
       PROVE  \E g \in ToSet(gaps) :
                 /\ g.start =< h.start /\ h.end =< g.end /\ h.free =< g.free
                 /\ \/ h.end < FirstUse(x)
                    \/ LastUse(x) < h.start
                    \/ h.free = gaps[j].free - Segments(x)
  <2>1. CASE h \in ToSet(front)
    <3>1. h.end < FirstUse(x)
      BY <1>1, <1>5, <1>8, <2>1
    <3> QED BY <1>8, <2>1, <3>1
  <2>2. CASE h \in ToSet(mid)
    BY <1>1, <1>3, <2>2
  <2>3. CASE h \in ToSet(back)
    <3>1. LastUse(x) < h.start
      BY <1>1, <1>5, <1>9, <2>3
    <3> QED BY <1>9, <2>3, <3>1
  <2> QED BY <1>12, <2>1, <2>2, <2>3
<1> QED BY <1>12, <1>13 DEF front, mid, back

LEMMA SeparatedAppend ==
  ASSUME TypeOK, NEW layout \in Seq(Items), Separated(layout), NEW p \in Items,
         \A k \in DOMAIN layout :
            UsedAt(layout[k].alloc) \cap UsedAt(p.alloc) # {} =>
               layout[k].offset + Segments(layout[k].alloc) =< p.offset
  PROVE  Separated(Append(layout, p))
<1> DEFINE new == Append(layout, p)
           n == Len(layout) + 1
<1>1. /\ \A k \in DOMAIN new : k = n \/ (k \in DOMAIN layout /\ new[k] = layout[k])
      /\ new[n] = p
  <2>1. /\ new \in Seq(Items) /\ Len(new) = Len(layout) + 1 /\ Len(layout) \in Nat
        /\ \A k \in 1..Len(layout) : new[k] = layout[k]
        /\ new[Len(layout) + 1] = p
    BY AppendProperties, LenProperties
  <2>2. DOMAIN new = 1..Len(layout) + 1 /\ DOMAIN layout = 1..Len(layout)
    BY <2>1, LenProperties
  <2> HIDE DEF new
  <2> QED BY <2>1, <2>2
<1> HIDE DEF new, n
<1>2. ASSUME NEW k \in DOMAIN layout, UsedAt(layout[k].alloc) \cap UsedAt(p.alloc) # {}
      PROVE  Memory(layout[k]) \cap Memory(p) = {}
  <2>1. layout[k] \in Items
    BY LenProperties, ElementOfSeq
  <2>2. /\ layout[k].offset \in Nat /\ p.offset \in Nat
        /\ layout[k].alloc \in Allocs /\ p.alloc \in Allocs
    BY <2>1 DEF Items
  <2>3. Segments(layout[k].alloc) \in Nat /\ Segments(p.alloc) \in Nat
    BY <2>2, RangeFacts
  <2>4. layout[k].offset + Segments(layout[k].alloc) =< p.offset
    BY <1>2
  <2> QED BY <2>2, <2>3, <2>4 DEF Memory
<1>3. \A k, m \in DOMAIN new :
         k # m /\ Memory(new[k]) \cap Memory(new[m]) # {} =>
            UsedAt(new[k].alloc) \cap UsedAt(new[m].alloc) = {}
  <2> TAKE k, m \in DOMAIN new
  <2> HAVE k # m /\ Memory(new[k]) \cap Memory(new[m]) # {}
  <2>1. CASE k = n
    BY <1>1, <1>2, <2>1
  <2>2. CASE m = n
    BY <1>1, <1>2, <2>2
  <2>3. CASE k # n /\ m # n
    BY <1>1, <2>3 DEF Separated
  <2> QED BY <2>1, <2>2, <2>3
<1> QED BY <1>3 DEF Separated, new

LEMMA RemoveAtProperties ==
  ASSUME NEW S, NEW s \in Seq(S), NEW c \in DOMAIN s
  PROVE  /\ RemoveAt(s, c) \in Seq(S)
         /\ DOMAIN RemoveAt(s, c) = 1..Len(s) - 1
         /\ \A k \in 1..Len(s) - 1 : RemoveAt(s, c)[k] = IF k < c THEN s[k] ELSE s[k + 1]
<1> DEFINE front == SubSeq(s, 1, c - 1)
           back == SubSeq(s, c + 1, Len(s))
<1>1. /\ Len(s) \in Nat /\ DOMAIN s = 1..Len(s) /\ c \in 1..Len(s)
      /\ \A m \in 1..Len(s) : s[m] \in S
  BY LenProperties, ElementOfSeq
<1>2. /\ front \in Seq(S) /\ Len(front) = c - 1
      /\ \A m \in 1..c - 1 : front[m] = s[m]
  <2>1. \A m \in 1..c - 1 : s[m] \in S
    BY <1>1
  <2>2. /\ front \in Seq(S) /\ Len(front) = IF 1 <= c - 1 THEN c - 1 - 1 + 1 ELSE 0
        /\ \A m \in 1..c - 1 - 1 + 1 : front[m] = s[1 + m - 1]
    BY <1>1, <2>1, SubSeqProperties, 1 \in Int, c - 1 \in Int
  <2> HIDE DEF front
  <2> QED BY <1>1, <2>2
<1>3. /\ back \in Seq(S) /\ Len(back) = Len(s) - c
      /\ \A m \in 1..Len(s) - c : back[m] = s[c + m]
  <2>1. \A m \in c + 1..Len(s) : s[m] \in S
    BY <1>1
  <2>2. /\ back \in Seq(S)
        /\ Len(back) = IF c + 1 <= Len(s) THEN Len(s) - (c + 1) + 1 ELSE 0
        /\ \A m \in 1..Len(s) - (c + 1) + 1 : back[m] = s[c + 1 + m - 1]
    BY <1>1, <2>1, SubSeqProperties, c + 1 \in Int, Len(s) \in Int
  <2>3. \A m \in 1..Len(s) - c : m \in 1..Len(s) - (c + 1) + 1 /\ c + 1 + m - 1 = c + m
    BY <1>1
  <2>4. Len(back) = Len(s) - c
    BY <1>1, <2>2
  <2> HIDE DEF back
  <2> QED BY <2>2, <2>3, <2>4
<1> HIDE DEF front, back
<1>4. /\ front \o back \in Seq(S) /\ Len(front \o back) = Len(s) - 1
      /\ \A k \in 1..Len(s) - 1 :
            (front \o back)[k] = IF k <= c - 1 THEN front[k] ELSE back[k - (c - 1)]
  <2>1. /\ front \o back \in Seq(S) /\ Len(front \o back) = Len(front) + Len(back)
        /\ \A k \in 1..Len(front) + Len(back) :
            (front \o back)[k] = IF k <= Len(front) THEN front[k] ELSE back[k - Len(front)]
    BY <1>2, <1>3, ConcatProperties
  <2>2. Len(front) + Len(back) = Len(s) - 1
    BY <1>1, <1>2, <1>3
  <2> QED BY <1>2, <2>1, <2>2
<1>5. \A k \in 1..Len(s) - 1 : (front \o back)[k] = IF k < c THEN s[k] ELSE s[k + 1]
  <2> TAKE k \in 1..Len(s) - 1
  <2>1. CASE k < c
    <3>1. k <= c - 1 /\ k \in 1..c - 1
      BY <1>1, <2>1
    <3> QED BY <1>2, <1>4, <2>1, <3>1
  <2>2. CASE ~(k < c)
    <3>1. ~(k <= c - 1) /\ k - (c - 1) \in 1..Len(s) - c /\ c + (k - (c - 1)) = k + 1
      BY <1>1, <2>2
    <3> QED BY <1>3, <1>4, <2>2, <3>1
  <2> QED BY <2>1, <2>2
<1>6. DOMAIN (front \o back) = 1..Len(s) - 1
  BY <1>4, LenProperties
<1> QED BY <1>4, <1>5, <1>6 DEF RemoveAt, front, back

-----------------------------------------------------------------------------
(* The steps.                                                              *)
LEMMA AppendedBuffer ==
  ASSUME TypeOK, NEW buffer \in [segments : Nat, offsets : Seq(Items)],
         NEW new, new = Append(packed, buffer)
  PROVE  /\ DOMAIN new = 1..Len(packed) + 1 /\ DOMAIN packed = 1..Len(packed)
         /\ Len(packed) \in Nat
         /\ \A b \in 1..Len(packed) : new[b] = packed[b]
         /\ new[Len(packed) + 1] = buffer
<1> DEFINE Buffer == [segments : Nat, offsets : Seq(Items)]
<1>1. packed \in Seq(Buffer) /\ buffer \in Buffer
  BY DEF TypeOK
<1> HIDE DEF Buffer
<1>2. Len(packed) \in Nat /\ DOMAIN packed = 1..Len(packed)
  BY <1>1, LenProperties
<1>3. /\ new \in Seq(Buffer) /\ Len(new) = Len(packed) + 1
      /\ \A b \in 1..Len(packed) : new[b] = packed[b]
      /\ new[Len(packed) + 1] = buffer
  BY <1>1, AppendProperties
<1>4. DOMAIN new = 1..Len(packed) + 1
  BY <1>3, LenProperties
<1> QED BY <1>2, <1>3, <1>4

LEMMA BuffersParts ==
  /\ pc # "pack" => Buffers = packed
  /\ TypeOK /\ pc = "pack" /\ current \in DOMAIN infos =>
       LET filling == [segments |-> Segments(infos[current]), offsets |-> offsets]
       IN  /\ infos[current] \in Allocs /\ Segments(infos[current]) \in Nat
           /\ Buffers = Append(packed, filling)
           /\ Len(packed) \in Nat /\ DOMAIN packed = 1..Len(packed)
           /\ DOMAIN Buffers = 1..Len(packed) + 1
           /\ \A b \in 1..Len(packed) : Buffers[b] = packed[b]
           /\ Buffers[Len(packed) + 1] = filling
<1> DEFINE filling == [segments |-> Segments(infos[current]), offsets |-> offsets]
<1>1. pc # "pack" => Buffers = packed
  BY DEF Buffers
<1>2. ASSUME TypeOK, pc = "pack", current \in DOMAIN infos
      PROVE  /\ infos[current] \in Allocs /\ Segments(infos[current]) \in Nat
             /\ Buffers = Append(packed, filling)
             /\ Len(packed) \in Nat /\ DOMAIN packed = 1..Len(packed)
             /\ DOMAIN Buffers = 1..Len(packed) + 1
             /\ \A b \in 1..Len(packed) : Buffers[b] = packed[b]
             /\ Buffers[Len(packed) + 1] = filling
  <2>1. infos[current] \in Allocs
    <3>1. infos \in Seq(Allocs) /\ current \in 1..Len(infos)
      BY <1>2, LenProperties DEF TypeOK
    <3> QED BY <3>1, ElementOfSeq
  <2>2. Segments(infos[current]) \in Nat /\ filling \in [segments : Nat, offsets : Seq(Items)]
    BY <1>2, <2>1, RangeFacts DEF TypeOK
  <2>3. Buffers = Append(packed, filling)
    BY <1>2 DEF Buffers
  <2> HIDE DEF filling
  <2> QED BY <1>2, <2>1, <2>2, <2>3, AppendedBuffer
<1> QED BY <1>1, <1>2

LEMMA TryPackFacts ==
  ASSUME TypeOK, GapsInv, TryPack
  PROVE  /\ UNCHANGED <<buffers, windowSize, pc, current, packed>>
         /\ pc = "pack" /\ checked \in DOMAIN infos /\ current \in DOMAIN infos'
         /\ infos' \in Seq(Allocs) /\ infos'[current] = infos[current]
         /\ \/ checked' = checked + 1 /\ UNCHANGED <<infos, gaps, offsets>>
            \/ \E j \in DOMAIN gaps :
                 LET x == infos[checked]
                     item == Placed(x, Segments(infos[current]) - gaps[j].free)
                 IN  /\ x \in Allocs /\ Fits(x, gaps[j])
                     /\ item \in Items /\ item.alloc = x
                     /\ item.offset = Segments(infos[current]) - gaps[j].free
                     /\ offsets' = Append(offsets, item)
                     /\ gaps' = SubSeq(gaps, 1, j - 1) \o Split(gaps[j], x)
                                  \o SubSeq(gaps, j + 1, Len(gaps))
                     /\ checked' = checked /\ infos' = RemoveAt(infos, checked)
<1>1. UNCHANGED <<buffers, windowSize, pc, current, packed>> /\ pc = "pack" /\ checked <= Len(infos)
  BY DEF TryPack, input
<1>2. /\ current \in DOMAIN infos /\ current < checked
      /\ \A g \in ToSet(gaps) : g.free <= Segments(infos[current])
  BY <1>1 DEF GapsInv
<1>3. /\ infos \in Seq(Allocs) /\ Len(infos) \in Nat /\ DOMAIN infos = 1..Len(infos)
      /\ current \in Nat \ {0} /\ checked \in Nat \ {0}
  BY LenProperties DEF TypeOK
<1>4. checked \in DOMAIN infos
  BY <1>1, <1>3
<1>5. infos[checked] \in Allocs /\ infos[current] \in Allocs
  BY <1>2, <1>3, <1>4, ElementOfSeq
<1>6. CASE UNCHANGED <<infos, gaps, offsets>> /\ checked' = checked + 1
  BY <1>1, <1>2, <1>3, <1>4, <1>6
<1>7. CASE /\ Candidates(infos[checked]) # {}
           /\ PackInto(infos[checked], Min(Candidates(infos[checked])))
           /\ RemoveChecked
  <2> DEFINE x == infos[checked]
             j == Min(Candidates(x))
             item == Placed(x, Segments(infos[current]) - gaps[j].free)
  <2>1. gaps \in Seq(Gaps) /\ DOMAIN gaps = 1..Len(gaps) /\ DOMAIN gaps \subseteq Nat
    BY LenProperties DEF TypeOK
  <2>2. Candidates(x) \subseteq DOMAIN gaps /\ \A k \in Candidates(x) : Fits(x, gaps[k])
    BY DEF Candidates
  <2>3. j \in DOMAIN gaps /\ Fits(x, gaps[j])
    <3>1. Candidates(x) \subseteq Nat /\ Candidates(x) # {}
      BY <1>7, <2>1, <2>2
    <3>2. Min(Candidates(x)) \in Candidates(x)
      BY <3>1, MinProperties
    <3> QED BY <2>2, <3>2
  <2>4. /\ offsets' = Append(offsets, item)
        /\ gaps' = SubSeq(gaps, 1, j - 1) \o Split(gaps[j], x) \o SubSeq(gaps, j + 1, Len(gaps))
        /\ checked' = checked /\ infos' = RemoveAt(infos, checked)
    BY <1>7 DEF PackInto, RemoveChecked
  <2> HIDE DEF j
  <2>5. item \in Items /\ item.alloc = x /\ item.offset = Segments(infos[current]) - gaps[j].free
    <3>1. gaps[j] \in Gaps /\ gaps[j] \in ToSet(gaps)
      BY <2>1, <2>3, ElementOfSeq DEF ToSet
    <3>2. gaps[j].free \in Nat /\ gaps[j].free <= Segments(infos[current])
      BY <1>2, <3>1 DEF Gaps
    <3>3. Segments(infos[current]) \in Nat
      BY <1>5, RangeFacts
    <3>4. Segments(infos[current]) - gaps[j].free \in Nat
      BY <3>2, <3>3
    <3> QED BY <1>5, <3>4 DEF Items, Placed
  <2>6. /\ infos' \in Seq(Allocs) /\ DOMAIN infos' = 1..Len(infos) - 1
        /\ \A k \in 1..Len(infos) - 1 : infos'[k] = IF k < checked THEN infos[k] ELSE infos[k + 1]
    BY <1>3, <1>4, <2>4, RemoveAtProperties
  <2>7. current \in 1..Len(infos) - 1
    BY <1>1, <1>2, <1>3
  <2>8. current \in DOMAIN infos' /\ infos'[current] = infos[current]
    BY <1>2, <2>6, <2>7
  <2> QED BY <1>1, <1>4, <1>5, <2>3, <2>4, <2>5, <2>6, <2>8
<1> QED BY <1>6, <1>7 DEF TryPack

LEMMA BeginFacts ==
  ASSUME TypeOK, Begin
  PROVE  LET x == infos[current]
         IN  /\ UNCHANGED <<buffers, windowSize, infos, current, packed>>
             /\ pc = "next" /\ pc' = "pack" /\ checked' = current + 1
             /\ current \in DOMAIN infos /\ x \in Allocs
             /\ Placed(x, 0) \in Items /\ Placed(x, 0).alloc = x /\ Placed(x, 0).offset = 0
             /\ offsets' = <<Placed(x, 0)>>
             /\ gaps' \in Seq(Gaps) /\ Sorted(gaps') /\ ToSet(gaps') \subseteq ComputeGaps(x)
<1>1. infos \in Seq(Allocs) /\ DOMAIN infos = 1..Len(infos) /\ Len(infos) \in Nat
  BY LenProperties DEF TypeOK
<1>2. current \in DOMAIN infos
  BY <1>1 DEF TypeOK, Begin
<1>3. infos[current] \in Allocs
  BY <1>1, <1>2, ElementOfSeq
<1>4. ComputeGaps(infos[current]) # {}
  BY <1>3, ComputeGapsProperties
<1>5. /\ gaps' \in Ascending(ComputeGaps(infos[current]))
      /\ offsets' = <<Placed(infos[current], 0)>>
      /\ pc = "next" /\ pc' = "pack" /\ checked' = current + 1
      /\ UNCHANGED <<buffers, windowSize, infos, current, packed>>
  BY <1>4 DEF Begin, input
<1>6. gaps' \in Seq(Gaps) /\ Sorted(gaps') /\ ToSet(gaps') \subseteq ComputeGaps(infos[current])
  BY <1>3, <1>5, AscendingProperties
<1>7. LET p == Placed(infos[current], 0) IN p \in Items /\ p.alloc = infos[current] /\ p.offset = 0
  BY <1>3 DEF Items, Placed
<1> QED BY <1>2, <1>3, <1>5, <1>6, <1>7

LEMMA InitInvariant == Init => IInv
<1> SUFFICES ASSUME Init PROVE IInv
  OBVIOUS
<1>1. /\ pc = "sort" /\ infos = <<>> /\ current = 1 /\ checked = 1
      /\ gaps = <<>> /\ offsets = <<>> /\ packed = <<>>
      /\ buffers \in [Allocs -> [segments : 0..MaxSegments, ranges : UseRanges]]
  BY DEF Init
<1>2. buffers \in [Allocs -> [segments : Nat, ranges : UseRanges]]
  <2>1. \A n \in 0..MaxSegments : n \in Nat
    BY FinitelyMany
  <2>2. 0..MaxSegments \subseteq Nat
    BY <2>1
  <2> QED BY <1>1, <2>2
<1>3. TypeOK
  BY <1>1, <1>2, EmptySeq DEF TypeOK
<1>4. GapsInv /\ GapsAreFree
  BY <1>1 DEF GapsInv, GapsAreFree
<1>5. LayoutInv
  BY <1>1, EmptySeq DEF LayoutInv, Buffers
<1>6. PlacedInv
  BY <1>1 DEF PlacedInv
<1> QED BY <1>3, <1>4, <1>5, <1>6 DEF IInv

LEMMA NextType == TypeOK /\ GapsInv /\ [Next]_vars => TypeOK'
<1> SUFFICES ASSUME TypeOK, GapsInv, [Next]_vars PROVE TypeOK'
  OBVIOUS
<1> USE DEF TypeOK
<1>1. CASE Sort
  <2>1. infos' \in SetToSeqs(Allocs) /\ pc' = "next"
        /\ UNCHANGED <<buffers, windowSize, current, checked, gaps, offsets, packed>>
    BY <1>1 DEF Sort, input
  <2>2. infos' \in [1..Cardinality(Allocs) -> Allocs]
    BY <2>1 DEF SetToSeqs
  <2>3. Cardinality(Allocs) \in Nat
    BY FinitelyMany, FS_CardinalityType
  <2>4. infos' \in Seq(Allocs)
    <3> HIDE DEF TypeOK
    <3> QED BY <2>2, <2>3
  <2> QED BY <2>1, <2>4
<1>2. CASE Begin
  <2> DEFINE p == Placed(infos[current], 0)
  <2>1. /\ UNCHANGED <<buffers, windowSize, infos, current, packed>>
        /\ pc' = "pack" /\ checked' = current + 1
        /\ p \in Items /\ offsets' = <<p>> /\ gaps' \in Seq(Gaps)
    BY <1>2, BeginFacts
  <2> HIDE DEF p
  <2>2. offsets' \in Seq(Items)
    BY <2>1
  <2>3. checked' \in Nat \ {0}
    BY <2>1
  <2> QED BY <2>1, <2>2, <2>3
<1>3. CASE TryPack
  <2>1. /\ UNCHANGED <<buffers, windowSize, pc, current, packed>>
        /\ infos' \in Seq(Allocs)
    BY <1>3, TryPackFacts
  <2>2. checked' \in Nat \ {0} /\ gaps' \in Seq(Gaps) /\ offsets' \in Seq(Items)
    <3>1. CASE checked' = checked + 1 /\ UNCHANGED <<infos, gaps, offsets>>
      BY <3>1
    <3>2. ASSUME NEW j \in DOMAIN gaps,
                 infos[checked] \in Allocs, Fits(infos[checked], gaps[j]), checked' = checked,
                 NEW item \in Items, offsets' = Append(offsets, item),
                 gaps' = SubSeq(gaps, 1, j - 1) \o Split(gaps[j], infos[checked])
                                  \o SubSeq(gaps, j + 1, Len(gaps))
          PROVE  checked' \in Nat \ {0} /\ gaps' \in Seq(Gaps) /\ offsets' \in Seq(Items)
      <4>1. Sorted(gaps)
        BY <1>3, TryPackFacts DEF GapsInv
      <4>2. gaps' \in Seq(Gaps)
        BY <3>2, <4>1, PackedGaps
      <4>3. offsets' \in Seq(Items)
        BY <3>2, AppendProperties
      <4> QED BY <3>2, <4>2, <4>3
    <3> QED BY <1>3, <3>1, <3>2, TryPackFacts
  <2> QED BY <2>1, <2>2
<1>4. CASE Emit
  <2>1. /\ UNCHANGED <<buffers, windowSize, infos, checked, gaps, offsets>>
        /\ pc = "pack" /\ pc' = "next" /\ current' = current + 1
        /\ packed' = Append(packed, [segments |-> Segments(infos[current]), offsets |-> offsets])
    BY <1>4 DEF Emit, input
  <2>2. Segments(infos[current]) \in Nat
    BY <2>1, BuffersParts DEF GapsInv
  <2>3. packed' \in Seq([segments : Nat, offsets : Seq(Items)])
    BY <2>1, <2>2, AppendProperties
  <2>4. current' \in Nat \ {0}
    BY <2>1
  <2> QED BY <2>1, <2>3, <2>4
<1>5. CASE Finish
  BY <1>5 DEF Finish, input
<1>6. CASE Done \/ UNCHANGED vars
  BY <1>6 DEF Done, vars, input
<1> QED BY <1>1, <1>2, <1>3, <1>4, <1>5, <1>6 DEF Next

(* The gaps after a step, and what they say of the buffer.                 *)
LEMMA NextGaps == IInv /\ [Next]_vars => GapsInv' /\ GapsAreFree'
<1> SUFFICES ASSUME IInv, [Next]_vars PROVE GapsInv' /\ GapsAreFree'
  OBVIOUS
<1>0. TypeOK /\ GapsInv /\ GapsAreFree
  BY DEF IInv
<1>1. CASE pc' # "pack"
  BY <1>1 DEF GapsInv, GapsAreFree
<1>2. CASE Begin
  <2> DEFINE x == infos[current]
             p == Placed(x, 0)
  <2>1. /\ UNCHANGED <<buffers, windowSize, infos, current, packed>>
        /\ checked' = current + 1 /\ current \in DOMAIN infos /\ x \in Allocs
        /\ p.alloc = x /\ offsets' = <<p>>
        /\ Sorted(gaps') /\ ToSet(gaps') \subseteq ComputeGaps(x)
    BY <1>0, <1>2, BeginFacts
  <2>2. \A g \in ToSet(gaps') : g.free = Segments(x) /\ UsedAt(x) \cap (g.start..g.end) = {}
    BY <1>0, <2>1, ComputeGapsProperties
  <2>3. Segments(x) \in Nat /\ current \in Nat
    BY <1>0, <2>1, RangeFacts DEF TypeOK
  <2>4. ToSet(offsets') = {p}
    <3> HIDE DEF p
    <3>1. DOMAIN offsets' = {1} /\ offsets'[1] = p
      BY <2>1
    <3> QED BY <3>1 DEF ToSet
  <2>5. GapsInv'
    <3>1. Sorted(gaps)'
      BY <2>1 DEF Sorted
    <3>2. \A g \in ToSet(gaps') : g.free <= Segments(x)
      BY <2>2, <2>3
    <3>3. Segments(infos[current])' = Segments(x)
      BY <2>1 DEF Segments
    <3>4. (\A g \in ToSet(gaps) : g.free <= Segments(infos[current]))'
      BY <3>2, <3>3 DEF ToSet
    <3>5. (current \in DOMAIN infos /\ current < checked)'
      BY <2>1, <2>3
    <3> QED BY <3>1, <3>4, <3>5 DEF GapsInv
  <2>6. GapsAreFree'
    <3>1. \A g \in ToSet(gaps') : \A q \in ToSet(offsets') : UsedAt(q.alloc) \cap (g.start..g.end) = {}
      BY <2>1, <2>2, <2>4
    <3> QED BY <2>1, <3>1 DEF GapsAreFree, ToSet, UsedAt, Ranges
  <2> QED BY <2>5, <2>6
<1>3. CASE TryPack
  <2>1. /\ UNCHANGED <<buffers, windowSize, pc, current, packed>>
        /\ pc = "pack" /\ checked \in DOMAIN infos /\ current \in DOMAIN infos'
        /\ infos'[current] = infos[current]
    BY <1>0, <1>3, TryPackFacts
  <2>2. /\ Sorted(gaps) /\ current \in DOMAIN infos /\ current < checked
        /\ current \in Nat /\ checked \in Nat
        /\ \A g \in ToSet(gaps) : g.free <= Segments(infos[current])
        /\ \A g \in ToSet(gaps) : \A p \in ToSet(offsets) :
              UsedAt(p.alloc) \cap (g.start..g.end) # {} =>
                p.offset + Segments(p.alloc) <= Segments(infos[current]) - g.free
    BY <1>0, <2>1 DEF GapsInv, GapsAreFree, TypeOK
  <2>3. Segments(infos[current])' = Segments(infos[current])
    BY <2>1 DEF Segments
  <2>4. Segments(infos[current]) \in Nat
    BY <1>0, <2>1, <2>2, BuffersParts
  <2> DEFINE cap == Segments(infos[current])
  <2>5. CASE checked' = checked + 1 /\ UNCHANGED <<infos, gaps, offsets>>
    <3>1. GapsInv'
      BY <2>1, <2>2, <2>5 DEF GapsInv, ToSet, Sorted, Segments
    <3>2. GapsAreFree'
      BY <2>1, <2>2, <2>5 DEF GapsAreFree, ToSet, UsedAt, Ranges, Segments
    <3> QED BY <3>1, <3>2
  <2>6. ASSUME NEW j \in DOMAIN gaps, NEW x \in Allocs, Fits(x, gaps[j]), checked' = checked,
               NEW item \in Items, item.alloc = x, item.offset = cap - gaps[j].free,
               offsets' = Append(offsets, item),
               gaps' = SubSeq(gaps, 1, j - 1) \o Split(gaps[j], x) \o SubSeq(gaps, j + 1, Len(gaps))
        PROVE  GapsInv' /\ GapsAreFree'
    <3>1. /\ gaps' \in Seq(Gaps) /\ Sorted(gaps')
          /\ \A h \in ToSet(gaps') : \E g \in ToSet(gaps) :
                  /\ g.start =< h.start /\ h.end =< g.end /\ h.free =< g.free
                  /\ \/ h.end < FirstUse(x)
                     \/ LastUse(x) < h.start
                     \/ h.free = gaps[j].free - Segments(x)
      BY <1>0, <2>2, <2>6, PackedGaps
    <3>2. /\ \A h \in ToSet(gaps') : h.start \in Nat /\ h.end \in Nat /\ h.free \in Nat
          /\ \A g \in ToSet(gaps) : g.start \in Nat /\ g.end \in Nat /\ g.free \in Nat
          /\ gaps[j].free \in Nat
      <4>1. \A k \in DOMAIN gaps' : gaps'[k] \in Gaps
        BY <3>1, LenProperties, ElementOfSeq
      <4>2. \A k \in DOMAIN gaps : gaps[k] \in Gaps
        BY <1>0, LenProperties, ElementOfSeq DEF TypeOK
      <4> QED BY <4>1, <4>2 DEF ToSet, Gaps
    <3>3. ToSet(offsets') = ToSet(offsets) \cup {item}
      <4>1. /\ offsets \in Seq(Items) /\ offsets' \in Seq(Items) /\ Len(offsets) \in Nat
            /\ Len(offsets') = Len(offsets) + 1
            /\ \A k \in 1..Len(offsets) : offsets'[k] = offsets[k]
            /\ offsets'[Len(offsets) + 1] = item
        BY <1>0, <2>6, AppendProperties, LenProperties DEF TypeOK
      <4>2. DOMAIN offsets' = 1..Len(offsets) + 1 /\ DOMAIN offsets = 1..Len(offsets)
        BY <4>1, LenProperties
      <4> QED BY <4>1, <4>2 DEF ToSet
    <3>4. \A p \in ToSet(offsets) : p.offset \in Nat /\ Segments(p.alloc) \in Nat
      <4>1. \A k \in DOMAIN offsets : offsets[k] \in Items
        BY <1>0, LenProperties, ElementOfSeq DEF TypeOK
      <4> QED BY <1>0, <4>1, RangeFacts DEF ToSet, Items
    <3>5. FirstUse(x) \in Nat /\ LastUse(x) \in Nat /\ Segments(x) \in Nat
          /\ UsedAt(x) \subseteq FirstUse(x)..LastUse(x)
      BY <1>0, RangeFacts
    <3> HIDE DEF cap
    <3>6. \A h \in ToSet(gaps') : h.free =< cap
      <4> SUFFICES ASSUME NEW h \in ToSet(gaps') PROVE h.free =< cap
        OBVIOUS
      <4>1. PICK g \in ToSet(gaps) : h.free =< g.free
        BY <3>1
      <4>2. g.free =< cap
        BY <2>2 DEF cap
      <4> QED BY <2>4, <3>2, <4>1, <4>2 DEF cap
    <3>7. ASSUME NEW h \in ToSet(gaps'), NEW p \in ToSet(offsets),
                 UsedAt(p.alloc) \cap (h.start..h.end) # {}
          PROVE  p.offset + Segments(p.alloc) <= cap - h.free
      <4>1. PICK g \in ToSet(gaps) : g.start =< h.start /\ h.end =< g.end /\ h.free =< g.free
        BY <3>1
      <4>2. \A n \in h.start..h.end : n \in g.start..g.end
        BY <3>2, <4>1
      <4>3. p.offset + Segments(p.alloc) <= cap - g.free
        BY <2>2, <3>7, <4>2 DEF cap
      <4> QED BY <2>4, <3>2, <3>4, <4>1, <4>3 DEF cap
    <3>8. ASSUME NEW h \in ToSet(gaps'), UsedAt(x) \cap (h.start..h.end) # {}
          PROVE  item.offset + Segments(x) <= cap - h.free
      <4>1. PICK n \in UsedAt(x) : n \in h.start..h.end
        BY <3>8
      <4>2. n \in FirstUse(x)..LastUse(x)
        BY <3>5
      <4>3. ~(h.end < FirstUse(x)) /\ ~(LastUse(x) < h.start)
        BY <3>2, <3>5, <4>1, <4>2
      <4>4. h.free = gaps[j].free - Segments(x)
        BY <3>1, <4>3
      <4>5. item.offset = cap - gaps[j].free
        BY <2>6 DEF cap
      <4> QED BY <2>4, <3>2, <3>5, <4>4, <4>5 DEF cap
    <3>9. GapsInv'
      <4>1. Sorted(gaps)'
        BY <3>1 DEF Sorted
      <4>2. (\A g \in ToSet(gaps) : g.free <= Segments(infos[current]))'
        BY <2>3, <3>6 DEF ToSet, cap
      <4>3. (current \in DOMAIN infos /\ current < checked)'
        BY <2>1, <2>2, <2>6
      <4> QED BY <4>1, <4>2, <4>3 DEF GapsInv
    <3>10. GapsAreFree'
      <4>1. \A h \in ToSet(gaps') : \A p \in ToSet(offsets') :
               UsedAt(p.alloc) \cap (h.start..h.end) # {} =>
                  p.offset + Segments(p.alloc) <= Segments(infos[current]) - h.free
        BY <2>6, <3>3, <3>7, <3>8 DEF cap
      <4> QED BY <2>1, <4>1 DEF GapsAreFree, ToSet, UsedAt, Ranges, Segments
    <3> QED BY <3>9, <3>10
  <2> QED BY <1>0, <1>3, <2>5, <2>6, TryPackFacts
<1>4. CASE Done \/ UNCHANGED vars
  BY <1>0, <1>4 DEF Done, vars, input, GapsInv, GapsAreFree, ToSet, Sorted, UsedAt, Ranges, Segments
<1>5. CASE Sort \/ Emit \/ Finish
  BY <1>1, <1>5 DEF Sort, Emit, Finish
<1> QED BY <1>1, <1>2, <1>3, <1>4, <1>5 DEF Next

LEMMA NextLayout == IInv /\ [Next]_vars => LayoutInv'
<1> SUFFICES ASSUME IInv, [Next]_vars PROVE LayoutInv'
  OBVIOUS
<1>1. TypeOK /\ GapsInv /\ GapsAreFree /\ LayoutInv
  BY DEF IInv
<1>2. ASSUME buffers' = buffers, \A b \in DOMAIN Buffers' : Separated((Buffers')[b].offsets)
      PROVE  LayoutInv'
  BY <1>2 DEF LayoutInv, Separated, Memory, UsedAt, Segments, Ranges
<1>3. CASE Begin
  <2> DEFINE x == infos[current]
             p == Placed(x, 0)
  <2>1. /\ UNCHANGED <<buffers, infos, current, packed>>
        /\ pc = "next" /\ pc' = "pack"
        /\ current \in DOMAIN infos /\ x \in Allocs /\ p \in Items
        /\ offsets' = <<p>>
    BY <1>1, <1>3, BeginFacts
  <2> HIDE DEF p
  <2>2. Buffers' = Append(packed, [segments |-> Segments(x), offsets |-> <<p>>])
    BY <2>1 DEF Buffers, Segments
  <2>3. \A b \in DOMAIN packed : Separated(packed[b].offsets)
    BY <1>1, <2>1, BuffersParts DEF LayoutInv
  <2>4. Separated(<<p>>)
    <3>1. DOMAIN <<p>> = {1}
      OBVIOUS
    <3> QED BY <3>1 DEF Separated
  <2>5. [segments |-> Segments(x), offsets |-> <<p>>] \in [segments : Nat, offsets : Seq(Items)]
    BY <1>1, <2>1, RangeFacts
  <2>6. /\ DOMAIN Buffers' = 1..Len(packed) + 1 /\ DOMAIN packed = 1..Len(packed)
        /\ Len(packed) \in Nat
        /\ \A b \in 1..Len(packed) : (Buffers')[b] = packed[b]
        /\ (Buffers')[Len(packed) + 1] = [segments |-> Segments(x), offsets |-> <<p>>]
    BY <1>1, <2>2, <2>5, AppendedBuffer
  <2>7. \A b \in DOMAIN Buffers' : Separated((Buffers')[b].offsets)
    BY <2>3, <2>4, <2>6
  <2> QED BY <1>2, <2>1, <2>7
<1>4. CASE TryPack
  <2>1. /\ UNCHANGED <<buffers, pc, current, packed>> /\ pc = "pack"
        /\ infos'[current] = infos[current] /\ current \in DOMAIN infos
    BY <1>1, <1>4, TryPackFacts DEF GapsInv
  <2>2. CASE UNCHANGED offsets
    <3>1. Buffers' = Buffers
      BY <2>1, <2>2 DEF Buffers, Segments
    <3> QED BY <1>1, <1>2, <2>1, <3>1 DEF LayoutInv
  <2>3. ASSUME NEW j \in DOMAIN gaps, NEW x \in Allocs, Fits(x, gaps[j]),
               NEW item \in Items, item.alloc = x, item.offset = Segments(infos[current]) - gaps[j].free,
               offsets' = Append(offsets, item)
        PROVE  LayoutInv'
    <3> DEFINE filling == [segments |-> Segments(infos[current]), offsets |-> offsets']
    <3>1. Buffers' = Append(packed, filling)
      BY <2>1 DEF Buffers, Segments
    <3>2. /\ \A b \in DOMAIN packed : Separated(packed[b].offsets)
          /\ Separated(offsets) /\ Segments(infos[current]) \in Nat
      <4>1. /\ Len(packed) \in Nat /\ DOMAIN packed = 1..Len(packed)
            /\ DOMAIN Buffers = 1..Len(packed) + 1
            /\ \A b \in 1..Len(packed) : Buffers[b] = packed[b]
            /\ Buffers[Len(packed) + 1].offsets = offsets
            /\ Segments(infos[current]) \in Nat
        BY <1>1, <2>1, BuffersParts
      <4> QED BY <1>1, <4>1 DEF LayoutInv
    <3>3. offsets \in Seq(Items) /\ offsets' \in Seq(Items)
      BY <1>1, <2>3, AppendProperties DEF TypeOK
    <3>4. ASSUME NEW k \in DOMAIN offsets, UsedAt(offsets[k].alloc) \cap UsedAt(item.alloc) # {}
          PROVE  offsets[k].offset + Segments(offsets[k].alloc) =< item.offset
      <4>1. gaps[j] \in Gaps /\ gaps[j] \in ToSet(gaps) /\ offsets[k] \in ToSet(offsets)
        BY <1>1, LenProperties, ElementOfSeq DEF TypeOK, ToSet
      <4>2. \A n \in UsedAt(x) : n \in gaps[j].start..gaps[j].end
        <5>1. /\ FirstUse(x) \in Nat /\ LastUse(x) \in Nat
              /\ UsedAt(x) \subseteq FirstUse(x)..LastUse(x)
          BY <1>1, RangeFacts
        <5>2. gaps[j].start =< FirstUse(x) /\ LastUse(x) =< gaps[j].end
          BY <2>3 DEF Fits
        <5>3. gaps[j].start \in Nat /\ gaps[j].end \in Nat
          BY <4>1 DEF Gaps
        <5>4. \A n \in FirstUse(x)..LastUse(x) : n \in gaps[j].start..gaps[j].end
          BY <5>1, <5>2, <5>3
        <5> QED BY <5>1, <5>4
      <4>3. UsedAt(offsets[k].alloc) \cap (gaps[j].start..gaps[j].end) # {}
        BY <2>3, <3>4, <4>2
      <4> QED BY <1>1, <2>1, <2>3, <4>1, <4>3 DEF GapsAreFree
    <3>5. Separated(offsets')
      BY <1>1, <2>3, <3>2, <3>3, <3>4, SeparatedAppend
    <3>6. filling \in [segments : Nat, offsets : Seq(Items)] /\ filling.offsets = offsets'
      BY <3>2, <3>3
    <3> HIDE DEF filling
    <3>7. /\ DOMAIN Buffers' = 1..Len(packed) + 1 /\ DOMAIN packed = 1..Len(packed)
          /\ Len(packed) \in Nat
          /\ \A b \in 1..Len(packed) : (Buffers')[b] = packed[b]
          /\ (Buffers')[Len(packed) + 1] = filling
      BY <1>1, <3>1, <3>6, AppendedBuffer
    <3>8. \A b \in DOMAIN Buffers' : Separated((Buffers')[b].offsets)
      BY <3>2, <3>5, <3>6, <3>7
    <3> QED BY <1>2, <2>1, <3>8
  <2> QED BY <1>1, <1>4, <2>2, <2>3, TryPackFacts
<1>5. CASE Sort \/ Emit \/ Finish \/ Done \/ UNCHANGED vars
  <2>1. buffers' = buffers /\ Buffers' = Buffers
    <3>1. CASE Sort
      BY <3>1 DEF Sort, input, Buffers
    <3>2. CASE Emit
      BY <3>2 DEF Emit, input, Buffers
    <3>3. CASE Finish
      BY <3>3 DEF Finish, input, Buffers
    <3>4. CASE Done \/ UNCHANGED vars
      BY <3>4 DEF Done, vars, input, Buffers, Segments
    <3> QED BY <1>5, <3>1, <3>2, <3>3, <3>4
  <2> QED BY <1>1, <1>2, <2>1 DEF LayoutInv
<1> QED BY <1>3, <1>4, <1>5 DEF Next

(* One more view, of an allocation that had none.                          *)
LEMMA OneMoreView ==
  ASSUME NEW B, NEW N, NEW v0,
         Views(N) = Views(B) \cup {v0}, v0 \notin Views(B),
         \A v \in Views(B) : /\ N[v[1]].offsets[v[2]] = B[v[1]].offsets[v[2]]
                             /\ N[v[1]].segments = B[v[1]].segments,
         \A v \in Views(B) : Viewed(B, v) # Viewed(N, v0),
         \A v, w \in Views(B) : Viewed(B, v) = Viewed(B, w) => v = w,
         \A v \in Views(B) : Inside(B, v),
         Inside(N, v0)
  PROVE  /\ \A v, w \in Views(N) : Viewed(N, v) = Viewed(N, w) => v = w
         /\ \A v \in Views(N) : Inside(N, v)
         /\ \A x : (\A v \in Views(N) : Viewed(N, v) # x)
                     <=> (\A v \in Views(B) : Viewed(B, v) # x) /\ x # Viewed(N, v0)
<1>1. \A v \in Views(B) : Viewed(N, v) = Viewed(B, v) /\ (Inside(B, v) => Inside(N, v))
  BY DEF Viewed, Inside
<1>2. \A v, w \in Views(N) : Viewed(N, v) = Viewed(N, w) => v = w
  BY <1>1
<1>3. \A v \in Views(N) : Inside(N, v)
  BY <1>1
<1>4. \A x : (\A v \in Views(N) : Viewed(N, v) # x)
                     <=> (\A v \in Views(B) : Viewed(B, v) # x) /\ x # Viewed(N, v0)
  BY <1>1
<1> QED BY <1>2, <1>3, <1>4

LEMMA ViewsMember ==
  \A B, b, k : <<b, k>> \in Views(B) <=> b \in DOMAIN B /\ k \in DOMAIN B[b].offsets
BY DEF Views

LEMMA ViewsPairs == \A B : \A v \in Views(B) : v = <<v[1], v[2]>>
BY DEF Views

Fills(B, N, l, n) ==
    /\ l \in Nat /\ n \in Nat
    /\ DOMAIN N = 1..l + 1 /\ \A b \in 1..l : N[b] = B[b]
    /\ DOMAIN N[l + 1].offsets = 1..n + 1
    /\ \/ DOMAIN B = 1..l /\ n = 0
       \/ /\ DOMAIN B = 1..l + 1 /\ DOMAIN B[l + 1].offsets = 1..n
          /\ B[l + 1].segments = N[l + 1].segments
          /\ \A k \in 1..n : N[l + 1].offsets[k] = B[l + 1].offsets[k]

LEMMA FilledViews ==
  ASSUME NEW B, NEW N, NEW l, NEW n, Fills(B, N, l, n)
  PROVE  /\ Views(N) = Views(B) \cup {<<l + 1, n + 1>>} /\ <<l + 1, n + 1>> \notin Views(B)
         /\ \A v \in Views(B) : /\ N[v[1]].offsets[v[2]] = B[v[1]].offsets[v[2]]
                                /\ N[v[1]].segments = B[v[1]].segments
<1> USE DEF Fills
<1>1. /\ \A b \in 1..l + 1 : b = l + 1 \/ b \in 1..l
      /\ \A b \in 1..l : b \in 1..l + 1 /\ b # l + 1
      /\ l + 1 \in 1..l + 1 /\ l + 1 \notin 1..l
  OBVIOUS
<1>2. /\ \A k \in 1..n + 1 : k = n + 1 \/ k \in 1..n
      /\ \A k \in 1..n : k \in 1..n + 1 /\ k # n + 1
      /\ n + 1 \in 1..n + 1 /\ n + 1 \notin 1..n /\ (n = 0 => 1..n = {})
  OBVIOUS
<1>3. \A b, k : <<b, k>> \in Views(B) =>
               /\ <<b, k>> # <<l + 1, n + 1>> /\ <<b, k>> \in Views(N)
               /\ N[b].offsets[k] = B[b].offsets[k] /\ N[b].segments = B[b].segments
  <2> SUFFICES ASSUME NEW b, NEW k, <<b, k>> \in Views(B)
               PROVE  /\ <<b, k>> # <<l + 1, n + 1>> /\ <<b, k>> \in Views(N)
                      /\ N[b].offsets[k] = B[b].offsets[k] /\ N[b].segments = B[b].segments
    OBVIOUS
  <2>1. b \in DOMAIN B /\ k \in DOMAIN B[b].offsets
    BY ViewsMember
  <2>2. CASE b \in 1..l
    BY <1>1, <2>1, <2>2, ViewsMember
  <2>3. CASE b \notin 1..l
    <3>1. b = l + 1 /\ k \in 1..n
      BY <1>1, <2>1, <2>3
    <3> QED BY <1>1, <1>2, <2>1, <2>3, <3>1, ViewsMember
  <2> QED BY <2>2, <2>3
<1>4. \A b, k : <<b, k>> \in Views(N) => <<b, k>> = <<l + 1, n + 1>> \/ <<b, k>> \in Views(B)
  <2> SUFFICES ASSUME NEW b, NEW k, <<b, k>> \in Views(N), <<b, k>> \notin Views(B)
               PROVE  b = l + 1 /\ k = n + 1
    OBVIOUS
  <2>1. b \in 1..l + 1 /\ k \in DOMAIN N[b].offsets
    BY ViewsMember
  <2>2. b = l + 1
    <3>1. CASE b \in 1..l
      BY <1>1, <2>1, <3>1, ViewsMember
    <3> QED BY <1>1, <2>1, <3>1
  <2>3. k \notin 1..n
    BY <1>1, <1>2, <2>2, ViewsMember
  <2> QED BY <1>2, <2>1, <2>2, <2>3
<1>5. <<l + 1, n + 1>> \in Views(N)
  BY <1>1, <1>2, ViewsMember
<1>6. Views(N) = Views(B) \cup {<<l + 1, n + 1>>} /\ <<l + 1, n + 1>> \notin Views(B)
  BY <1>3, <1>4, <1>5, ViewsPairs
<1>7. \A v \in Views(B) : /\ N[v[1]].offsets[v[2]] = B[v[1]].offsets[v[2]]
                          /\ N[v[1]].segments = B[v[1]].segments
  BY <1>3, ViewsPairs
<1> QED BY <1>6, <1>7

(* The list of allocations: sorting makes each of them wait, and what is   *)
(* removed from the list waits no longer.                                  *)
LEMMA SortedList ==
  ASSUME NEW s \in SetToSeqs(Allocs)
  PROVE  /\ Distinct(s)
         /\ \A x \in Allocs : \E k \in DOMAIN s : s[k] = x /\ k \in Nat /\ 1 =< k
<1> DEFINE n == Cardinality(Allocs)
<1>1. s \in [1..n -> Allocs] /\ \A k, m \in 1..n : k # m => s[k] # s[m]
  BY DEF SetToSeqs
<1>2. n \in Nat
  BY FinitelyMany, FS_CardinalityType
<1>3. IsFiniteSet(1..n) /\ Cardinality(1..n) = n
  BY <1>2, FS_Interval
<1>4. s \in Injection(1..n, Allocs)
  <2>1. \A k, m \in 1..n : s[k] = s[m] => k = m
    BY <1>1
  <2> QED BY <1>1, <2>1, Fun_IsInj
<1>5. s \in Surjection(1..n, Allocs)
  BY <1>3, <1>4, FinitelyMany, FS_Injection
<1>6. \A x \in Allocs : \E k \in 1..n : s[k] = x
  BY <1>5 DEF Surjection
<1>7. \A k \in 1..n : k \in Nat /\ 1 =< k
  BY <1>2
<1> QED BY <1>1, <1>6, <1>7 DEF Distinct

LEMMA RemovedWaits ==
  ASSUME NEW s \in Seq(Allocs), Distinct(s), NEW c \in DOMAIN s,
         NEW i \in Nat, i < c
  PROVE  LET t == RemoveAt(s, c)
         IN  /\ Distinct(t)
             /\ \A x : (\E k \in DOMAIN t : t[k] = x /\ i < k)
                         <=> x # s[c] /\ \E k \in DOMAIN s : s[k] = x /\ i < k
<1> DEFINE t == RemoveAt(s, c)
<1>1. /\ Len(s) \in Nat /\ DOMAIN s = 1..Len(s) /\ c \in 1..Len(s)
      /\ DOMAIN t = 1..Len(s) - 1
      /\ \A k \in 1..Len(s) - 1 : t[k] = IF k < c THEN s[k] ELSE s[k + 1]
  BY LenProperties, RemoveAtProperties
<1> HIDE DEF t
<1> DEFINE old(k) == IF k < c THEN k ELSE k + 1
<1>2. \A k \in DOMAIN t : /\ old(k) \in DOMAIN s /\ old(k) # c /\ t[k] = s[old(k)]
                          /\ (i < k <=> i < old(k))
  BY <1>1
<1>3. \A k, m \in DOMAIN t : old(k) = old(m) => k = m
  BY <1>1
<1>4. \A k \in DOMAIN s : k # c => \E m \in DOMAIN t : old(m) = k
  <2> SUFFICES ASSUME NEW k \in DOMAIN s, k # c PROVE \E m \in DOMAIN t : old(m) = k
    OBVIOUS
  <2>1. CASE k < c
    <3>1. k \in DOMAIN t /\ old(k) = k
      BY <1>1, <2>1
    <3> QED BY <3>1
  <2>2. CASE ~(k < c)
    <3>1. k - 1 \in DOMAIN t /\ old(k - 1) = k
      BY <1>1, <2>2
    <3> QED BY <3>1
  <2> QED BY <2>1, <2>2
<1> HIDE DEF old
<1>5. Distinct(t)
  BY <1>2, <1>3 DEF Distinct
<1>6. ASSUME NEW x, NEW k \in DOMAIN t, t[k] = x, i < k
      PROVE  x # s[c] /\ \E m \in DOMAIN s : s[m] = x /\ i < m
  BY <1>2, <1>6 DEF Distinct
<1>7. ASSUME NEW x, x # s[c], NEW k \in DOMAIN s, s[k] = x, i < k
      PROVE  \E m \in DOMAIN t : t[m] = x /\ i < m
  <2>1. PICK m \in DOMAIN t : old(m) = k
    BY <1>4, <1>7
  <2> QED BY <1>2, <1>7, <2>1
<1> QED BY <1>5, <1>6, <1>7 DEF t

LEMMA NextPlaced == IInv /\ [Next]_vars => PlacedInv'
<1> SUFFICES ASSUME IInv, [Next]_vars PROVE PlacedInv'
  OBVIOUS
<1>1. TypeOK /\ GapsInv /\ PlacedInv
  BY DEF IInv
<1>2. /\ infos \in Seq(Allocs) /\ DOMAIN infos = 1..Len(infos) /\ Len(infos) \in Nat
      /\ current \in Nat /\ 1 =< current
  BY <1>1, LenProperties DEF TypeOK
<1> DEFINE N == Buffers'
(* What remains to be shown after a step of the walk.                      *)
<1>3. ASSUME buffers' = buffers, pc' # "sort", Distinct(infos'),
             \A x \in Allocs : Waits(x)' <=> \A v \in Views(N) : Viewed(N, v) # x,
             \A v, w \in Views(N) : Viewed(N, v) = Viewed(N, w) => v = w,
             \A v \in Views(N) : Inside(N, v),
             pc' = "done" => current' > Len(infos')
      PROVE  PlacedInv'
  <2>1. /\ \A x \in Allocs : Waits(x)' <=> \A v \in Views(Buffers)' : Viewed(Buffers, v)' # x
        /\ \A v, w \in Views(Buffers)' : Viewed(Buffers, v)' = Viewed(Buffers, w)' => v = w
    BY <1>3 DEF Views, Viewed
  <2>2. \A v \in Views(Buffers)' : Inside(Buffers, v)'
    BY <1>3 DEF Views, Viewed, Inside, Segments
  <2>3. Distinct(infos)'
    BY <1>3 DEF Distinct
  <2> QED BY <1>3, <2>1, <2>2, <2>3 DEF PlacedInv
<1>4. CASE Sort
  <2>1. /\ pc = "sort" /\ pc' = "next" /\ infos' \in SetToSeqs(Allocs)
        /\ UNCHANGED <<buffers, current, packed>> /\ packed = <<>> /\ current = 1
    BY <1>1, <1>4 DEF Sort, input, PlacedInv
  <2>2. Views(N) = {}
    BY <2>1 DEF Views, Buffers
  <2>3. \A x \in Allocs : Waits(x)'
    <3> SUFFICES ASSUME NEW x \in Allocs PROVE Waits(x)'
      OBVIOUS
    <3>1. PICK k \in DOMAIN infos' : infos'[k] = x /\ k \in Nat /\ 1 =< k
      BY <2>1, SortedList
    <3>2. current' = 1 /\ pc' # "pack" /\ (1 < k \/ 1 = k)
      BY <2>1, <3>1
    <3> QED BY <3>1, <3>2 DEF Waits
  <2>4. Distinct(infos')
    BY <2>1, SortedList
  <2> QED BY <1>3, <2>1, <2>2, <2>3, <2>4
<1>5. CASE Begin
  <2> DEFINE x == infos[current]
             p == Placed(x, 0)
             buffer == [segments |-> Segments(x), offsets |-> <<p>>]
             l == Len(packed)
  <2>1. /\ UNCHANGED <<buffers, infos, current, packed>>
        /\ pc = "next" /\ pc' = "pack"
        /\ current \in DOMAIN infos /\ x \in Allocs
        /\ p \in Items /\ p.alloc = x /\ p.offset = 0 /\ offsets' = <<p>>
    BY <1>1, <1>5, BeginFacts
  <2>2. Segments(x) \in Nat
    BY <1>1, <2>1, RangeFacts
  <2> HIDE DEF p
  <2>3. buffer \in [segments : Nat, offsets : Seq(Items)] /\ buffer.segments = Segments(x)
        /\ DOMAIN buffer.offsets = {1} /\ buffer.offsets[1] = p
    BY <2>1, <2>2
  <2>4. N = Append(packed, buffer)
    BY <2>1 DEF Buffers, Segments
  <2> HIDE DEF buffer, l
  <2>5. /\ DOMAIN N = 1..l + 1 /\ DOMAIN packed = 1..l /\ l \in Nat
        /\ \A b \in 1..l : N[b] = packed[b]
        /\ N[l + 1] = buffer
    BY <1>1, <2>3, <2>4, AppendedBuffer DEF l
  <2>6. /\ Distinct(infos)
        /\ \A y \in Allocs : Waits(y) <=> \A v \in Views(packed) : Viewed(packed, v) # y
        /\ \A v, w \in Views(packed) : Viewed(packed, v) = Viewed(packed, w) => v = w
        /\ \A v \in Views(packed) : Inside(packed, v)
    BY <1>1, <2>1, BuffersParts DEF PlacedInv
  <2> DEFINE v0 == <<l + 1, 1>>
  <2>7. /\ Views(N) = Views(packed) \cup {v0} /\ v0 \notin Views(packed)
        /\ \A v \in Views(packed) : /\ N[v[1]].offsets[v[2]] = packed[v[1]].offsets[v[2]]
                                    /\ N[v[1]].segments = packed[v[1]].segments
    <3>1. DOMAIN N[l + 1].offsets = 1..0 + 1 /\ 0 \in Nat /\ 0 + 1 = 1
      BY <2>3, <2>5
    <3> HIDE DEF N
    <3>2. /\ Views(N) = Views(packed) \cup {<<l + 1, 0 + 1>>} /\ <<l + 1, 0 + 1>> \notin Views(packed)
          /\ \A v \in Views(packed) : /\ N[v[1]].offsets[v[2]] = packed[v[1]].offsets[v[2]]
                                      /\ N[v[1]].segments = packed[v[1]].segments
      <4>1. Fills(packed, N, l, 0)
        BY <2>5, <3>1 DEF Fills
      <4> QED BY <4>1, FilledViews
    <3> QED BY <3>1, <3>2
  <2>8. Viewed(N, v0) = x
    BY <2>1, <2>3, <2>5 DEF Viewed
  <2>9. Inside(N, v0)
    <3>1. 0 + Segments(x) <= Segments(x)
      BY <2>2
    <3> QED BY <2>1, <2>3, <2>5, <2>8, <3>1 DEF Inside
  <2>10. Waits(x)
    BY <2>1 DEF Waits
  <2>11. \A v \in Views(packed) : Viewed(packed, v) # Viewed(N, v0)
    BY <2>1, <2>6, <2>8, <2>10
  <2> HIDE DEF v0, N
  <2>12. /\ \A v, w \in Views(N) : Viewed(N, v) = Viewed(N, w) => v = w
         /\ \A v \in Views(N) : Inside(N, v)
         /\ \A y : (\A v \in Views(N) : Viewed(N, v) # y)
                     <=> (\A v \in Views(packed) : Viewed(packed, v) # y) /\ y # x
    BY <2>6, <2>7, <2>8, <2>9, <2>11, OneMoreView
  <2>13. \A y \in Allocs : Waits(y)' <=> Waits(y) /\ y # x
    <3>1. \A y : Waits(y)' <=> \E k \in DOMAIN infos : infos[k] = y /\ current < k
      BY <2>1 DEF Waits
    <3>2. \A y : Waits(y) <=> \E k \in DOMAIN infos : infos[k] = y /\ (current < k \/ current = k)
      BY <2>1 DEF Waits
    <3>3. \A k \in DOMAIN infos : infos[k] = x => k = current
      BY <2>1, <2>6 DEF Distinct
    <3>4. ~(current < current)
      BY <1>2
    <3> QED BY <3>1, <3>2, <3>3, <3>4
  <2> USE DEF N
  <2>14. \A y \in Allocs : Waits(y)' <=> \A v \in Views(N) : Viewed(N, v) # y
    BY <2>6, <2>12, <2>13
  <2> QED BY <1>3, <2>1, <2>6, <2>12, <2>14
<1>6. CASE TryPack
  <2> DEFINE x == infos[checked]
             cap == Segments(infos[current])
             l == Len(packed)
  <2>1. /\ UNCHANGED <<buffers, pc, current, packed>> /\ pc = "pack"
        /\ checked \in DOMAIN infos /\ current \in DOMAIN infos /\ current < checked
        /\ infos'[current] = infos[current] /\ infos' \in Seq(Allocs)
    BY <1>1, <1>6, TryPackFacts DEF GapsInv
  <2>2. /\ Distinct(infos)
        /\ \A y \in Allocs : Waits(y) <=> \A v \in Views(Buffers) : Viewed(Buffers, v) # y
        /\ \A v, w \in Views(Buffers) : Viewed(Buffers, v) = Viewed(Buffers, w) => v = w
        /\ \A v \in Views(Buffers) : Inside(Buffers, v)
    BY <1>1, <2>1 DEF PlacedInv
  <2>3. CASE UNCHANGED <<infos, offsets>>
    <3>1. N = Buffers
      BY <2>1, <2>3 DEF Buffers, Segments
    <3>2. \A y : Waits(y)' <=> Waits(y)
      BY <2>1, <2>3 DEF Waits
    <3> QED BY <1>3, <2>1, <2>2, <2>3, <3>1, <3>2
  <2>4. ASSUME NEW j \in DOMAIN gaps, x \in Allocs, Fits(x, gaps[j]),
               NEW item \in Items, item.alloc = x, item.offset = cap - gaps[j].free,
               offsets' = Append(offsets, item), infos' = RemoveAt(infos, checked)
        PROVE  PlacedInv'
    <3> DEFINE buffer == [segments |-> cap, offsets |-> offsets']
               n == Len(offsets)
               v0 == <<l + 1, n + 1>>
    <3>1. /\ cap \in Nat /\ l \in Nat /\ DOMAIN packed = 1..l
          /\ DOMAIN Buffers = 1..l + 1
          /\ \A b \in 1..l : Buffers[b] = packed[b]
          /\ Buffers[l + 1].segments = cap /\ Buffers[l + 1].offsets = offsets
      BY <1>1, <2>1, BuffersParts
    <3>2. /\ n \in Nat /\ DOMAIN offsets = 1..n
          /\ offsets' \in Seq(Items) /\ DOMAIN offsets' = 1..n + 1
          /\ \A k \in 1..n : offsets'[k] = offsets[k]
          /\ offsets'[n + 1] = item
      <4>1. offsets \in Seq(Items)
        BY <1>1 DEF TypeOK
      <4>2. /\ offsets' \in Seq(Items) /\ Len(offsets') = n + 1
            /\ \A k \in 1..n : offsets'[k] = offsets[k]
            /\ offsets'[n + 1] = item
        BY <2>4, <4>1, AppendProperties
      <4> QED BY <4>1, <4>2, LenProperties
    <3>3. N = Append(packed, buffer)
      BY <2>1 DEF Buffers, Segments
    <3>4. buffer \in [segments : Nat, offsets : Seq(Items)] /\ buffer.segments = cap
          /\ buffer.offsets = offsets'
      BY <3>1, <3>2
    <3> HIDE DEF cap, l, n, buffer, x
    <3>5. /\ DOMAIN N = 1..l + 1
          /\ \A b \in 1..l : N[b] = Buffers[b]
          /\ N[l + 1] = buffer
      BY <1>1, <3>1, <3>3, <3>4, AppendedBuffer DEF l
    <3> HIDE DEF N
    <3>6. /\ Views(N) = Views(Buffers) \cup {v0} /\ v0 \notin Views(Buffers)
          /\ \A v \in Views(Buffers) : /\ N[v[1]].offsets[v[2]] = Buffers[v[1]].offsets[v[2]]
                                       /\ N[v[1]].segments = Buffers[v[1]].segments
      <4>1. DOMAIN N[l + 1].offsets = 1..n + 1
        BY <3>2, <3>4, <3>5
      <4>2. /\ DOMAIN Buffers = 1..l + 1 /\ DOMAIN Buffers[l + 1].offsets = 1..n
            /\ Buffers[l + 1].segments = N[l + 1].segments
            /\ \A k \in 1..n : N[l + 1].offsets[k] = Buffers[l + 1].offsets[k]
        BY <3>1, <3>2, <3>4, <3>5
      <4>3. Fills(Buffers, N, l, n)
        BY <3>1, <3>2, <3>5, <4>1, <4>2 DEF Fills
      <4> QED BY <4>3, FilledViews
    <3>7. Viewed(N, v0) = x
      BY <2>4, <3>2, <3>4, <3>5 DEF Viewed
    <3>8. Inside(N, v0)
      <4>1. gaps[j].free \in Nat
        <5>1. gaps[j] \in Gaps
          BY <1>1, LenProperties, ElementOfSeq DEF TypeOK
        <5> QED BY <5>1 DEF Gaps
      <4>2. Segments(x) \in Nat /\ Segments(x) =< gaps[j].free
        BY <1>1, <2>4, RangeFacts DEF Fits
      <4>3. item.offset + Segments(x) <= cap
        BY <2>4, <3>1, <4>1, <4>2
      <4> QED BY <3>2, <3>4, <3>5, <3>7, <4>3 DEF Inside
    <3>9. \A y : Waits(y) <=> \E k \in DOMAIN infos : infos[k] = y /\ current < k
      BY <2>1 DEF Waits
    <3>10. \A y : Waits(y)' <=> \E k \in DOMAIN infos' : infos'[k] = y /\ current < k
      BY <2>1 DEF Waits
    <3>11. /\ Distinct(infos')
           /\ \A y : Waits(y)' <=> Waits(y) /\ y # x
      <4>1. /\ Distinct(infos')
            /\ \A y : (\E k \in DOMAIN infos' : infos'[k] = y /\ current < k)
                     <=> y # infos[checked] /\ \E k \in DOMAIN infos : infos[k] = y /\ current < k
        <5>1. infos \in Seq(Allocs) /\ Distinct(infos) /\ checked \in DOMAIN infos
          BY <1>2, <2>1, <2>2
        <5>2. current \in Nat /\ current < checked /\ infos' = RemoveAt(infos, checked)
          BY <1>2, <2>1, <2>4
        <5> DEFINE t == RemoveAt(infos, checked)
        <5>3. /\ Distinct(t)
              /\ \A y : (\E k \in DOMAIN t : t[k] = y /\ current < k)
                     <=> y # infos[checked] /\ \E k \in DOMAIN infos : infos[k] = y /\ current < k
          BY <5>1, <5>2, RemovedWaits
        <5> QED BY <5>2, <5>3
      <4> QED BY <3>9, <3>10, <4>1 DEF x
    <3>12. Waits(x)
      BY <2>1, <3>9 DEF x
    <3>13. \A v \in Views(Buffers) : Viewed(Buffers, v) # Viewed(N, v0)
      BY <2>2, <2>4, <3>7, <3>12
    <3> HIDE DEF v0
    <3>14. /\ \A v, w \in Views(N) : Viewed(N, v) = Viewed(N, w) => v = w
           /\ \A v \in Views(N) : Inside(N, v)
           /\ \A y : (\A v \in Views(N) : Viewed(N, v) # y)
                     <=> (\A v \in Views(Buffers) : Viewed(Buffers, v) # y) /\ y # x
      <4>1. /\ \A v, w \in Views(N) : Viewed(N, v) = Viewed(N, w) => v = w
            /\ \A v \in Views(N) : Inside(N, v)
            /\ \A y : (\A v \in Views(N) : Viewed(N, v) # y)
                     <=> (\A v \in Views(Buffers) : Viewed(Buffers, v) # y) /\ y # Viewed(N, v0)
        BY <2>2, <3>6, <3>8, <3>13, OneMoreView, Zenon
      <4> QED BY <3>7, <4>1
    <3>15. \A y \in Allocs : Waits(y)' <=> \A v \in Views(N) : Viewed(N, v) # y
      BY <2>2, <3>11, <3>14
    <3> USE DEF N
    <3> QED BY <1>3, <2>1, <3>11, <3>14, <3>15
  <2> QED BY <1>1, <1>6, <2>3, <2>4, TryPackFacts
<1>7. CASE Emit \/ Finish
  <2>1. /\ UNCHANGED <<buffers, infos>> /\ pc # "sort" /\ pc' # "sort" /\ N = Buffers
        /\ pc' # "pack" /\ (pc' = "done" => current' > Len(infos'))
        /\ \/ pc = "pack" /\ current' = current + 1
           \/ pc # "pack" /\ current' = current
    BY <1>2, <1>7 DEF Emit, Finish, input, Buffers
  <2>2. \A k \in DOMAIN infos : (current < k \/ (current = k /\ pc # "pack"))
                                   <=> (current' < k \/ current' = k)
    BY <1>2, <2>1
  <2>3. \A y : Waits(y)' <=> Waits(y)
    BY <2>1, <2>2 DEF Waits
  <2>4. /\ Distinct(infos)
        /\ \A y \in Allocs : Waits(y) <=> \A v \in Views(Buffers) : Viewed(Buffers, v) # y
        /\ \A v, w \in Views(Buffers) : Viewed(Buffers, v) = Viewed(Buffers, w) => v = w
        /\ \A v \in Views(Buffers) : Inside(Buffers, v)
    BY <1>1, <2>1 DEF PlacedInv
  <2> QED BY <1>3, <2>1, <2>3, <2>4
<1>8. CASE Done \/ UNCHANGED vars
  <2>1. UNCHANGED vars
    BY <1>8 DEF Done
  <2>2. UNCHANGED <<buffers, pc, infos, current, packed>> /\ N = Buffers
    BY <2>1 DEF vars, input, Buffers, Segments
  <2>3. CASE pc = "sort"
    BY <1>1, <2>2, <2>3 DEF PlacedInv
  <2>4. CASE pc # "sort"
    <3>1. \A y : Waits(y)' <=> Waits(y)
      BY <2>2 DEF Waits
    <3>2. /\ Distinct(infos)
          /\ \A y \in Allocs : Waits(y) <=> \A v \in Views(Buffers) : Viewed(Buffers, v) # y
          /\ \A v, w \in Views(Buffers) : Viewed(Buffers, v) = Viewed(Buffers, w) => v = w
          /\ \A v \in Views(Buffers) : Inside(Buffers, v)
          /\ pc = "done" => current > Len(infos)
      BY <1>1, <2>4 DEF PlacedInv
    <3> QED BY <1>3, <2>2, <2>4, <3>1, <3>2
  <2> QED BY <2>3, <2>4
<1> QED BY <1>4, <1>5, <1>6, <1>7, <1>8 DEF Next

(* Every state of every behaviour satisfies the invariant.                 *)
THEOREM Invariance == Spec => []IInv
<1>1. IInv /\ [Next]_vars => IInv'
  BY NextType, NextGaps, NextLayout, NextPlaced DEF IInv
<1> QED BY InitInvariant, <1>1, PTL DEF Spec

(* What findGapAndUpdate takes to be free in a gap is free: neither the    *)
(* allocation that owns the buffer nor one packed into it before uses      *)
(* those segments during the gap.                                          *)
THEOREM FreeGaps == Spec => []GapsAreFree
<1>1. IInv => GapsAreFree
  BY DEF IInv
<1> QED BY <1>1, Invariance, PTL

(* No two allocations of a buffer are ever in use at the same position     *)
(* with segments in common, however often gaps were split.                 *)
THEOREM NeverClobbered == Spec => []NoClobber
<1>1. IInv => NoClobber
  <2> SUFFICES ASSUME IInv, NEW layout \in Layouts PROVE Separated(layout)
    BY DEF NoClobber, Separated
  <2>1. TypeOK /\ GapsInv /\ LayoutInv
    BY DEF IInv
  <2>2. CASE pc = "pack"
    <3>1. /\ DOMAIN packed = 1..Len(packed) /\ Len(packed) \in Nat
          /\ DOMAIN Buffers = 1..Len(packed) + 1
          /\ \A b \in 1..Len(packed) : Buffers[b] = packed[b]
          /\ Buffers[Len(packed) + 1].offsets = offsets
      BY <2>1, <2>2, BuffersParts DEF GapsInv
    <3>2. layout = offsets \/ \E b \in DOMAIN packed : layout = packed[b].offsets
      BY DEF Layouts, ToSet
    <3> QED BY <2>1, <3>1, <3>2 DEF LayoutInv
  <2>3. CASE pc # "pack"
    <3>1. \E b \in DOMAIN packed : layout = packed[b].offsets
      BY <2>3 DEF Layouts, ToSet
    <3> QED BY <2>1, <2>3, <3>1, BuffersParts DEF LayoutInv
  <2> QED BY <2>2, <2>3
<1> QED BY <1>1, Invariance, PTL

(* No allocation is forgotten when the list shrinks under the iterators,   *)
(* and none is placed twice: at the end each has one view, in its buffer.  *)
THEOREM EachPlacedOnce == Spec => []PackedOnce
<1>1. IInv => PackedOnce
  <2> SUFFICES ASSUME IInv, pc = "done", NEW x \in Allocs
               PROVE  LET views == {v \in Views(packed) : Viewed(packed, v) = x}
                      IN  \E v \in views : views = {v} /\ Inside(packed, v)
    BY DEF PackedOnce, Views, Viewed, Inside
  <2>1. Buffers = packed /\ TypeOK /\ PlacedInv
    BY BuffersParts DEF IInv
  <2>2. /\ Waits(x) <=> \A v \in Views(packed) : Viewed(packed, v) # x
        /\ \A v, w \in Views(packed) : Viewed(packed, v) = Viewed(packed, w) => v = w
        /\ \A v \in Views(packed) : Inside(packed, v)
        /\ current > Len(infos)
    BY <2>1 DEF PlacedInv
  <2>3. ~Waits(x)
    <3>1. DOMAIN infos = 1..Len(infos) /\ Len(infos) \in Nat /\ current \in Nat
      BY <2>1, LenProperties DEF TypeOK
    <3>2. \A k \in DOMAIN infos : ~(current < k) /\ current # k
      BY <2>2, <3>1
    <3> QED BY <3>2 DEF Waits
  <2>4. PICK v \in Views(packed) : Viewed(packed, v) = x
    BY <2>2, <2>3
  <2> QED BY <2>2, <2>4
<1> QED BY <1>1, Invariance, PTL
=============================================================================
