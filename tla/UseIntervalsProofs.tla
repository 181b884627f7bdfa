-------------------------- MODULE UseIntervalsProofs --------------------------
(***************************************************************************)
(* The operations on UseInterval::Vector do what their callers rely on,    *)
(* for lists of any length and any positions.  Each loop walks two lists   *)
(* and edits the one it walks; its invariant says what the intervals that  *)
(* an iterator has passed have become, and that the rest of the edited     *)
(* list, and of the other one, is still in order.  Every edit replaces     *)
(* some consecutive intervals by one or two others: what it does to the    *)
(* positions is stated once for each way to do so.                         *)
(***************************************************************************)
EXTENDS UseIntervals, SequenceTheorems, WellFoundedInduction, TLAPS

\* The intervals, of any positions.
Span == {v \in [start : Int, end : Int] : v.start <= v.end}
SpanPositions(v) == v.start..v.end

\* What InOrder and Regular say of neighbours, said of any two intervals.
Ordered(s) == \A k, l \in 1..Len(s) : k < l => s[k].end < s[l].start
Separate(s) == \A k, l \in 1..Len(s) : k < l => s[k].end + 2 < s[l].start
TailOrdered(s, n) == \A k, l \in 1..Len(s) : n <= k /\ k < l => s[k].end < s[l].start

TypeOK ==
    /\ op \in {"subtract", "intersect", "merge", "interfere"}
    /\ pc \in IF op = "interfere" THEN {"subtract", "scan", "done"} ELSE {op, "done"}
    /\ a \in Seq(Span) /\ b \in Seq(Span) /\ common \in Seq(Span) /\ before \in Seq(Span)
    /\ Separate(b) /\ Separate(before)
    /\ i \in Nat \ {0} /\ j \in Nat \ {0}
    /\ answer \in BOOLEAN
    /\ queue = <<>>

(* The intervals before iterA are in the intersection of before and b, and *)
(* those of b before iterB lie before the rest of s.                       *)
IntersectKept(s, n, m) ==
    /\ Ordered(s)
    /\ \A k \in 1..Len(s) : k < n => SpanPositions(s[k]) \subseteq Positions(before) \cap Positions(b)
    /\ Positions(s) \subseteq Positions(before)
    /\ Positions(before) \cap Positions(b) \subseteq Positions(s)
    /\ \A k \in 1..Len(s), l \in 1..Len(b) : n <= k /\ l < m => b[l].end < s[k].start

(* Every interval of s starts and ends in a position of S, and a position  *)
(* that it holds outside S is a gap between two of S.                      *)
Filled(s, S) ==
    /\ \A k \in 1..Len(s) : s[k].start \in S /\ s[k].end \in S
    /\ \A p \in Positions(s) \ S : p - 1 \in S /\ p + 1 \in S

(* The part of b before iterB has been merged into s.  From iterA on s is  *)
(* in order; if b is a single interval all of s is, and the part of s      *)
(* before iterA lies before the rest of b.                                 *)
MergeKept(s, n, m) ==
    /\ Filled(s, Positions(before) \cup Positions(b))
    /\ Positions(before) \subseteq Positions(s)
    /\ \A l \in 1..Len(b) : l < m => SpanPositions(b[l]) \subseteq Positions(s)
    /\ TailOrdered(s, n)
    /\ Len(b) <= 1 => Separate(s)
    /\ Len(b) <= 1 => \A k \in 1..Len(s), l \in 1..Len(b) : k < n /\ m <= l => s[k].end + 2 < b[l].start

MergeComplete(s) ==
    /\ Filled(s, Positions(before) \cup Positions(b))
    /\ Positions(before) \cup Positions(b) \subseteq Positions(s)
    /\ Len(b) <= 1 => Separate(s)

Apart(u, v) == Before(u, v) \/ After(u, v)

\* The intervals one of the iterators has passed overlap none of the other list.
ScanKept(n, m) == \A k \in 1..Len(a), l \in 1..Len(b) : k < n \/ l < m => Apart(a[k], b[l])

SubtractInv ==
    /\ SubtractKeepsRest
    /\ op = "interfere" /\ common = <<>> => a = before

IntersectInv ==
    op = "intersect" => /\ IntersectKept(a, i, j)
                        /\ pc = "done" => i > Len(a)

MergeInv ==
    op = "merge" => IF pc = "merge" THEN MergeKept(a, i, j) ELSE MergeComplete(a)

ScanInv ==
    op = "interfere" =>
        /\ pc # "done" => ~answer
        /\ answer => Positions(before) \cap Positions(b) # {}
        /\ pc # "subtract" /\ common = <<>> /\ ~answer =>
             /\ ScanKept(i, j)
             /\ pc = "done" => i > Len(a) \/ j > Len(b)

IInv == TypeOK /\ SubtractInv /\ IntersectInv /\ MergeInv /\ ScanInv
-----------------------------------------------------------------------------
(* Sequences.                                                              *)

\* The elements k to last of s, which may be none, give way to x.
Splice(s, k, x, last) == SubSeq(s, 1, k - 1) \o <<x>> \o SubSeq(s, last + 1, Len(s))

LEMMA SpliceProperties ==
  ASSUME NEW S, NEW s \in Seq(S), NEW x \in S, NEW k \in Nat, NEW last \in Nat,
         1 <= k, k <= last + 1, last <= Len(s)
  PROVE  /\ Splice(s, k, x, last) \in Seq(S)
         /\ Len(Splice(s, k, x, last)) = Len(s) + k - last
         /\ \A n \in 1..Len(s) + k - last :
              Splice(s, k, x, last)[n] =
                IF n < k THEN s[n] ELSE IF n = k THEN x ELSE s[n + last - k]
<1> DEFINE front == SubSeq(s, 1, k - 1)
           back == SubSeq(s, last + 1, Len(s))
           both == front \o <<x>>
<1>1. Len(s) \in Nat /\ \A n \in 1..Len(s) : s[n] \in S
  BY ElementOfSeq
<1>2. /\ front \in Seq(S) /\ Len(front) = k - 1
      /\ \A n \in 1..k - 1 : front[n] = s[n]
  <2>1. \A n \in 1..k - 1 : s[n] \in S
    BY <1>1
  <2>2. /\ front \in Seq(S)
        /\ Len(front) = IF 1 <= k - 1 THEN k - 1 - 1 + 1 ELSE 0
        /\ \A n \in 1..k - 1 - 1 + 1 : front[n] = s[1 + n - 1]
    BY <1>1, <2>1, SubSeqProperties, 1 \in Int, k - 1 \in Int
  <2> HIDE DEF front
  <2> QED BY <2>2
<1>3. /\ back \in Seq(S) /\ Len(back) = Len(s) - last
      /\ \A n \in 1..Len(s) - last : back[n] = s[last + n]
  <2>1. \A n \in last + 1..Len(s) : s[n] \in S
    BY <1>1
  <2>2. /\ back \in Seq(S)
        /\ Len(back) = IF last + 1 <= Len(s) THEN Len(s) - (last + 1) + 1 ELSE 0
        /\ \A n \in 1..Len(s) - (last + 1) + 1 : back[n] = s[last + 1 + n - 1]
    BY <1>1, <2>1, SubSeqProperties, last + 1 \in Int, Len(s) \in Int
  <2> HIDE DEF back
  <2>3. \A n \in 1..Len(s) - last : last + 1 + n - 1 = last + n /\ n \in 1..Len(s) - (last + 1) + 1
    BY <1>1
  <2> QED BY <1>1, <2>2, <2>3
<1> HIDE DEF front, back
<1>4. <<x>> \in Seq(S) /\ Len(<<x>>) = 1 /\ <<x>>[1] = x
  OBVIOUS
<1>5. /\ both \in Seq(S) /\ Len(both) = k
      /\ \A n \in 1..k : both[n] = IF n < k THEN s[n] ELSE x
  <2>1. /\ both \in Seq(S) /\ Len(both) = Len(front) + Len(<<x>>)
        /\ \A n \in 1..Len(front) + Len(<<x>>) :
             both[n] = IF n <= Len(front) THEN front[n] ELSE <<x>>[n - Len(front)]
    BY <1>2, <1>4, ConcatProperties
  <2> HIDE DEF both
  <2>2. \A n \in 1..k : n <= k - 1 <=> n < k
    OBVIOUS
  <2>3. \A n \in 1..k : ~(n < k) => n - (k - 1) = 1
    OBVIOUS
  <2>4. Len(front) + Len(<<x>>) = k
    BY <1>2, <1>4
  <2> QED BY <1>2, <1>4, <2>1, <2>2, <2>3, <2>4
<1> HIDE DEF both
<1>6. Splice(s, k, x, last) = both \o back
  BY DEF Splice, both, front, back
<1>7. /\ both \o back \in Seq(S) /\ Len(both \o back) = Len(both) + Len(back)
      /\ \A n \in 1..Len(both) + Len(back) :
           (both \o back)[n] = IF n <= Len(both) THEN both[n] ELSE back[n - Len(both)]
  BY <1>3, <1>5, ConcatProperties
<1>8. \A n \in 1..Len(s) + k - last : ~(n <= k) => n - k \in 1..Len(s) - last /\ last + (n - k) = n + last - k
  BY <1>1
<1>9. Len(both) + Len(back) = Len(s) + k - last
  BY <1>1, <1>3, <1>5
<1> HIDE DEF Splice
<1>10. /\ Splice(s, k, x, last) \in Seq(S)
       /\ Len(Splice(s, k, x, last)) = Len(s) + k - last
       /\ \A n \in 1..Len(s) + k - last :
            Splice(s, k, x, last)[n] = IF n <= k THEN both[n] ELSE back[n - k]
  BY <1>5, <1>6, <1>7, <1>9
<1>11. \A n \in 1..Len(s) + k - last : n <= k => both[n] = IF n < k THEN s[n] ELSE x
  BY <1>5
<1>12. \A n \in 1..Len(s) + k - last : ~(n <= k) => back[n - k] = s[n + last - k]
  BY <1>3, <1>8
<1>13. ASSUME NEW n \in 1..Len(s) + k - last
       PROVE  Splice(s, k, x, last)[n] =
                IF n < k THEN s[n] ELSE IF n = k THEN x ELSE s[n + last - k]
  <2>1. CASE n <= k
    BY <1>1, <1>10, <1>11, <2>1
  <2>2. CASE ~(n <= k)
    <3>1. ~(n < k) /\ n # k
      BY <1>1, <2>2
    <3> QED BY <1>10, <1>12, <2>2, <3>1
  <2> QED BY <2>1, <2>2
<1> QED BY <1>10, <1>13

LEMMA RemoveAtProperties ==
  ASSUME NEW S, NEW s \in Seq(S), NEW k \in 1..Len(s)
  PROVE  /\ RemoveAt(s, k) \in Seq(S)
         /\ Len(RemoveAt(s, k)) = Len(s) - 1
         /\ \A n \in 1..Len(s) - 1 : RemoveAt(s, k)[n] = IF n < k THEN s[n] ELSE s[n + 1]
<1> DEFINE front == SubSeq(s, 1, k - 1)
           back == SubSeq(s, k + 1, Len(s))
<1>1. Len(s) \in Nat /\ \A n \in 1..Len(s) : s[n] \in S
  BY ElementOfSeq
<1>2. /\ front \in Seq(S) /\ Len(front) = k - 1
      /\ \A n \in 1..k - 1 : front[n] = s[n]
  <2>1. \A n \in 1..k - 1 : s[n] \in S
    BY <1>1
  <2>2. /\ front \in Seq(S)
        /\ Len(front) = IF 1 <= k - 1 THEN k - 1 - 1 + 1 ELSE 0
        /\ \A n \in 1..k - 1 - 1 + 1 : front[n] = s[1 + n - 1]
    BY <1>1, <2>1, SubSeqProperties, 1 \in Int, k - 1 \in Int
  <2> HIDE DEF front
  <2> QED BY <2>2
<1>3. /\ back \in Seq(S) /\ Len(back) = Len(s) - k
      /\ \A n \in 1..Len(s) - k : back[n] = s[k + n]
  <2>1. \A n \in k + 1..Len(s) : s[n] \in S
    BY <1>1
  <2>2. /\ back \in Seq(S)
        /\ Len(back) = IF k + 1 <= Len(s) THEN Len(s) - (k + 1) + 1 ELSE 0
        /\ \A n \in 1..Len(s) - (k + 1) + 1 : back[n] = s[k + 1 + n - 1]
    BY <1>1, <2>1, SubSeqProperties, k + 1 \in Int, Len(s) \in Int
  <2> HIDE DEF back
  <2>3. \A n \in 1..Len(s) - k : k + 1 + n - 1 = k + n /\ n \in 1..Len(s) - (k + 1) + 1
    BY <1>1
  <2> QED BY <1>1, <2>2, <2>3
<1> HIDE DEF front, back
<1>4. RemoveAt(s, k) = front \o back
  BY DEF RemoveAt, front, back
<1>5. /\ front \o back \in Seq(S) /\ Len(front \o back) = Len(front) + Len(back)
      /\ \A n \in 1..Len(front) + Len(back) :
           (front \o back)[n] = IF n <= Len(front) THEN front[n] ELSE back[n - Len(front)]
  BY <1>2, <1>3, ConcatProperties
<1>6. \A n \in 1..Len(s) - 1 : ~(n <= k - 1) => n - (k - 1) \in 1..Len(s) - k /\ k + (n - (k - 1)) = n + 1
  BY <1>1
<1>7. \A n \in 1..Len(s) - 1 : n < k => n <= k - 1 /\ n \in 1..k - 1
  BY <1>1
<1>8. Len(front) + Len(back) = Len(s) - 1
  BY <1>1, <1>2, <1>3
<1> HIDE DEF RemoveAt
<1>9. /\ RemoveAt(s, k) \in Seq(S)
      /\ Len(RemoveAt(s, k)) = Len(s) - 1
      /\ \A n \in 1..Len(s) - 1 :
           RemoveAt(s, k)[n] = IF n <= k - 1 THEN front[n] ELSE back[n - (k - 1)]
  BY <1>2, <1>4, <1>5, <1>8
<1>10. ASSUME NEW n \in 1..Len(s) - 1
       PROVE  RemoveAt(s, k)[n] = IF n < k THEN s[n] ELSE s[n + 1]
  <2>1. CASE n < k
    BY <1>2, <1>7, <1>9, <2>1
  <2>2. CASE ~(n < k)
    <3>1. ~(n <= k - 1)
      BY <1>1, <2>2
    <3>2. back[n - (k - 1)] = s[k + (n - (k - 1))]
      BY <1>3, <1>6, <3>1
    <3>3. back[n - (k - 1)] = s[n + 1]
      BY <1>6, <3>1, <3>2
    <3> QED BY <1>9, <2>2, <3>1, <3>3
  <2> QED BY <2>1, <2>2
<1> QED BY <1>9, <1>10

LEMMA ReplaceAtProperties ==
  ASSUME NEW S, NEW s \in Seq(S), NEW x \in S, NEW k \in 1..Len(s)
  PROVE  /\ ReplaceAt(s, k, x) \in Seq(S)
         /\ Len(ReplaceAt(s, k, x)) = Len(s)
         /\ \A n \in 1..Len(s) : ReplaceAt(s, k, x)[n] = IF n = k THEN x ELSE s[n]
  BY ExceptSeq DEF ReplaceAt

LEMMA InsertAtIsSplice ==
  ASSUME NEW S, NEW s \in Seq(S), NEW x \in S, NEW k \in 1..Len(s) + 1
  PROVE  InsertAt(s, k, x) = Splice(s, k, x, k - 1)
<1>1. k - 1 + 1 = k
  BY LenProperties
<1> QED BY <1>1 DEF InsertAt, Splice

\* Element k is replaced by two.
Split(s, k, x, y) == InsertAt(ReplaceAt(s, k, x), k + 1, y)

LEMMA SplitIsSplice ==
  ASSUME NEW S, NEW s \in Seq(S), NEW x \in S, NEW y \in S, NEW k \in 1..Len(s)
  PROVE  /\ Split(s, k, x, y) = Splice(ReplaceAt(s, k, x), k + 1, y, k)
         /\ Split(s, k, x, y) \in Seq(S)
         /\ Len(Split(s, k, x, y)) = Len(s) + 1
         /\ \A n \in 1..Len(s) + 1 :
              /\ n < k => Split(s, k, x, y)[n] = s[n] /\ n \in 1..Len(s)
              /\ n = k => Split(s, k, x, y)[n] = x
              /\ n = k + 1 => Split(s, k, x, y)[n] = y
              /\ k + 1 < n => Split(s, k, x, y)[n] = s[n - 1] /\ n - 1 \in 1..Len(s)
<1> DEFINE r == ReplaceAt(s, k, x)
           t == Split(s, k, x, y)
           next == k + 1
<1>1. Len(s) \in Nat /\ k \in Nat /\ 1 <= k /\ k <= Len(s)
  BY LenProperties
<1>2. r \in Seq(S) /\ Len(r) = Len(s) /\ \A n \in 1..Len(s) : r[n] = IF n = k THEN x ELSE s[n]
  BY ReplaceAtProperties
<1>3. t = InsertAt(r, next, y)
  BY DEF Split
<1>4. next \in Nat /\ 1 <= next /\ next <= k + 1 /\ next \in 1..Len(r) + 1 /\ next - 1 = k
  BY <1>1, <1>2
<1> HIDE DEF r, t, next
<1>5. t = Splice(r, next, y, k)
  BY <1>2, <1>3, <1>4, InsertAtIsSplice
<1>6. k <= Len(r)
  BY <1>1, <1>2
<1>7. /\ t \in Seq(S) /\ Len(t) = Len(r) + next - k
      /\ \A n \in 1..Len(r) + next - k :
           t[n] = IF n < next THEN r[n] ELSE IF n = next THEN y ELSE r[n + k - next]
  <2>1. r \in Seq(S) /\ next \in Nat /\ k \in Nat /\ 1 <= next /\ next <= k + 1 /\ k <= Len(r)
    BY <1>1, <1>2, <1>4, <1>6
  <2>2. Splice(r, next, y, k) \in Seq(S)
    BY ONLY <2>1, y \in S, SpliceProperties
  <2>4. Len(Splice(r, next, y, k)) = Len(r) + next - k
    BY ONLY <2>1, y \in S, SpliceProperties
  <2>3. \A n \in 1..Len(r) + next - k :
          Splice(r, next, y, k)[n] =
            IF n < next THEN r[n] ELSE IF n = next THEN y ELSE r[n + k - next]
    BY ONLY <2>1, y \in S, SpliceProperties
  <2> QED BY <1>5, <2>2, <2>3, <2>4
<1>8. Len(r) + next - k = Len(s) + 1
  <2>1. Len(r) = Len(s)
    BY <1>2
  <2>2. Len(s) + next - k = Len(s) + 1
    BY ONLY <1>1 DEF next
  <2> QED BY ONLY <2>1, <2>2
<1>9. ASSUME NEW n \in 1..Len(s) + 1
      PROVE  /\ n < k => t[n] = s[n] /\ n \in 1..Len(s)
             /\ n = k => t[n] = x
             /\ n = k + 1 => t[n] = y
             /\ k + 1 < n => t[n] = s[n - 1] /\ n - 1 \in 1..Len(s)
  <2>1. t[n] = IF n < next THEN r[n] ELSE IF n = next THEN y ELSE r[n + k - next]
    BY <1>7, <1>8
  <2>2. CASE n < k
    <3>1. n < next /\ n # k /\ n \in 1..Len(s)
      BY <1>1, <2>2 DEF next
    <3> QED BY <1>1, <1>2, <2>1, <2>2, <3>1
  <2>3. CASE n = k
    <3>1. n < next /\ n \in 1..Len(s)
      BY <1>1, <2>3 DEF next
    <3> QED BY <1>1, <1>2, <2>1, <2>3, <3>1
  <2>4. CASE n = k + 1
    BY <1>1, <2>1, <2>4 DEF next
  <2>5. CASE k + 1 < n
    <3>1. ~(n < next) /\ n # next /\ n + k - next = n - 1 /\ n - 1 \in 1..Len(s) /\ n - 1 # k
      BY <1>1, <2>5 DEF next
    <3> QED BY <1>1, <1>2, <2>1, <2>5, <3>1
  <2> QED BY <1>1, <2>2, <2>3, <2>4, <2>5
<1>10. t \in Seq(S) /\ Len(t) = Len(s) + 1
  BY <1>7, <1>8
<1> QED BY <1>5, <1>9, <1>10 DEF t, r, next
-----------------------------------------------------------------------------
(* Intervals and lists of them.                                            *)

LEMMA SpanFields ==
  ASSUME NEW v \in Span
  PROVE  /\ v.start \in Int /\ v.end \in Int /\ v.start <= v.end
         /\ v = Interval(v.start, v.end)
         /\ \A p : p \in SpanPositions(v) <=> p \in Int /\ v.start <= p /\ p <= v.end
  BY DEF Span, SpanPositions, Interval

LEMMA IntervalIsSpan ==
  ASSUME NEW x \in Int, NEW y \in Int, x <= y
  PROVE  /\ Interval(x, y) \in Span
         /\ Interval(x, y).start = x /\ Interval(x, y).end = y
         /\ \A p : p \in SpanPositions(Interval(x, y)) <=> p \in Int /\ x <= p /\ p <= y
  BY DEF Span, SpanPositions, Interval

LEMMA PositionsOf ==
  ASSUME NEW s \in Seq(Span)
  PROVE  /\ \A k \in 1..Len(s) : s[k] \in Span
         /\ \A p : p \in Positions(s) <=> \E k \in 1..Len(s) : p \in SpanPositions(s[k])
         /\ Positions(s) \subseteq Int
<1>1. DOMAIN s = 1..Len(s) /\ \A k \in 1..Len(s) : s[k] \in Span
  BY LenProperties, ElementOfSeq
<1>2. \A p : p \in Positions(s) <=> \E k \in 1..Len(s) : p \in SpanPositions(s[k])
  BY <1>1 DEF Positions, SpanPositions
<1>3. Positions(s) \subseteq Int
  BY <1>1, <1>2, SpanFields
<1> QED BY <1>1, <1>2, <1>3

LEMMA ReplaceAtPositions ==
  ASSUME NEW s \in Seq(Span), NEW x \in Span, NEW k \in 1..Len(s), NEW p
  PROVE  p \in Positions(ReplaceAt(s, k, x)) <=>
           \/ p \in SpanPositions(x)
           \/ \E n \in 1..Len(s) : n # k /\ p \in SpanPositions(s[n])
<1> DEFINE t == ReplaceAt(s, k, x)
<1>1. /\ t \in Seq(Span) /\ Len(t) = Len(s)
      /\ \A n \in 1..Len(s) : t[n] = IF n = k THEN x ELSE s[n]
  BY ReplaceAtProperties
<1> HIDE DEF t
<1>2. p \in Positions(t) <=> \E n \in 1..Len(s) : p \in SpanPositions(t[n])
  BY <1>1, PositionsOf
<1>3. p \in Positions(t) <=>
           \/ p \in SpanPositions(x)
           \/ \E n \in 1..Len(s) : n # k /\ p \in SpanPositions(s[n])
  BY <1>1, <1>2
<1> QED BY <1>3 DEF t

LEMMA RemoveAtPositions ==
  ASSUME NEW s \in Seq(Span), NEW k \in 1..Len(s), NEW p
  PROVE  p \in Positions(RemoveAt(s, k)) <=>
           \E n \in 1..Len(s) : n # k /\ p \in SpanPositions(s[n])
<1> DEFINE t == RemoveAt(s, k)
<1>1. /\ t \in Seq(Span) /\ Len(t) = Len(s) - 1
      /\ \A n \in 1..Len(s) - 1 : t[n] = IF n < k THEN s[n] ELSE s[n + 1]
  BY RemoveAtProperties
<1>2. Len(s) \in Nat
  BY LenProperties
<1> HIDE DEF t
<1>3. p \in Positions(t) <=> \E n \in 1..Len(s) - 1 : p \in SpanPositions(t[n])
  BY <1>1, PositionsOf
<1>4. ASSUME NEW n \in 1..Len(s) - 1, p \in SpanPositions(t[n])
      PROVE  \E m \in 1..Len(s) : m # k /\ p \in SpanPositions(s[m])
  BY <1>1, <1>2, <1>4
<1>5. ASSUME NEW m \in 1..Len(s), m # k, p \in SpanPositions(s[m])
      PROVE  \E n \in 1..Len(s) - 1 : p \in SpanPositions(t[n])
  <2>1. CASE m < k
    <3>1. m \in 1..Len(s) - 1 /\ t[m] = s[m]
      BY <1>1, <1>2, <2>1
    <3> QED BY <1>5, <3>1
  <2>2. CASE ~(m < k)
    <3>1. m - 1 \in 1..Len(s) - 1 /\ ~(m - 1 < k) /\ m - 1 + 1 = m
      BY <1>2, <1>5, <2>2
    <3>2. t[m - 1] = s[m]
      BY <1>1, <3>1
    <3> QED BY <1>5, <3>1, <3>2
  <2> QED BY <2>1, <2>2
<1>6. p \in Positions(t) <=> \E n \in 1..Len(s) : n # k /\ p \in SpanPositions(s[n])
  BY <1>3, <1>4, <1>5
<1> QED BY <1>6 DEF t

LEMMA SplicePositions ==
  ASSUME NEW s \in Seq(Span), NEW x \in Span, NEW k \in Nat, NEW last \in Nat,
         1 <= k, k <= last + 1, last <= Len(s), NEW p
  PROVE  p \in Positions(Splice(s, k, x, last)) <=>
           \/ p \in SpanPositions(x)
           \/ \E n \in 1..Len(s) : (n < k \/ last < n) /\ p \in SpanPositions(s[n])
<1> DEFINE t == Splice(s, k, x, last)
           len == Len(s) + k - last
<1>1. /\ t \in Seq(Span) /\ Len(t) = len
      /\ \A n \in 1..len : t[n] = IF n < k THEN s[n] ELSE IF n = k THEN x ELSE s[n + last - k]
  BY SpliceProperties
<1>2. Len(s) \in Nat /\ len \in Nat /\ k \in 1..len
  BY LenProperties
<1> HIDE DEF t
<1>3. p \in Positions(t) <=> \E n \in 1..len : p \in SpanPositions(t[n])
  BY <1>1, PositionsOf
<1>4. ASSUME NEW n \in 1..len, p \in SpanPositions(t[n])
      PROVE  \/ p \in SpanPositions(x)
             \/ \E m \in 1..Len(s) : (m < k \/ last < m) /\ p \in SpanPositions(s[m])
  <2>1. CASE n < k
    <3>1. n \in 1..Len(s) /\ t[n] = s[n]
      BY <1>1, <1>2, <2>1
    <3> QED BY <1>4, <2>1, <3>1
  <2>2. CASE n = k
    BY <1>1, <1>4, <2>2
  <2>3. CASE k < n
    <3>1. n + last - k \in 1..Len(s) /\ last < n + last - k
      BY <1>2, <2>3
    <3>2. t[n] = s[n + last - k]
      BY <1>1, <2>3
    <3> QED BY <1>4, <3>1, <3>2
  <2> QED BY <2>1, <2>2, <2>3
<1>5. ASSUME NEW m \in 1..Len(s), m < k \/ last < m, p \in SpanPositions(s[m])
      PROVE  \E n \in 1..len : p \in SpanPositions(t[n])
  <2>1. CASE m < k
    <3>1. m \in 1..len /\ t[m] = s[m]
      BY <1>1, <1>2, <2>1
    <3> QED BY <1>5, <3>1
  <2>2. CASE ~(m < k)
    <3>1. m + k - last \in 1..len /\ k < m + k - last /\ m + k - last + last - k = m
      BY <1>2, <1>5, <2>2
    <3>2. t[m + k - last] = s[m]
      BY <1>1, <3>1
    <3> QED BY <1>5, <3>1, <3>2
  <2> QED BY <2>1, <2>2
<1>6. t[k] = x
  BY <1>1, <1>2
<1>7. p \in Positions(t) <=>
           \/ p \in SpanPositions(x)
           \/ \E n \in 1..Len(s) : (n < k \/ last < n) /\ p \in SpanPositions(s[n])
  BY <1>2, <1>3, <1>4, <1>5, <1>6
<1> QED BY <1>7 DEF t

(* What holds of neighbours holds of any two.                              *)
LEMMA FromNeighbours ==
  ASSUME NEW s \in Seq(Span), NEW c \in Nat,
         \A n \in 1..Len(s) - 1 : s[n].end + c < s[n + 1].start
  PROVE  \A k, l \in 1..Len(s) : k < l => s[k].end + c < s[l].start
<1> SUFFICES ASSUME NEW k \in 1..Len(s)
             PROVE  \A l \in 1..Len(s) : k < l => s[k].end + c < s[l].start
  OBVIOUS
<1> DEFINE T == {l \in Nat : l \in 1..Len(s) /\ k < l /\ ~(s[k].end + c < s[l].start)}
<1>1. Len(s) \in Nat /\ \A n \in 1..Len(s) : s[n] \in Span
  BY LenProperties, PositionsOf
<1>2. \A n \in 1..Len(s) : s[n].start \in Int /\ s[n].end \in Int /\ s[n].start <= s[n].end
  BY <1>1, SpanFields
<1>3. CASE T = {}
  <2>1. ASSUME NEW l \in 1..Len(s), k < l PROVE s[k].end + c < s[l].start
    <3>1. l \in Nat /\ l \notin T
      BY <1>3
    <3> QED BY <2>1, <3>1
  <2> QED BY <2>1
<1>4. CASE T # {}
  <2>1. PICK m \in T : \A l \in T : ~(<<l, m>> \in OpToRel(<, Nat))
    BY <1>4, NatLessThanWellFounded, WFMin
  <2>2. m \in 1..Len(s) /\ k < m /\ ~(s[k].end + c < s[m].start)
    OBVIOUS
  <2>3. m - 1 \in 1..Len(s) - 1 /\ m - 1 + 1 = m /\ m - 1 \in 1..Len(s) /\ m - 1 \in Nat
    BY <1>1, <2>2
  <2>4. s[m - 1].end + c < s[m].start
    BY <2>3
  <2>5. m - 1 \notin T
    <3>1. ASSUME m - 1 \in T PROVE FALSE
      <4>1. <<m - 1, m>> \in OpToRel(<, Nat)
        BY <2>3 DEF OpToRel
      <4> QED BY <2>1, <3>1, <4>1
    <3> QED BY <3>1
  <2>6. ASSUME m - 1 = k PROVE FALSE
    BY <2>2, <2>4, <2>6
  <2>7. ASSUME m - 1 # k PROVE FALSE
    <3>1. k < m - 1
      BY <2>2, <2>3, <2>7
    <3>2. s[k].end + c < s[m - 1].start
      BY <2>3, <2>5, <3>1
    <3>3. /\ s[k].end \in Int /\ s[m].start \in Int
          /\ s[m - 1].start \in Int /\ s[m - 1].end \in Int /\ s[m - 1].start <= s[m - 1].end
      BY <1>2, <2>2, <2>3
    <3> HIDE DEF T
    <3>4. s[m - 1].end <= s[m - 1].end + c
      BY <3>3
    <3>5. s[k].end + c < s[m].start
      <4> DEFINE here == s[k].end
                 left == s[m - 1].start
                 right == s[m - 1].end
                 there == s[m].start
      <4>1. /\ here \in Int /\ left \in Int /\ right \in Int /\ there \in Int /\ c \in Nat
            /\ here + c < left /\ left <= right /\ right <= right + c /\ right + c < there
        BY ONLY <2>4, <3>2, <3>3, <3>4, c \in Nat
      <4> HIDE DEF here, left, right, there
      <4>2. here + c < there
        BY ONLY <4>1
      <4> QED BY ONLY <4>2 DEF here, there
    <3> QED BY <2>2, <3>5
  <2> QED BY <2>2, <2>6, <2>7
<1> HIDE DEF T
<1> QED BY <1>3, <1>4

LEMMA InOrderIsOrdered ==
  ASSUME NEW s \in Seq(Span)
  PROVE  InOrder(s) <=> Ordered(s)
<1>1. Len(s) \in Nat /\ \A n \in 1..Len(s) : s[n].start \in Int /\ s[n].end \in Int
  BY LenProperties, PositionsOf, SpanFields
<1>2. ASSUME InOrder(s) PROVE Ordered(s)
  <2>1. \A n \in 1..Len(s) - 1 : s[n].end + 0 < s[n + 1].start
    BY <1>1, <1>2 DEF InOrder, Before
  <2>2. \A k, l \in 1..Len(s) : k < l => s[k].end + 0 < s[l].start
    BY <2>1, FromNeighbours
  <2> QED BY <1>1, <2>2 DEF Ordered
<1>3. ASSUME Ordered(s) PROVE InOrder(s)
  <2>1. \A n \in 1..Len(s) - 1 : n \in 1..Len(s) /\ n + 1 \in 1..Len(s) /\ n < n + 1
    BY <1>1
  <2> QED BY <1>3, <2>1 DEF Ordered, InOrder, Before
<1> QED BY <1>2, <1>3

LEMMA RegularIsSeparate ==
  ASSUME NEW s \in Seq(Span)
  PROVE  Regular(s) <=> Separate(s)
<1>1. Len(s) \in Nat /\ \A n \in 1..Len(s) : s[n].start \in Int /\ s[n].end \in Int /\ s[n].start <= s[n].end
  BY LenProperties, PositionsOf, SpanFields
<1>2. \A n \in 1..Len(s) - 1 : n \in 1..Len(s) /\ n + 1 \in 1..Len(s) /\ n < n + 1
  BY <1>1
<1>3. ASSUME Regular(s) PROVE Separate(s)
  <2>1. \A n \in 1..Len(s) - 1 : s[n].end + 2 < s[n + 1].start
    BY <1>1, <1>2, <1>3 DEF Regular, InOrder, Before, Contiguous
  <2>2. \A k, l \in 1..Len(s) : k < l => s[k].end + 2 < s[l].start
    BY <2>1, FromNeighbours
  <2> QED BY <2>2 DEF Separate
<1>4. ASSUME Separate(s) PROVE Regular(s)
  BY <1>1, <1>2, <1>4 DEF Separate, Regular, InOrder, Before, Contiguous
<1> QED BY <1>3, <1>4

LEMMA SplitPositions ==
  ASSUME NEW s \in Seq(Span), NEW x \in Span, NEW y \in Span, NEW k \in 1..Len(s), NEW p
  PROVE  p \in Positions(Split(s, k, x, y)) <=>
           \/ p \in SpanPositions(x) \/ p \in SpanPositions(y)
           \/ \E n \in 1..Len(s) : n # k /\ p \in SpanPositions(s[n])
<1> DEFINE t == Split(s, k, x, y)
<1>1. Len(s) \in Nat /\ k \in Nat /\ 1 <= k /\ k <= Len(s)
  BY LenProperties
<1>2. /\ t \in Seq(Span) /\ Len(t) = Len(s) + 1
      /\ \A n \in 1..Len(s) + 1 : /\ n < k => t[n] = s[n] /\ n \in 1..Len(s)
                                  /\ n = k => t[n] = x
                                  /\ n = k + 1 => t[n] = y
                                  /\ k + 1 < n => t[n] = s[n - 1] /\ n - 1 \in 1..Len(s)
  <2>1. t \in Seq(Span)
    BY SplitIsSplice
  <2>2. Len(t) = Len(s) + 1
    BY SplitIsSplice
  <2>3. \A n \in 1..Len(s) + 1 : /\ n < k => t[n] = s[n] /\ n \in 1..Len(s)
                                 /\ n = k => t[n] = x
                                 /\ n = k + 1 => t[n] = y
                                 /\ k + 1 < n => t[n] = s[n - 1] /\ n - 1 \in 1..Len(s)
    BY SplitIsSplice
  <2> QED BY ONLY <2>1, <2>2, <2>3
<1> HIDE DEF t
<1>3. p \in Positions(t) <=> \E n \in 1..Len(s) + 1 : p \in SpanPositions(t[n])
  BY <1>2, PositionsOf
<1>4. ASSUME NEW n \in 1..Len(s) + 1, p \in SpanPositions(t[n])
      PROVE  \/ p \in SpanPositions(x) \/ p \in SpanPositions(y)
             \/ \E m \in 1..Len(s) : m # k /\ p \in SpanPositions(s[m])
  <2>1. CASE n < k
    BY <1>1, <1>2, <1>4, <2>1
  <2>2. CASE n = k \/ n = k + 1
    BY <1>2, <1>4, <2>2
  <2>3. CASE k + 1 < n
    <3>1. t[n] = s[n - 1] /\ n - 1 \in 1..Len(s) /\ n - 1 # k
      BY <1>1, <1>2, <2>3
    <3> QED BY <1>4, <3>1
  <2> QED BY <1>1, <2>1, <2>2, <2>3
<1>5. ASSUME NEW m \in 1..Len(s), m # k, p \in SpanPositions(s[m])
      PROVE  \E n \in 1..Len(s) + 1 : p \in SpanPositions(t[n])
  <2>1. CASE m < k
    <3>1. m \in 1..Len(s) + 1 /\ t[m] = s[m]
      BY <1>1, <1>2, <2>1
    <3> QED BY <1>5, <3>1
  <2>2. CASE k < m
    <3>1. m + 1 \in 1..Len(s) + 1 /\ k + 1 < m + 1 /\ m + 1 - 1 = m
      BY <1>1, <2>2
    <3>2. t[m + 1] = s[m]
      BY <1>2, <3>1
    <3> QED BY <1>5, <3>1, <3>2
  <2> QED BY <1>1, <1>5, <2>1, <2>2
<1>6. k \in 1..Len(s) + 1 /\ k + 1 \in 1..Len(s) + 1
  BY <1>1
<1>7. t[k] = x /\ t[k + 1] = y
  BY <1>2, <1>6
<1>8. p \in Positions(t) <=>
           \/ p \in SpanPositions(x) \/ p \in SpanPositions(y)
           \/ \E n \in 1..Len(s) : n # k /\ p \in SpanPositions(s[n])
  BY <1>3, <1>4, <1>5, <1>6, <1>7
<1> QED BY <1>8 DEF t
-----------------------------------------------------------------------------
(* intervalSubtract: an iteration takes only positions of *iterB from a.   *)

LEMMA StartIsReplaced ==
  ASSUME NEW s \in Seq(Span), NEW k \in 1..Len(s), NEW x
  PROVE  [s EXCEPT ![k].start = x] = ReplaceAt(s, k, Interval(x, s[k].end))
<1>1. [s[k] EXCEPT !.start = x] = Interval(x, s[k].end)
  BY PositionsOf DEF Interval, Span
<1> QED BY <1>1 DEF ReplaceAt

LEMMA EndIsReplaced ==
  ASSUME NEW s \in Seq(Span), NEW k \in 1..Len(s), NEW x
  PROVE  [s EXCEPT ![k].end = x] = ReplaceAt(s, k, Interval(s[k].start, x))
<1>1. [s[k] EXCEPT !.end = x] = Interval(s[k].start, x)
  BY PositionsOf DEF Interval, Span
<1> QED BY <1>1 DEF ReplaceAt

LEMMA SubtractStepKeeps ==
  ASSUME a \in Seq(Span), i \in Nat, 1 <= i, i <= Len(a), j \in Nat, 1 <= j,
         NEW v \in Span, SubtractStep(a[i], v)
  PROVE  /\ a' \in Seq(Span)
         /\ i' \in Nat \ {0} /\ j' \in Nat \ {0}
         /\ Positions(a') \subseteq Positions(a)
         /\ Positions(a) \ SpanPositions(v) \subseteq Positions(a')
<1> DEFINE u == a[i]
<1>1. i \in 1..Len(a) /\ Len(a) \in Nat /\ u \in Span
  BY LenProperties, PositionsOf
<1>2. /\ u.start \in Int /\ u.end \in Int /\ u.start <= u.end
      /\ \A p : p \in SpanPositions(u) <=> p \in Int /\ u.start <= p /\ p <= u.end
  BY <1>1, SpanFields
<1>3. /\ v.start \in Int /\ v.end \in Int /\ v.start <= v.end
      /\ \A p : p \in SpanPositions(v) <=> p \in Int /\ v.start <= p /\ p <= v.end
  BY SpanFields
<1>4. \A p : p \in Positions(a) <=> \/ p \in SpanPositions(u)
                                    \/ \E n \in 1..Len(a) : n # i /\ p \in SpanPositions(a[n])
  BY <1>1, PositionsOf
<1> HIDE DEF u
<1>5. CASE UNCHANGED a /\ i' \in Nat \ {0} /\ j' \in Nat \ {0}
  BY <1>5
<1>6. ASSUME ~Before(u, v), ~After(u, v), u.start >= v.start, u.end > v.end,
             a' = [a EXCEPT ![i].start = v.end + 1], j' = j + 1, i' = i
      PROVE  /\ a' \in Seq(Span)
             /\ Positions(a') \subseteq Positions(a)
             /\ Positions(a) \ SpanPositions(v) \subseteq Positions(a')
  <2> DEFINE w == Interval(v.end + 1, u.end)
  <2>1. /\ w \in Span
        /\ \A p : p \in SpanPositions(w) <=> p \in Int /\ v.end + 1 <= p /\ p <= u.end
    <3>1. v.end + 1 \in Int /\ u.end \in Int /\ v.end + 1 <= u.end
      BY <1>2, <1>3, <1>6
    <3> QED BY <3>1, IntervalIsSpan
  <2>2. a' = ReplaceAt(a, i, w)
    <3>1. [a EXCEPT ![i].start = v.end + 1] = ReplaceAt(a, i, Interval(v.end + 1, a[i].end))
      BY <1>1, StartIsReplaced
    <3> QED BY <1>6, <3>1 DEF u
  <2> HIDE DEF w
  <2>3. a' \in Seq(Span)
    BY <1>1, <2>1, <2>2, ReplaceAtProperties
  <2>4. \A p : p \in Positions(a') <=> \/ p \in SpanPositions(w)
                                       \/ \E n \in 1..Len(a) : n # i /\ p \in SpanPositions(a[n])
    BY <1>1, <2>1, <2>2, ReplaceAtPositions
  <2>5. \A p : p \in SpanPositions(w) => p \in SpanPositions(u)
    BY <1>2, <1>3, <1>6, <2>1 DEF After
  <2>6. \A p : p \in SpanPositions(u) /\ p \notin SpanPositions(v) => p \in SpanPositions(w)
    BY <1>2, <1>3, <1>6, <2>1
  <2> QED BY <1>4, <2>3, <2>4, <2>5, <2>6
<1>7. ASSUME ~Before(u, v), ~After(u, v), u.start < v.start, u.end <= v.end,
             a' = [a EXCEPT ![i].end = v.start - 1], j' = j, i' = i + 1
      PROVE  /\ a' \in Seq(Span)
             /\ Positions(a') \subseteq Positions(a)
             /\ Positions(a) \ SpanPositions(v) \subseteq Positions(a')
  <2> DEFINE w == Interval(u.start, v.start - 1)
  <2>1. /\ w \in Span
        /\ \A p : p \in SpanPositions(w) <=> p \in Int /\ u.start <= p /\ p <= v.start - 1
    <3>1. u.start \in Int /\ v.start - 1 \in Int /\ u.start <= v.start - 1
      BY <1>2, <1>3, <1>7
    <3> QED BY <3>1, IntervalIsSpan
  <2>2. a' = ReplaceAt(a, i, w)
    <3>1. [a EXCEPT ![i].end = v.start - 1] = ReplaceAt(a, i, Interval(a[i].start, v.start - 1))
      <4>1. \A x : [a EXCEPT ![i].end = x] = ReplaceAt(a, i, Interval(a[i].start, x))
        BY <1>1, EndIsReplaced
      <4> QED BY ONLY <4>1
    <3> QED BY <1>7, <3>1 DEF u
  <2> HIDE DEF w
  <2>3. a' \in Seq(Span)
    BY <1>1, <2>1, <2>2, ReplaceAtProperties
  <2>4. \A p : p \in Positions(a') <=> \/ p \in SpanPositions(w)
                                       \/ \E n \in 1..Len(a) : n # i /\ p \in SpanPositions(a[n])
    BY <1>1, <2>1, <2>2, ReplaceAtPositions
  <2>5. \A p : p \in SpanPositions(w) => p \in SpanPositions(u)
    BY <1>2, <1>3, <1>7, <2>1 DEF Before
  <2>6. \A p : p \in SpanPositions(u) /\ p \notin SpanPositions(v) => p \in SpanPositions(w)
    BY <1>2, <1>3, <1>7, <2>1
  <2> QED BY <1>4, <2>3, <2>4, <2>5, <2>6
<1>8. ASSUME u.start < v.start, u.end > v.end,
             a' = InsertAt(ReplaceAt(a, i, Interval(u.start, v.start - 1)),
                           i, Interval(v.end + 1, u.end))
      PROVE  /\ a' \in Seq(Span)
             /\ Positions(a') \subseteq Positions(a)
             /\ Positions(a) \ SpanPositions(v) \subseteq Positions(a')
  <2> DEFINE lower == Interval(u.start, v.start - 1)
             upper == Interval(v.end + 1, u.end)
             s == ReplaceAt(a, i, lower)
  <2>1. /\ lower \in Span
        /\ \A p : p \in SpanPositions(lower) <=> p \in Int /\ u.start <= p /\ p <= v.start - 1
    <3>1. u.start \in Int /\ v.start - 1 \in Int /\ u.start <= v.start - 1
      BY <1>2, <1>3, <1>8
    <3> QED BY <3>1, IntervalIsSpan
  <2>2. /\ upper \in Span
        /\ \A p : p \in SpanPositions(upper) <=> p \in Int /\ v.end + 1 <= p /\ p <= u.end
    <3>1. v.end + 1 \in Int /\ u.end \in Int /\ v.end + 1 <= u.end
      BY <1>2, <1>3, <1>8
    <3> QED BY <3>1, IntervalIsSpan
  <2>3. a' = InsertAt(s, i, upper)
    BY <1>8
  <2> HIDE DEF lower, upper
  <2>4. s \in Seq(Span) /\ Len(s) = Len(a) /\ \A n \in 1..Len(a) : s[n] = IF n = i THEN lower ELSE a[n]
    <3>1. a \in Seq(Span) /\ i \in 1..Len(a) /\ lower \in Span
      BY <1>1, <2>1
    <3>2. s \in Seq(Span)
      BY ONLY <3>1, ReplaceAtProperties
    <3>3. Len(s) = Len(a)
      BY ONLY <3>1, ReplaceAtProperties
    <3>4. \A n \in 1..Len(a) : s[n] = IF n = i THEN lower ELSE a[n]
      BY ONLY <3>1, ReplaceAtProperties
    <3> QED BY ONLY <3>2, <3>3, <3>4
  <2>5. i \in 1..Len(s) + 1 /\ i - 1 \in Nat /\ i <= i - 1 + 1 /\ i - 1 <= Len(s)
    BY <1>1, <2>4
  <2>6. a' = Splice(s, i, upper, i - 1)
    BY <2>2, <2>3, <2>4, <2>5, InsertAtIsSplice
  <2> HIDE DEF s
  <2>7. a' \in Seq(Span)
    BY <2>2, <2>4, <2>5, <2>6, SpliceProperties
  <2>8. \A p : p \in Positions(a') <=>
           \/ p \in SpanPositions(upper)
           \/ \E n \in 1..Len(s) : (n < i \/ i - 1 < n) /\ p \in SpanPositions(s[n])
    BY <2>2, <2>4, <2>5, <2>6, SplicePositions
  <2>9. \A n \in 1..Len(s) : n < i \/ i - 1 < n
    BY <1>1, <2>4
  <2>10. \A p : p \in Positions(a') <=>
           \/ p \in SpanPositions(upper) \/ p \in SpanPositions(lower)
           \/ \E n \in 1..Len(a) : n # i /\ p \in SpanPositions(a[n])
    BY <1>1, <2>4, <2>8, <2>9
  <2>11. \A p : p \in SpanPositions(lower) \/ p \in SpanPositions(upper) => p \in SpanPositions(u)
    BY <1>2, <1>3, <1>8, <2>1, <2>2
  <2>12. \A p : p \in SpanPositions(u) /\ p \notin SpanPositions(v) =>
                  p \in SpanPositions(lower) \/ p \in SpanPositions(upper)
    BY <1>2, <1>3, <1>8, <2>1, <2>2
  <2> QED BY <1>4, <2>7, <2>10, <2>11, <2>12
<1>9. ASSUME u.start >= v.start, u.end <= v.end, a' = RemoveAt(a, i)
      PROVE  /\ a' \in Seq(Span)
             /\ Positions(a') \subseteq Positions(a)
             /\ Positions(a) \ SpanPositions(v) \subseteq Positions(a')
  <2>1. a' \in Seq(Span)
    BY <1>1, <1>9, RemoveAtProperties
  <2>2. \A p : p \in Positions(a') <=> \E n \in 1..Len(a) : n # i /\ p \in SpanPositions(a[n])
    BY <1>1, <1>9, RemoveAtPositions
  <2>3. \A p : p \in SpanPositions(u) => p \in SpanPositions(v)
    BY <1>2, <1>3, <1>9
  <2> QED BY <1>4, <2>1, <2>2, <2>3
<1>10. i + 1 \in Nat \ {0} /\ j + 1 \in Nat \ {0} /\ i \in Nat \ {0} /\ j \in Nat \ {0}
  OBVIOUS
<1> QED
  BY <1>5, <1>6, <1>7, <1>8, <1>9, <1>10 DEF SubtractStep, u
-----------------------------------------------------------------------------
(* intervalIntersect.                                                      *)

LEMMA MinMaxOfTwo ==
  ASSUME NEW x \in Int, NEW y \in Int
  PROVE  /\ Min({x, y}) = IF x <= y THEN x ELSE y
         /\ Max({x, y}) = IF x >= y THEN x ELSE y
  BY DEF Min, Max

\* What the proofs below use of the lists and the iterators.
LoopContext ==
    /\ a \in Seq(Span) /\ b \in Seq(Span) /\ before \in Seq(Span)
    /\ Separate(b)
    /\ i \in Nat \ {0} /\ j \in Nat \ {0}

LEMMA SeparateIsOrdered ==
  ASSUME NEW s \in Seq(Span), Separate(s)
  PROVE  Ordered(s)
<1>1. \A k \in 1..Len(s) : s[k].start \in Int /\ s[k].end \in Int
  BY PositionsOf, SpanFields
<1> QED BY <1>1 DEF Separate, Ordered

\* Nothing of b reaches into a position of *iterA that is below iterB.
LEMMA BelowIterB ==
  ASSUME LoopContext, i <= Len(a), NEW p \in Positions(b),
         \A m \in 1..Len(b) : m < j => b[m].end < a[i].start,
         a[i].start <= p, j <= Len(b) => p < b[j].start
  PROVE  FALSE
<1>1. /\ \A m \in 1..Len(b) : /\ b[m].start \in Int /\ b[m].end \in Int /\ b[m].start <= b[m].end
                              /\ \A q : q \in SpanPositions(b[m]) <=> q \in Int /\ b[m].start <= q /\ q <= b[m].end
      /\ Len(b) \in Nat
  BY PositionsOf, SpanFields, LenProperties DEF LoopContext
<1>2. PICK m \in 1..Len(b) : p \in SpanPositions(b[m])
  BY PositionsOf DEF LoopContext
<1>3. p \in Int /\ b[m].start <= p /\ p <= b[m].end
  BY <1>1, <1>2
<1>4. a[i].start \in Int
  BY PositionsOf, SpanFields, LenProperties DEF LoopContext
<1>5. ~(m < j)
  BY <1>1, <1>3, <1>4
<1>6. j \in 1..Len(b) /\ j <= m
  BY <1>1, <1>5 DEF LoopContext
<1>7. b[j].start <= b[m].start
  <2>1. CASE j = m
    BY <1>1, <2>1
  <2>2. CASE j < m
    <3>1. b[j].end + 2 < b[m].start
      BY <1>6, <2>2 DEF LoopContext, Separate
    <3>2. b[j].start <= b[j].end /\ b[j].start \in Int /\ b[j].end \in Int /\ b[m].start \in Int
      BY <1>1, <1>6
    <3> QED BY <3>1, <3>2
  <2> QED BY <1>6, <2>1, <2>2 DEF LoopContext
<1> QED BY <1>1, <1>3, <1>6, <1>7

LEMMA IntersectErases ==
  ASSUME LoopContext, i <= Len(a), IntersectKept(a, i, j), j <= Len(b) => Before(a[i], b[j])
  PROVE  RemoveAt(a, i) \in Seq(Span) /\ IntersectKept(RemoveAt(a, i), i, j)
<1> DEFINE t == RemoveAt(a, i)
<1>1. i \in 1..Len(a) /\ Len(a) \in Nat
  BY LenProperties DEF LoopContext
<1>2. /\ t \in Seq(Span) /\ Len(t) = Len(a) - 1
      /\ \A n \in 1..Len(a) - 1 : t[n] = IF n < i THEN a[n] ELSE a[n + 1]
  BY <1>1, RemoveAtProperties DEF LoopContext
<1>3. \A p : p \in Positions(t) <=> \E n \in 1..Len(a) : n # i /\ p \in SpanPositions(a[n])
  BY <1>1, RemoveAtPositions DEF LoopContext
<1>4. \A p : p \in Positions(a) <=> \E n \in 1..Len(a) : p \in SpanPositions(a[n])
  BY PositionsOf DEF LoopContext
<1> HIDE DEF t
<1>5. Ordered(t)
  <2>1. ASSUME NEW k \in 1..Len(a) - 1, NEW l \in 1..Len(a) - 1, k < l
        PROVE  t[k].end < t[l].start
    <3>1. t[k] = a[k] \/ (t[k] = a[k + 1] /\ ~(k < i))
      BY <1>2
    <3>2. (t[l] = a[l] /\ l < i) \/ t[l] = a[l + 1]
      BY <1>2
    <3>3. /\ k \in 1..Len(a) /\ k + 1 \in 1..Len(a) /\ l \in 1..Len(a) /\ l + 1 \in 1..Len(a)
          /\ k < l /\ k < l + 1 /\ k + 1 < l + 1
      BY <1>1, <2>1
    <3>4. ~(l < i /\ ~(k < i))
      BY <1>1, <2>1
    <3> QED BY <3>1, <3>2, <3>3, <3>4 DEF IntersectKept, Ordered
  <2> QED BY <1>2, <2>1 DEF Ordered
<1>6. \A k \in 1..Len(t) : k < i => SpanPositions(t[k]) \subseteq Positions(before) \cap Positions(b)
  <2>1. \A k \in 1..Len(t) : k < i => t[k] = a[k] /\ k \in 1..Len(a)
    BY <1>1, <1>2
  <2> QED BY <2>1 DEF IntersectKept
<1>7. Positions(t) \subseteq Positions(before)
  BY <1>3, <1>4 DEF IntersectKept
<1>8. ASSUME NEW p \in Positions(before) \cap Positions(b)
      PROVE  p \in Positions(t)
  <2>1. PICK n \in 1..Len(a) : p \in SpanPositions(a[n])
    BY <1>4 DEF IntersectKept
  <2>2. ASSUME n = i PROVE FALSE
    <3>1. /\ a[i] \in Span /\ p \in Int /\ a[i].start <= p /\ p <= a[i].end
          /\ a[i].end \in Int
      BY <1>1, <2>1, <2>2, PositionsOf, SpanFields DEF LoopContext
    <3>2. \A m \in 1..Len(b) : m < j => b[m].end < a[i].start
      BY <1>1 DEF IntersectKept
    <3>3. ASSUME j <= Len(b) PROVE p < b[j].start
      <4>1. a[i].end < b[j].start
        BY <3>3 DEF Before
      <4>2. b[j].start \in Int
        BY <3>3, PositionsOf, SpanFields, LenProperties DEF LoopContext
      <4> QED BY <3>1, <4>1, <4>2
    <3> QED BY <3>1, <3>2, <3>3, BelowIterB
  <2> QED BY <1>3, <2>1, <2>2
<1>9. \A k \in 1..Len(t), l \in 1..Len(b) : i <= k /\ l < j => b[l].end < t[k].start
  <2>1. \A k \in 1..Len(t) : i <= k => t[k] = a[k + 1] /\ k + 1 \in 1..Len(a) /\ i <= k + 1
    BY <1>1, <1>2
  <2> QED BY <2>1 DEF IntersectKept
<1> QED BY <1>2, <1>5, <1>6, <1>7, <1>8, <1>9 DEF IntersectKept, t

LEMMA IntersectPasses ==
  ASSUME LoopContext, i <= Len(a), j <= Len(b), IntersectKept(a, i, j), After(a[i], b[j])
  PROVE  IntersectKept(a, i, j + 1)
<1>1. i \in 1..Len(a) /\ j \in 1..Len(b) /\ Len(a) \in Nat /\ Len(b) \in Nat
  BY LenProperties DEF LoopContext
<1>2. ASSUME NEW k \in 1..Len(a), NEW l \in 1..Len(b), i <= k, l < j + 1
      PROVE  b[l].end < a[k].start
  <2>1. CASE l < j
    BY <1>2, <2>1 DEF IntersectKept
  <2>2. CASE l = j
    <3>1. /\ a[i].start \in Int /\ a[i].end \in Int /\ a[i].start <= a[i].end
          /\ a[k].start \in Int /\ b[j].end \in Int
      BY <1>1, PositionsOf, SpanFields DEF LoopContext
    <3>2. b[j].end < a[i].start
      BY <3>1 DEF After
    <3>3. CASE k = i
      BY <2>2, <3>2, <3>3
    <3>4. CASE i < k
      <4>1. a[i].end < a[k].start
        BY <1>1, <3>4 DEF IntersectKept, Ordered
      <4> QED BY <2>2, <3>1, <3>2, <4>1
    <3> QED BY <1>1, <1>2, <3>3, <3>4
  <2> QED BY <1>1, <1>2, <2>1, <2>2
<1> QED BY <1>2 DEF IntersectKept

\* What the clip of *iterA leaves of it is the part in *iterB, and the rest above.
LEMMA IntersectClips ==
  ASSUME LoopContext, i <= Len(a), j <= Len(b), IntersectKept(a, i, j),
         ~Before(a[i], b[j]), ~After(a[i], b[j]), Clip(a[i], b[j])
  PROVE  /\ a' \in Seq(Span) /\ i' \in Nat \ {0} /\ j' \in Nat \ {0}
         /\ IntersectKept(a', i', j')
<1> DEFINE u == a[i]
           v == b[j]
           from == Max({u.start, v.start})
           to == Min({u.end, v.end})
           clipped == Interval(from, to)
<1>1. /\ i \in 1..Len(a) /\ j \in 1..Len(b) /\ Len(a) \in Nat /\ Len(b) \in Nat
      /\ a \in Seq(Span) /\ b \in Seq(Span)
  BY LenProperties DEF LoopContext
<1>2. /\ u \in Span /\ u.start \in Int /\ u.end \in Int /\ u.start <= u.end
      /\ \A p : p \in SpanPositions(u) <=> p \in Int /\ u.start <= p /\ p <= u.end
  BY <1>1, PositionsOf, SpanFields
<1>3. /\ v \in Span /\ v.start \in Int /\ v.end \in Int /\ v.start <= v.end
      /\ \A p : p \in SpanPositions(v) <=> p \in Int /\ v.start <= p /\ p <= v.end
  BY <1>1, PositionsOf, SpanFields
<1>4. /\ from = IF u.start >= v.start THEN u.start ELSE v.start
      /\ to = IF u.end <= v.end THEN u.end ELSE v.end
  BY <1>2, <1>3, MinMaxOfTwo
<1>5. u.start <= v.end /\ v.start <= u.end
  BY <1>2, <1>3 DEF Before, After
<1>6. \A n \in 1..Len(a) : a[n].start \in Int /\ a[n].end \in Int /\ a[n].start <= a[n].end
  BY <1>1, PositionsOf, SpanFields
<1>7. \A p : p \in Positions(a) <=> \/ p \in SpanPositions(u)
                                    \/ \E n \in 1..Len(a) : n # i /\ p \in SpanPositions(a[n])
  BY <1>1, PositionsOf
<1>8. SpanPositions(v) \subseteq Positions(b) /\ SpanPositions(u) \subseteq Positions(before)
  <2>1. SpanPositions(u) \subseteq Positions(a)
    BY <1>7
  <2> QED BY <1>1, <2>1, PositionsOf DEF IntersectKept
<1>9. /\ \A n \in 1..Len(a) : n < i => a[n].end < u.start
      /\ \A n \in 1..Len(a) : i < n => u.end < a[n].start
      /\ \A m, n \in 1..Len(a) : m < n => a[m].end < a[n].start
  BY <1>1 DEF IntersectKept, Ordered
<1>10. ASSUME NEW p \in Positions(before) \cap Positions(b), p \in SpanPositions(u)
       PROVE  v.start <= p
  <2>1. p \in Int /\ a[i].start <= p
    BY <1>2, <1>10
  <2>2. \A m \in 1..Len(b) : m < j => b[m].end < a[i].start
    BY <1>1 DEF IntersectKept
  <2>3. i <= Len(a) /\ p \in Positions(b)
    OBVIOUS
  <2>4. ASSUME p < v.start PROVE FALSE
    BY <2>1, <2>2, <2>3, <2>4, BelowIterB
  <2> HIDE DEF v
  <2> QED BY <1>3, <2>1, <2>4
<1>11. \A l \in 1..Len(b) : l < j => b[l].end < v.start
  <2>1. Ordered(b)
    BY SeparateIsOrdered DEF LoopContext
  <2> QED BY <1>1, <2>1 DEF Ordered
<1>12. \A l \in 1..Len(b) : b[l].end \in Int
  BY <1>1, PositionsOf, SpanFields
<1> HIDE DEF u, v, from, to
<1>13. /\ clipped \in Span /\ clipped.start = from /\ clipped.end = to
       /\ \A p : p \in SpanPositions(clipped) <=> p \in Int /\ from <= p /\ p <= to
  <2>1. from \in Int /\ to \in Int /\ from <= to
    BY <1>2, <1>3, <1>4, <1>5
  <2> QED BY <2>1, IntervalIsSpan
<1> HIDE DEF clipped
<1>14. \A p \in SpanPositions(clipped) : p \in SpanPositions(u) /\ p \in SpanPositions(v)
  BY <1>2, <1>3, <1>4, <1>13
<1>15. u.start <= from /\ to <= u.end /\ from <= to /\ from \in Int /\ to \in Int
  BY <1>2, <1>3, <1>4, <1>5
<1>16. CASE u.end > v.end
  <2> DEFINE rest == Interval(v.end + 1, u.end)
             t == Split(a, i, clipped, rest)
             len == Len(a) + 1
  <2>1. /\ rest \in Span /\ rest.start = v.end + 1 /\ rest.end = u.end
        /\ \A p : p \in SpanPositions(rest) <=> p \in Int /\ v.end + 1 <= p /\ p <= u.end
    <3>1. v.end + 1 \in Int /\ u.end \in Int /\ v.end + 1 <= u.end
      BY <1>2, <1>3, <1>16
    <3> QED BY <3>1, IntervalIsSpan
  <2>2. a' = t /\ i' = i + 1 /\ j' = j + 1
    BY <1>16 DEF Clip, Split, u, v, from, to, clipped
  <2> HIDE DEF rest
  <2>3. /\ t \in Seq(Span) /\ Len(t) = len
        /\ \A n \in 1..len : /\ n < i => t[n] = a[n] /\ n \in 1..Len(a)
                             /\ n = i => t[n] = clipped
                             /\ n = i + 1 => t[n] = rest
                             /\ i + 1 < n => t[n] = a[n - 1] /\ n - 1 \in 1..Len(a)
    BY <1>1, <1>13, <2>1, SplitIsSplice
  <2>4. \A p : p \in Positions(t) <=> \/ p \in SpanPositions(clipped) \/ p \in SpanPositions(rest)
                                      \/ \E n \in 1..Len(a) : n # i /\ p \in SpanPositions(a[n])
    BY <1>1, <1>13, <2>1, SplitPositions
  <2> HIDE DEF t
  <2>5. \A n \in 1..len : t[n].start \in Int /\ t[n].end \in Int
    BY <2>3, PositionsOf, SpanFields
  <2>7. Ordered(t)
    <3>1. ASSUME NEW k \in 1..len, NEW l \in 1..len, k < l
          PROVE  t[k].end < t[l].start
      <4>1. CASE k < i
        <5>1. t[k] = a[k] /\ k \in 1..Len(a) /\ a[k].end \in Int /\ a[k].end < u.start
          BY <1>1, <1>6, <1>9, <2>3, <4>1
        <5>2. CASE l < i
          BY <1>1, <1>9, <2>3, <3>1, <5>1, <5>2
        <5>3. CASE l = i
          <6>1. t[l].start = from
            BY <1>1, <1>13, <2>3, <5>3
          <6> QED BY <1>2, <1>15, <5>1, <6>1
        <5>5. CASE l = i + 1
          <6>1. t[l].start = v.end + 1
            BY <1>1, <2>1, <2>3, <5>5
          <6> QED BY <1>2, <1>3, <1>5, <5>1, <6>1
        <5>4. CASE i + 1 < l
          <6>1. t[l] = a[l - 1] /\ l - 1 \in 1..Len(a) /\ k < l - 1
            <7>1. k < l - 1
              BY <1>1, <4>1, <5>4
            <7> QED BY <2>3, <5>4, <7>1
          <6> QED BY <1>9, <5>1, <6>1
        <5> QED BY <1>1, <5>2, <5>3, <5>4, <5>5
      <4>2. CASE k = i
        <5>1. t[k].end = to
          BY <1>1, <1>13, <2>3, <4>2
        <5>2. CASE l = i + 1
          <6>1. t[l].start = v.end + 1
            BY <1>1, <2>1, <2>3, <5>2
          <6> QED BY <1>2, <1>3, <1>4, <5>1, <6>1
        <5>3. CASE i + 1 < l
          <6>1. t[l] = a[l - 1] /\ l - 1 \in 1..Len(a) /\ i < l - 1
            <7>1. i < l - 1
              BY <1>1, <5>3
            <7> QED BY <2>3, <5>3, <7>1
          <6> QED BY <1>2, <1>6, <1>9, <1>15, <5>1, <6>1
        <5> QED BY <1>1, <3>1, <4>2, <5>2, <5>3
      <4>3. CASE i < k
        <5>1. t[l] = a[l - 1] /\ l - 1 \in 1..Len(a) /\ i < l - 1
          <6>1. i < l - 1 /\ i + 1 < l
            BY <1>1, <3>1, <4>3
          <6> QED BY <2>3, <6>1
        <5>2. CASE k = i + 1
          <6>1. t[k].end = u.end
            BY <1>1, <2>1, <2>3, <5>2
          <6> QED BY <1>9, <5>1, <6>1
        <5>3. CASE i + 1 < k
          <6>1. t[k] = a[k - 1] /\ k - 1 \in 1..Len(a) /\ k - 1 < l - 1
            <7>1. k - 1 < l - 1
              BY <1>1, <3>1
            <7> QED BY <2>3, <5>3, <7>1
          <6> QED BY <1>9, <5>1, <6>1
        <5> QED BY <1>1, <4>3, <5>2, <5>3
      <4> QED BY <1>1, <4>1, <4>2, <4>3
    <3> QED BY <2>3, <3>1 DEF Ordered
  <2>8. \A k \in 1..len : k < i + 1 => SpanPositions(t[k]) \subseteq Positions(before) \cap Positions(b)
    <3>1. SpanPositions(clipped) \subseteq Positions(before) \cap Positions(b)
      BY <1>8, <1>14
    <3>2. \A k \in 1..len : k < i + 1 => t[k] = clipped \/ (t[k] = a[k] /\ k \in 1..Len(a) /\ k < i)
      BY <1>1, <2>3
    <3> QED BY <3>1, <3>2 DEF IntersectKept
  <2>9. Positions(t) \subseteq Positions(a)
    <3>1. \A p \in SpanPositions(rest) : p \in SpanPositions(u)
      BY <1>2, <1>3, <1>5, <2>1
    <3> QED BY <1>7, <1>14, <2>4, <3>1
  <2>10. ASSUME NEW p \in Positions(before) \cap Positions(b)
         PROVE  p \in Positions(t)
    <3>1. p \in Positions(a)
      BY DEF IntersectKept
    <3>2. CASE p \in SpanPositions(u)
      <4>1. p \in SpanPositions(clipped) \/ p \in SpanPositions(rest)
        BY <1>2, <1>3, <1>4, <1>10, <1>13, <2>1, <3>2
      <4> QED BY <2>4, <4>1
    <3>3. CASE p \notin SpanPositions(u)
      BY <1>7, <2>4, <3>1, <3>3
    <3> QED BY <3>2, <3>3
  <2>11. ASSUME NEW k \in 1..len, NEW l \in 1..Len(b), i + 1 <= k, l < j + 1
         PROVE  b[l].end < t[k].start
    <3>1. b[l].end <= v.end /\ b[l].end \in Int
      <4>1. CASE l = j
        BY <1>3, <4>1 DEF v
      <4>2. CASE l < j
        BY <1>3, <1>11, <1>12, <4>2
      <4> QED BY <1>1, <2>11, <4>1, <4>2
    <3>2. CASE k = i + 1
      <4>1. t[k].start = v.end + 1
        BY <1>1, <2>1, <2>3, <3>2
      <4> QED BY <1>3, <3>1, <4>1
    <3>3. CASE i + 1 < k
      <4>1. t[k] = a[k - 1] /\ k - 1 \in 1..Len(a) /\ i < k - 1
        <5>1. k \in Int /\ i \in Int /\ i < k - 1
          BY <1>1, <3>3
        <5> QED BY <2>3, <3>3, <5>1
      <4>2. u.end < t[k].start /\ t[k].start \in Int
        BY <1>6, <1>9, <4>1
      <4> QED BY <1>2, <1>3, <1>16, <3>1, <4>2
    <3> QED BY <1>1, <2>11, <3>2, <3>3
  <2>12. IntersectKept(t, i + 1, j + 1)
    BY <2>3, <2>7, <2>8, <2>9, <2>10, <2>11 DEF IntersectKept
  <2> QED BY <1>1, <2>2, <2>3, <2>12
<1>17. CASE ~(u.end > v.end)
  <2> DEFINE t == ReplaceAt(a, i, clipped)
  <2>1. a' = t /\ i' = i + 1 /\ j' = j
    BY <1>17 DEF Clip, u, v, from, to, clipped
  <2>2. t \in Seq(Span) /\ Len(t) = Len(a) /\ \A n \in 1..Len(a) : t[n] = IF n = i THEN clipped ELSE a[n]
    BY <1>1, <1>13, ReplaceAtProperties
  <2>3. \A p : p \in Positions(t) <=> \/ p \in SpanPositions(clipped)
                                      \/ \E n \in 1..Len(a) : n # i /\ p \in SpanPositions(a[n])
    BY <1>1, <1>13, ReplaceAtPositions
  <2> HIDE DEF t
  <2>4. Ordered(t)
    <3>1. \A n \in 1..Len(a) : /\ a[n].start <= t[n].start /\ t[n].end <= a[n].end
                               /\ t[n].start \in Int /\ t[n].end \in Int
      <4>1. \A n \in 1..Len(a) : n = i => /\ a[n].start <= t[n].start /\ t[n].end <= a[n].end
                                          /\ t[n].start \in Int /\ t[n].end \in Int
        BY <1>2, <1>13, <1>15, <2>2 DEF u
      <4>2. \A n \in 1..Len(a) : n # i => /\ a[n].start <= t[n].start /\ t[n].end <= a[n].end
                                          /\ t[n].start \in Int /\ t[n].end \in Int
        BY <1>6, <2>2
      <4> QED BY <4>1, <4>2
    <3>2. ASSUME NEW k \in 1..Len(a), NEW l \in 1..Len(a), k < l
          PROVE  t[k].end < t[l].start
      <4>1. a[k].end < a[l].start /\ a[k].end \in Int /\ a[l].start \in Int
        BY <1>6, <1>9, <3>2
      <4>2. t[k].end <= a[k].end /\ a[l].start <= t[l].start /\ t[k].end \in Int /\ t[l].start \in Int
        BY <3>1
      <4> QED BY <4>1, <4>2
    <3> QED BY <2>2, <3>2 DEF Ordered
  <2>5. \A k \in 1..Len(a) : k < i + 1 => SpanPositions(t[k]) \subseteq Positions(before) \cap Positions(b)
    <3>1. SpanPositions(clipped) \subseteq Positions(before) \cap Positions(b)
      BY <1>8, <1>14
    <3>2. \A k \in 1..Len(a) : k < i + 1 => t[k] = clipped \/ (t[k] = a[k] /\ k < i)
      BY <1>1, <2>2
    <3> QED BY <3>1, <3>2 DEF IntersectKept
  <2>6. Positions(t) \subseteq Positions(a)
    BY <1>7, <1>14, <2>3
  <2>7. ASSUME NEW p \in Positions(before) \cap Positions(b)
        PROVE  p \in Positions(t)
    <3>1. p \in Positions(a)
      BY DEF IntersectKept
    <3>2. CASE p \in SpanPositions(u)
      <4>1. p \in SpanPositions(clipped)
        BY <1>2, <1>3, <1>4, <1>10, <1>13, <1>17, <3>2
      <4> QED BY <2>3, <4>1
    <3>3. CASE p \notin SpanPositions(u)
      BY <1>7, <2>3, <3>1, <3>3
    <3> QED BY <3>2, <3>3
  <2>8. ASSUME NEW k \in 1..Len(a), NEW l \in 1..Len(b), i + 1 <= k, l < j
        PROVE  b[l].end < t[k].start
    <3>1. t[k] = a[k] /\ i <= k
      BY <1>1, <2>2, <2>8
    <3> QED BY <2>8, <3>1 DEF IntersectKept
  <2>9. IntersectKept(t, i + 1, j)
    BY <2>2, <2>4, <2>5, <2>6, <2>7, <2>8 DEF IntersectKept
  <2> QED BY <1>1, <2>1, <2>2, <2>9
<1> QED BY <1>16, <1>17
-----------------------------------------------------------------------------
(* mergeAndEraseContiguousIntervals.                                       *)

LEMMA MaxIs ==
  ASSUME NEW S, S \subseteq Int, NEW x \in S, \A y \in S : y <= x
  PROVE  Max(S) = x
<1>1. \A y \in S : x >= y
  OBVIOUS
<1>2. Max(S) \in S /\ \A y \in S : Max(S) >= y
  BY <1>1 DEF Max
<1>3. Max(S) >= x /\ Max(S) <= x /\ Max(S) \in Int /\ x \in Int
  BY <1>2
<1> QED BY <1>3

LEMMA MaxOfBounded ==
  ASSUME NEW S, S \subseteq Int, S # {}, NEW N \in Int, \A x \in S : x <= N
  PROVE  Max(S) \in S /\ \A y \in S : y <= Max(S)
<1> DEFINE D == {d \in Nat : N - d \in S}
<1>1. D # {}
  <2>1. PICK x \in S : TRUE
    OBVIOUS
  <2>2. N - x \in Nat /\ N - (N - x) = x
    BY <2>1
  <2> QED BY <2>1, <2>2
<1>2. PICK d \in D : \A c \in D : ~(<<c, d>> \in OpToRel(<, Nat))
  BY <1>1, NatLessThanWellFounded, WFMin
<1>3. \A c \in D : ~(c < d)
  BY <1>2 DEF OpToRel
<1>4. d \in Nat /\ N - d \in S
  OBVIOUS
<1>5. ASSUME NEW y \in S PROVE y <= N - d
  <2>1. N - y \in Nat /\ N - (N - y) = y
    OBVIOUS
  <2>2. N - y \in D
    BY <2>1
  <2>3. ~(N - y < d)
    BY <1>3, <2>2
  <2> QED BY <1>4, <2>1, <2>3
<1>6. Max(S) = N - d
  BY <1>4, <1>5, MaxIs
<1> QED BY <1>4, <1>5, <1>6

\* The interval g of s[k] and v, after the neighbours up to s[n] have joined it.
Upto(s, k, g, n) == Interval(g.start, Max({g.end} \cup {s[m].end : m \in k + 1..n}))
Joined(s, k, g) == {n \in k..Len(s) : \A m \in k + 1..n : Contiguous(Upto(s, k, g, m - 1), s[m])}

LEMMA MergedInterval ==
  ASSUME NEW u \in Span, NEW v \in Span, Contiguous(u, v)
  PROVE  /\ Merged(u, v) \in Span
         /\ Merged(u, v).start = IF u.start <= v.start THEN u.start ELSE v.start
         /\ Merged(u, v).end = IF u.end >= v.end THEN u.end ELSE v.end
         /\ \A p \in SpanPositions(Merged(u, v)) :
              \/ p \in SpanPositions(u) \/ p \in SpanPositions(v)
              \/ p - 1 = u.end /\ p + 1 = v.start
              \/ p - 1 = v.end /\ p + 1 = u.start
<1> DEFINE from == Min({u.start, v.start})
           to == Max({u.end, v.end})
<1>1. /\ u.start \in Int /\ u.end \in Int /\ u.start <= u.end
      /\ \A p : p \in SpanPositions(u) <=> p \in Int /\ u.start <= p /\ p <= u.end
  BY SpanFields
<1>2. /\ v.start \in Int /\ v.end \in Int /\ v.start <= v.end
      /\ \A p : p \in SpanPositions(v) <=> p \in Int /\ v.start <= p /\ p <= v.end
  BY SpanFields
<1>3. /\ from = IF u.start <= v.start THEN u.start ELSE v.start
      /\ to = IF u.end >= v.end THEN u.end ELSE v.end
  BY <1>1, <1>2, MinMaxOfTwo
<1>4. Merged(u, v) = Interval(from, to)
  BY DEF Merged
<1> HIDE DEF from, to
<1>5. from \in Int /\ to \in Int /\ from <= to
  BY <1>1, <1>2, <1>3
<1>6. /\ Merged(u, v) \in Span /\ Merged(u, v).start = from /\ Merged(u, v).end = to
      /\ \A p : p \in SpanPositions(Merged(u, v)) <=> p \in Int /\ from <= p /\ p <= to
  BY <1>4, <1>5, IntervalIsSpan
<1>7. u.start <= v.end + 2 /\ v.start <= u.end + 2
  BY <1>1, <1>2 DEF Contiguous
<1>8. ASSUME NEW p \in SpanPositions(Merged(u, v))
      PROVE  \/ p \in SpanPositions(u) \/ p \in SpanPositions(v)
             \/ p - 1 = u.end /\ p + 1 = v.start
             \/ p - 1 = v.end /\ p + 1 = u.start
  <2>1. p \in Int /\ from <= p /\ p <= to
    BY <1>6
  <2> HIDE DEF Merged
  <2> QED BY <1>1, <1>2, <1>3, <1>7, <2>1
<1> QED BY <1>3, <1>6, <1>8

\* The ends of the intervals ascend, so the last of them is the end, or that of g.
LEMMA UptoEnd ==
  ASSUME NEW s \in Seq(Span), NEW k \in 1..Len(s), TailOrdered(s, k),
         NEW g \in Span, NEW n \in k..Len(s)
  PROVE  /\ Upto(s, k, g, n).start = g.start
         /\ Upto(s, k, g, n).end = IF n = k \/ g.end >= s[n].end THEN g.end ELSE s[n].end
<1> DEFINE S == {g.end} \cup {s[m].end : m \in k + 1..n}
           top == IF n = k \/ g.end >= s[n].end THEN g.end ELSE s[n].end
<1>1. Len(s) \in Nat /\ k \in Nat /\ 1 <= k /\ k <= n /\ n <= Len(s) /\ n \in Nat
  BY LenProperties
<1>2. /\ g.end \in Int
      /\ \A m \in 1..Len(s) : s[m].start \in Int /\ s[m].end \in Int /\ s[m].start <= s[m].end
  BY PositionsOf, SpanFields
<1>3. \A m \in k + 1..n : m \in 1..Len(s) /\ k <= m /\ m <= n
  BY <1>1
<1>4. S \subseteq Int
  BY <1>2, <1>3
<1>5. top \in S
  <2>1. n # k => n \in k + 1..n
    BY <1>1
  <2> QED BY <2>1
<1>6. ASSUME NEW y \in S PROVE y <= top
  <2>1. CASE y = g.end
    BY <1>1, <1>2, <2>1
  <2>2. ASSUME NEW m \in k + 1..n, y = s[m].end
        PROVE  y <= top
    <3>1. n # k /\ n \in 1..Len(s)
      BY <1>1, <1>3, <2>2
    <3>2. s[m].end <= s[n].end
      <4>1. CASE m = n
        BY <1>2, <1>3, <4>1
      <4>2. CASE m < n
        <5>1. s[m].end < s[n].start
          BY <1>3, <3>1, <4>2 DEF TailOrdered
        <5> QED BY <1>2, <1>3, <3>1, <5>1
      <4> QED BY <1>1, <1>3, <4>1, <4>2
    <3>3. s[m].end \in Int /\ s[n].end \in Int
      BY <1>2, <1>3, <3>1
    <3> QED BY <1>2, <2>2, <3>1, <3>2, <3>3
  <2> QED BY <2>1, <2>2
<1> HIDE DEF S, top
<1>7. Max(S) = top
  BY <1>4, <1>5, <1>6, MaxIs
<1>8. Upto(s, k, g, n) = Interval(g.start, top)
  BY <1>7 DEF Upto, S
<1> QED BY <1>8 DEF Interval, top

\* What w is, the interval that takes the place of s[k] to s[last] when v is merged.
Grown(s, k, v, w, last) ==
    /\ w \in Span /\ last \in k - 1..Len(s)
    /\ w.start <= v.start /\ v.end <= w.end
    /\ w.start = s[k].start \/ w.start = v.start
    /\ w.end = v.end \/ \E m \in k..last : w.end = s[m].end
    /\ \A m \in k..last : w.start <= s[m].start /\ s[m].end <= w.end
    /\ \A m \in last + 1..Len(s) : w.end < s[m].start
    /\ \A p \in SpanPositions(w) :
         \/ p \in SpanPositions(v) \/ \E m \in k..last : p \in SpanPositions(s[m])
         \/ /\ p - 1 = v.end \/ \E m \in k..last : p - 1 = s[m].end
            /\ p + 1 = v.start \/ \E m \in k..last : p + 1 = s[m].start

LEMMA MergeAndEraseGrows ==
  ASSUME NEW s \in Seq(Span), NEW k \in 1..Len(s), TailOrdered(s, k),
         NEW v \in Span, Contiguous(s[k], v)
  PROVE  \E w \in Span, last \in k..Len(s) :
           /\ MergeAndErase(s, k, v) = Splice(s, k, w, last)
           /\ Grown(s, k, v, w, last)
           /\ \A m \in last + 1..Len(s) : w.end + 2 < s[m].start
<1> DEFINE u == s[k]
           g == Merged(u, v)
           len == Len(s)
           J == Joined(s, k, g)
           last == Max(J)
           w == Upto(s, k, g, last)
<1>1. len \in Nat /\ k \in Nat /\ 1 <= k /\ k <= len /\ u \in Span
  BY LenProperties, PositionsOf
<1>2. /\ g \in Span
      /\ g.start = IF u.start <= v.start THEN u.start ELSE v.start
      /\ g.end = IF u.end >= v.end THEN u.end ELSE v.end
      /\ \A p \in SpanPositions(g) :
           \/ p \in SpanPositions(u) \/ p \in SpanPositions(v)
           \/ p - 1 = u.end /\ p + 1 = v.start
           \/ p - 1 = v.end /\ p + 1 = u.start
  BY <1>1, MergedInterval
<1>3. \A m \in 1..len : /\ s[m].start \in Int /\ s[m].end \in Int /\ s[m].start <= s[m].end
                        /\ \A p : p \in SpanPositions(s[m]) <=> p \in Int /\ s[m].start <= p /\ p <= s[m].end
  BY PositionsOf, SpanFields
<1>4. /\ v.start \in Int /\ v.end \in Int /\ v.start <= v.end
      /\ g.start \in Int /\ g.end \in Int /\ g.start <= g.end
      /\ \A p : p \in SpanPositions(g) <=> p \in Int /\ g.start <= p /\ p <= g.end
  BY <1>2, SpanFields
<1>5. MergeAndErase(s, k, v) = Splice(s, k, w, last)
  BY DEF MergeAndErase, Splice, Upto, Joined
<1>6. \A n \in k..len : /\ Upto(s, k, g, n).start = g.start
                        /\ Upto(s, k, g, n).end = IF n = k \/ g.end >= s[n].end THEN g.end ELSE s[n].end
  BY <1>2, UptoEnd
<1>7. last \in J /\ \A n \in J : n <= last
  <2>1. J \subseteq Int /\ \A n \in J : n <= len
    BY <1>1 DEF Joined
  <2>2. k \in J
    BY <1>1 DEF Joined
  <2> QED BY <1>1, <2>1, <2>2, MaxOfBounded
<1> HIDE DEF g, last, w
<1>8. last \in k..len /\ \A m \in k + 1..last : Contiguous(Upto(s, k, g, m - 1), s[m])
  BY <1>7 DEF Joined
<1>9. last \in Nat /\ k <= last /\ last <= len
  BY <1>1, <1>8
<1>10. \A m, n \in 1..len : k <= m /\ m < n => s[m].end < s[n].start
  BY DEF TailOrdered
<1>11. /\ w.start = g.start
       /\ w.end = IF last = k \/ g.end >= s[last].end THEN g.end ELSE s[last].end
  BY <1>6, <1>8 DEF w
<1>12. last \in 1..len /\ \A m \in k..last : m \in 1..len /\ k <= m /\ m <= last
  BY <1>1, <1>9
<1>13. w \in Span
  <2>1. w.start \in Int /\ w.end \in Int /\ w.start <= w.end
    BY <1>3, <1>4, <1>11, <1>12
  <2>2. w = Interval(w.start, w.end)
    BY DEF w, Upto, Interval
  <2> QED BY <2>1, <2>2, IntervalIsSpan
<1>14. w.start <= v.start /\ v.end <= w.end /\ (w.start = s[k].start \/ w.start = v.start)
  BY <1>1, <1>2, <1>3, <1>4, <1>11, <1>12
<1>15. w.end = v.end \/ \E m \in k..last : w.end = s[m].end
  <2>1. k \in k..last /\ last \in k..last
    BY <1>1, <1>9
  <2>2. g.end = s[k].end \/ g.end = v.end
    BY <1>2
  <2> QED BY <1>11, <2>1, <2>2
<1>16. ASSUME NEW m \in k..last
       PROVE  w.start <= s[m].start /\ s[m].end <= w.end
  <2>1. m \in 1..len /\ k <= m /\ m <= last
    BY <1>12
  <2>2. g.start <= s[m].start
    <3>1. g.start <= s[k].start
      BY <1>1, <1>2, <1>3, <1>4
    <3>2. CASE m = k
      BY <3>1, <3>2
    <3>3. CASE k < m
      <4>1. s[k].end < s[m].start
        BY <1>1, <1>10, <2>1, <3>3
      <4>2. s[k].start \in Int /\ s[k].end \in Int /\ s[k].start <= s[k].end /\ s[m].start \in Int
        BY <1>1, <1>3, <2>1
      <4> QED BY <1>4, <3>1, <4>1, <4>2
    <3> QED BY <1>1, <2>1, <3>2, <3>3
  <2>3. s[m].end <= w.end
    <3>1. CASE m = last
      <4>1. s[k].end <= g.end
        BY <1>1, <1>2, <1>3, <1>4
      <4> QED BY <1>3, <1>4, <1>11, <1>12, <3>1, <4>1
    <3>2. CASE m < last
      <4>1. s[m].end < s[last].start
        BY <1>10, <1>12, <2>1, <3>2
      <4>2. /\ s[last].start <= s[last].end /\ s[last].start \in Int /\ s[last].end \in Int
            /\ s[m].end \in Int
        BY <1>3, <1>12, <2>1
      <4>3. s[last].end <= w.end
        BY <1>4, <1>9, <1>11, <2>1, <3>2, <4>2
      <4> QED BY <1>4, <1>11, <4>1, <4>2, <4>3
    <3> QED BY <1>9, <2>1, <3>1, <3>2
  <2> QED BY <1>11, <2>2, <2>3
<1>17. w.start \in Int /\ w.end \in Int /\ w.start <= w.end
  BY <1>13, SpanFields
<1>18. ASSUME NEW n \in last + 1..len
       PROVE  w.end + 2 < s[n].start
  <2> DEFINE next == last + 1
  <2>1. next \in 1..len /\ next \in k..len /\ n \in 1..len /\ next <= n /\ last = next - 1
    BY <1>1, <1>9
  <2>2. ~Contiguous(w, s[next])
    <3>1. ASSUME Contiguous(w, s[next]) PROVE FALSE
      <4>1. \A m \in k + 1..next : m \in k + 1..last \/ m = next
        BY <1>1, <1>9
      <4>2. next \in J
        BY <1>8, <2>1, <3>1, <4>1 DEF Joined, w
      <4> QED BY <1>7, <1>9, <4>2
    <3> QED BY <3>1
  <2> HIDE DEF next
  <2>3. s[next].start \in Int /\ s[next].end \in Int /\ s[next].start <= s[next].end
    BY <1>3, <2>1
  <2>4. w.start <= s[next].start
    <3>1. s[k].end < s[next].start /\ s[k].start <= s[k].end /\ s[k].start \in Int /\ s[k].end \in Int
      BY <1>1, <1>3, <1>9, <1>10, <2>1
    <3>2. w.start <= s[k].start
      BY <1>1, <1>9, <1>16
    <3> QED BY <1>17, <2>3, <3>1, <3>2
  <2>5. w.end + 2 < s[next].start
    BY <1>17, <2>2, <2>3, <2>4 DEF Contiguous
  <2>6. CASE n = next
    BY <2>5, <2>6
  <2>7. CASE next < n
    <3>1. s[next].end < s[n].start /\ s[n].start \in Int
      BY <1>1, <1>3, <1>9, <1>10, <2>1, <2>7
    <3> QED BY <1>17, <2>3, <2>5, <3>1
  <2> QED BY <2>1, <2>6, <2>7
<1>19. ASSUME NEW p \in SpanPositions(w)
       PROVE  \/ p \in SpanPositions(v) \/ \E m \in k..last : p \in SpanPositions(s[m])
              \/ /\ p - 1 = v.end \/ \E m \in k..last : p - 1 = s[m].end
                 /\ p + 1 = v.start \/ \E m \in k..last : p + 1 = s[m].start
  <2>1. p \in Int /\ w.start <= p /\ p <= w.end
    BY <1>13, SpanFields
  <2>2. k \in k..last /\ last \in k..last
    BY <1>1, <1>9
  <2>3. g.end = s[k].end \/ g.end = v.end
    BY <1>2
  <2>4. CASE p <= g.end
    <3>1. p \in SpanPositions(g)
      BY <1>4, <1>11, <2>1, <2>4
    <3>2. \/ p \in SpanPositions(u) \/ p \in SpanPositions(v)
          \/ p - 1 = u.end /\ p + 1 = v.start
          \/ p - 1 = v.end /\ p + 1 = u.start
      BY <1>2, <3>1
    <3> QED BY <2>2, <3>2
  <2>5. CASE g.end < p
    <3> DEFINE P == {m \in Nat : m \in k + 1..last /\ p <= s[m].end}
    <3>1. last # k /\ p <= s[last].end
      BY <1>3, <1>4, <1>11, <1>12, <2>1, <2>5
    <3>2. last \in P
      BY <1>1, <1>9, <3>1
    <3>3. PICK m \in P : \A n \in P : ~(<<n, m>> \in OpToRel(<, Nat))
      BY <3>2, NatLessThanWellFounded, WFMin
    <3>4. \A n \in P : ~(n < m)
      BY <3>3 DEF OpToRel
    <3>5. m \in Nat /\ m \in k + 1..last /\ p <= s[m].end
      OBVIOUS
    <3>6. m \in 1..len /\ m \in k..last /\ m - 1 \in 1..len /\ m - 1 \in k..last /\ m - 1 \in k..len /\ m - 1 < m
          /\ m - 1 \in Nat
      BY <1>1, <1>9, <3>5
    <3>7. m - 1 # k => s[m - 1].end < p
      <4>1. ASSUME m - 1 # k, p <= s[m - 1].end PROVE FALSE
        <5>1. m - 1 \in k + 1..last
          BY <1>1, <1>9, <3>6, <4>1
        <5>2. m - 1 \in P
          BY <3>6, <4>1, <5>1
        <5> QED BY <3>4, <3>6, <5>2
      <4>2. s[m - 1].end \in Int
        BY <1>3, <3>6
      <4> HIDE DEF P
      <4> QED BY <2>1, <4>1, <4>2
    <3> HIDE DEF P
    <3> DEFINE x == Upto(s, k, g, m - 1)
    <3>8. /\ x.start = g.start
          /\ x.end = IF m - 1 = k \/ g.end >= s[m - 1].end THEN g.end ELSE s[m - 1].end
      BY <1>6, <3>6
    <3>9. Contiguous(x, s[m])
      BY <1>8, <3>5
    <3> HIDE DEF x
    <3>10. /\ s[m].start \in Int /\ s[m].end \in Int
           /\ s[m - 1].end \in Int
      BY <1>3, <3>6
    <3>11. x.end \in Int /\ x.end < p
      BY <1>4, <2>5, <3>7, <3>8, <3>10
    <3>12. s[m].start <= x.end + 2
      BY <3>9, <3>10, <3>11 DEF Contiguous
    <3>13. CASE s[m].start <= p
      <4>1. p \in SpanPositions(s[m])
        BY <1>3, <2>1, <3>5, <3>6, <3>13
      <4> QED BY <3>6, <4>1
    <3>14. CASE p < s[m].start
      <4>1. p - 1 = x.end /\ p + 1 = s[m].start
        BY <2>1, <3>10, <3>11, <3>12, <3>14
      <4>2. x.end = g.end \/ x.end = s[m - 1].end
        BY <3>8
      <4>3. p - 1 = v.end \/ \E n \in k..last : p - 1 = s[n].end
        BY <2>2, <2>3, <3>6, <4>1, <4>2
      <4>4. \E n \in k..last : p + 1 = s[n].start
        BY <3>6, <4>1
      <4> QED BY <4>3, <4>4
    <3> QED BY <2>1, <3>10, <3>13, <3>14
  <2> QED BY <1>4, <2>1, <2>4, <2>5
<1>20. \A m \in last + 1..len : w.end < s[m].start
  <2>1. \A m \in last + 1..len : s[m].start \in Int
    BY <1>1, <1>3, <1>9
  <2> QED BY <1>17, <1>18, <2>1
<1>21. last \in k - 1..len
  BY <1>1, <1>9
<1>22. Grown(s, k, v, w, last)
  BY <1>13, <1>14, <1>15, <1>16, <1>19, <1>20, <1>21 DEF Grown
<1> QED BY <1>5, <1>8, <1>13, <1>18, <1>22
-----------------------------------------------------------------------------
(* intervalMerge.                                                          *)

LEMMA GrownIsMerged ==
  ASSUME LoopContext, i <= Len(a), j <= Len(b), MergeKept(a, i, j),
         NEW w, NEW last, Grown(a, i, b[j], w, last),
         Len(b) <= 1 => \A m \in last + 1..Len(a) : w.end + 2 < a[m].start
  PROVE  Splice(a, i, w, last) \in Seq(Span) /\ MergeKept(Splice(a, i, w, last), i, j + 1)
<1> DEFINE t == Splice(a, i, w, last)
           v == b[j]
           len == Len(a) + i - last
           both == Positions(before) \cup Positions(b)
<1>1. /\ i \in 1..Len(a) /\ j \in 1..Len(b) /\ Len(a) \in Nat /\ Len(b) \in Nat /\ i \in Nat /\ j \in Nat
      /\ a \in Seq(Span) /\ b \in Seq(Span)
  BY LenProperties DEF LoopContext
<1>2. w \in Span /\ last \in i - 1..Len(a) /\ last \in Nat /\ i <= last + 1 /\ last <= Len(a) /\ 1 <= i
  BY <1>1 DEF Grown
<1>3. /\ w.start <= v.start /\ v.end <= w.end
      /\ w.start = a[i].start \/ w.start = v.start
      /\ w.end = v.end \/ \E m \in i..last : w.end = a[m].end
      /\ \A m \in i..last : w.start <= a[m].start /\ a[m].end <= w.end
      /\ \A m \in last + 1..Len(a) : w.end < a[m].start
  BY DEF Grown
<1>4. \A p \in SpanPositions(w) :
         \/ p \in SpanPositions(v) \/ \E m \in i..last : p \in SpanPositions(a[m])
         \/ /\ p - 1 = v.end \/ \E m \in i..last : p - 1 = a[m].end
            /\ p + 1 = v.start \/ \E m \in i..last : p + 1 = a[m].start
  BY DEF Grown
<1>5. /\ w.start \in Int /\ w.end \in Int /\ w.start <= w.end
      /\ \A p : p \in SpanPositions(w) <=> p \in Int /\ w.start <= p /\ p <= w.end
  BY <1>2, SpanFields
<1>6. /\ v.start \in Int /\ v.end \in Int /\ v.start <= v.end
      /\ \A p : p \in SpanPositions(v) <=> p \in Int /\ v.start <= p /\ p <= v.end
  BY <1>1, PositionsOf, SpanFields
<1>7. \A m \in 1..Len(a) : /\ a[m].start \in Int /\ a[m].end \in Int /\ a[m].start <= a[m].end
                           /\ \A p : p \in SpanPositions(a[m]) <=> p \in Int /\ a[m].start <= p /\ p <= a[m].end
  BY <1>1, PositionsOf, SpanFields
<1>8. t \in Seq(Span) /\ Len(t) = len /\ len \in Nat /\ i \in 1..len
  <2>1. t \in Seq(Span)
    BY <1>1, <1>2, SpliceProperties
  <2>2. Len(t) = len
    BY <1>1, <1>2, SpliceProperties
  <2> QED BY <1>1, <1>2, <2>1, <2>2
<1>9. \A n \in 1..len : /\ n < i => t[n] = a[n] /\ n \in 1..Len(a)
                        /\ n = i => t[n] = w
                        /\ i < n => t[n] = a[n + last - i] /\ n + last - i \in last + 1..Len(a)
                                    /\ n + last - i \in 1..Len(a)
  <2>1. \A n \in 1..len : t[n] = IF n < i THEN a[n] ELSE IF n = i THEN w ELSE a[n + last - i]
    BY <1>1, <1>2, SpliceProperties
  <2> HIDE DEF t
  <2>2. \A n \in 1..len : /\ n < i => n \in 1..Len(a)
                          /\ i < n => ~(n < i) /\ n # i /\ n + last - i \in last + 1..Len(a)
                                      /\ n + last - i \in 1..Len(a)
    <3> SUFFICES ASSUME NEW n \in 1..len
                 PROVE  /\ n < i => n \in 1..Len(a)
                        /\ i < n => ~(n < i) /\ n # i /\ n + last - i \in last + 1..Len(a)
                                    /\ n + last - i \in 1..Len(a)
      OBVIOUS
    <3>1. /\ n \in Int /\ 1 <= n /\ n <= Len(a) + i - last
          /\ i \in Int /\ 1 <= i /\ i <= Len(a) /\ last \in Int /\ 0 <= last /\ Len(a) \in Int
      BY <1>1, <1>2
    <3> HIDE DEF len
    <3>2. ASSUME i < n PROVE n + last - i \in last + 1..Len(a) /\ n + last - i \in 1..Len(a) /\ ~(n < i) /\ n # i
      BY <3>1, <3>2
    <3>3. ASSUME n < i PROVE n \in 1..Len(a)
      BY <3>1, <3>3
    <3> QED BY <3>2, <3>3
  <2> HIDE DEF len
  <2>3. \A n : n = i => ~(n < i)
    BY <1>1
  <2> QED BY <2>1, <2>2, <2>3
<1>10. \A p : p \in Positions(t) <=>
           \/ p \in SpanPositions(w)
           \/ \E n \in 1..Len(a) : (n < i \/ last < n) /\ p \in SpanPositions(a[n])
  BY <1>1, <1>2, SplicePositions
<1>11. \A p : p \in Positions(a) <=> \E n \in 1..Len(a) : p \in SpanPositions(a[n])
  BY <1>1, PositionsOf
<1> HIDE DEF t, v, both, len
<1>12. v.start \in both /\ v.end \in both /\ SpanPositions(v) \subseteq both
  <2>1. SpanPositions(v) \subseteq Positions(b)
    BY <1>1, PositionsOf DEF v
  <2>2. v.start \in SpanPositions(v) /\ v.end \in SpanPositions(v)
    BY <1>6
  <2> QED BY <2>1, <2>2 DEF both
<1>13. /\ \A n \in 1..Len(a) : a[n].start \in both /\ a[n].end \in both
       /\ \A p \in Positions(a) \ both : p - 1 \in both /\ p + 1 \in both
  BY DEF MergeKept, Filled, both
<1>14. \A m \in i..last : m \in 1..Len(a)
  BY <1>1, <1>2
<1>15. Filled(t, both)
  <2>1. w.start \in both /\ w.end \in both
    BY <1>1, <1>3, <1>12, <1>13, <1>14
  <2>2. \A n \in 1..len : t[n].start \in both /\ t[n].end \in both
    <3>1. \A n \in 1..len : n < i \/ n = i \/ i < n
      BY <1>1
    <3> QED BY <1>9, <1>13, <2>1, <3>1
  <2>3. ASSUME NEW p \in Positions(t), p \notin both
        PROVE  p - 1 \in both /\ p + 1 \in both
    <3>1. CASE p \in SpanPositions(w)
      <4>1. ASSUME NEW m \in i..last, p \in SpanPositions(a[m]) PROVE p \in Positions(a)
        BY <1>11, <1>14, <4>1
      <4>2. CASE p \in Positions(a)
        BY <1>13, <2>3, <4>2
      <4>3. CASE /\ p - 1 = v.end \/ \E m \in i..last : p - 1 = a[m].end
                 /\ p + 1 = v.start \/ \E m \in i..last : p + 1 = a[m].start
        BY <1>12, <1>13, <1>14, <4>3
      <4> QED BY <1>4, <1>12, <2>3, <3>1, <4>1, <4>2, <4>3
    <3>2. CASE \E n \in 1..Len(a) : p \in SpanPositions(a[n])
      BY <1>11, <1>13, <2>3, <3>2
    <3> QED BY <1>10, <2>3, <3>1, <3>2
  <2> QED BY <1>8, <2>2, <2>3 DEF Filled
<1>16. Positions(a) \subseteq Positions(t)
  <2> SUFFICES ASSUME NEW p \in Positions(a) PROVE p \in Positions(t)
    OBVIOUS
  <2>1. PICK n \in 1..Len(a) : p \in SpanPositions(a[n])
    BY <1>11
  <2>2. CASE n < i \/ last < n
    BY <1>10, <2>1, <2>2
  <2>3. CASE n \in i..last
    <3>1. w.start <= a[n].start /\ a[n].end <= w.end /\ p \in Int /\ a[n].start <= p /\ p <= a[n].end
      BY <1>3, <1>7, <2>1, <2>3
    <3>2. a[n].start \in Int /\ a[n].end \in Int
      BY <1>7
    <3>3. p \in SpanPositions(w)
      BY <1>5, <3>1, <3>2
    <3> QED BY <1>10, <3>3
  <2> QED BY <1>1, <1>2, <2>2, <2>3
<1>17. \A l \in 1..Len(b) : l < j + 1 => SpanPositions(b[l]) \subseteq Positions(t)
  <2>1. SpanPositions(v) \subseteq Positions(t)
    <3>1. SpanPositions(v) \subseteq SpanPositions(w)
      BY <1>3, <1>5, <1>6
    <3> QED BY <1>10, <3>1
  <2>2. \A l \in 1..Len(b) : l < j + 1 => l < j \/ l = j
    BY <1>1
  <2> QED BY <1>16, <2>1, <2>2 DEF MergeKept, v
<1>18. TailOrdered(t, i)
  <2>1. ASSUME NEW k \in 1..len, NEW l \in 1..len, i <= k, k < l PROVE t[k].end < t[l].start
    <3>1. i < l
      BY <1>1, <2>1
    <3>2. t[l] = a[l + last - i] /\ l + last - i \in last + 1..Len(a) /\ l + last - i \in 1..Len(a)
      BY <1>9, <3>1
    <3>3. CASE k = i
      BY <1>3, <1>9, <3>2, <3>3
    <3>4. CASE i < k
      <4>1. t[k] = a[k + last - i] /\ k + last - i \in last + 1..Len(a) /\ k + last - i \in 1..Len(a)
        BY <1>9, <3>4
      <4>2. i <= k + last - i /\ k + last - i < l + last - i
        BY <1>1, <1>2, <2>1, <3>4, <4>1
      <4> QED BY <3>2, <4>1, <4>2 DEF MergeKept, TailOrdered
    <3> QED BY <1>1, <2>1, <3>3, <3>4
  <2> QED BY <1>8, <2>1 DEF TailOrdered
<1>19. ASSUME Len(b) <= 1 PROVE Separate(t)
  <2>1. \A k, l \in 1..Len(a) : k < l => a[k].end + 2 < a[l].start
    BY <1>19 DEF MergeKept, Separate
  <2>2. \A k \in 1..Len(a) : k < i => a[k].end + 2 < v.start
    <3>1. j <= j
      BY <1>1
    <3> QED BY <1>1, <1>19, <3>1 DEF MergeKept, v
  <2>3. ASSUME NEW k \in 1..len, NEW l \in 1..len, k < l PROVE t[k].end + 2 < t[l].start
    <3>1. CASE k < i
      <4>1. t[k] = a[k] /\ k \in 1..Len(a)
        BY <1>9, <3>1
      <4>2. CASE l < i
        BY <1>9, <2>1, <2>3, <4>1, <4>2
      <4>3. CASE l = i
        BY <1>1, <1>3, <1>9, <2>1, <2>2, <3>1, <4>1, <4>3
      <4>4. CASE i < l
        <5>1. t[l] = a[l + last - i] /\ l + last - i \in last + 1..Len(a) /\ l + last - i \in 1..Len(a)
          BY <1>9, <4>4
        <5>2. k < l + last - i
          BY <1>1, <1>2, <3>1, <5>1
        <5> QED BY <2>1, <4>1, <5>1, <5>2
      <4> QED BY <1>1, <4>2, <4>3, <4>4
    <3>2. CASE i <= k
      <4>1. i < l
        BY <1>1, <2>3, <3>2
      <4>2. t[l] = a[l + last - i] /\ l + last - i \in last + 1..Len(a) /\ l + last - i \in 1..Len(a)
        BY <1>9, <4>1
      <4>3. CASE k = i
        BY <1>9, <1>19, <4>2, <4>3
      <4>4. CASE i < k
        <5>1. t[k] = a[k + last - i] /\ k + last - i \in 1..Len(a)
          BY <1>9, <4>4
        <5>2. k + last - i < l + last - i
          BY <1>1, <1>2, <2>3
        <5> QED BY <2>1, <4>2, <5>1, <5>2
      <4> QED BY <1>1, <3>2, <4>3, <4>4
    <3> QED BY <1>1, <3>1, <3>2
  <2> QED BY <1>8, <2>3 DEF Separate
<1>20. Len(b) <= 1 => \A k \in 1..Len(t), l \in 1..Len(b) : k < i /\ j + 1 <= l => t[k].end + 2 < b[l].start
  <2>1. \A l \in 1..Len(b) : Len(b) <= 1 => ~(j + 1 <= l)
    BY <1>1
  <2> QED BY <2>1
<1>21. Positions(before) \subseteq Positions(t)
  BY <1>16 DEF MergeKept
<1>22. MergeKept(t, i, j + 1)
  BY <1>15, <1>17, <1>18, <1>19, <1>20, <1>21 DEF MergeKept, both
<1> QED BY <1>8, <1>22 DEF t

LEMMA ReplaceAtIsSplice ==
  ASSUME NEW s \in Seq(Span), NEW x \in Span, NEW k \in 1..Len(s)
  PROVE  ReplaceAt(s, k, x) = Splice(s, k, x, k)
<1> DEFINE last == k
<1>1. Len(s) \in Nat /\ k \in Nat /\ last \in Nat /\ 1 <= k /\ k <= last + 1 /\ last <= Len(s)
  BY LenProperties
<1> HIDE DEF last
<1>2. Splice(s, k, x, last) \in Seq(Span)
  BY <1>1, SpliceProperties
<1>3. Len(Splice(s, k, x, last)) = Len(s) + k - last
  BY <1>1, SpliceProperties
<1>4. \A n \in 1..Len(s) + k - last :
        Splice(s, k, x, last)[n] = IF n < k THEN s[n] ELSE IF n = k THEN x ELSE s[n + last - k]
  BY <1>1, SpliceProperties
<1>5. /\ ReplaceAt(s, k, x) \in Seq(Span) /\ Len(ReplaceAt(s, k, x)) = Len(s)
      /\ \A n \in 1..Len(s) : ReplaceAt(s, k, x)[n] = IF n = k THEN x ELSE s[n]
  BY ReplaceAtProperties
<1>6. Len(s) + k - last = Len(s) /\ \A n \in 1..Len(s) : n + last - k = n /\ (n < k => n # k)
  BY <1>1 DEF last
<1>7. \A n \in 1..Len(s) : Splice(s, k, x, last)[n] = ReplaceAt(s, k, x)[n]
  BY <1>4, <1>5, <1>6
<1>8. ReplaceAt(s, k, x) = Splice(s, k, x, last)
  BY <1>2, <1>3, <1>5, <1>6, <1>7, SeqEqual
<1> QED BY <1>8 DEF last

LEMMA MergePasses ==
  ASSUME LoopContext, i <= Len(a), j <= Len(b), MergeKept(a, i, j),
         Before(a[i], b[j]), ~Contiguous(a[i], b[j])
  PROVE  MergeKept(a, i + 1, j)
<1>1. i \in 1..Len(a) /\ j \in 1..Len(b) /\ Len(a) \in Nat /\ Len(b) \in Nat
  BY LenProperties DEF LoopContext
<1>2. /\ a[i].start \in Int /\ a[i].end \in Int /\ a[i].start <= a[i].end
      /\ b[j].start \in Int /\ b[j].end \in Int /\ b[j].start <= b[j].end
  BY <1>1, PositionsOf, SpanFields DEF LoopContext
<1>3. a[i].end + 2 < b[j].start
  BY <1>2 DEF Before, Contiguous
<1>4. TailOrdered(a, i + 1)
  <2>1. \A k \in 1..Len(a) : i + 1 <= k => i <= k
    BY <1>1
  <2> QED BY <2>1 DEF MergeKept, TailOrdered
<1>5. ASSUME Len(b) <= 1, NEW k \in 1..Len(a), NEW l \in 1..Len(b), k < i + 1, j <= l
      PROVE  a[k].end + 2 < b[l].start
  <2>1. l = j
    BY <1>1, <1>5
  <2>2. CASE k = i
    BY <1>3, <2>1, <2>2
  <2>3. CASE k < i
    BY <1>5, <2>3 DEF MergeKept
  <2> QED BY <1>1, <1>5, <2>2, <2>3
<1> QED BY <1>4, <1>5 DEF MergeKept

LEMMA MergeJoins ==
  ASSUME LoopContext, i <= Len(a), j <= Len(b), MergeKept(a, i, j), Contiguous(a[i], b[j])
  PROVE  /\ MergeAndErase(a, i, b[j]) \in Seq(Span)
         /\ MergeKept(MergeAndErase(a, i, b[j]), i, j + 1)
<1>1. i \in 1..Len(a) /\ j \in 1..Len(b) /\ a \in Seq(Span)
  BY LenProperties DEF LoopContext
<1>2. b[j] \in Span
  BY <1>1, PositionsOf DEF LoopContext
<1>3. TailOrdered(a, i)
  BY DEF MergeKept
<1>4. PICK w \in Span, last \in i..Len(a) :
        /\ MergeAndErase(a, i, b[j]) = Splice(a, i, w, last)
        /\ Grown(a, i, b[j], w, last)
        /\ \A m \in last + 1..Len(a) : w.end + 2 < a[m].start
  BY <1>1, <1>2, <1>3, MergeAndEraseGrows
<1>5. Splice(a, i, w, last) \in Seq(Span) /\ MergeKept(Splice(a, i, w, last), i, j + 1)
  BY <1>4, GrownIsMerged
<1> QED BY <1>4, <1>5

LEMMA MergeJoinsAbove ==
  ASSUME LoopContext, i <= Len(a), j <= Len(b), MergeKept(a, i, j),
         After(a[i], b[j]), Contiguous(b[j], a[i])
  PROVE  /\ ReplaceAt(a, i, Merged(a[i], b[j])) \in Seq(Span)
         /\ MergeKept(ReplaceAt(a, i, Merged(a[i], b[j])), i, j + 1)
<1> DEFINE u == a[i]
           v == b[j]
           w == Merged(u, v)
<1>1. i \in 1..Len(a) /\ j \in 1..Len(b) /\ a \in Seq(Span) /\ Len(a) \in Nat /\ i \in Nat
  BY LenProperties DEF LoopContext
<1>2. u \in Span /\ v \in Span
  BY <1>1, PositionsOf DEF LoopContext
<1>3. /\ u.start \in Int /\ u.end \in Int /\ u.start <= u.end
      /\ v.start \in Int /\ v.end \in Int /\ v.start <= v.end
  BY <1>2, SpanFields
<1>4. Contiguous(u, v) /\ v.end < u.start
  BY <1>3 DEF Contiguous, After
<1>5. /\ w \in Span
      /\ w.start = IF u.start <= v.start THEN u.start ELSE v.start
      /\ w.end = IF u.end >= v.end THEN u.end ELSE v.end
      /\ \A p \in SpanPositions(w) :
           \/ p \in SpanPositions(u) \/ p \in SpanPositions(v)
           \/ p - 1 = u.end /\ p + 1 = v.start
           \/ p - 1 = v.end /\ p + 1 = u.start
  BY <1>2, <1>4, MergedInterval
<1> HIDE DEF w
<1>6. w.start = v.start /\ w.end = u.end /\ v.end <= u.end /\ v.start <= u.start
  BY <1>3, <1>4, <1>5
<1>7. i \in i..i /\ i \in i - 1..Len(a) /\ \A m \in i..i : m = i
  BY <1>1
<1>8. \A m \in i + 1..Len(a) : u.end < a[m].start
  <2>1. \A m \in i + 1..Len(a) : m \in 1..Len(a) /\ i < m /\ i <= i
    BY <1>1
  <2> QED BY <1>1, <2>1 DEF MergeKept, TailOrdered
<1>9. Len(b) <= 1 => \A m \in i + 1..Len(a) : w.end + 2 < a[m].start
  <2>1. \A m \in i + 1..Len(a) : m \in 1..Len(a) /\ i < m
    BY <1>1
  <2> QED BY <1>1, <1>6, <2>1 DEF MergeKept, Separate
<1>10. \A p \in SpanPositions(w) :
         \/ p \in SpanPositions(v) \/ \E m \in i..i : p \in SpanPositions(a[m])
         \/ /\ p - 1 = v.end \/ \E m \in i..i : p - 1 = a[m].end
            /\ p + 1 = v.start \/ \E m \in i..i : p + 1 = a[m].start
  BY <1>5, <1>7
<1>11. \A m \in i..i : w.start <= a[m].start /\ a[m].end <= w.end
  BY <1>3, <1>6, <1>7
<1>12. w.start <= v.start /\ v.end <= w.end
  BY <1>3, <1>6
<1>13. Grown(a, i, v, w, i)
  BY <1>5, <1>6, <1>7, <1>8, <1>10, <1>11, <1>12 DEF Grown
<1>14. Splice(a, i, w, i) \in Seq(Span) /\ MergeKept(Splice(a, i, w, i), i, j + 1)
  BY <1>9, <1>13, GrownIsMerged
<1>15. ReplaceAt(a, i, w) = Splice(a, i, w, i)
  BY <1>1, <1>5, ReplaceAtIsSplice
<1> QED BY <1>14, <1>15 DEF w

LEMMA MergeInserts ==
  ASSUME LoopContext, i <= Len(a), j <= Len(b), MergeKept(a, i, j),
         After(a[i], b[j]), ~Contiguous(b[j], a[i])
  PROVE  /\ InsertAt(a, i, b[j]) \in Seq(Span)
         /\ MergeKept(InsertAt(a, i, b[j]), i, j + 1)
<1> DEFINE u == a[i]
           v == b[j]
           last == i - 1
<1>1. i \in 1..Len(a) /\ j \in 1..Len(b) /\ a \in Seq(Span) /\ Len(a) \in Nat /\ i \in Nat
  BY LenProperties DEF LoopContext
<1>2. u \in Span /\ v \in Span
  BY <1>1, PositionsOf DEF LoopContext
<1>3. /\ u.start \in Int /\ u.end \in Int /\ u.start <= u.end
      /\ v.start \in Int /\ v.end \in Int /\ v.start <= v.end
  BY <1>2, SpanFields
<1>4. v.end + 2 < u.start
  <2>1. After(u, v) /\ ~Contiguous(v, u)
    OBVIOUS
  <2> HIDE DEF u, v
  <2>2. u.start > v.end /\ ~(v.start <= u.end + 2 /\ v.end + 2 >= u.start)
    BY ONLY <2>1 DEF Contiguous, After
  <2> QED BY ONLY <1>3, <2>2
<1>5. last \in i - 1..Len(a) /\ last + 1 = i /\ i..last = {}
  BY <1>1
<1> HIDE DEF last
<1>6. \A m \in i..Len(a) : /\ v.end + 2 < a[m].start /\ v.end < a[m].start
  <2> SUFFICES ASSUME NEW m \in i..Len(a) PROVE v.end + 2 < a[m].start /\ v.end < a[m].start
    OBVIOUS
  <2>1. m \in 1..Len(a) /\ i <= m /\ i <= i
    BY <1>1
  <2>2. CASE m = i
    BY <1>3, <1>4, <2>2
  <2>3. CASE i < m
    <3>1. u.end < a[m].start
      BY <1>1, <2>1, <2>3 DEF MergeKept, TailOrdered
    <3>2. a[m].start \in Int
      BY <1>1, <2>1, PositionsOf, SpanFields
    <3> QED BY <1>3, <1>4, <3>1, <3>2
  <2> QED BY <1>1, <2>1, <2>2, <2>3
<1>7. v.start <= v.start /\ v.end <= v.end
  BY <1>3
<1>8. Grown(a, i, v, v, last)
  BY <1>2, <1>5, <1>6, <1>7 DEF Grown
<1>9. Len(b) <= 1 => \A m \in last + 1..Len(a) : v.end + 2 < a[m].start
  BY <1>5, <1>6
<1>10. Splice(a, i, v, last) \in Seq(Span) /\ MergeKept(Splice(a, i, v, last), i, j + 1)
  BY <1>8, <1>9, GrownIsMerged
<1>11. InsertAt(a, i, v) = Splice(a, i, v, last)
  <2>1. i \in 1..Len(a) + 1
    BY <1>1
  <2> QED BY <1>1, <1>2, <2>1, InsertAtIsSplice DEF last
<1> QED BY <1>10, <1>11

LEMMA MergeStepKeeps ==
  ASSUME LoopContext, i <= Len(a), j <= Len(b), MergeKept(a, i, j), MergeStep(a[i], b[j])
  PROVE  /\ a' \in Seq(Span) /\ i' \in Nat \ {0} /\ j' \in Nat \ {0}
         /\ MergeKept(a', i', j')
<1> DEFINE u == a[i]
           v == b[j]
<1>1. i \in 1..Len(a) /\ j \in 1..Len(b) /\ a \in Seq(Span) /\ Len(b) \in Nat
  BY LenProperties DEF LoopContext
<1>2. /\ i \in Nat \ {0} /\ j \in Nat \ {0} /\ i + 1 \in Nat \ {0} /\ j + 1 \in Nat \ {0}
  BY DEF LoopContext
<1>3. /\ u.start \in Int /\ u.end \in Int /\ u.start <= u.end
      /\ v.start \in Int /\ v.end \in Int /\ v.start <= v.end
  BY <1>1, PositionsOf, SpanFields DEF LoopContext
<1>4. CASE Before(u, v) /\ ~Contiguous(u, v)
  <2>1. i' = i + 1 /\ a' = a /\ j' = j
    BY <1>3, <1>4 DEF MergeStep, Before, After
  <2>2. MergeKept(a, i + 1, j)
    BY <1>4, MergePasses
  <2> QED BY <1>1, <1>2, <2>1, <2>2
<1>5. CASE Before(u, v) /\ Contiguous(u, v)
  <2> DEFINE t == MergeAndErase(a, i, v)
  <2>1. i' = i + 1 /\ a' = t /\ j' = j + 1
    BY <1>3, <1>5 DEF MergeStep, Before, After
  <2>2. t \in Seq(Span) /\ MergeKept(t, i, j + 1)
    BY <1>5, MergeJoins
  <2> HIDE DEF t
  <2>3. TailOrdered(t, i + 1)
    <3>1. \A k : k \in 1..Len(t) /\ i + 1 <= k => i <= k
      BY <1>2
    <3> QED BY <2>2, <3>1 DEF MergeKept, TailOrdered
  <2>4. \A l \in 1..Len(b) : Len(b) <= 1 => ~(j + 1 <= l)
    BY <1>1, <1>2
  <2>5. MergeKept(t, i + 1, j + 1)
    BY <2>2, <2>3, <2>4 DEF MergeKept
  <2> QED BY <1>2, <2>1, <2>2, <2>5
<1>6. CASE After(u, v)
  <2>1. ~Before(u, v) /\ i' = i /\ j' = j + 1
    BY <1>3, <1>6 DEF MergeStep, Before, After
  <2>2. CASE Contiguous(v, u)
    <3>1. a' = ReplaceAt(a, i, Merged(u, v))
      BY <1>6, <2>1, <2>2 DEF MergeStep
    <3>2. /\ ReplaceAt(a, i, Merged(u, v)) \in Seq(Span)
          /\ MergeKept(ReplaceAt(a, i, Merged(u, v)), i, j + 1)
      BY <1>6, <2>2, MergeJoinsAbove
    <3> QED BY <1>2, <2>1, <3>1, <3>2
  <2>3. CASE ~Contiguous(v, u)
    <3>1. a' = InsertAt(a, i, v)
      BY <1>6, <2>1, <2>3 DEF MergeStep
    <3>2. InsertAt(a, i, v) \in Seq(Span) /\ MergeKept(InsertAt(a, i, v), i, j + 1)
      BY <1>6, <2>3, MergeInserts
    <3> QED BY <1>2, <2>1, <3>1, <3>2
  <2> QED BY <2>2, <2>3
<1>7. CASE ~Before(u, v) /\ ~After(u, v)
  <2>1. i' = i /\ j' = j + 1 /\ a' = MergeAndErase(a, i, v)
    BY <1>7 DEF MergeStep
  <2>2. Contiguous(u, v)
    BY <1>3, <1>7 DEF Before, After, Contiguous
  <2>3. MergeAndErase(a, i, v) \in Seq(Span) /\ MergeKept(MergeAndErase(a, i, v), i, j + 1)
    BY <2>2, MergeJoins
  <2> QED BY <1>2, <2>1, <2>3
<1> QED BY <1>4, <1>5, <1>6, <1>7

LEMMA MergeAppends ==
  ASSUME LoopContext, MergeKept(a, i, j), i > Len(a) \/ j > Len(b)
  PROVE  /\ a \o SubSeq(b, j, Len(b)) \in Seq(Span)
         /\ MergeComplete(a \o SubSeq(b, j, Len(b)))
<1> DEFINE rest == SubSeq(b, j, Len(b))
           t == a \o rest
           left == IF j <= Len(b) THEN Len(b) - j + 1 ELSE 0
           both == Positions(before) \cup Positions(b)
<1>1. /\ Len(a) \in Nat /\ Len(b) \in Nat /\ j \in Nat /\ 1 <= j /\ i \in Nat /\ 1 <= i
      /\ a \in Seq(Span) /\ b \in Seq(Span)
  BY LenProperties DEF LoopContext
<1>2. \A l \in 1..Len(b) : b[l] \in Span
  BY <1>1, PositionsOf
<1>3. /\ rest \in Seq(Span) /\ Len(rest) = left
      /\ \A n \in 1..left : rest[n] = b[j + n - 1] /\ j + n - 1 \in j..Len(b)
  <2>1. \A n \in j..Len(b) : b[n] \in Span
    BY <1>1, <1>2
  <2>2. rest \in Seq(Span)
    BY <1>1, <2>1, SubSeqProperties
  <2>3. Len(rest) = left
    BY <1>1, <2>1, SubSeqProperties
  <2>4. \A n \in 1..Len(b) - j + 1 : rest[n] = b[j + n - 1]
    BY <1>1, <2>1, SubSeqProperties
  <2> HIDE DEF rest
  <2>5. \A n \in 1..left : n \in 1..Len(b) - j + 1 /\ j + n - 1 \in j..Len(b)
    BY <1>1
  <2> QED BY <2>2, <2>3, <2>4, <2>5
<1> HIDE DEF rest
<1>4. /\ t \in Seq(Span) /\ Len(t) = Len(a) + left /\ left \in Nat
      /\ \A n \in 1..Len(a) + left : t[n] = IF n <= Len(a) THEN a[n] ELSE rest[n - Len(a)]
  <2>1. left \in Nat
    BY <1>1
  <2>2. /\ t \in Seq(Span) /\ Len(t) = Len(a) + Len(rest)
        /\ \A n \in 1..Len(a) + Len(rest) : t[n] = IF n <= Len(a) THEN a[n] ELSE rest[n - Len(a)]
    BY <1>1, <1>3, ConcatProperties
  <2> HIDE DEF t
  <2> QED BY <1>3, <2>1, <2>2
<1> HIDE DEF t
<1>5. \A n \in 1..Len(a) + left :
        \/ n \in 1..Len(a) /\ t[n] = a[n]
        \/ Len(a) < n /\ \E l \in j..Len(b) : l = j + (n - Len(a)) - 1 /\ l \in 1..Len(b) /\ t[n] = b[l]
  <2> SUFFICES ASSUME NEW n \in 1..Len(a) + left
               PROVE \/ n \in 1..Len(a) /\ t[n] = a[n]
                     \/ Len(a) < n /\ \E l \in j..Len(b) :
                          l = j + (n - Len(a)) - 1 /\ l \in 1..Len(b) /\ t[n] = b[l]
    OBVIOUS
  <2>1. CASE n <= Len(a)
    BY <1>1, <1>4, <2>1
  <2>2. CASE Len(a) < n
    <3>1. n - Len(a) \in 1..left /\ ~(n <= Len(a))
      BY <1>1, <1>4, <2>2
    <3>2. t[n] = b[j + (n - Len(a)) - 1] /\ j + (n - Len(a)) - 1 \in j..Len(b)
      BY <1>3, <1>4, <3>1
    <3>3. j + (n - Len(a)) - 1 \in 1..Len(b)
      BY <1>1, <3>1, <3>2
    <3> QED BY <2>2, <3>2, <3>3
  <2> QED BY <1>1, <1>4, <2>1, <2>2
<1>6. \A p : p \in Positions(a) <=> \E n \in 1..Len(a) : p \in SpanPositions(a[n])
  BY <1>1, PositionsOf
<1>7. \A p : p \in Positions(b) <=> \E l \in 1..Len(b) : p \in SpanPositions(b[l])
  BY <1>1, PositionsOf
<1>8. \A p : p \in Positions(t) <=> \E n \in 1..Len(a) + left : p \in SpanPositions(t[n])
  BY <1>4, PositionsOf
<1>9. ASSUME NEW n \in 1..Len(a)
      PROVE  n \in 1..Len(a) + left /\ t[n] = a[n]
  BY <1>1, <1>4
<1>10. ASSUME NEW l \in 1..Len(b), j <= l
       PROVE  \E n \in 1..Len(a) + left : t[n] = b[l]
  <2> DEFINE n == Len(a) + (l - j + 1)
  <2>1. n \in 1..Len(a) + left /\ ~(n <= Len(a)) /\ n - Len(a) \in 1..left /\ j + (n - Len(a)) - 1 = l
    BY <1>1, <1>10
  <2> HIDE DEF n
  <2>2. t[n] = rest[n - Len(a)] /\ rest[n - Len(a)] = b[j + (n - Len(a)) - 1]
    BY <1>3, <1>4, <2>1
  <2> QED BY <2>1, <2>2
<1> HIDE DEF left
<1>11. Positions(a) \subseteq Positions(t)
  BY <1>6, <1>8, <1>9
<1>12. Positions(b) \subseteq Positions(t)
  <2> SUFFICES ASSUME NEW p \in Positions(b) PROVE p \in Positions(t)
    OBVIOUS
  <2>1. PICK l \in 1..Len(b) : p \in SpanPositions(b[l])
    BY <1>7
  <2>2. CASE l < j
    BY <1>11, <2>1, <2>2 DEF MergeKept
  <2>3. CASE j <= l
    BY <1>8, <1>10, <2>1, <2>3
  <2> QED BY <1>1, <2>2, <2>3
<1>13. Positions(t) \subseteq Positions(a) \cup Positions(b)
  BY <1>5, <1>6, <1>7, <1>8
<1>14. \A l \in 1..Len(b) : b[l].start \in both /\ b[l].end \in both
  <2>1. \A l \in 1..Len(b) : b[l].start \in SpanPositions(b[l]) /\ b[l].end \in SpanPositions(b[l])
    BY <1>2, SpanFields
  <2> QED BY <1>7, <2>1
<1>15. Filled(a, both)
  BY DEF MergeKept
<1>16. Positions(b) \subseteq both /\ Positions(before) \subseteq Positions(a)
  BY DEF MergeKept
<1> HIDE DEF both
<1>17. Filled(t, both)
  <2>1. \A n \in 1..Len(t) : t[n].start \in both /\ t[n].end \in both
    BY <1>4, <1>5, <1>14, <1>15 DEF Filled
  <2>2. \A p \in Positions(t) \ both : p - 1 \in both /\ p + 1 \in both
    BY <1>13, <1>15, <1>16 DEF Filled
  <2> QED BY <2>1, <2>2 DEF Filled
<1>18. ASSUME Len(b) <= 1 PROVE Separate(t)
  <2>1. Separate(a)
    BY <1>18 DEF MergeKept
  <2>2. \A k \in 1..Len(a), l \in 1..Len(b) : k < i /\ j <= l => a[k].end + 2 < b[l].start
    BY <1>18 DEF MergeKept
  <2>3. ASSUME NEW k \in 1..Len(a) + left, NEW l \in 1..Len(a) + left, k < l
        PROVE  t[k].end + 2 < t[l].start
    <3>1. CASE l \in 1..Len(a) /\ t[l] = a[l]
      <4>1. k \in 1..Len(a)
        BY <1>1, <2>3, <3>1
      <4>2. t[k] = a[k]
        BY <1>9, <4>1
      <4> QED BY <2>1, <2>3, <3>1, <4>1, <4>2 DEF Separate
    <3>2. ASSUME Len(a) < l, NEW m \in j..Len(b), m = j + (l - Len(a)) - 1, m \in 1..Len(b), t[l] = b[m]
          PROVE  t[k].end + 2 < t[l].start
      <4>1. l = Len(a) + 1 /\ j <= m /\ i > Len(a)
        BY <1>1, <1>18, <3>2
      <4>2. k \in 1..Len(a) /\ k < i
        BY <1>1, <2>3, <4>1
      <4>3. t[k] = a[k]
        BY <1>9, <4>2
      <4> QED BY <2>2, <3>2, <4>1, <4>2, <4>3
    <3> QED BY <1>5, <3>1, <3>2
  <2> QED BY <1>4, <2>3 DEF Separate
<1>19. MergeComplete(t)
  BY <1>11, <1>12, <1>16, <1>17, <1>18 DEF MergeComplete, both
<1> QED BY <1>4, <1>19 DEF t, rest

-----------------------------------------------------------------------------
(* The loop of rangesInterfere.                                            *)

\* The iterator of the interval that lies below is advanced: the other list,
\* from its iterator on, lies above it.
LEMMA ScanPasses ==
  ASSUME LoopContext, Ordered(a), i <= Len(a), j <= Len(b), ScanKept(i, j)
  PROVE  /\ Before(a[i], b[j]) => ScanKept(i + 1, j)
         /\ After(a[i], b[j]) => ScanKept(i, j + 1)
<1>1. /\ i \in 1..Len(a) /\ j \in 1..Len(b) /\ Len(a) \in Nat /\ Len(b) \in Nat
      /\ a \in Seq(Span) /\ b \in Seq(Span)
  BY LenProperties DEF LoopContext
<1>2. /\ \A k \in 1..Len(a) : a[k].start \in Int /\ a[k].end \in Int /\ a[k].start <= a[k].end
      /\ \A l \in 1..Len(b) : b[l].start \in Int /\ b[l].end \in Int /\ b[l].start <= b[l].end
  BY <1>1, PositionsOf, SpanFields
<1>3. /\ \A k, l \in 1..Len(a) : k < l => a[k].end < a[l].start
      /\ \A k, l \in 1..Len(b) : k < l => b[k].end < b[l].start
  BY <1>1, SeparateIsOrdered DEF LoopContext, Ordered
<1>4. ASSUME Before(a[i], b[j]), NEW l \in 1..Len(b), j <= l
      PROVE  Before(a[i], b[l])
  <2>1. a[i].end < b[j].start
    BY <1>4 DEF Before
  <2>2. CASE l = j
    BY <1>4, <2>2
  <2>3. CASE j < l
    <3>1. b[j].end < b[l].start
      BY <1>1, <1>3, <2>3
    <3>2. b[j].start <= b[j].end /\ b[j].start \in Int /\ b[j].end \in Int /\ b[l].start \in Int /\ a[i].end \in Int
      BY <1>1, <1>2
    <3> QED BY <2>1, <3>1, <3>2 DEF Before
  <2> QED BY <1>1, <1>4, <2>2, <2>3
<1>5. ASSUME After(a[i], b[j]), NEW k \in 1..Len(a), i <= k
      PROVE  After(a[k], b[j])
  <2>1. b[j].end < a[i].start
    BY <1>1, <1>2, <1>5 DEF After
  <2>2. CASE k = i
    BY <1>5, <2>2
  <2>3. CASE i < k
    <3>1. a[i].end < a[k].start
      BY <1>1, <1>3, <2>3
    <3>2. a[i].start <= a[i].end /\ a[i].start \in Int /\ a[i].end \in Int /\ a[k].start \in Int /\ b[j].end \in Int
      BY <1>1, <1>2
    <3> QED BY <2>1, <3>1, <3>2 DEF After
  <2> QED BY <1>1, <1>5, <2>2, <2>3
<1>6. ASSUME Before(a[i], b[j]), NEW k \in 1..Len(a), NEW l \in 1..Len(b), k < i + 1 \/ l < j
      PROVE  Apart(a[k], b[l])
  <2>1. CASE k < i \/ l < j
    BY <2>1 DEF ScanKept
  <2>2. CASE ~(k < i \/ l < j)
    <3>1. k = i /\ j <= l
      BY <1>1, <1>6, <2>2
    <3> QED BY <1>4, <1>6, <3>1 DEF Apart
  <2> QED BY <2>1, <2>2
<1>7. ASSUME After(a[i], b[j]), NEW k \in 1..Len(a), NEW l \in 1..Len(b), k < i \/ l < j + 1
      PROVE  Apart(a[k], b[l])
  <2>1. CASE k < i \/ l < j
    BY <2>1 DEF ScanKept
  <2>2. CASE ~(k < i \/ l < j)
    <3>1. l = j /\ i <= k
      BY <1>1, <1>7, <2>2
    <3> QED BY <1>5, <1>7, <3>1 DEF Apart
  <2> QED BY <2>1, <2>2
<1> QED BY <1>6, <1>7 DEF ScanKept

\* Intervals that are neither before nor after each other share a position.
LEMMA OverlapShares ==
  ASSUME LoopContext, i <= Len(a), j <= Len(b), ~Before(a[i], b[j]), ~After(a[i], b[j])
  PROVE  Positions(a) \cap Positions(b) # {}
<1> DEFINE u == a[i]
           v == b[j]
<1>1. /\ i \in 1..Len(a) /\ j \in 1..Len(b) /\ a \in Seq(Span) /\ b \in Seq(Span)
  BY LenProperties DEF LoopContext
<1>2. /\ u.start \in Int /\ u.end \in Int /\ u.start <= u.end
      /\ \A p : p \in SpanPositions(u) <=> p \in Int /\ u.start <= p /\ p <= u.end
  BY <1>1, PositionsOf, SpanFields
<1>3. /\ v.start \in Int /\ v.end \in Int /\ v.start <= v.end
      /\ \A p : p \in SpanPositions(v) <=> p \in Int /\ v.start <= p /\ p <= v.end
  BY <1>1, PositionsOf, SpanFields
<1>4. u.start <= v.end /\ v.start <= u.end
  BY <1>2, <1>3 DEF Before, After
<1>5. SpanPositions(u) \subseteq Positions(a) /\ SpanPositions(v) \subseteq Positions(b)
  BY <1>1, PositionsOf
<1> HIDE DEF u, v
<1>6. CASE u.start <= v.start
  <2>1. v.start \in SpanPositions(u) /\ v.start \in SpanPositions(v)
    BY <1>2, <1>3, <1>4, <1>6
  <2> QED BY <1>5, <2>1
<1>7. CASE v.start <= u.start
  <2>1. u.start \in SpanPositions(u) /\ u.start \in SpanPositions(v)
    BY <1>2, <1>3, <1>4, <1>7
  <2> QED BY <1>5, <2>1
<1> QED BY <1>2, <1>3, <1>6, <1>7
-----------------------------------------------------------------------------
(* The invariant is inductive.                                             *)

LEMMA ListsAreLists ==
  ASSUME NEW s \in Lists
  PROVE  s \in Seq(Span) /\ Separate(s)
<1>1. PICK n \in 0..MaxIntervals : s \in [1..n -> Intervals] /\ Regular(s)
  BY DEF Lists
<1>2. Intervals \subseteq Span
  BY DEF Intervals, Span
<1>3. n \in Nat /\ s \in [1..n -> Span]
  BY <1>1, <1>2
<1>4. s \in Seq(Span)
  BY <1>3, SeqDef
<1> QED BY <1>1, <1>4, RegularIsSeparate

LEMMA InitInv ==
  ASSUME InitLists
  PROVE  IInv
<1>1. /\ a \in Seq(Span) /\ Separate(a) /\ b \in Seq(Span) /\ Separate(b) /\ common \in Seq(Span)
  BY ListsAreLists DEF InitLists
<1>2. i = 1 /\ j = 1 /\ answer = FALSE /\ before = a /\ queue = <<>>
      /\ op \in {"subtract", "intersect", "merge", "interfere"}
      /\ pc = IF op = "interfere" THEN "subtract" ELSE op
  BY DEF InitLists, Begins
<1>3. TypeOK
  <2>1. pc \in IF op = "interfere" THEN {"subtract", "scan", "done"} ELSE {op, "done"}
    BY <1>2
  <2>2. i \in Nat \ {0} /\ j \in Nat \ {0}
    BY <1>2
  <2>3. answer \in BOOLEAN
    BY <1>2
  <2>4. Separate(before) /\ before \in Seq(Span)
    BY <1>1, <1>2
  <2> QED BY <1>1, <1>2, <2>1, <2>2, <2>3, <2>4 DEF TypeOK
<1>4. SubtractInv
  BY <1>2 DEF SubtractInv, SubtractKeepsRest
<1>5. Ordered(a)
  BY <1>1, SeparateIsOrdered
<1>6. (\A k \in 1..Len(a) : ~(k < 1)) /\ (\A l \in 1..Len(b) : ~(l < 1))
  OBVIOUS
<1>7. IntersectInv
  BY <1>2, <1>5, <1>6 DEF IntersectInv, IntersectKept
<1>8. MergeInv
  <2>1. \A k \in 1..Len(a) : a[k].start \in SpanPositions(a[k]) /\ a[k].end \in SpanPositions(a[k])
    BY <1>1, PositionsOf, SpanFields
  <2>2. \A k \in 1..Len(a) : a[k].start \in Positions(a) /\ a[k].end \in Positions(a)
    BY <1>1, <2>1, PositionsOf
  <2>3. Filled(a, Positions(before) \cup Positions(b))
    BY <1>2, <2>2 DEF Filled
  <2>4. TailOrdered(a, 1)
    BY <1>5 DEF Ordered, TailOrdered
  <2>5. MergeKept(a, 1, 1)
    BY <1>1, <1>2, <1>6, <2>3, <2>4 DEF MergeKept
  <2> QED BY <1>2, <2>5 DEF MergeInv
<1>9. ScanInv
  BY <1>2 DEF ScanInv
<1> QED BY <1>3, <1>4, <1>7, <1>8, <1>9 DEF IInv

\* Where a loop that ends leads.
LEMMA LeaveLeads ==
  ASSUME TypeOK, Leave
  PROVE  \/ /\ op = "interfere" /\ pc = "subtract" /\ pc' = "scan" /\ i' = 1 /\ j' = 1
            /\ UNCHANGED lists
         \/ /\ ~(op = "interfere" /\ pc = "subtract") /\ pc' = "done"
            /\ UNCHANGED <<lists, i, j>>
  BY DEF TypeOK, Leave

LEMMA ContextHolds ==
  ASSUME TypeOK
  PROVE  LoopContext
  BY DEF TypeOK, LoopContext

LEMMA SubtractKeeps ==
  ASSUME IInv, Subtract
  PROVE  IInv'
<1>1. TypeOK /\ LoopContext /\ SubtractInv
  BY ContextHolds DEF IInv
<1>2. /\ pc = "subtract" /\ i <= Len(a) /\ j <= Len(common) /\ SubtractStep(a[i], common[j])
      /\ op' = op /\ common' = common /\ before' = before /\ b' = b /\ queue' = queue
      /\ pc' = pc /\ answer' = answer
  BY DEF Subtract, Running, input, lists
<1>3. op \in {"subtract", "interfere"}
  BY <1>1, <1>2 DEF TypeOK
<1>4. /\ i \in Nat /\ 1 <= i /\ j \in Nat /\ 1 <= j /\ a \in Seq(Span)
      /\ j \in 1..Len(common) /\ common \in Seq(Span)
  BY <1>1, <1>2, LenProperties DEF TypeOK
<1>5. common[j] \in Span /\ SpanPositions(common[j]) \subseteq Positions(common)
  BY <1>4, PositionsOf
<1>6. /\ a' \in Seq(Span) /\ i' \in Nat \ {0} /\ j' \in Nat \ {0}
      /\ Positions(a') \subseteq Positions(a)
      /\ Positions(a) \ SpanPositions(common[j]) \subseteq Positions(a')
  BY <1>2, <1>4, <1>5, SubtractStepKeeps
<1>7. TypeOK'
  BY <1>1, <1>2, <1>6 DEF TypeOK
<1>8. common # <<>>
  BY <1>4
<1>9. SubtractInv'
  BY <1>1, <1>2, <1>3, <1>5, <1>6, <1>8 DEF SubtractInv, SubtractKeepsRest
<1>10. ScanInv'
  BY <1>2 DEF IInv, ScanInv
<1>11. IntersectInv' /\ MergeInv'
  BY <1>2, <1>3 DEF IntersectInv, MergeInv
<1> QED BY <1>7, <1>9, <1>10, <1>11 DEF IInv

LEMMA IntersectKeeps ==
  ASSUME IInv, Intersect
  PROVE  IInv'
<1>1. TypeOK /\ LoopContext
  BY ContextHolds DEF IInv
<1>2. /\ pc = "intersect" /\ i <= Len(a)
      /\ op' = op /\ common' = common /\ before' = before /\ b' = b /\ queue' = queue
      /\ pc' = pc /\ answer' = answer
  BY DEF Intersect, Running, input, lists
<1>3. op = "intersect"
  BY <1>1, <1>2 DEF TypeOK
<1>4. IntersectKept(a, i, j)
  BY <1>3 DEF IInv, IntersectInv
<1>5. a' \in Seq(Span) /\ i' \in Nat \ {0} /\ j' \in Nat \ {0} /\ IntersectKept(a', i', j')
  <2>1. CASE (j <= Len(b) => Before(a[i], b[j])) /\ a' = RemoveAt(a, i) /\ UNCHANGED <<i, j>>
    BY <1>1, <1>2, <1>4, <2>1, IntersectErases DEF TypeOK
  <2>2. CASE j <= Len(b) /\ After(a[i], b[j]) /\ j' = j + 1 /\ UNCHANGED <<a, i>>
    <3>1. IntersectKept(a, i, j + 1)
      BY <1>1, <1>2, <1>4, <2>2, IntersectPasses
    <3>2. j + 1 \in Nat \ {0}
      BY <1>1 DEF TypeOK
    <3> QED BY <1>1, <2>2, <3>1, <3>2 DEF TypeOK
  <2>3. CASE j <= Len(b) /\ ~Before(a[i], b[j]) /\ ~After(a[i], b[j]) /\ Clip(a[i], b[j])
    BY <1>1, <1>2, <1>4, <2>3, IntersectClips
  <2> QED BY <2>1, <2>2, <2>3 DEF Intersect
<1>6. TypeOK'
  BY <1>1, <1>2, <1>5 DEF TypeOK
<1>7. IntersectInv'
  BY <1>2, <1>3, <1>5 DEF IntersectInv, IntersectKept
<1>8. SubtractInv' /\ MergeInv' /\ ScanInv'
  BY <1>2, <1>3 DEF SubtractInv, SubtractKeepsRest, MergeInv, ScanInv
<1> QED BY <1>6, <1>7, <1>8 DEF IInv

LEMMA MergeKeeps ==
  ASSUME IInv, Merge
  PROVE  IInv'
<1>1. TypeOK /\ LoopContext
  BY ContextHolds DEF IInv
<1>2. /\ pc = "merge" /\ i <= Len(a) /\ j <= Len(b) /\ MergeStep(a[i], b[j])
      /\ op' = op /\ common' = common /\ before' = before /\ b' = b /\ queue' = queue
      /\ pc' = pc /\ answer' = answer
  BY DEF Merge, Running, input, lists
<1>3. op = "merge"
  BY <1>1, <1>2 DEF TypeOK
<1>4. MergeKept(a, i, j)
  BY <1>2, <1>3 DEF IInv, MergeInv
<1>5. a' \in Seq(Span) /\ i' \in Nat \ {0} /\ j' \in Nat \ {0} /\ MergeKept(a', i', j')
  BY <1>1, <1>2, <1>4, MergeStepKeeps
<1>6. TypeOK'
  BY <1>1, <1>2, <1>5 DEF TypeOK
<1>7. MergeInv'
  BY <1>2, <1>3, <1>5 DEF MergeInv, MergeKept
<1>8. SubtractInv' /\ IntersectInv' /\ ScanInv'
  BY <1>2, <1>3 DEF SubtractInv, SubtractKeepsRest, IntersectInv, ScanInv
<1> QED BY <1>6, <1>7, <1>8 DEF IInv

LEMMA ScanKeeps ==
  ASSUME IInv, Scan
  PROVE  IInv'
<1>1. TypeOK /\ LoopContext /\ SubtractInv /\ ScanInv
  BY ContextHolds DEF IInv
<1>2. /\ pc = "scan" /\ i <= Len(a) /\ j <= Len(b) /\ a' = a
      /\ op' = op /\ common' = common /\ before' = before /\ b' = b /\ queue' = queue
  BY DEF Scan, Running, input, lists
<1>3. op = "interfere" /\ answer = FALSE
  BY <1>1, <1>2 DEF TypeOK, ScanInv
<1>4. SubtractInv'
  BY <1>1, <1>2 DEF SubtractInv, SubtractKeepsRest
<1>5. IntersectInv' /\ MergeInv'
  BY <1>2, <1>3 DEF IntersectInv, MergeInv
<1>6. ASSUME common = <<>> PROVE Ordered(a) /\ ScanKept(i, j)
  <2>1. a = before
    BY <1>1, <1>3, <1>6 DEF SubtractInv
  <2>2. Ordered(a)
    BY <1>1, <2>1, SeparateIsOrdered DEF TypeOK
  <2> QED BY <1>1, <1>2, <1>3, <1>6, <2>2 DEF ScanInv
<1>7. i + 1 \in Nat \ {0} /\ j + 1 \in Nat \ {0}
  BY <1>1 DEF TypeOK
<1>8. ASSUME \/ Before(a[i], b[j]) /\ i' = i + 1 /\ UNCHANGED <<j, pc, answer>>
             \/ After(a[i], b[j]) /\ j' = j + 1 /\ UNCHANGED <<i, pc, answer>>
      PROVE  TypeOK' /\ ScanInv'
  <2>1. common = <<>> => ScanKept(i', j')
    BY <1>1, <1>2, <1>6, <1>8, ScanPasses
  <2>2. ScanInv'
    BY <1>2, <1>3, <1>8, <2>1 DEF ScanInv, ScanKept
  <2>3. TypeOK'
    BY <1>1, <1>2, <1>7, <1>8 DEF TypeOK
  <2> QED BY <2>2, <2>3
<1>9. ASSUME ~Before(a[i], b[j]), ~After(a[i], b[j]), answer' = TRUE, pc' = "done", UNCHANGED <<i, j>>
      PROVE  TypeOK' /\ ScanInv'
  <2>1. Positions(a) \cap Positions(b) # {}
    BY <1>1, <1>2, <1>9, OverlapShares
  <2>2. Positions(before) \cap Positions(b) # {}
    BY <1>1, <1>3, <2>1 DEF SubtractInv, SubtractKeepsRest
  <2>3. ScanInv'
    BY <1>2, <1>9, <2>2 DEF ScanInv
  <2>4. TypeOK'
    BY <1>1, <1>2, <1>3, <1>9 DEF TypeOK
  <2> QED BY <2>3, <2>4
<1>10. TypeOK' /\ ScanInv'
  BY <1>8, <1>9 DEF Scan
<1> QED BY <1>4, <1>5, <1>10 DEF IInv

\* The end of a loop: rangesInterfere begins to scan, the others are done.
LEMMA EndsKeep ==
  ASSUME IInv, SubtractEnds \/ IntersectEnds \/ MergeEnds \/ ScanEnds
  PROVE  IInv'
<1>1. TypeOK /\ LoopContext /\ SubtractInv /\ IntersectInv /\ MergeInv /\ ScanInv
  BY ContextHolds DEF IInv
<1>2. /\ Leave /\ op' = op /\ common' = common /\ before' = before /\ answer' = answer
      /\ pc \in {"subtract", "intersect", "merge", "scan"}
  BY DEF SubtractEnds, IntersectEnds, MergeEnds, ScanEnds, input
<1>3. \/ /\ op = "interfere" /\ pc = "subtract" /\ pc' = "scan" /\ i' = 1 /\ j' = 1
         /\ b' = b /\ queue' = queue
      \/ /\ ~(op = "interfere" /\ pc = "subtract") /\ pc' = "done"
         /\ b' = b /\ queue' = queue /\ i' = i /\ j' = j
  BY <1>1, <1>2, LeaveLeads DEF lists
<1>4. op = "merge" <=> pc = "merge"
  BY <1>1, <1>2 DEF TypeOK
<1>5. CASE op = "merge"
  <2>1. a' = a \o SubSeq(b, j, Len(b)) /\ (i > Len(a) \/ j > Len(b))
    BY <1>4, <1>5 DEF MergeEnds, SubtractEnds, IntersectEnds, ScanEnds
  <2>2. a' \in Seq(Span) /\ MergeComplete(a')
    BY <1>1, <1>4, <1>5, <2>1, MergeAppends DEF MergeInv
  <2>3. pc' = "done" /\ b' = b /\ queue' = queue /\ i' = i /\ j' = j
    BY <1>3, <1>5
  <2>4. TypeOK'
    BY <1>1, <1>2, <1>5, <2>2, <2>3 DEF TypeOK
  <2>5. MergeInv'
    BY <1>2, <1>5, <2>2, <2>3 DEF MergeInv, MergeComplete
  <2>6. SubtractInv' /\ IntersectInv' /\ ScanInv'
    BY <1>2, <1>5 DEF SubtractInv, SubtractKeepsRest, IntersectInv, ScanInv
  <2> QED BY <2>4, <2>5, <2>6 DEF IInv
<1>6. CASE op # "merge"
  <2>1. a' = a
    BY <1>4, <1>6 DEF MergeEnds, SubtractEnds, IntersectEnds, ScanEnds
  <2>2. TypeOK'
    BY <1>1, <1>2, <1>3, <1>6, <2>1 DEF TypeOK
  <2>3. SubtractInv' /\ MergeInv'
    BY <1>1, <1>2, <1>3, <1>6, <2>1 DEF SubtractInv, SubtractKeepsRest, MergeInv
  <2>4. IntersectInv'
    <3>1. CASE op = "intersect"
      <4>1. pc = "intersect" /\ i > Len(a)
        BY <1>1, <1>2, <3>1 DEF TypeOK, IntersectEnds, SubtractEnds, MergeEnds, ScanEnds
      <4>2. IntersectKept(a, i, j)
        BY <1>1, <3>1 DEF IntersectInv
      <4> QED BY <1>2, <1>3, <2>1, <3>1, <4>1, <4>2 DEF IntersectInv, IntersectKept
    <3>2. CASE op # "intersect"
      BY <1>2, <3>2 DEF IntersectInv
    <3> QED BY <3>1, <3>2
  <2>5. ScanInv'
    <3>1. CASE op = "interfere" /\ pc = "subtract"
      <4>1. pc' = "scan" /\ i' = 1 /\ j' = 1 /\ b' = b /\ answer' = FALSE
        BY <1>1, <1>2, <1>3, <3>1 DEF ScanInv, TypeOK
      <4>2. (\A k \in 1..Len(a) : ~(k < 1)) /\ (\A l \in 1..Len(b) : ~(l < 1))
        OBVIOUS
      <4>3. ScanKept(1, 1)
        BY <4>2 DEF ScanKept
      <4> QED BY <2>1, <4>1, <4>3 DEF ScanInv, ScanKept
    <3>2. CASE op = "interfere" /\ pc = "scan"
      <4>1. i > Len(a) \/ j > Len(b)
        BY <3>2 DEF SubtractEnds, IntersectEnds, MergeEnds, ScanEnds
      <4>2. pc' = "done" /\ i' = i /\ j' = j /\ b' = b
        BY <1>3, <3>2
      <4> QED BY <1>1, <1>2, <2>1, <3>2, <4>1, <4>2 DEF ScanInv, ScanKept
    <3>3. CASE op # "interfere"
      BY <1>2, <3>3 DEF ScanInv
    <3> QED BY <1>1, <1>2, <3>1, <3>2, <3>3 DEF TypeOK
  <2> QED BY <2>2, <2>3, <2>4, <2>5 DEF IInv
<1> QED BY <1>5, <1>6

LEMMA StepInv ==
  ASSUME IInv, [Next]_vars
  PROVE  IInv'
<1>1. CASE UNCHANGED vars
  BY <1>1 DEF vars, input, lists, IInv, TypeOK, SubtractInv, SubtractKeepsRest, IntersectInv, IntersectKept,
              MergeInv, MergeKept, MergeComplete, ScanInv, ScanKept
<1>2. CASE Subtract
  BY <1>2, SubtractKeeps
<1>3. CASE Intersect
  BY <1>3, IntersectKeeps
<1>4. CASE Merge
  BY <1>4, MergeKeeps
<1>5. CASE Scan
  BY <1>5, ScanKeeps
<1>6. CASE SubtractEnds \/ IntersectEnds \/ MergeEnds \/ ScanEnds
  BY <1>6, EndsKeep
<1>7. CASE Done
  BY <1>1, <1>7 DEF Done
<1> QED BY <1>1, <1>2, <1>3, <1>4, <1>5, <1>6, <1>7 DEF Next

(* What each loop has done so far holds in every state.                    *)
THEOREM Invariance == ListsSpec => []IInv
  BY InitInv, StepInv, PTL DEF ListsSpec

-----------------------------------------------------------------------------
(* No position that is not subtracted is taken from a list, and none is    *)
(* added to it, at any step of intervalSubtract.                           *)
THEOREM NothingElseSubtracted == ListsSpec => []SubtractKeepsRest
<1>1. IInv => SubtractKeepsRest
  BY DEF IInv, SubtractInv
<1> QED BY <1>1, Invariance, PTL

(* intervalIntersect returns the common positions of two lists of any      *)
(* length, ascending: at its end all of a is before iterA.                 *)
THEOREM IntersectionIsExact == ListsSpec => []IntersectExact
<1>1. ASSUME IInv PROVE IntersectExact
  <2> SUFFICES ASSUME op = "intersect", pc = "done"
               PROVE  Positions(a) = Positions(before) \cap Positions(b) /\ InOrder(a)
    BY DEF IntersectExact
  <2>1. a \in Seq(Span) /\ IntersectKept(a, i, j) /\ i > Len(a) /\ i \in Nat /\ Len(a) \in Nat
    BY <1>1, LenProperties DEF IInv, TypeOK, IntersectInv
  <2>2. \A k \in 1..Len(a) : SpanPositions(a[k]) \subseteq Positions(before) \cap Positions(b)
    <3>1. \A k \in 1..Len(a) : k < i
      BY <2>1
    <3> QED BY <2>1, <3>1 DEF IntersectKept
  <2>3. Positions(a) \subseteq Positions(before) \cap Positions(b)
    BY <2>1, <2>2, PositionsOf
  <2> QED BY <2>1, <2>3, InOrderIsOrdered DEF IntersectKept
<1> QED BY <1>1, Invariance, PTL

(* intervalMerge loses no position of lists of any length, adds only gaps  *)
(* of one position, and keeps a list regular if the other is a single      *)
(* interval.                                                               *)
THEOREM MergeIsACover == ListsSpec => []MergeCovers
<1>1. ASSUME IInv PROVE MergeCovers
  <2> DEFINE both == Positions(before) \cup Positions(b)
  <2> SUFFICES ASSUME op = "merge", pc = "done"
               PROVE  /\ both \subseteq Positions(a)
                      /\ \A p \in Positions(a) \ both : {p - 1, p + 1} \subseteq both
                      /\ Len(b) <= 1 => Regular(a)
    BY DEF MergeCovers
  <2>1. a \in Seq(Span) /\ MergeComplete(a)
    BY <1>1 DEF IInv, TypeOK, MergeInv
  <2> QED BY <2>1, RegularIsSeparate DEF MergeComplete, Filled
<1> QED BY <1>1, Invariance, PTL

(* rangesInterfere reports only ranges that share a position, and all of   *)
(* them if there is no common alias: the interval that ends first cannot   *)
(* overlap what follows in the other list.                                 *)
THEOREM InterferenceIsSound == ListsSpec => []InterfereSound
<1>1. ASSUME IInv PROVE InterfereSound
  <2> DEFINE shared == Positions(before) \cap Positions(b)
  <2>1. SubtractKeepsRest
    BY <1>1 DEF IInv, SubtractInv
  <2>2. ASSUME op = "interfere", pc = "done", answer PROVE shared # {}
    BY <1>1, <2>2 DEF IInv, ScanInv
  <2>3. ASSUME op = "interfere", pc = "done", common = <<>>, ~answer, shared # {} PROVE FALSE
    <3>1. /\ a = before /\ ScanKept(i, j) /\ (i > Len(a) \/ j > Len(b))
          /\ a \in Seq(Span) /\ b \in Seq(Span) /\ i \in Nat /\ j \in Nat
      BY <1>1, <2>3 DEF IInv, TypeOK, SubtractInv, ScanInv
    <3>2. PICK p : p \in Positions(a) /\ p \in Positions(b)
      BY <2>3, <3>1
    <3>3. PICK k \in 1..Len(a) : p \in SpanPositions(a[k])
      BY <3>1, <3>2, PositionsOf
    <3>4. PICK l \in 1..Len(b) : p \in SpanPositions(b[l])
      BY <3>1, <3>2, PositionsOf
    <3>5. k < i \/ l < j
      BY <3>1, LenProperties
    <3>6. Apart(a[k], b[l])
      BY <3>1, <3>5 DEF ScanKept
    <3>7. /\ a[k].start \in Int /\ a[k].end \in Int /\ p \in Int /\ a[k].start <= p /\ p <= a[k].end
          /\ b[l].start \in Int /\ b[l].end \in Int /\ b[l].start <= p /\ p <= b[l].end
      BY <3>1, <3>3, <3>4, PositionsOf, SpanFields
    <3> QED BY <3>6, <3>7 DEF Apart, Before, After
  <2> HIDE DEF shared
  <2>4. op = "interfere" /\ pc = "done" => (answer => shared # {}) /\ (common = <<>> /\ shared # {} => answer)
    BY <2>2, <2>3
  <2> QED BY <2>1, <2>4 DEF InterfereSound, shared
<1> QED BY <1>1, Invariance, PTL
=============================================================================
