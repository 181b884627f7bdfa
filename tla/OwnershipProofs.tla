-------------------------- MODULE OwnershipProofs --------------------------
(***************************************************************************)
(* Proofs about Ownership, for any set of buffers and any bounds.  The     *)
(* conjuncts of Inv are inductive together: a retain keeps UniqueOwner     *)
(* because an alloc goes to the first alias only, OwnedIsLive because only *)
(* allocs are returned and those returned are not freed, and NoLeak        *)
(* because those not returned are.                                         *)
(***************************************************************************)
EXTENDS Ownership, SequenceTheorems, WellFoundedInduction, TLAPS

(* An indicator list cut in two, as a retain cuts it: both parts are       *)
(* lists of indicators, and every element is in the part its index says.   *)
LEMMA SplitProperties ==
  ASSUME NEW s \in Seq(Ref), NEW n \in 0..Len(s)
  PROVE  LET kept == SubSeq(s, 1, n)
             allocs == SubSeq(s, n + 1, Len(s))
         IN  /\ kept \in Seq(Ref) /\ Len(kept) = n
             /\ \A k \in 1..n : kept[k] = s[k]
             /\ allocs \in Seq(Ref) /\ Len(allocs) = Len(s) - n
             /\ \A k \in 1..Len(s) - n : allocs[k] = s[n + k]
<1>1. Len(s) \in Nat /\ \A k \in 1..Len(s) : s[k] \in Ref
  BY LenProperties, ElementOfSeq
<1>2. /\ SubSeq(s, 1, n) \in Seq(Ref)
      /\ Len(SubSeq(s, 1, n)) = IF 1 <= n THEN n - 1 + 1 ELSE 0
      /\ \A k \in 1..n - 1 + 1 : SubSeq(s, 1, n)[k] = s[1 + k - 1]
  BY <1>1, SubSeqProperties, \A k \in 1..n : s[k] \in Ref
<1>3. /\ SubSeq(s, n + 1, Len(s)) \in Seq(Ref)
      /\ Len(SubSeq(s, n + 1, Len(s))) = IF n + 1 <= Len(s) THEN Len(s) - (n + 1) + 1 ELSE 0
      /\ \A k \in 1..Len(s) - (n + 1) + 1 : SubSeq(s, n + 1, Len(s))[k] = s[n + 1 + k - 1]
  <2>1. \A k \in n + 1..Len(s) : s[k] \in Ref
    BY <1>1
  <2> QED BY <1>1, <2>1, SubSeqProperties, n + 1 \in Int, Len(s) \in Int
<1> QED
  BY <1>1, <1>2, <1>3

(* The result of a retain is a list of indicators, one per memref, and     *)
(* what it contains besides null are the allocs some memref is derived     *)
(* from, each once.                                                        *)
LEMMA RetainResultProperties ==
  ASSUME NEW values \in Seq(Ref), NEW allocs \in Seq(Ref)
  PROVE  LET res == RetainResult(values, allocs)
         IN  /\ res \in Seq(Ref) /\ Len(res) = Len(values)
             /\ \A k \in 1..Len(values) :
                  res[k] = IF Claims(values, allocs, k) THEN values[k] ELSE Null
<1> DEFINE res == RetainResult(values, allocs)
<1>1. Len(values) \in Nat /\ DOMAIN values = 1..Len(values)
      /\ \A k \in 1..Len(values) : values[k] \in Ref
  BY LenProperties, ElementOfSeq
<1>2. res \in [1..Len(values) -> Ref]
  BY <1>1 DEF RetainResult, Ref
<1>3. res \in Seq(Ref) /\ Len(res) = Len(values)
  BY <1>1, <1>2
<1> QED
  BY <1>1, <1>3 DEF RetainResult

(* Two lists put together are cut into the same two again.                 *)
LEMMA ConcatParts ==
  ASSUME NEW S, NEW s \in Seq(S), NEW t \in Seq(S)
  PROVE  /\ SubSeq(s \o t, 1, Len(s)) = s
         /\ SubSeq(s \o t, Len(s) + 1, Len(s \o t)) = t
<1>1. /\ s \o t \in Seq(S)
      /\ Len(s \o t) = Len(s) + Len(t)
      /\ \A k \in 1..Len(s) + Len(t) :
           (s \o t)[k] = IF k <= Len(s) THEN s[k] ELSE t[k - Len(s)]
  BY ConcatProperties
<1>2. Len(s) \in Nat /\ Len(t) \in Nat
  BY LenProperties
<1>3. CASE Len(s) = 0
  <2>1. s = <<>>
    BY <1>3, EmptySeq
  <2>2. s \o t = t
    BY <2>1, ConcatEmptySeq
  <2>3. SubSeq(t, 1, 0) = <<>>
    BY SubSeqEmpty
  <2> QED BY <1>2, <1>3, <2>1, <2>2, <2>3, SubSeqFull
<1>4. CASE Len(s) # 0
  <2>1. SubSeq(s \o t, 1, Len(s)) = s
    <3>1. 1 \in 1..Len(s) /\ Len(s) \in 1..Len(s)
      BY <1>2, <1>4
    <3> QED BY <3>1, SubSeqOfConcat1, SubSeqFull
  <2>2. CASE Len(t) = 0
    <3>1. t = <<>>
      BY <2>2, EmptySeq
    <3>2. Len(s \o t) < Len(s) + 1
      BY <1>1, <1>2, <2>2
    <3> QED BY <1>1, <1>2, <2>1, <3>1, <3>2, SubSeqEmpty
  <2>3. CASE Len(t) # 0
    <3>1. Len(s) + 1 \in Len(s) + 1..Len(s) + Len(t) /\ Len(s) + Len(t) \in Len(s) + 1..Len(s) + Len(t)
          /\ Len(s) + 1 - Len(s) = 1 /\ Len(s) + Len(t) - Len(s) = Len(t)
      BY <1>2, <2>3
    <3> QED BY <1>1, <2>1, <3>1, SubSeqOfConcat2, SubSeqFull
  <2> QED BY <2>2, <2>3
<1> QED BY <1>3, <1>4

(* What the invariant says when the indicators are those of two lists, as  *)
(* they are while a retain has taken the second as its operands.           *)
LEMMA OwnedInParts ==
  ASSUME NEW s \in Seq(Ref), NEW t \in Seq(Ref), owned = s \o t, Inv
  PROVE  /\ \A k, m \in DOMAIN t : t[k] = t[m] => k = m \/ t[k] = Null
         /\ \A k \in DOMAIN t : t[k] # Null => t[k] \in Buffer \ Borrowed
         /\ \A k \in DOMAIN s : s[k] # Null =>
              /\ s[k] \in Buffer \ Borrowed
              /\ heap[s[k]] = "live"
              /\ \A m \in DOMAIN t : t[m] # s[k]
<1>1. /\ owned \in Seq(Ref)
      /\ Len(owned) = Len(s) + Len(t)
      /\ \A k \in 1..Len(s) + Len(t) :
           owned[k] = IF k <= Len(s) THEN s[k] ELSE t[k - Len(s)]
  BY ConcatProperties
<1>2. /\ Len(s) \in Nat /\ DOMAIN s = 1..Len(s) /\ \A k \in DOMAIN s : s[k] \in Ref
      /\ Len(t) \in Nat /\ DOMAIN t = 1..Len(t) /\ \A k \in DOMAIN t : t[k] \in Ref
      /\ DOMAIN owned = 1..Len(s) + Len(t)
  BY <1>1, LenProperties, ElementOfSeq
<1>3. \A k \in DOMAIN s : k \in DOMAIN owned /\ owned[k] = s[k]
  BY <1>1, <1>2
<1>4. \A k \in DOMAIN t : Len(s) + k \in DOMAIN owned
                          /\ owned[Len(s) + k] = t[k]
                          /\ Len(s) + k \notin DOMAIN s
  <2>1. \A k \in DOMAIN t : Len(s) + k \in 1..Len(s) + Len(t)
          /\ ~(Len(s) + k <= Len(s)) /\ Len(s) + k - Len(s) = k
    BY <1>2
  <2> QED BY <1>1, <1>2, <2>1
<1>5. /\ \A k, m \in DOMAIN owned : owned[k] = owned[m] => k = m \/ owned[k] = Null
      /\ \A k \in DOMAIN owned : owned[k] # Null =>
           heap[owned[k]] = "live" /\ owned[k] \notin Borrowed
  BY DEF Inv, UniqueOwner, OwnedIsLive
<1>6. \A k, m \in DOMAIN t : t[k] = t[m] => k = m \/ t[k] = Null
  <2> SUFFICES ASSUME NEW k \in DOMAIN t, NEW m \in DOMAIN t, t[k] = t[m], t[k] # Null
               PROVE  k = m
    OBVIOUS
  <2>1. Len(s) + k = Len(s) + m
    BY <1>4, <1>5
  <2> QED BY <1>2, <2>1
<1>7. \A k \in DOMAIN t : t[k] # Null => t[k] \in Buffer \ Borrowed
  BY <1>2, <1>4, <1>5 DEF Ref
<1>8. ASSUME NEW k \in DOMAIN s, s[k] # Null
      PROVE  /\ s[k] \in Buffer \ Borrowed
             /\ heap[s[k]] = "live"
             /\ \A m \in DOMAIN t : t[m] # s[k]
  <2>1. \A m \in DOMAIN t : t[m] # s[k]
    BY <1>3, <1>4, <1>5, <1>8
  <2> QED BY <1>2, <1>3, <1>5, <1>8, <2>1 DEF Ref
<1> QED BY <1>6, <1>7, <1>8

(* A non-empty set of naturals has a least element.                        *)
LEMMA LeastNat ==
  ASSUME NEW T, T \subseteq Nat, T # {}
  PROVE  \E k \in T : \A m \in T : ~(m < k)
<1>1. PICK k \in T : \A m \in T : ~(<<m, k>> \in OpToRel(<, Nat))
  BY NatLessThanWellFounded, WFMin
<1> QED
  BY <1>1 DEF OpToRel

(* Of the memrefs derived from an alloc, one claims it: the first.         *)
LEMMA FirstClaims ==
  ASSUME NEW values \in Seq(Ref), NEW allocs \in Seq(Ref),
         NEW b \in Elems(allocs) \ {Null}, b \in Elems(values)
  PROVE  \E k \in 1..Len(values) : Claims(values, allocs, k) /\ values[k] = b
<1> DEFINE At == {k \in 1..Len(values) : values[k] = b}
<1>1. Len(values) \in Nat /\ DOMAIN values = 1..Len(values)
  BY LenProperties
<1>2. At # {} /\ At \subseteq Nat
  BY <1>1 DEF Elems
<1>3. PICK k \in At : \A m \in At : ~(m < k)
  BY <1>2, LeastNat
<1> QED
  BY <1>1, <1>3 DEF Claims

-----------------------------------------------------------------------------
LEMMA InitInv == Init => Inv
<1> SUFFICES ASSUME Init PROVE Inv
  OBVIOUS
<1> USE OwnershipAssumption DEF Init
<1>1. owned \in Seq(Ref) /\ DOMAIN owned = {}
  BY EmptySeq
<1>2. heap \in [Buffer -> {"unused", "live", "freed"}]
  OBVIOUS
<1> QED
  BY <1>1, <1>2 DEF Inv, TypeOK, UniqueOwner, OwnedIsLive, NoLeak, BorrowedStayLive

LEMMA AllocInv ==
  ASSUME Inv, NEW b \in Buffer, Alloc(b)
  PROVE  Inv'
<1> USE OwnershipAssumption DEF Inv, TypeOK
<1>1. /\ Len(owned) \in Nat /\ DOMAIN owned = 1..Len(owned)
      /\ \A k \in 1..Len(owned) : owned[k] \in Ref
  BY LenProperties, ElementOfSeq
<1>2. /\ owned' \in Seq(Ref) /\ DOMAIN owned' = 1..Len(owned) + 1
      /\ \A k \in 1..Len(owned) : owned'[k] = owned[k]
      /\ owned'[Len(owned) + 1] = b
  BY <1>1 DEF Alloc, Ref
<1>3. \A k \in DOMAIN owned : owned[k] # b
  BY DEF Alloc, OwnedIsLive, Ref
<1>4. TypeOK'
  BY <1>2 DEF Alloc
<1>5. UniqueOwner'
  BY <1>1, <1>2, <1>3 DEF UniqueOwner
<1>6. OwnedIsLive'
  BY <1>1, <1>2, <1>3 DEF OwnedIsLive, Alloc, BorrowedStayLive, Ref
<1>7. NoLeak'
  BY <1>1, <1>2 DEF NoLeak, Alloc, Elems
<1>8. BorrowedStayLive'
  BY DEF BorrowedStayLive, Alloc
<1> QED
  BY <1>4, <1>5, <1>6, <1>7, <1>8

LEMMA NullIndicatorInv == ASSUME Inv, NullIndicator PROVE Inv'
<1> USE OwnershipAssumption DEF Inv, TypeOK, NullIndicator
<1>1. /\ Len(owned) \in Nat /\ DOMAIN owned = 1..Len(owned)
      /\ \A k \in 1..Len(owned) : owned[k] \in Ref
  BY LenProperties, ElementOfSeq
<1>2. /\ owned' \in Seq(Ref) /\ DOMAIN owned' = 1..Len(owned) + 1
      /\ \A k \in 1..Len(owned) : owned'[k] = owned[k]
      /\ owned'[Len(owned) + 1] = Null
  BY <1>1 DEF Ref
<1>3. UniqueOwner'
  BY <1>1, <1>2 DEF UniqueOwner
<1>4. OwnedIsLive'
  BY <1>1, <1>2 DEF OwnedIsLive
<1>5. NoLeak'
  BY <1>1, <1>2 DEF NoLeak, Elems
<1> QED
  BY <1>2, <1>3, <1>4, <1>5 DEF BorrowedStayLive

LEMMA RetainedListsAreSeqs == RetainedLists \subseteq Seq(Ref)
<1> SUFFICES ASSUME NEW n \in 0..MaxRetained, NEW s \in [1..n -> Mentionable]
             PROVE  s \in Seq(Ref)
  BY DEF RetainedLists
<1> QED
  BY OwnershipAssumption DEF Mentionable, Ref

(* The step that matters.  `at` below says where each indicator of the new *)
(* list comes from: the kept part, or the result of the retain.            *)
LEMMA RetainInv ==
  ASSUME Inv, NEW values \in RetainedLists, NEW n \in 0..Len(owned),
         Retain(values, n)
  PROVE  Inv'
<1> DEFINE kept == SubSeq(owned, 1, n)
           allocs == SubSeq(owned, n + 1, Len(owned))
           res == RetainResult(values, allocs)
<1> USE OwnershipAssumption DEF Inv, TypeOK
<1>1. /\ Len(owned) \in Nat /\ DOMAIN owned = 1..Len(owned)
      /\ \A k \in 1..Len(owned) : owned[k] \in Ref
  BY LenProperties, ElementOfSeq
<1>2. /\ kept \in Seq(Ref) /\ Len(kept) = n
      /\ \A k \in 1..n : kept[k] = owned[k]
      /\ allocs \in Seq(Ref) /\ Len(allocs) = Len(owned) - n
      /\ \A k \in 1..Len(owned) - n : allocs[k] = owned[n + k]
  BY SplitProperties
<1>3. values \in Seq(Ref) /\ Len(values) \in Nat /\ DOMAIN values = 1..Len(values)
  BY RetainedListsAreSeqs, LenProperties
<1>4. /\ res \in Seq(Ref) /\ Len(res) = Len(values)
      /\ \A k \in 1..Len(values) :
           res[k] = IF Claims(values, allocs, k) THEN values[k] ELSE Null
  BY <1>2, <1>3, RetainResultProperties
<1>5. /\ owned' \in Seq(Ref) /\ Len(owned') = n + Len(values)
      /\ DOMAIN owned' = 1..n + Len(values)
      /\ \A k \in 1..n : owned'[k] = owned[k]
      /\ \A k \in 1..Len(values) : owned'[n + k] = res[k]
  <2>1. owned' = kept \o res /\ kept \in Seq(Ref) /\ res \in Seq(Ref)
    BY <1>2, <1>4 DEF Retain
  <2>n. n \in Nat /\ Len(values) \in Nat
    BY <1>1, <1>3
  <2>l. Len(kept) = n /\ \A k \in 1..n : kept[k] = owned[k]
    BY <1>2
  <2>r. Len(res) = Len(values)
    BY <1>4
  <2> HIDE DEF kept, res
  <2>2. /\ kept \o res \in Seq(Ref)
        /\ Len(kept \o res) = Len(kept) + Len(res)
        /\ \A k \in 1..Len(kept) + Len(res) :
             (kept \o res)[k] = IF k <= Len(kept) THEN kept[k] ELSE res[k - Len(kept)]
    BY <2>1, ConcatProperties
  <2>3. DOMAIN owned' = 1..Len(owned')
    BY <2>1, <2>2, LenProperties
  <2>5. \A k \in 1..n : k \in 1..n + Len(values) /\ k <= n
    BY <2>n, <2>l, <2>r
  <2>6. \A k \in 1..Len(values) : n + k \in 1..n + Len(values) /\ ~(n + k <= n) /\ n + k - n = k
    BY <2>n, <2>l, <2>r
  <2> QED
    BY <2>1, <2>2, <2>3, <2>n, <2>l, <2>r, <2>5, <2>6
<1>6. /\ DOMAIN allocs = 1..Len(owned) - n
      /\ heap' = [b \in Buffer |-> IF b \in Unretained(values, allocs)
                                   THEN "freed" ELSE heap[b]]
  BY <1>2, LenProperties DEF Retain
<1> HIDE DEF kept, allocs, res
<1>7. \A k \in 1..n + Len(values) :
         \/ k \in 1..n
         \/ \E m \in 1..Len(values) : k = n + m
  BY <1>1, <1>3
<1>8. \A k \in DOMAIN allocs : n + k \in DOMAIN owned /\ n + k \notin 1..n
                                /\ allocs[k] = owned[n + k]
  BY <1>1, <1>2, <1>6
<1>9. ASSUME NEW m \in 1..Len(values), owned'[n + m] # Null
      PROVE  /\ Claims(values, allocs, m) /\ owned'[n + m] = values[m]
             /\ \E k \in DOMAIN allocs : allocs[k] = values[m]
  BY <1>4, <1>5, <1>9 DEF Claims, Elems
<1>10. TypeOK'
  BY <1>5, <1>6
<1>11. UniqueOwner'
  <2> SUFFICES ASSUME NEW k \in DOMAIN owned', NEW l \in DOMAIN owned',
                      owned'[k] = owned'[l], owned'[k] # Null
               PROVE  k = l
    BY DEF UniqueOwner
  <2>1. CASE k \in 1..n /\ l \in 1..n
    BY <2>1, <1>1, <1>5 DEF UniqueOwner
  <2>2. ASSUME NEW x \in 1..n, NEW m \in 1..Len(values),
               owned'[x] = owned'[n + m], owned'[x] # Null
        PROVE  FALSE
    <3>1. PICK q \in DOMAIN allocs : allocs[q] = owned'[n + m]
      BY <1>9, <2>2
    <3>2. owned[x] = owned[n + q] /\ owned[x] # Null
      BY <1>5, <1>8, <2>2, <3>1
    <3> QED
      BY <1>1, <1>8, <3>2 DEF UniqueOwner
  <2>3. ASSUME NEW m \in 1..Len(values), NEW o \in 1..Len(values),
               k = n + m, l = n + o
        PROVE  m = o
    <3>1. Claims(values, allocs, m) /\ Claims(values, allocs, o) /\ values[m] = values[o]
      BY <1>9, <2>3
    <3> QED
      BY <1>3, <3>1 DEF Claims
  <2>4. CASE k \in 1..n /\ l \notin 1..n
    BY <1>5, <1>7, <2>2, <2>4
  <2>5. CASE k \notin 1..n /\ l \in 1..n
    BY <1>5, <1>7, <2>2, <2>5
  <2>6. CASE k \notin 1..n /\ l \notin 1..n
    BY <1>5, <1>7, <2>3, <2>6
  <2> QED
    BY <2>1, <2>4, <2>5, <2>6
<1>12. OwnedIsLive'
  <2> SUFFICES ASSUME NEW k \in DOMAIN owned', owned'[k] # Null
               PROVE  heap'[owned'[k]] = "live" /\ owned'[k] \notin Borrowed
    BY DEF OwnedIsLive
  <2>1. CASE k \in 1..n
    <3>1. owned'[k] = owned[k] /\ owned[k] \in Buffer /\ heap[owned[k]] = "live"
          /\ owned[k] \notin Borrowed
      BY <1>1, <1>5, <2>1 DEF OwnedIsLive, Ref
    <3>2. owned[k] \notin Elems(allocs)
      BY <1>1, <1>8, <2>1, <3>1 DEF UniqueOwner, Elems
    <3> QED
      BY <1>6, <3>1, <3>2 DEF Unretained
  <2>2. ASSUME NEW m \in 1..Len(values), k = n + m
        PROVE  heap'[owned'[k]] = "live" /\ owned'[k] \notin Borrowed
    <3>1. PICK q \in DOMAIN allocs : owned'[k] = allocs[q] /\ owned'[k] = values[m]
      BY <1>9, <2>2
    <3>2. owned'[k] \in Buffer /\ heap[owned'[k]] = "live" /\ owned'[k] \notin Borrowed
      BY <1>1, <1>8, <3>1 DEF OwnedIsLive, Ref
    <3>3. owned'[k] \notin Unretained(values, allocs)
      BY <1>3, <3>1 DEF Unretained, Elems
    <3> QED
      BY <1>6, <3>2, <3>3
  <2> QED
    BY <1>5, <1>7, <2>1, <2>2
<1>13. NoLeak'
  <2> SUFFICES ASSUME NEW b \in Buffer \ Borrowed, heap'[b] = "live"
               PROVE  \E k \in DOMAIN owned' : owned'[k] = b
    BY DEF NoLeak, Elems
  <2>1. heap[b] = "live" /\ b \notin Unretained(values, allocs)
    BY <1>6
  <2>2. PICK k \in DOMAIN owned : owned[k] = b
    BY <2>1 DEF NoLeak, Elems
  <2>3. CASE k \in 1..n
    BY <1>1, <1>3, <1>5, <2>2, <2>3
  <2>4. CASE k \notin 1..n
    <3>1. k - n \in DOMAIN allocs /\ allocs[k - n] = b
      BY <1>1, <1>6, <1>8, <2>2, <2>4
    <3>2. b \in Elems(allocs) \ {Null} /\ b \in Elems(values)
      BY <2>1, <3>1 DEF Unretained, Elems
    <3>3. PICK m \in 1..Len(values) : Claims(values, allocs, m) /\ values[m] = b
      BY <1>2, <1>3, <3>2, FirstClaims
    <3>4. owned'[n + m] = b /\ n + m \in DOMAIN owned'
      BY <1>1, <1>3, <1>4, <1>5, <3>3
    <3> QED
      BY <3>4
  <2> QED
    BY <2>3, <2>4
<1>14. BorrowedStayLive'
  <2> SUFFICES ASSUME NEW b \in Borrowed PROVE b \notin Elems(allocs)
    BY <1>6 DEF BorrowedStayLive, Unretained
  <2> QED
    BY <1>8 DEF Elems, OwnedIsLive
<1> QED
  BY <1>10, <1>11, <1>12, <1>13, <1>14

LEMMA NextInv == Inv /\ [Next]_vars => Inv'
<1> SUFFICES ASSUME Inv, [Next]_vars PROVE Inv'
  OBVIOUS
<1>1. CASE \E b \in Buffer : Alloc(b)
  BY <1>1, AllocInv
<1>2. CASE NullIndicator
  BY <1>2, NullIndicatorInv
<1>3. CASE \E values \in RetainedLists, n \in 0..Len(owned) : Retain(values, n)
  BY <1>3, RetainInv
<1>4. CASE UNCHANGED vars
  BY <1>4 DEF vars, Inv, TypeOK, UniqueOwner, OwnedIsLive, NoLeak, BorrowedStayLive, Elems
<1> QED
  BY <1>1, <1>2, <1>3, <1>4 DEF Next

(* Over any sequence of allocs and retains, indicators are unique, own     *)
(* live buffers of this function only, and cover all of them.              *)
THEOREM Invariance == Spec => []Inv
<1>1. Init => Inv
  BY InitInv
<1>2. Inv /\ [Next]_vars => Inv'
  BY NextInv
<1> QED
  BY <1>1, <1>2, PTL DEF Spec

(* No buffer has two owners, so that no two retains can free it.           *)
THEOREM NoTwoOwners == Spec => []UniqueOwner
<1>1. Inv => UniqueOwner
  BY DEF Inv
<1> QED
  BY <1>1, Invariance, PTL

(* No buffer leaks: whatever retains did, a live buffer that the caller    *)
(* does not own still has an indicator in the body.                        *)
THEOREM NothingLeaks == Spec => []NoLeak
<1>1. Inv => NoLeak
  BY DEF Inv
<1> QED
  BY <1>1, Invariance, PTL

(* No double free: what a retain frees was live, and a freed buffer is     *)
(* never live again.                                                       *)
THEOREM FreedOnce == Spec => Lifecycle
<1> DEFINE A == \A b \in Buffer :
                  /\ heap[b] = "freed" => heap'[b] = "freed"
                  /\ heap'[b] = "freed" => heap[b] # "unused"
<1>1. Inv /\ [Next]_vars => A
  <2> SUFFICES ASSUME Inv, Next PROVE A
    BY DEF vars
  <2>1. CASE \E b \in Buffer : Alloc(b)
    BY <2>1 DEF Alloc, Inv, TypeOK
  <2>2. CASE NullIndicator
    BY <2>2 DEF NullIndicator
  <2>3. ASSUME NEW values \in RetainedLists, NEW n \in 0..Len(owned), Retain(values, n)
        PROVE  A
    <3> DEFINE allocs == SubSeq(owned, n + 1, Len(owned))
    <3>1. /\ allocs \in Seq(Ref) /\ Len(allocs) = Len(owned) - n
          /\ \A k \in 1..Len(owned) - n : allocs[k] = owned[n + k]
      BY SplitProperties DEF Inv, TypeOK
    <3>2. DOMAIN owned = 1..Len(owned) /\ Len(owned) \in Nat
          /\ DOMAIN allocs = 1..Len(owned) - n
      BY <3>1, LenProperties DEF Inv, TypeOK
    <3>3. heap' = [b \in Buffer |-> IF b \in Unretained(values, allocs)
                                    THEN "freed" ELSE heap[b]]
      BY <2>3 DEF Retain
    <3> HIDE DEF allocs
    <3>4. ASSUME NEW b \in Elems(allocs), b # Null PROVE heap[b] = "live"
      <4>1. PICK k \in 1..Len(owned) - n : b = allocs[k]
        BY <3>2, <3>4 DEF Elems
      <4>2. n + k \in DOMAIN owned
        BY <3>2
      <4>3. b = owned[n + k]
        BY <4>1, <3>1
      <4> QED
        BY <4>2, <4>3, <3>4 DEF Inv, OwnedIsLive
    <3>5. \A b \in Unretained(values, allocs) : heap[b] = "live"
      BY <3>4 DEF Unretained
    <3> QED
      BY <3>3, <3>5
  <2> QED
    BY <2>1, <2>2, <2>3 DEF Next
<1>2. Spec => []Inv
  BY Invariance
<1> QED
  BY <1>1, <1>2, PTL DEF Spec, Lifecycle
=============================================================================
