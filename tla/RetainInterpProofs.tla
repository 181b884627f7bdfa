------------------------- MODULE RetainInterpProofs -------------------------
(***************************************************************************)
(* The interpreter's retain implements Ownership, for any set of buffers   *)
(* and any bounds.  Every step of a loop leaves the state that Ownership   *)
(* sees unchanged; Return is a step of Ownership!Retain because LoopInv    *)
(* says what the loops have computed by then.  LoopInv needs the indicators*)
(* to be distinct, which is the invariant of Ownership, so that the two    *)
(* are proved together: IInv.                                              *)
(***************************************************************************)
EXTENDS RetainInterp, SequenceTheorems, FiniteSetTheorems, FunctionTheorems, TLAPS

(* The proofs about Ownership, for the state it sees here.                 *)
P == INSTANCE OwnershipProofs WITH owned <- OwnedBar, heap <- HeapBar

(* Promise and P are the same instance, once without and once with proofs. *)
LEMMA PromiseInvIsInv == Promise!Inv <=> P!Inv
  BY DEF P!Inv, Promise!Inv, P!TypeOK, Promise!TypeOK, P!UniqueOwner,
         Promise!UniqueOwner, P!OwnedIsLive, Promise!OwnedIsLive, P!NoLeak,
         Promise!NoLeak, P!BorrowedStayLive, Promise!BorrowedStayLive,
         P!Elems, Promise!Elems, P!Ref, Promise!Ref

LEMMA PromiseInvPreserved ==
  Promise!Inv /\ [Promise!Next]_(Promise!vars) => Promise!Inv'
<1>1. P!OwnershipAssumption
  BY RetainAssumption DEF P!OwnershipAssumption
<1>2. P!Inv /\ [P!Next]_(P!vars) => P!Inv'
  BY <1>1, P!NextInv
<1>3. [Promise!Next]_(Promise!vars) => [P!Next]_(P!vars)
  BY DEF P!Next, Promise!Next, P!vars, Promise!vars, P!Alloc, Promise!Alloc,
         P!NullIndicator, Promise!NullIndicator, P!Retain, Promise!Retain,
         P!RetainedLists, Promise!RetainedLists, P!Mentionable, Promise!Mentionable,
         P!RetainResult, Promise!RetainResult, P!Claims, Promise!Claims,
         P!Unretained, Promise!Unretained, P!Elems, Promise!Elems
<1>4. (Promise!Inv <=> P!Inv)'
  BY PromiseInvIsInv, PTL
<1> QED
  BY <1>2, <1>3, <1>4, PromiseInvIsInv

LEMMA Shapes ==
  ASSUME TypeOK
  PROVE  /\ Len(owned) \in Nat /\ DOMAIN owned = 1..Len(owned)
         /\ Len(allocs) \in Nat /\ DOMAIN allocs = 1..Len(allocs)
         /\ Len(values) \in Nat /\ DOMAIN values = 1..Len(values)
         /\ \A k \in DOMAIN owned : owned[k] \in Ref
         /\ \A k \in DOMAIN allocs : allocs[k] \in Ref
         /\ \A k \in DOMAIN values : values[k] \in Ref
  BY LenProperties, ElementOfSeq DEF TypeOK

(* What Ownership's invariant says of the indicators a retain has taken    *)
(* and of those it was not given.                                          *)
LEMMA BarFacts ==
  ASSUME TypeOK, Promise!Inv
  PROVE  /\ \A k, m \in DOMAIN allocs : allocs[k] = allocs[m] => k = m \/ allocs[k] = Null
         /\ \A k \in DOMAIN allocs : allocs[k] # Null => allocs[k] \in Buffer \ Borrowed
         /\ \A k \in DOMAIN owned : owned[k] # Null =>
              /\ owned[k] \in Buffer \ Borrowed
              /\ heap[owned[k]] = "live"
              /\ \A m \in DOMAIN allocs : allocs[m] # owned[k]
<1>1. P!OwnershipAssumption
  BY RetainAssumption DEF P!OwnershipAssumption
<1>2. P!Ref = Ref
  BY DEF P!Ref, Ref
<1>3. owned \in Seq(P!Ref) /\ allocs \in Seq(P!Ref) /\ OwnedBar = owned \o allocs
  BY <1>2 DEF TypeOK, OwnedBar
<1>4. P!Inv
  BY PromiseInvIsInv
<1>5. /\ \A k, m \in DOMAIN allocs : allocs[k] = allocs[m] => k = m \/ allocs[k] = Null
      /\ \A k \in DOMAIN allocs : allocs[k] # Null => allocs[k] \in Buffer \ Borrowed
      /\ \A k \in DOMAIN owned : owned[k] # Null =>
           /\ owned[k] \in Buffer \ Borrowed
           /\ HeapBar[owned[k]] = "live"
           /\ \A m \in DOMAIN allocs : allocs[m] # owned[k]
  BY <1>1, <1>3, <1>4, P!OwnedInParts
<1> QED BY <1>5 DEF HeapBar

-----------------------------------------------------------------------------
(* One lemma per action: it keeps the type, the loop invariant and the     *)
(* absence of failures, and Ownership sees a step of its own or nothing.   *)
Local == TypeOK /\ LoopInv /\ ~failed
Stutter == OwnedBar' = OwnedBar /\ HeapBar' = HeapBar

LEMMA InitStep == Init => IInv /\ Promise!Init
<1> SUFFICES ASSUME Init PROVE IInv /\ Promise!Init
  OBVIOUS
<1> USE RetainAssumption DEF Init
<1>1. allocs = <<>> /\ values = <<>> /\ owned = <<>> /\ DOMAIN allocs = {} /\ DOMAIN values = {}
      /\ <<>> \in Seq(Ref) /\ Len(allocs) = 0 /\ Len(values) = 0
  BY EmptySeq
<1>2. OwnedBar = <<>> /\ HeapBar = heap
  BY <1>1, EmptySeq, ConcatEmptySeq DEF OwnedBar, HeapBar
<1>3. TypeOK
  <2>1. used \in [DOMAIN allocs -> BOOLEAN] /\ result \in [DOMAIN values -> Ref]
    BY <1>1
  <2>2. stats \in [{"heapSize", "peakHeapSize", "numAllocations", "numDeallocations"} -> Int]
    <3>1. DOMAIN stats = {"heapSize", "peakHeapSize", "numAllocations", "numDeallocations"}
      OBVIOUS
    <3> QED BY <3>1
  <2>3. heap \in [Buffer -> {"unused", "live", "freed"}]
    OBVIOUS
  <2>4. i \in 1..Len(values) + 1 /\ j \in 1..Len(allocs) + 1
    BY <1>1
  <2> QED BY <1>1, <2>1, <2>2, <2>3, <2>4 DEF TypeOK
<1>4. LoopInv
  BY <1>1 DEF LoopInv
<1>5. Promise!Init
  BY <1>2 DEF Promise!Init
<1>6. P!OwnershipAssumption
  BY DEF P!OwnershipAssumption
<1>7. P!Init => P!Inv
  BY <1>6, P!InitInv
<1>8. Promise!Inv
  <2>1. P!Init
    BY <1>5 DEF P!Init, Promise!Init
  <2> QED
    BY <1>7, <2>1, PromiseInvIsInv
<1> QED
  BY <1>3, <1>4, <1>5, <1>8 DEF IInv

LEMMA BodyBar ==
  ASSUME TypeOK, LoopInv, pc = "body"
  PROVE  allocs = <<>> /\ values = <<>> /\ OwnedBar = owned /\ HeapBar = heap
         /\ DOMAIN allocs = {} /\ DOMAIN values = {}
<1>1. allocs = <<>> /\ values = <<>>
  BY DEF LoopInv
<1>2. DOMAIN allocs = {} /\ DOMAIN values = {}
  BY <1>1
<1>3. OwnedBar = owned
  BY <1>1, ConcatEmptySeq DEF OwnedBar, TypeOK
<1>4. HeapBar = heap
  BY <1>2 DEF HeapBar, TypeOK
<1> QED BY <1>1, <1>2, <1>3, <1>4

LEMMA AllocStep ==
  ASSUME IInv, NEW b \in Buffer, Alloc(b)
  PROVE  Local' /\ Promise!Alloc(b)
<1> USE DEF Alloc, call
<1>1. allocs = <<>> /\ values = <<>> /\ OwnedBar = owned /\ HeapBar = heap
      /\ DOMAIN allocs = {} /\ DOMAIN values = {}
  BY BodyBar DEF IInv
<1>2. owned' \in Seq(Ref) /\ Len(owned') = Len(owned) + 1
  BY DEF IInv, TypeOK, Ref
<1>3. TypeOK'
  <2>1. stats' \in [{"heapSize", "peakHeapSize", "numAllocations", "numDeallocations"} -> Int]
    <3>1. DOMAIN stats' = {"heapSize", "peakHeapSize", "numAllocations", "numDeallocations"}
      BY DEF CountAlloc
    <3> QED BY <3>1 DEF CountAlloc, IInv, TypeOK
  <2> QED BY <1>2, <2>1 DEF IInv, TypeOK
<1>4. OwnedBar' = owned' /\ HeapBar' = heap'
  <2>1. allocs' = <<>> /\ DOMAIN allocs' = {}
    BY <1>1
  <2> QED BY <1>2, <1>3, <2>1, ConcatEmptySeq DEF OwnedBar, HeapBar, TypeOK
<1>5. LoopInv'
  BY <1>1 DEF LoopInv, IInv
<1> QED
  BY <1>1, <1>3, <1>4, <1>5 DEF Promise!Alloc, Local, IInv

LEMMA NullIndicatorStep ==
  ASSUME IInv, NullIndicator
  PROVE  Local' /\ Promise!NullIndicator
<1> USE DEF NullIndicator, call
<1>1. allocs = <<>> /\ values = <<>> /\ OwnedBar = owned /\ HeapBar = heap
      /\ DOMAIN allocs = {} /\ DOMAIN values = {}
  BY BodyBar DEF IInv
<1>2. owned' \in Seq(Ref) /\ Len(owned') = Len(owned) + 1
  BY DEF IInv, TypeOK, Ref
<1>3. TypeOK'
  BY <1>2 DEF IInv, TypeOK
<1>4. OwnedBar' = owned' /\ HeapBar' = heap'
  <2>1. allocs' = <<>> /\ DOMAIN allocs' = {}
    BY <1>1
  <2> QED BY <1>2, <1>3, <2>1, ConcatEmptySeq DEF OwnedBar, HeapBar, TypeOK
<1>5. LoopInv'
  BY <1>1 DEF LoopInv, IInv
<1> QED
  BY <1>1, <1>3, <1>4, <1>5 DEF Promise!NullIndicator, Local, IInv

LEMMA CallStep ==
  ASSUME IInv, NEW vs \in RetainedLists, NEW n \in 0..Len(owned), Call(vs, n)
  PROVE  Local' /\ Stutter
<1> USE RetainAssumption DEF Call
<1>1. allocs = <<>> /\ values = <<>> /\ OwnedBar = owned /\ HeapBar = heap
      /\ DOMAIN allocs = {} /\ DOMAIN values = {}
  BY BodyBar DEF IInv
<1>2. owned \in Seq(Ref) /\ Len(owned) \in Nat /\ DOMAIN owned = 1..Len(owned)
  BY LenProperties DEF IInv, TypeOK
<1>3. P!OwnershipAssumption
  BY DEF P!OwnershipAssumption
<1>4. /\ owned' \in Seq(Ref) /\ Len(owned') = n
      /\ allocs' \in Seq(Ref) /\ Len(allocs') = Len(owned) - n
      /\ \A k \in 1..Len(owned) - n : allocs'[k] = owned[n + k]
  <2>1. P!Ref = Ref
    BY DEF P!Ref, Ref
  <2> QED BY <1>2, <1>3, <2>1, P!SplitProperties
<1>5. vs \in Seq(Ref) /\ Len(vs) \in Nat /\ DOMAIN vs = 1..Len(vs) /\ Len(vs) <= MaxRetained
      /\ \A k \in DOMAIN vs : vs[k] \in Mentionable
  <2>1. PICK m \in 0..MaxRetained : vs \in [1..m -> Mentionable]
    BY DEF RetainedLists
  <2>2. vs \in Seq(Mentionable) /\ Len(vs) = m
    BY <2>1
  <2>3. Mentionable \subseteq Ref
    BY DEF Mentionable, Ref
  <2> QED BY <2>1, <2>2, <2>3, SeqMonotonic
<1>6. DOMAIN allocs' = 1..Len(allocs')
  BY <1>4, LenProperties
<1>7. TypeOK'
  <2>1. used' \in [DOMAIN allocs' -> BOOLEAN]
    OBVIOUS
  <2>2. result' \in [DOMAIN values' -> Ref]
    BY DEF Ref
  <2>3. i' \in 1..Len(values') + 1 /\ j' \in 1..Len(allocs') + 1
    <3>1. i' = 1 /\ j' = 1 /\ Len(values') \in Nat
      BY <1>5
    <3>2. Len(allocs') \in Nat
      BY <1>4, LenProperties
    <3> HIDE DEF Call
    <3> QED BY <3>1, <3>2
  <2> QED BY <1>4, <1>5, <2>1, <2>2, <2>3 DEF IInv, TypeOK
<1>8. \A k \in DOMAIN allocs' : allocs'[k] # Null => heap[allocs'[k]] = "live"
  <2>1. \A k \in DOMAIN owned : owned[k] # Null => heap[owned[k]] = "live"
    BY BarFacts DEF IInv
  <2>2. DOMAIN allocs' = 1..Len(owned) - n
    <3> HIDE DEF Call
    <3> QED BY <1>4, <1>6
  <2>3. \A k \in 1..Len(owned) - n : n + k \in 1..Len(owned)
    <3> HIDE DEF Call
    <3> QED BY <1>2
  <2> HIDE DEF Call
  <2> QED BY <2>1, <2>2, <2>3, <1>2, <1>4
<1>9. HeapBar' = HeapBar
  BY <1>1, <1>8 DEF HeapBar, IInv, TypeOK
<1>10. OwnedBar' = OwnedBar
  <2>1. 1 \in 1..Len(owned) + 1 /\ n \in 1 - 1..Len(owned) /\ Len(owned) \in n..Len(owned)
    BY <1>2
  <2>2. SubSeq(owned, 1, n) \o SubSeq(owned, n + 1, Len(owned)) = SubSeq(owned, 1, Len(owned))
    BY <1>2, <2>1, ConcatAdjacentSubSeq
  <2> QED BY <1>1, <1>2, <2>2, SubSeqFull DEF OwnedBar
<1>11. LoopInv'
  <2>1. MatchInv'
    <3>1. \A k \in DOMAIN vs, q \in DOMAIN allocs' : ~Tried(k, q)'
      BY <1>5, <1>6 DEF Tried
    <3>2. \A q \in DOMAIN allocs' : used'[q] = FALSE
      OBVIOUS
    <3>3. \A k \in DOMAIN vs : result'[k] = Null
      OBVIOUS
    <3> QED BY <3>1, <3>2, <3>3, <1>8 DEF MatchInv, LiveIf
  <2>2. \A k \in DOMAIN vs : vs[k] # Null => HeapBar'[vs[k]] = "live"
    BY <1>1, <1>5, <1>9 DEF Mentionable
  <2> QED BY <2>1, <2>2, <1>4, <1>5 DEF LoopInv
<1> QED
  BY <1>7, <1>9, <1>10, <1>11 DEF Local, Stutter, IInv

(* In the loops the heap of the body is the heap, except for what the last *)
(* loop has freed already.                                                 *)
LEMMA MatchStep ==
  ASSUME IInv, Match
  PROVE  Local' /\ Stutter
<1> USE DEF Match
<1>1. Stutter
  BY DEF Stutter, OwnedBar, HeapBar
<1>2. /\ Len(values) \in Nat /\ DOMAIN values = 1..Len(values)
      /\ Len(allocs) \in Nat /\ DOMAIN allocs = 1..Len(allocs)
      /\ i \in DOMAIN values /\ j \in DOMAIN allocs
      /\ values' = values /\ allocs' = allocs /\ heap' = heap
  BY Shapes DEF IInv, TypeOK
<1>3. TypeOK'
  <2>1. used' \in [DOMAIN allocs -> BOOLEAN] /\ result' \in [DOMAIN values -> Ref]
    BY <1>2, Shapes DEF IInv, TypeOK
  <2>2. j' \in 1..Len(allocs) + 1
    BY <1>2
  <2> QED BY <2>1, <2>2 DEF IInv, TypeOK
<1>4. MatchInv
  BY DEF IInv, LoopInv
<1>5. \A k \in DOMAIN values, q \in DOMAIN allocs :
        Tried(k, q)' <=> Tried(k, q) \/ (k = i /\ q = j)
  BY <1>2 DEF Tried
<1>6. ~Tried(i, j)
  BY <1>2 DEF Tried
<1>7. \A k, m \in DOMAIN allocs : allocs[k] = allocs[m] => k = m \/ allocs[k] = Null
  BY BarFacts DEF IInv
<1>8. \A k \in DOMAIN values, q \in DOMAIN allocs :
        Tried(k, q) => k =< i
  BY <1>2 DEF Tried
<1>9. \A k \in DOMAIN values : First(k)' <=> First(k)
  BY <1>2 DEF First
<1>10. used \in [DOMAIN allocs -> BOOLEAN] /\ result \in [DOMAIN values -> Ref]
  BY DEF IInv, TypeOK
(* The memref values[i] is the first one derived from allocs[j] iff        *)
(* allocs[j] has not been used.                                            *)
<1>11. values[i] = allocs[j] /\ allocs[j] # Null => (First(i) <=> ~used[j])
  <2> SUFFICES ASSUME values[i] = allocs[j], allocs[j] # Null
               PROVE  First(i) <=> ~used[j]
    OBVIOUS
  <2>1. used[j] <=> \E k \in DOMAIN values : values[k] = allocs[j] /\ Tried(k, j)
    BY <1>2, <1>4 DEF MatchInv
  <2>2. \A k \in DOMAIN values : Tried(k, j) <=> k < i
    BY <1>2 DEF Tried
  <2> QED BY <2>1, <2>2, <1>2 DEF First
<1>12. \A q \in DOMAIN allocs :
         used'[q] <=> allocs[q] # Null
                      /\ \E k \in DOMAIN values : values[k] = allocs[q] /\ Tried(k, q)'
  <2> TAKE q \in DOMAIN allocs
  <2>1. used[q] <=> allocs[q] # Null
                    /\ \E k \in DOMAIN values : values[k] = allocs[q] /\ Tried(k, q)
    BY <1>4 DEF MatchInv
  <2>2. used'[q] <=> used[q] \/ (q = j /\ Matches)
    BY <1>2, <1>10
  <2>3. CASE q = j
    BY <1>2, <1>5, <2>1, <2>2, <2>3 DEF Matches
  <2>4. CASE q # j
    BY <1>5, <2>1, <2>2, <2>4
  <2> QED BY <2>3, <2>4
<1>13. \A k \in DOMAIN values :
         result'[k] = IF /\ values[k] # Null
                         /\ \E q \in DOMAIN allocs : allocs[q] = values[k] /\ Tried(k, q)'
                         /\ First(k)
                      THEN values[k] ELSE Null
  <2> TAKE k \in DOMAIN values
  <2>1. result[k] = IF /\ values[k] # Null
                       /\ \E q \in DOMAIN allocs : allocs[q] = values[k] /\ Tried(k, q)
                       /\ First(k)
                    THEN values[k] ELSE Null
    BY <1>4 DEF MatchInv
  <2>2. result'[k] = IF k = i /\ Matches THEN allocs[j] ELSE result[k]
    BY <1>2, <1>10
  <2>3. CASE k # i
    <3>1. \A q \in DOMAIN allocs : Tried(k, q)' <=> Tried(k, q)
      BY <1>5, <2>3
    <3> QED BY <2>1, <2>2, <2>3, <3>1
  <2>4. CASE k = i /\ Matches
    <3>1. allocs[j] = values[k] /\ values[k] # Null
      BY <2>4 DEF Matches
    <3>2. First(k)
      BY <1>11, <2>4, <3>1 DEF Matches
    <3>3. \A q \in DOMAIN allocs : q = j => Tried(k, q)'
      BY <1>5, <2>4
    <3>4. result'[k] = values[k]
      BY <2>2, <2>4, <3>1
    <3> QED BY <1>2, <3>1, <3>2, <3>3, <3>4
  <2>5. CASE k = i /\ ~Matches
    <3>1. result'[k] = result[k]
      BY <2>2, <2>5
    <3>2. CASE values[k] = allocs[j] /\ allocs[j] # Null
      <4>1. ~First(k)
        BY <1>11, <2>5, <3>2 DEF Matches
      <4> QED BY <2>1, <3>1, <4>1
    <3>3. CASE ~(values[k] = allocs[j] /\ allocs[j] # Null)
      <4>1. values[k] # Null =>
              \A q \in DOMAIN allocs :
                allocs[q] = values[k] => (Tried(k, q)' <=> Tried(k, q))
        BY <1>5, <2>5, <3>3
      <4> QED BY <2>1, <3>1, <4>1
    <3> QED BY <3>2, <3>3
  <2> QED BY <2>3, <2>4, <2>5
<1>14. MatchInv'
  <2>1. \A q \in DOMAIN allocs : LiveIf(q, TRUE)'
    BY <1>2, <1>4 DEF MatchInv, LiveIf
  <2> QED BY <1>2, <1>9, <1>12, <1>13, <2>1 DEF MatchInv
<1>15. LoopInv'
  BY <1>1, <1>2, <1>14 DEF LoopInv, IInv, Stutter
<1> QED
  BY <1>1, <1>3, <1>15 DEF Local, IInv

LEMMA NextValueStep ==
  ASSUME IInv, NextValue
  PROVE  Local' /\ Stutter
<1> USE DEF NextValue
<1>1. Stutter
  BY DEF Stutter, OwnedBar, HeapBar
<1>2. /\ Len(values) \in Nat /\ DOMAIN values = 1..Len(values)
      /\ Len(allocs) \in Nat /\ DOMAIN allocs = 1..Len(allocs)
      /\ i \in DOMAIN values /\ j \in Nat /\ j > Len(allocs)
      /\ values' = values /\ allocs' = allocs /\ heap' = heap
  BY Shapes DEF IInv, TypeOK
<1>3. TypeOK'
  BY <1>2 DEF IInv, TypeOK
<1>4. \A k \in DOMAIN values, q \in DOMAIN allocs : Tried(k, q)' <=> Tried(k, q)
  BY <1>2 DEF Tried
<1>5. \A k \in DOMAIN values : First(k)' <=> First(k)
  BY <1>2 DEF First
<1>6. MatchInv'
  <2>1. MatchInv
    BY DEF IInv, LoopInv
  <2> QED BY <1>2, <1>4, <1>5, <2>1 DEF MatchInv, LiveIf
<1> QED
  BY <1>1, <1>2, <1>3, <1>6 DEF Local, IInv, LoopInv, Stutter

LEMMA EndMatchStep ==
  ASSUME IInv, EndMatch
  PROVE  Local' /\ Stutter
<1> USE DEF EndMatch
<1>1. Stutter
  BY DEF Stutter, OwnedBar, HeapBar
<1>2. /\ Len(values) \in Nat /\ DOMAIN values = 1..Len(values)
      /\ Len(allocs) \in Nat /\ DOMAIN allocs = 1..Len(allocs)
      /\ i = Len(values) + 1 /\ i' = i
      /\ values' = values /\ allocs' = allocs /\ heap' = heap
  BY Shapes DEF IInv, TypeOK
<1>3. TypeOK'
  BY <1>2 DEF IInv, TypeOK
<1>4. \A k \in DOMAIN values, q \in DOMAIN allocs : Tried(k, q)
  BY <1>2 DEF Tried
<1>5. \A k \in DOMAIN values : First(k)' <=> First(k)
  BY <1>2 DEF First
<1>6. MatchInv
  BY DEF IInv, LoopInv
<1>7. FreeInv'
  <2>1. \A q \in DOMAIN allocs : LiveIf(q, used[q] \/ j =< q)'
    <3>1. \A q \in DOMAIN allocs : j' =< q
      BY <1>2
    <3> QED BY <1>2, <1>6, <3>1 DEF MatchInv, LiveIf
  <2> QED BY <1>2, <1>4, <1>5, <1>6, <2>1 DEF MatchInv, FreeInv, LiveIf
<1> QED
  BY <1>1, <1>2, <1>3, <1>7 DEF Local, IInv, LoopInv, Stutter

LEMMA FreeStep ==
  ASSUME IInv, Free
  PROVE  Local' /\ Stutter
<1> USE DEF Free
<1>1. /\ Len(values) \in Nat /\ DOMAIN values = 1..Len(values)
      /\ Len(allocs) \in Nat /\ DOMAIN allocs = 1..Len(allocs)
      /\ j \in DOMAIN allocs /\ i = Len(values) + 1 /\ i' = i
      /\ values' = values /\ allocs' = allocs
      /\ TypeOK /\ FreeInv /\ LoopInv /\ ~failed
  BY Shapes DEF IInv, TypeOK, LoopInv, FreeInv
<1>2. /\ \A k, m \in DOMAIN allocs : allocs[k] = allocs[m] => k = m \/ allocs[k] = Null
      /\ \A k \in DOMAIN allocs : allocs[k] # Null => allocs[k] \in Buffer \ Borrowed
  BY BarFacts DEF IInv
<1>3. IsUnused => heap[allocs[j]] = "live" /\ allocs[j] \in Buffer
  BY <1>1, <1>2 DEF IsUnused, FreeInv, LiveIf
<1>4. /\ failed' = failed
      /\ IF IsUnused THEN heap' = [heap EXCEPT ![allocs[j]] = "freed"] ELSE heap' = heap
  BY <1>3 DEF Deallocate
<1>5. TypeOK'
  <2>1. heap' \in [Buffer -> {"unused", "live", "freed"}]
    BY <1>1, <1>4 DEF TypeOK
  <2>2. stats' \in [{"heapSize", "peakHeapSize", "numAllocations", "numDeallocations"} -> Int]
    <3>1. stats \in [{"heapSize", "peakHeapSize", "numAllocations", "numDeallocations"} -> Int]
      BY <1>1 DEF TypeOK
    <3>2. CASE IsUnused
      <4>1. stats.heapSize \in Int /\ stats.numDeallocations \in Int
        BY <3>1
      <4>2. stats.heapSize - 1 \in Int /\ stats.numDeallocations + 1 \in Int
        BY <4>1
      <4>3. stats' = [stats EXCEPT !.heapSize = stats.heapSize - 1,
                                   !.numDeallocations = stats.numDeallocations + 1]
        BY <3>2 DEF CountFree
      <4> HIDE DEF Free
      <4> QED BY <3>1, <4>2, <4>3
    <3>3. CASE ~IsUnused
      BY <3>1, <3>3
    <3> QED BY <3>2, <3>3
  <2>3. j' \in 1..Len(allocs') + 1
    BY <1>1
  <2> QED BY <1>1, <1>4, <2>1, <2>2, <2>3 DEF TypeOK
<1>6. HeapBar' = HeapBar
  <2>1. \A b \in Buffer : heap'[b] = heap[b] \/ b = allocs[j]
    BY <1>1, <1>4 DEF TypeOK
  <2> QED BY <1>1, <2>1 DEF HeapBar
<1>7. Stutter
  BY <1>1, <1>6 DEF Stutter, OwnedBar
<1>8. FreeInv'
  <2>1. \A q \in DOMAIN allocs : LiveIf(q, used[q] \/ j =< q)'
    <3> SUFFICES ASSUME NEW q \in DOMAIN allocs, allocs[q] # Null
                 PROVE  heap'[allocs[q]] = IF used[q] \/ j + 1 =< q THEN "live" ELSE "freed"
      BY <1>1 DEF LiveIf
    <3>1. heap[allocs[q]] = IF used[q] \/ j =< q THEN "live" ELSE "freed"
      BY <1>1 DEF FreeInv, LiveIf
    <3>2. CASE q = j
      <4>1. ~(j + 1 =< q) /\ j =< q
        BY <1>1, <3>2
      <4> QED BY <1>1, <1>2, <1>4, <3>1, <3>2, <4>1 DEF IsUnused, TypeOK
    <3>3. CASE q # j
      <4>1. allocs[q] # allocs[j] /\ allocs[q] \in Buffer
        BY <1>1, <1>2, <3>3
      <4>2. heap'[allocs[q]] = heap[allocs[q]]
        BY <1>1, <1>4, <4>1 DEF TypeOK
      <4>3. j =< q <=> j + 1 =< q
        BY <1>1, <3>3
      <4> QED BY <3>1, <4>2, <4>3
    <3> QED BY <3>2, <3>3
  <2>2. \A k \in DOMAIN values : First(k)' <=> First(k)
    BY <1>1 DEF First
  <2> QED BY <1>1, <2>1, <2>2 DEF FreeInv
<1> QED
  BY <1>1, <1>4, <1>5, <1>6, <1>7, <1>8 DEF Local, LoopInv

LEMMA ReturnStep ==
  ASSUME IInv, Return
  PROVE  /\ Local'
         /\ values \in Promise!RetainedLists
         /\ Len(owned) \in 0..Len(OwnedBar)
         /\ Promise!Retain(values, Len(owned))
<1> USE DEF Return
<1>1. /\ Len(values) \in Nat /\ DOMAIN values = 1..Len(values)
      /\ Len(allocs) \in Nat /\ DOMAIN allocs = 1..Len(allocs)
      /\ Len(owned) \in Nat /\ DOMAIN owned = 1..Len(owned)
      /\ \A k \in DOMAIN values : values[k] \in Ref
      /\ \A k \in DOMAIN allocs : allocs[k] \in Ref
  BY Shapes DEF IInv
<1>2. /\ owned \in Seq(Ref) /\ allocs \in Seq(Ref) /\ TypeOK /\ LoopInv /\ FreeInv /\ ~failed
      /\ j = Len(allocs) + 1
  BY <1>1 DEF IInv, TypeOK, LoopInv
<1>3. result \in Seq(Ref) /\ Len(result) = Len(values)
  <2>1. result \in [1..Len(values) -> Ref]
    BY <1>1, <1>2 DEF TypeOK
  <2> HIDE DEF Return
  <2> QED BY <1>1, <2>1
<1>4. /\ owned \o result \in Seq(Ref)
      /\ Len(owned \o result) = Len(owned) + Len(values)
  <2> HIDE DEF Return
  <2>1. owned \in Seq(Ref) /\ result \in Seq(Ref)
    BY <1>2, <1>3
  <2>2. owned \o result \in Seq(Ref) /\ Len(owned \o result) = Len(owned) + Len(result)
    BY <2>1, ConcatProperties
  <2> QED BY <2>2, <1>3
<1>5. TypeOK'
  <2>1. <<>> \in Seq(Ref) /\ Len(<<>>) = 0 /\ DOMAIN <<>> = {}
    BY EmptySeq
  <2>2. used' \in [DOMAIN allocs' -> BOOLEAN] /\ result' \in [DOMAIN values' -> Ref]
    BY <2>1
  <2>3. i' \in 1..Len(values') + 1 /\ j' \in 1..Len(allocs') + 1
    BY <2>1
  <2> QED BY <1>2, <1>4, <2>1, <2>2, <2>3 DEF TypeOK
<1>6. LoopInv'
  <2>1. DOMAIN values' = {} /\ Len(values') = 0
    BY EmptySeq
  <2> QED BY <2>1, RetainAssumption DEF LoopInv
<1>7. OwnedBar' = owned \o result /\ HeapBar' = heap
  <2>1. DOMAIN allocs' = {}
    BY EmptySeq
  <2>2. OwnedBar' = owned \o result
    BY <1>4, ConcatEmptySeq DEF OwnedBar
  <2> QED BY <1>2, <2>1, <2>2 DEF HeapBar, TypeOK
<1>8. values \in Promise!RetainedLists
  <2>1. \A k \in DOMAIN values : values[k] \in Promise!Mentionable
    BY <1>1, <1>2 DEF Promise!Mentionable, LoopInv, Ref
  <2>2. Len(values) \in 0..MaxRetained
    BY <1>1, <1>2, RetainAssumption DEF LoopInv
  <2>3. values \in [1..Len(values) -> Promise!Mentionable]
    <3>1. values \in [1..Len(values) -> Ref]
      BY <1>2, LenProperties DEF TypeOK
    <3> QED BY <1>1, <2>1, <3>1
  <2> QED BY <2>2, <2>3 DEF Promise!RetainedLists
<1>9. Len(OwnedBar) = Len(owned) + Len(allocs)
  BY <1>2, ConcatProperties DEF OwnedBar
<1>10. SubSeq(OwnedBar, 1, Len(owned)) = owned
       /\ SubSeq(OwnedBar, Len(owned) + 1, Len(OwnedBar)) = allocs
  <2>1. P!OwnershipAssumption
    BY RetainAssumption DEF P!OwnershipAssumption
  <2> QED BY <1>2, <2>1, P!ConcatParts DEF OwnedBar
<1>11. result = Promise!RetainResult(values, allocs)
  <2>1. \A k \in DOMAIN values :
          result[k] = IF Promise!Claims(values, allocs, k) THEN values[k] ELSE Null
    BY <1>2 DEF FreeInv, First, Promise!Claims, Promise!Elems
  <2>2. result \in [DOMAIN values -> Ref]
    BY <1>2 DEF TypeOK
  <2> QED BY <2>1, <2>2 DEF Promise!RetainResult
<1>12. heap = [b \in Buffer |-> IF b \in Promise!Unretained(values, allocs)
                                THEN "freed" ELSE HeapBar[b]]
  <2> SUFFICES ASSUME NEW b \in Buffer
               PROVE  heap[b] = IF b \in Promise!Unretained(values, allocs)
                                THEN "freed" ELSE HeapBar[b]
    BY <1>2 DEF TypeOK
  <2>1. CASE \E q \in DOMAIN allocs : allocs[q] = b
    <3>1. PICK q \in DOMAIN allocs : allocs[q] = b
      BY <2>1
    <3>2. allocs[q] # Null /\ HeapBar[b] = "live"
      BY <3>1, RetainAssumption DEF HeapBar
    <3>3. heap[b] = IF used[q] THEN "live" ELSE "freed"
      BY <1>1, <1>2, <3>1, <3>2 DEF FreeInv, LiveIf
    <3>4. used[q] <=> \E k \in DOMAIN values : values[k] = b
      BY <1>2, <3>1, <3>2 DEF FreeInv
    <3>5. b \in Promise!Unretained(values, allocs) <=> ~ \E k \in DOMAIN values : values[k] = b
      BY <3>1, <3>2 DEF Promise!Unretained, Promise!Elems
    <3> QED BY <3>2, <3>3, <3>4, <3>5
  <2>2. CASE ~ \E q \in DOMAIN allocs : allocs[q] = b
    BY <2>2 DEF HeapBar, Promise!Unretained, Promise!Elems
  <2> QED BY <2>1, <2>2
<1>13. Promise!Retain(values, Len(owned))
  <2>1. Len(owned) + Len(values) =< MaxOwned
    BY <1>2 DEF LoopInv
  <2> QED BY <2>1, <1>7, <1>10, <1>11, <1>12 DEF Promise!Retain
<1> QED
  BY <1>1, <1>2, <1>5, <1>6, <1>8, <1>9, <1>13 DEF Local

-----------------------------------------------------------------------------
LEMMA StepRefines ==
  ASSUME IInv, [Next]_vars
  PROVE  Local' /\ [Promise!Next]_(Promise!vars)
<1>1. ASSUME NEW b \in Buffer, Alloc(b)
      PROVE  Local' /\ [Promise!Next]_(Promise!vars)
  BY <1>1, AllocStep DEF Promise!Next
<1>2. CASE NullIndicator
  BY <1>2, NullIndicatorStep DEF Promise!Next
<1>3. ASSUME NEW vs \in RetainedLists, NEW n \in 0..Len(owned), Call(vs, n)
      PROVE  Local' /\ [Promise!Next]_(Promise!vars)
  BY <1>3, CallStep DEF Stutter, Promise!vars
<1>4. CASE Match
  BY <1>4, MatchStep DEF Stutter, Promise!vars
<1>5. CASE NextValue
  BY <1>5, NextValueStep DEF Stutter, Promise!vars
<1>6. CASE EndMatch
  BY <1>6, EndMatchStep DEF Stutter, Promise!vars
<1>7. CASE Free
  BY <1>7, FreeStep DEF Stutter, Promise!vars
<1>8. CASE Return
  BY <1>8, ReturnStep DEF Promise!Next
<1>9. CASE UNCHANGED vars
  <2> USE <1>9 DEF vars, call
  <2>1. TypeOK'
    BY DEF IInv, TypeOK
  <2>2. LoopInv'
    BY DEF IInv, LoopInv, MatchInv, FreeInv, LiveIf, Tried, First, HeapBar
  <2>3. UNCHANGED <<OwnedBar, HeapBar>>
    BY DEF OwnedBar, HeapBar
  <2> QED BY <2>1, <2>2, <2>3 DEF Local, IInv, Promise!vars
<1> QED
  BY <1>1, <1>2, <1>3, <1>4, <1>5, <1>6, <1>7, <1>8, <1>9 DEF Next

LEMMA NextIInv == IInv /\ [Next]_vars => IInv'
  BY StepRefines, PromiseInvPreserved DEF IInv, Local

(* The loop invariant, and with it the ownership invariant, holds of every *)
(* sequence of retains the interpreter executes.                           *)
THEOREM Invariance == Spec => []IInv
<1>1. Init => IInv
  BY InitStep
<1> QED
  BY <1>1, NextIInv, PTL DEF Spec

(* The interpreter never reports a double free from a retain.              *)
THEOREM NoFailure == Spec => []NeverFails
<1>1. IInv => NeverFails
  BY DEF IInv, NeverFails
<1> QED
  BY <1>1, Invariance, PTL

-----------------------------------------------------------------------------
(* The statistics.  heapSize counts the buffers that are on the heap and   *)
(* not the caller's; between ops those are the ones with an owner in the   *)
(* body, one indicator each, by the invariant of Ownership.                *)
OnHeap == {b \in Buffer \ Borrowed : heap[b] = "live"}

StatsInv ==
    /\ IsFiniteSet(OnHeap)
    /\ stats.heapSize = Cardinality(OnHeap)
    /\ stats.heapSize = stats.numAllocations - stats.numDeallocations

LEMMA InitStats == Init => StatsInv
<1> SUFFICES ASSUME Init PROVE StatsInv
  OBVIOUS
<1>1. OnHeap = {}
  BY RetainAssumption DEF Init, OnHeap
<1> QED
  BY <1>1, FS_EmptySet DEF Init, StatsInv

LEMMA AllocStats ==
  ASSUME IInv, StatsInv, NEW b \in Buffer, Alloc(b)
  PROVE  StatsInv'
<1>1. TypeOK /\ heap[b] = "unused" /\ heap' = [heap EXCEPT ![b] = "live"] /\ CountAlloc
  BY DEF Alloc, IInv
<1>2. b \notin Borrowed
  <2>1. HeapBar = heap
    BY BodyBar DEF IInv, Alloc
  <2> QED BY <1>1, <2>1 DEF IInv, Promise!Inv, Promise!BorrowedStayLive
<1>3. OnHeap' = OnHeap \cup {b} /\ b \notin OnHeap
  BY <1>1, <1>2 DEF OnHeap, TypeOK
<1>4. IsFiniteSet(OnHeap') /\ Cardinality(OnHeap') = Cardinality(OnHeap) + 1
  BY <1>3, FS_AddElement DEF StatsInv
<1>5. /\ stats'.heapSize = stats.heapSize + 1
      /\ stats'.numAllocations = stats.numAllocations + 1
      /\ stats'.numDeallocations = stats.numDeallocations
  BY <1>1 DEF CountAlloc
<1>6. stats.heapSize \in Int /\ stats.numAllocations \in Int /\ stats.numDeallocations \in Int
  BY <1>1 DEF TypeOK
<1>7. /\ stats.heapSize = Cardinality(OnHeap)
      /\ stats.heapSize = stats.numAllocations - stats.numDeallocations
  BY DEF StatsInv
<1>8. stats'.heapSize = Cardinality(OnHeap')
  BY <1>4, <1>5, <1>7
<1>9. stats'.heapSize = stats'.numAllocations - stats'.numDeallocations
  BY <1>5, <1>6, <1>7
<1> QED
  BY <1>4, <1>8, <1>9 DEF StatsInv

LEMMA FreeStats ==
  ASSUME IInv, StatsInv, Free
  PROVE  StatsInv'
<1>1. /\ TypeOK /\ FreeInv /\ j \in DOMAIN allocs
      /\ IF IsUnused THEN CountFree /\ Deallocate(allocs[j]) ELSE UNCHANGED <<heap, stats>>
  <2>1. j \in DOMAIN allocs
    BY Shapes DEF Free, IInv, TypeOK
  <2> QED BY <2>1 DEF Free, IInv, LoopInv
<1>2. CASE ~IsUnused
  <2>1. OnHeap' = OnHeap
    BY <1>1, <1>2 DEF OnHeap
  <2> QED BY <1>1, <1>2, <2>1 DEF StatsInv
<1>3. CASE IsUnused
  <2> DEFINE b == allocs[j]
  <2>1. b # Null /\ ~used[j]
    BY <1>3 DEF IsUnused
  <2>2. b \in Buffer \ Borrowed
    BY <1>1, <2>1, BarFacts DEF IInv
  <2>3. heap[b] = "live"
    <3>1. j =< j
      BY <1>1 DEF TypeOK
    <3> QED BY <1>1, <2>1, <3>1 DEF FreeInv, LiveIf
  <2>4. heap' = [heap EXCEPT ![b] = "freed"]
    BY <1>1, <1>3, <2>3 DEF Deallocate
  <2>5. OnHeap' = OnHeap \ {b} /\ b \in OnHeap
    BY <1>1, <2>2, <2>3, <2>4 DEF OnHeap, TypeOK
  <2>6. IsFiniteSet(OnHeap') /\ Cardinality(OnHeap') = Cardinality(OnHeap) - 1
    BY <2>5, FS_RemoveElement DEF StatsInv
  <2>7. stats \in [{"heapSize", "peakHeapSize", "numAllocations", "numDeallocations"} -> Int]
    BY <1>1 DEF TypeOK
  <2>8. stats.heapSize \in Int /\ stats.numAllocations \in Int /\ stats.numDeallocations \in Int
    BY <2>7
  <2>9. /\ stats'.heapSize = stats.heapSize - 1
        /\ stats'.numAllocations = stats.numAllocations
        /\ stats'.numDeallocations = stats.numDeallocations + 1
    <3>1. DOMAIN stats = {"heapSize", "peakHeapSize", "numAllocations", "numDeallocations"}
      BY <2>7
    <3> DEFINE once == [stats EXCEPT !.heapSize = stats.heapSize - 1]
    <3>2. /\ DOMAIN once = DOMAIN stats
          /\ once.heapSize = stats.heapSize - 1
          /\ once.numAllocations = stats.numAllocations
          /\ once.numDeallocations = stats.numDeallocations
      BY <3>1
    <3>3. stats' = [once EXCEPT !.numDeallocations = once.numDeallocations + 1]
      BY <1>1, <1>3 DEF CountFree
    <3> HIDE DEF once
    <3> QED BY <3>1, <3>2, <3>3
  <2>10. /\ stats.heapSize = Cardinality(OnHeap)
         /\ stats.heapSize = stats.numAllocations - stats.numDeallocations
    BY DEF StatsInv
  <2>11. stats'.heapSize = Cardinality(OnHeap')
    BY <2>6, <2>9, <2>10
  <2>12. stats'.heapSize = stats'.numAllocations - stats'.numDeallocations
    BY <2>8, <2>9, <2>10
  <2> QED BY <2>6, <2>11, <2>12 DEF StatsInv
<1> QED
  BY <1>2, <1>3

LEMMA NextStats == IInv /\ StatsInv /\ [Next]_vars => StatsInv'
<1> SUFFICES ASSUME IInv, StatsInv, [Next]_vars PROVE StatsInv'
  OBVIOUS
<1>1. ASSUME UNCHANGED <<heap, stats>> PROVE StatsInv'
  BY <1>1 DEF StatsInv, OnHeap
<1>2. CASE \E b \in Buffer : Alloc(b)
  BY <1>2, AllocStats
<1>3. CASE Free
  BY <1>3, FreeStats
<1>4. CASE NullIndicator
  BY <1>1, <1>4 DEF NullIndicator
<1>5. CASE \E vs \in RetainedLists, n \in 0..Len(owned) : Call(vs, n)
  BY <1>1, <1>5 DEF Call
<1>6. CASE Match \/ NextValue \/ EndMatch \/ Return
  BY <1>1, <1>6 DEF Match, NextValue, EndMatch, Return
<1>7. CASE UNCHANGED vars
  BY <1>1, <1>7 DEF vars
<1> QED
  BY <1>2, <1>3, <1>4, <1>5, <1>6, <1>7 DEF Next

(* Between ops, indicators that are not null correspond one to one to the  *)
(* buffers on the heap.                                                    *)
LEMMA OneIndicatorEach ==
  ASSUME IInv, StatsInv, pc = "body"
  PROVE  Cardinality({k \in DOMAIN owned : owned[k] # Null}) = Cardinality(OnHeap)
<1> DEFINE Holding == {k \in DOMAIN owned : owned[k] # Null}
           owner == [k \in Holding |-> owned[k]]
<1>1. OwnedBar = owned /\ HeapBar = heap
  BY BodyBar DEF IInv
<1>2. \A k \in Holding : owned[k] \in OnHeap
  <2>1. \A k \in DOMAIN owned : owned[k] \in Ref
    BY Shapes DEF IInv
  <2> QED BY <1>1, <2>1 DEF IInv, Promise!Inv, Promise!OwnedIsLive, OnHeap, Ref
<1>3. \A k, m \in Holding : owned[k] = owned[m] => k = m
  BY <1>1 DEF IInv, Promise!Inv, Promise!UniqueOwner
<1>4. \A b \in OnHeap : \E k \in Holding : owned[k] = b
  BY <1>1, RetainAssumption
  DEF IInv, Promise!Inv, Promise!NoLeak, Promise!Elems, OnHeap
<1>5. owner \in Injection(Holding, OnHeap)
  <2>1. owner \in [Holding -> OnHeap]
    BY <1>2
  <2>2. \A k, m \in Holding : owner[k] = owner[m] => k = m
    BY <1>3
  <2> QED BY <2>1, <2>2, Fun_IsInj
<1>6. owner \in Surjection(Holding, OnHeap)
  <2>1. owner \in [Holding -> OnHeap]
    BY <1>2
  <2>2. \A b \in OnHeap : \E k \in Holding : owner[k] = b
    BY <1>4
  <2> HIDE DEF owner, Holding
  <2> QED BY <2>1, <2>2, Fun_IsSurj
<1> HIDE DEF owner, Holding
<1>7. IsFiniteSet(OnHeap)
  BY DEF StatsInv
<1>8. Cardinality(Holding) = Cardinality(OnHeap)
  BY <1>5, <1>6, <1>7, FS_Injection
<1> QED
  BY <1>8 DEF Holding

(* The statistics of the interpreter are exact between ops: the heap size  *)
(* is what was allocated and not deallocated, and is the number of         *)
(* indicators that would be reported as leaked.                            *)
THEOREM StatisticsExact == Spec => []StatsExact
<1>1. Init => IInv /\ StatsInv
  BY InitStep, InitStats
<1>2. (IInv /\ StatsInv) /\ [Next]_vars => (IInv /\ StatsInv)'
  BY NextIInv, NextStats
<1>3. IInv /\ StatsInv => StatsExact
  BY OneIndicatorEach DEF StatsExact, StatsInv
<1> QED
  BY <1>1, <1>2, <1>3, PTL DEF Spec

(* The interpreter's retain implements the dialect's promise.              *)
THEOREM Refinement == Spec => ImplementsOwnership
<1>1. Init => Promise!Init
  BY InitStep
<1>2. IInv /\ [Next]_vars => [Promise!Next]_(Promise!vars)
  BY StepRefines
<1> QED
  BY <1>1, <1>2, Invariance, PTL DEF Spec, ImplementsOwnership, Promise!Spec
=============================================================================
