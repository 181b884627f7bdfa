-------------------------- MODULE RetainScfProofs --------------------------
(***************************************************************************)
(* The chain of scf.if ops that replaces a retain implements Ownership,    *)
(* for any set of buffers, any base pointers and any bounds.  As in        *)
(* RetainInterpProofs, each step of the chain leaves what Ownership sees   *)
(* unchanged and Return is a step of Ownership!Retain.  Two things differ. *)
(* The chain decides by base pointers, and 0 stands for null and for what  *)
(* was given out: ChainInv says which allocs have been given out, so that  *)
(* a comparison of addresses is one of buffers.  And what a memref gets is *)
(* carried from one scf.if to the next instead of being stored.            *)
(***************************************************************************)
EXTENDS RetainScf, SequenceTheorems, TLAPS

(* The proofs about Ownership, for the state it sees here.                 *)
P == INSTANCE OwnershipProofs WITH owned <- OwnedBar, heap <- HeapBar

-----------------------------------------------------------------------------
TypeOK ==
    /\ heap \in [Buffer -> {"unused", "live", "freed"}]
    /\ owned \in Seq(Ref)
    /\ values \in Seq(Ref) /\ allocs \in Seq(Ref)
    /\ alloc \in [DOMAIN allocs -> Ref]
    /\ addr \in [DOMAIN allocs -> Nat]
    /\ current \in Ref
    /\ results \in Seq(Ref)
    /\ r \in 1..Len(values) + 1 /\ a \in 1..Len(allocs) + 1
    /\ pc \in {"body", "chain", "free"}
    /\ failed \in BOOLEAN

\* The scf.if of memref k and alloc q has been executed.
Tried(k, q) == k < r \/ (k = r /\ q < a)
First(k) == \A m \in DOMAIN values : m < k => values[m] # values[k]
GivenOut(q) == \E k \in DOMAIN values : values[k] = allocs[q] /\ Tried(k, q)

\* What the chain of memref k has yielded so far.
Yielded(k) ==
    IF /\ values[k] # Null
       /\ \E q \in DOMAIN allocs : allocs[q] = values[k] /\ Tried(k, q)
       /\ First(k)
    THEN values[k] ELSE Null

LiveIf(q, cond) ==
    allocs[q] # Null => heap[allocs[q]] = IF cond THEN "live" ELSE "freed"

(* Where the chain is: an alloc has been given out once a memref derived   *)
(* from it was compared with it, and went to the first such memref; what   *)
(* was not given out is freed once the last loop has passed it.            *)
ChainInv ==
    /\ \A q \in DOMAIN allocs :
         /\ alloc[q] = IF GivenOut(q) THEN Null ELSE allocs[q]
         /\ addr[q] = GetBuffer(alloc[q])
         /\ LiveIf(q, pc = "chain" \/ alloc[q] = Null \/ a =< q)
    /\ Len(results) = r - 1
    /\ \A k \in 1..r - 1 : results[k] = Yielded(k)
    /\ current = IF r =< Len(values) THEN Yielded(r) ELSE Null
    /\ pc = "free" => r = Len(values) + 1

LoopInv ==
    /\ pc = "body" => values = <<>> /\ allocs = <<>>
    /\ pc # "body" => ChainInv /\ Len(owned) + Len(values) =< MaxOwned
    /\ \A k \in DOMAIN values : values[k] # Null => HeapBar[values[k]] = "live"
    /\ Len(values) =< MaxRetained

IInv == TypeOK /\ LoopInv /\ Promise!Inv /\ ~failed

-----------------------------------------------------------------------------
(* Promise and P are the same instance, once without and once with proofs. *)
LEMMA PromiseInvIsInv == Promise!Inv <=> P!Inv
  BY DEF P!Inv, Promise!Inv, P!TypeOK, Promise!TypeOK, P!UniqueOwner,
         Promise!UniqueOwner, P!OwnedIsLive, Promise!OwnedIsLive, P!NoLeak,
         Promise!NoLeak, P!BorrowedStayLive, Promise!BorrowedStayLive,
         P!Elems, Promise!Elems, P!Ref, Promise!Ref

LEMMA PromiseInvPreserved ==
  Promise!Inv /\ [Promise!Next]_(Promise!vars) => Promise!Inv'
<1>1. P!OwnershipAssumption
  BY RetainAssumption DEF P!OwnershipAssumption
<1>2. P!Inv /\ [P!Next]_(P!vars) => P!Inv'
  BY <1>1, P!NextInv
<1>3. [Promise!Next]_(Promise!vars) => [P!Next]_(P!vars)
  BY DEF P!Next, Promise!Next, P!vars, Promise!vars, P!Alloc, Promise!Alloc,
         P!NullIndicator, Promise!NullIndicator, P!Retain, Promise!Retain,
         P!RetainedLists, Promise!RetainedLists, P!Mentionable, Promise!Mentionable,
         P!RetainResult, Promise!RetainResult, P!Claims, Promise!Claims,
         P!Unretained, Promise!Unretained, P!Elems, Promise!Elems
<1>4. (Promise!Inv <=> P!Inv)'
  BY PromiseInvIsInv, PTL
<1> QED
  BY <1>2, <1>3, <1>4, PromiseInvIsInv

(* Addresses tell buffers apart, and only null has address 0.              *)
LEMMA Addresses ==
  /\ \A x \in Ref : GetBuffer(x) \in Nat /\ (GetBuffer(x) = 0 <=> x = Null)
  /\ \A x, y \in Ref : GetBuffer(x) = GetBuffer(y) => x = y
<1>1. \A b \in Buffer : Base[b] \in Nat /\ Base[b] # 0 /\ b # Null
  BY BaseAssumption, RetainAssumption
<1> QED
  BY <1>1, BaseAssumption DEF GetBuffer, Ref

LEMMA Shapes ==
  ASSUME TypeOK
  PROVE  /\ Len(owned) \in Nat /\ DOMAIN owned = 1..Len(owned)
         /\ Len(allocs) \in Nat /\ DOMAIN allocs = 1..Len(allocs)
         /\ Len(values) \in Nat /\ DOMAIN values = 1..Len(values)
         /\ Len(results) \in Nat /\ DOMAIN results = 1..Len(results)
         /\ \A k \in DOMAIN owned : owned[k] \in Ref
         /\ \A k \in DOMAIN allocs : allocs[k] \in Ref
         /\ \A k \in DOMAIN values : values[k] \in Ref
         /\ \A k \in DOMAIN results : results[k] \in Ref
  BY LenProperties, ElementOfSeq DEF TypeOK

(* What Ownership's invariant says of the indicators a retain has taken    *)
(* and of those it was not given.                                          *)
LEMMA BarFacts ==
  ASSUME TypeOK, Promise!Inv
  PROVE  /\ \A k, m \in DOMAIN allocs : allocs[k] = allocs[m] => k = m \/ allocs[k] = Null
         /\ \A k \in DOMAIN allocs : allocs[k] # Null => allocs[k] \in Buffer \ Borrowed
         /\ \A k \in DOMAIN owned : owned[k] # Null =>
              /\ owned[k] \in Buffer \ Borrowed
              /\ heap[owned[k]] = "live"
              /\ \A m \in DOMAIN allocs : allocs[m] # owned[k]
<1>1. P!OwnershipAssumption
  BY RetainAssumption DEF P!OwnershipAssumption
<1>2. P!Ref = Ref
  BY DEF P!Ref, Ref
<1>3. owned \in Seq(P!Ref) /\ allocs \in Seq(P!Ref) /\ OwnedBar = owned \o allocs
  BY <1>2 DEF TypeOK, OwnedBar
<1>4. P!Inv
  BY PromiseInvIsInv
<1>5. /\ \A k, m \in DOMAIN allocs : allocs[k] = allocs[m] => k = m \/ allocs[k] = Null
      /\ \A k \in DOMAIN allocs : allocs[k] # Null => allocs[k] \in Buffer \ Borrowed
      /\ \A k \in DOMAIN owned : owned[k] # Null =>
           /\ owned[k] \in Buffer \ Borrowed
           /\ HeapBar[owned[k]] = "live"
           /\ \A m \in DOMAIN allocs : allocs[m] # owned[k]
  BY <1>1, <1>3, <1>4, P!OwnedInParts
<1> QED BY <1>5 DEF HeapBar

-----------------------------------------------------------------------------
(* One lemma per action: it keeps the type, the loop invariant and the     *)
(* absence of failures, and Ownership sees a step of its own or nothing.   *)
Local == TypeOK /\ LoopInv /\ ~failed
Stutter == OwnedBar' = OwnedBar /\ HeapBar' = HeapBar

LEMMA InitStep == Init => IInv /\ Promise!Init
<1> SUFFICES ASSUME Init PROVE IInv /\ Promise!Init
  OBVIOUS
<1> USE RetainAssumption DEF Init, Body!Init
<1>1. allocs = <<>> /\ values = <<>> /\ owned = <<>> /\ DOMAIN allocs = {} /\ DOMAIN values = {}
      /\ <<>> \in Seq(Ref) /\ Len(allocs) = 0 /\ Len(values) = 0
  BY EmptySeq
<1>2. OwnedBar = <<>> /\ HeapBar = heap
  BY <1>1, EmptySeq, ConcatEmptySeq DEF OwnedBar, HeapBar
<1>3. TypeOK
  <2>1. alloc \in [DOMAIN allocs -> Ref] /\ addr \in [DOMAIN allocs -> Nat]
    BY <1>1
  <2>2. heap \in [Buffer -> {"unused", "live", "freed"}]
    OBVIOUS
  <2>3. r \in 1..Len(values) + 1 /\ a \in 1..Len(allocs) + 1
    BY <1>1
  <2> QED BY <1>1, <2>1, <2>2, <2>3 DEF TypeOK, Ref
<1>4. LoopInv
  BY <1>1 DEF LoopInv
<1>5. Promise!Init
  BY <1>2 DEF Promise!Init
<1>6. P!OwnershipAssumption
  BY DEF P!OwnershipAssumption
<1>7. P!Init => P!Inv
  BY <1>6, P!InitInv
<1>8. Promise!Inv
  <2>1. P!Init
    BY <1>5 DEF P!Init, Promise!Init
  <2> QED
    BY <1>7, <2>1, PromiseInvIsInv
<1> QED
  BY <1>3, <1>4, <1>5, <1>8 DEF IInv

LEMMA BodyBar ==
  ASSUME TypeOK, LoopInv, pc = "body"
  PROVE  allocs = <<>> /\ values = <<>> /\ OwnedBar = owned /\ HeapBar = heap
         /\ DOMAIN allocs = {} /\ DOMAIN values = {}
<1>1. allocs = <<>> /\ values = <<>>
  BY DEF LoopInv
<1>2. DOMAIN allocs = {} /\ DOMAIN values = {}
  BY <1>1
<1>3. OwnedBar = owned
  BY <1>1, ConcatEmptySeq DEF OwnedBar, TypeOK
<1>4. HeapBar = heap
  BY <1>2 DEF HeapBar, TypeOK
<1> QED BY <1>1, <1>2, <1>3, <1>4

LEMMA AllocStep ==
  ASSUME IInv, NEW b \in Buffer, Alloc(b)
  PROVE  Local' /\ Promise!Alloc(b)
<1> USE DEF Alloc, Body!Alloc, call
<1>1. allocs = <<>> /\ values = <<>> /\ OwnedBar = owned /\ HeapBar = heap
      /\ DOMAIN allocs = {} /\ DOMAIN values = {}
  BY BodyBar DEF IInv
<1>2. owned' \in Seq(Ref) /\ Len(owned') = Len(owned) + 1
  BY DEF IInv, TypeOK, Ref
<1>3. TypeOK'
  BY <1>2 DEF IInv, TypeOK
<1>4. OwnedBar' = owned' /\ HeapBar' = heap'
  <2>1. allocs' = <<>> /\ DOMAIN allocs' = {}
    BY <1>1
  <2> QED BY <1>2, <1>3, <2>1, ConcatEmptySeq DEF OwnedBar, HeapBar, TypeOK
<1>5. LoopInv'
  BY <1>1 DEF LoopInv, IInv
<1> QED
  BY <1>1, <1>3, <1>4, <1>5 DEF Promise!Alloc, Local, IInv

LEMMA NullIndicatorStep ==
  ASSUME IInv, NullIndicator
  PROVE  Local' /\ Promise!NullIndicator
<1> USE DEF NullIndicator, Body!NullIndicator, call
<1>1. allocs = <<>> /\ values = <<>> /\ OwnedBar = owned /\ HeapBar = heap
      /\ DOMAIN allocs = {} /\ DOMAIN values = {}
  BY BodyBar DEF IInv
<1>2. owned' \in Seq(Ref) /\ Len(owned') = Len(owned) + 1
  BY DEF IInv, TypeOK, Ref
<1>3. TypeOK'
  BY <1>2 DEF IInv, TypeOK
<1>4. OwnedBar' = owned' /\ HeapBar' = heap'
  <2>1. allocs' = <<>> /\ DOMAIN allocs' = {}
    BY <1>1
  <2> QED BY <1>2, <1>3, <2>1, ConcatEmptySeq DEF OwnedBar, HeapBar, TypeOK
<1>5. LoopInv'
  BY <1>1 DEF LoopInv, IInv
<1> QED
  BY <1>1, <1>3, <1>4, <1>5 DEF Promise!NullIndicator, Local, IInv

LEMMA CallStep ==
  ASSUME IInv, NEW vs \in Body!RetainedLists, NEW n \in 0..Len(owned), Call(vs, n)
  PROVE  Local' /\ Stutter
<1> USE RetainAssumption DEF Call
<1>1. allocs = <<>> /\ values = <<>> /\ OwnedBar = owned /\ HeapBar = heap
      /\ DOMAIN allocs = {} /\ DOMAIN values = {}
  BY BodyBar DEF IInv
<1>2. owned \in Seq(Ref) /\ Len(owned) \in Nat /\ DOMAIN owned = 1..Len(owned)
  BY LenProperties DEF IInv, TypeOK
<1>3. P!OwnershipAssumption
  BY DEF P!OwnershipAssumption
<1>4. /\ owned' \in Seq(Ref) /\ Len(owned') = n
      /\ allocs' \in Seq(Ref) /\ Len(allocs') = Len(owned) - n
      /\ \A k \in 1..Len(owned) - n : allocs'[k] = owned[n + k]
  <2>1. P!Ref = Ref
    BY DEF P!Ref, Ref
  <2> QED BY <1>2, <1>3, <2>1, P!SplitProperties
<1>5. vs \in Seq(Ref) /\ Len(vs) \in Nat /\ DOMAIN vs = 1..Len(vs) /\ Len(vs) <= MaxRetained
      /\ \A k \in DOMAIN vs : vs[k] \in Body!Mentionable
  <2>1. PICK m \in 0..MaxRetained : vs \in [1..m -> Body!Mentionable]
    BY DEF Body!RetainedLists
  <2>2. vs \in Seq(Body!Mentionable) /\ Len(vs) = m
    BY <2>1
  <2>3. Body!Mentionable \subseteq Ref
    BY DEF Body!Mentionable, Ref
  <2> QED BY <2>1, <2>2, <2>3, SeqMonotonic
<1>6. DOMAIN allocs' = 1..Len(allocs') /\ Len(allocs') \in Nat
      /\ \A k \in DOMAIN allocs' : allocs'[k] \in Ref
  BY <1>4, LenProperties, ElementOfSeq
<1>7. TypeOK'
  <2>1. alloc' \in [DOMAIN allocs' -> Ref]
    <3>1. alloc' = allocs'
      OBVIOUS
    <3> HIDE DEF Call
    <3> QED BY <1>6, <3>1, <1>4
  <2>2. addr' \in [DOMAIN allocs' -> Nat]
    BY <1>6, Addresses
  <2>3. r' \in 1..Len(values') + 1 /\ a' \in 1..Len(allocs') + 1
    <3>1. r' = 1 /\ a' = 1 /\ Len(values') \in Nat
      BY <1>5
    <3> HIDE DEF Call
    <3> QED BY <1>6, <3>1
  <2>4. results' \in Seq(Ref) /\ current' \in Ref
    BY EmptySeq DEF Ref
  <2> QED BY <1>4, <1>5, <2>1, <2>2, <2>3, <2>4 DEF IInv, TypeOK
<1>8. \A k \in DOMAIN allocs' : allocs'[k] # Null => heap[allocs'[k]] = "live"
  <2>1. \A k \in DOMAIN owned : owned[k] # Null => heap[owned[k]] = "live"
    BY BarFacts DEF IInv
  <2>2. DOMAIN allocs' = 1..Len(owned) - n
    <3> HIDE DEF Call
    <3> QED BY <1>4, <1>6
  <2>3. \A k \in 1..Len(owned) - n : n + k \in 1..Len(owned)
    <3> HIDE DEF Call
    <3> QED BY <1>2
  <2> HIDE DEF Call
  <2> QED BY <2>1, <2>2, <2>3, <1>2, <1>4
<1>9. HeapBar' = HeapBar
  BY <1>1, <1>8 DEF HeapBar, IInv, TypeOK
<1>10. OwnedBar' = OwnedBar
  <2>1. 1 \in 1..Len(owned) + 1 /\ n \in 1 - 1..Len(owned) /\ Len(owned) \in n..Len(owned)
    <3> HIDE DEF Call
    <3> QED BY <1>2
  <2>2. SubSeq(owned, 1, n) \o SubSeq(owned, n + 1, Len(owned)) = SubSeq(owned, 1, Len(owned))
    BY <1>2, <2>1, ConcatAdjacentSubSeq
  <2> QED BY <1>1, <1>2, <2>2, SubSeqFull DEF OwnedBar
<1>11. ChainInv'
  <2>1. \A k \in DOMAIN vs, q \in DOMAIN allocs' : ~Tried(k, q)'
    BY <1>5, <1>6 DEF Tried
  <2>2. \A q \in DOMAIN allocs' : alloc'[q] = allocs'[q] /\ addr'[q] = GetBuffer(alloc'[q])
    OBVIOUS
  <2>3. current' = Null /\ r' = 1 /\ pc' = "chain" /\ values' = vs /\ heap' = heap
    OBVIOUS
  <2>4. Len(results') = 0
    BY EmptySeq
  <2>5. \A k \in DOMAIN vs : Yielded(k)' = Null
    BY <2>1, <2>3 DEF Yielded
  <2>6. \A q \in DOMAIN allocs' : GivenOut(q)' = FALSE
    BY <2>1, <2>3 DEF GivenOut
  <2>7. (IF r' =< Len(values') THEN Yielded(r)' ELSE Null) = Null
    <3>1. r' =< Len(values') => r' \in DOMAIN vs
      BY <1>5, <2>3
    <3>2. r' \in DOMAIN vs => Yielded(r)' = Null
      BY <2>1, <2>3 DEF Yielded
    <3> QED BY <3>1, <3>2
  <2>8. \A q \in DOMAIN allocs' : LiveIf(q, pc = "chain" \/ alloc[q] = Null \/ a =< q)'
    BY <1>8, <2>3 DEF LiveIf
  <2>9. Len(results') = r' - 1 /\ \A k \in 1..r' - 1 : results'[k] = Yielded(k)'
    BY <2>3, <2>4
  <2> HIDE DEF Call
  <2> QED BY <2>2, <2>3, <2>6, <2>7, <2>8, <2>9 DEF ChainInv
<1>12. LoopInv'
  <2>1. \A k \in DOMAIN vs : vs[k] # Null => HeapBar'[vs[k]] = "live"
    BY <1>1, <1>5, <1>9 DEF Body!Mentionable
  <2> QED BY <1>11, <2>1, <1>4, <1>5 DEF LoopInv
<1> QED
  BY <1>7, <1>9, <1>10, <1>12 DEF Local, Stutter, IInv

(* What the chain has done decides what Same sees: the address of an alloc *)
(* is that of values[r] iff both are null or the alloc is the memref's     *)
(* buffer and has not been given out, which is to say that no memref       *)
(* before values[r] is derived from it.                                    *)
LEMMA SameDecides ==
  ASSUME TypeOK, ChainInv, r \in DOMAIN values, a \in DOMAIN allocs
  PROVE  /\ Same => alloc[a] = values[r]
         /\ values[r] # Null => (Same <=> allocs[a] = values[r] /\ First(r))
<1>1. /\ values[r] \in Ref /\ alloc[a] \in Ref /\ allocs[a] \in Ref
      /\ addr[a] = GetBuffer(alloc[a])
      /\ alloc[a] = IF GivenOut(a) THEN Null ELSE allocs[a]
  BY Shapes DEF TypeOK, ChainInv
<1>2. Same <=> values[r] = alloc[a]
  BY <1>1, Addresses DEF Same
<1>3. DOMAIN values \subseteq Nat /\ r \in Nat /\ a \in Nat
  BY Shapes DEF TypeOK
<1>4. \A k \in DOMAIN values : Tried(k, a) <=> k < r
  BY <1>3 DEF Tried
<1>5. GivenOut(a) <=> \E k \in DOMAIN values : k < r /\ values[k] = allocs[a]
  BY <1>4 DEF GivenOut
<1>6. values[r] # Null => (values[r] = alloc[a] <=> allocs[a] = values[r] /\ ~GivenOut(a))
  BY <1>1
<1>7. allocs[a] = values[r] => (GivenOut(a) <=> ~First(r))
  BY <1>5 DEF First
<1> QED
  BY <1>2, <1>6, <1>7

LEMMA CompareStep ==
  ASSUME IInv, CompareAndYield
  PROVE  Local' /\ Stutter
<1> USE DEF CompareAndYield
<1>1. Stutter
  BY DEF Stutter, OwnedBar, HeapBar
<1>2. /\ Len(values) \in Nat /\ DOMAIN values = 1..Len(values)
      /\ Len(allocs) \in Nat /\ DOMAIN allocs = 1..Len(allocs)
      /\ r \in DOMAIN values /\ a \in DOMAIN allocs
      /\ values' = values /\ allocs' = allocs /\ heap' = heap /\ results' = results
      /\ r' = r /\ a' = a + 1 /\ pc' = pc /\ pc = "chain"
  BY Shapes DEF IInv, TypeOK
<1>3. /\ TypeOK /\ ChainInv
      /\ alloc \in [DOMAIN allocs -> Ref] /\ addr \in [DOMAIN allocs -> Nat]
      /\ current \in Ref
  BY DEF IInv, LoopInv, TypeOK
<1>4. /\ Same => alloc[a] = values[r]
      /\ values[r] # Null => (Same <=> allocs[a] = values[r] /\ First(r))
  BY <1>2, <1>3, SameDecides
<1>5. /\ alloc' = IF Same THEN [alloc EXCEPT ![a] = Null] ELSE alloc
      /\ addr' = IF Same THEN [addr EXCEPT ![a] = 0] ELSE addr
      /\ current' = IF Same THEN alloc[a] ELSE current
  BY DEF YieldIfSame, YieldIfDifferent
<1> HIDE DEF CompareAndYield
<1>6. TypeOK'
  <2>1. alloc' \in [DOMAIN allocs -> Ref] /\ addr' \in [DOMAIN allocs -> Nat] /\ current' \in Ref
    BY <1>2, <1>3, <1>5 DEF Ref
  <2>2. a' \in 1..Len(allocs) + 1
    BY <1>2
  <2>3. owned' = owned /\ failed' = failed
    BY DEF CompareAndYield
  <2> QED BY <1>2, <1>3, <2>1, <2>2, <2>3 DEF TypeOK
<1>7. \A k \in DOMAIN values, q \in DOMAIN allocs :
        Tried(k, q)' <=> Tried(k, q) \/ (k = r /\ q = a)
  BY <1>2 DEF Tried
<1>8. \A k \in DOMAIN values : First(k)' <=> First(k)
  BY <1>2 DEF First
<1>9. \A q \in DOMAIN allocs : alloc'[q] = IF GivenOut(q)' THEN Null ELSE allocs[q]
  <2> TAKE q \in DOMAIN allocs
  <2>1. alloc[q] = IF GivenOut(q) THEN Null ELSE allocs[q]
    BY <1>3 DEF ChainInv
  <2>2. CASE q # a
    <3>1. GivenOut(q)' <=> GivenOut(q)
      BY <1>2, <1>7, <2>2 DEF GivenOut
    <3>2. alloc'[q] = alloc[q]
      BY <1>3, <1>5, <2>2
    <3> QED BY <2>1, <3>1, <3>2
  <2>3. CASE q = a
    <3>1. GivenOut(q)' <=> GivenOut(q) \/ values[r] = allocs[q]
      BY <1>2, <1>7, <2>3 DEF GivenOut
    <3>2. CASE Same
      <4>1. alloc'[q] = Null
        BY <1>2, <1>3, <1>5, <2>3, <3>2
      <4>2. GivenOut(q) \/ values[r] = allocs[q]
        BY <1>4, <2>1, <2>3, <3>2
      <4> QED BY <3>1, <4>1, <4>2
    <3>3. CASE ~Same
      <4>1. alloc'[q] = alloc[q]
        BY <1>5, <3>3
      <4>2. CASE values[r] = allocs[q] /\ values[r] # Null
        <5>1. ~First(r)
          BY <1>4, <2>3, <3>3, <4>2
        <5>2. PICK m \in DOMAIN values : m < r /\ values[m] = values[r]
          BY <5>1 DEF First
        <5>3. GivenOut(q)
          BY <4>2, <5>2 DEF GivenOut, Tried
        <5> QED BY <2>1, <3>1, <4>1, <5>3
      <4>3. CASE values[r] = allocs[q] /\ values[r] = Null
        BY <2>1, <4>1, <4>3
      <4>4. CASE values[r] # allocs[q]
        BY <2>1, <3>1, <4>1, <4>4
      <4> QED BY <4>2, <4>3, <4>4
    <3> QED BY <3>2, <3>3
  <2> QED BY <2>2, <2>3
<1>10. \A q \in DOMAIN allocs : addr'[q] = GetBuffer(alloc'[q])
  <2> TAKE q \in DOMAIN allocs
  <2>1. addr[q] = GetBuffer(alloc[q])
    BY <1>3 DEF ChainInv
  <2>2. CASE q = a /\ Same
    BY <1>2, <1>3, <1>5, <2>2 DEF GetBuffer
  <2>3. CASE ~(q = a /\ Same)
    BY <1>2, <1>3, <1>5, <2>1, <2>3
  <2> QED BY <2>2, <2>3
<1>11. \A k \in 1..r - 1 : results'[k] = Yielded(k)'
  <2> TAKE k \in 1..r - 1
  <2>1. k \in DOMAIN values /\ k # r
    BY <1>2
  <2>2. \A q \in DOMAIN allocs : Tried(k, q)' <=> Tried(k, q)
    BY <1>7, <2>1
  <2>3. Yielded(k)' = Yielded(k)
    BY <1>2, <1>8, <2>1, <2>2 DEF Yielded
  <2> QED BY <1>2, <1>3, <2>3 DEF ChainInv
<1>12. current' = Yielded(r)'
  <2>1. current = Yielded(r)
    BY <1>2, <1>3 DEF ChainInv
  <2>2. \A q \in DOMAIN allocs : Tried(r, q)' <=> Tried(r, q) \/ q = a
    BY <1>2, <1>7
  <2>3. Yielded(r)' = IF /\ values[r] # Null
                         /\ \E q \in DOMAIN allocs :
                               allocs[q] = values[r] /\ (Tried(r, q) \/ q = a)
                         /\ First(r)
                      THEN values[r] ELSE Null
    BY <1>2, <1>8, <2>2 DEF Yielded
  <2>4. CASE values[r] = Null
    <3>1. current' = Null
      BY <1>4, <1>5, <2>1, <2>4 DEF Yielded
    <3> QED BY <2>3, <2>4, <3>1
  <2>5. CASE values[r] # Null /\ Same
    <3>1. allocs[a] = values[r] /\ First(r) /\ current' = values[r]
      BY <1>4, <1>5, <2>5
    <3> QED BY <1>2, <2>3, <2>5, <3>1
  <2>6. CASE values[r] # Null /\ ~Same
    <3>1. ~(allocs[a] = values[r] /\ First(r)) /\ current' = current
      BY <1>4, <1>5, <2>6
    <3> QED BY <2>1, <2>3, <3>1 DEF Yielded
  <2> QED BY <2>4, <2>5, <2>6
<1>13. \A q \in DOMAIN allocs : LiveIf(q, pc = "chain" \/ alloc[q] = Null \/ a =< q)'
  BY <1>2, <1>3 DEF ChainInv, LiveIf
<1>14. ChainInv'
  <2>1. Len(results') = r' - 1 /\ r' =< Len(values') /\ pc' # "free"
    BY <1>2, <1>3 DEF ChainInv
  <2> QED BY <1>2, <1>9, <1>10, <1>11, <1>12, <1>13, <2>1 DEF ChainInv
<1>15. LoopInv'
  <2>1. HeapBar' = HeapBar /\ owned' = owned
    BY <1>1 DEF Stutter, CompareAndYield
  <2> QED BY <1>2, <1>14, <2>1 DEF LoopInv, IInv
<1>16. ~failed'
  BY DEF CompareAndYield, IInv
<1> QED
  BY <1>1, <1>6, <1>15, <1>16 DEF Local

LEMMA NextRetainedStep ==
  ASSUME IInv, NextRetained
  PROVE  Local' /\ Stutter
<1> USE DEF NextRetained
<1>1. Stutter
  BY DEF Stutter, OwnedBar, HeapBar
<1>2. /\ Len(values) \in Nat /\ DOMAIN values = 1..Len(values)
      /\ Len(allocs) \in Nat /\ DOMAIN allocs = 1..Len(allocs)
      /\ r \in DOMAIN values /\ a = Len(allocs) + 1
      /\ values' = values /\ allocs' = allocs /\ heap' = heap
      /\ r' = r + 1 /\ a' = 1 /\ pc' = pc /\ pc = "chain"
      /\ alloc' = alloc /\ addr' = addr /\ current' = Null
  BY Shapes DEF IInv, TypeOK
<1>3. /\ TypeOK /\ ChainInv /\ results \in Seq(Ref) /\ current \in Ref
      /\ Len(results) = r - 1 /\ Len(results) \in Nat
  BY Shapes DEF IInv, LoopInv, TypeOK, ChainInv
<1>4. /\ results' \in Seq(Ref) /\ Len(results') = Len(results) + 1
      /\ \A k \in 1..Len(results) : results'[k] = results[k]
      /\ results'[Len(results) + 1] = current
  BY <1>3
<1> HIDE DEF NextRetained
<1>5. TypeOK'
  <2>1. r' \in 1..Len(values) + 1 /\ a' \in 1..Len(allocs) + 1
    BY <1>2
  <2>2. owned' = owned /\ failed' = failed
    BY DEF NextRetained
  <2> QED BY <1>2, <1>3, <1>4, <2>1, <2>2 DEF TypeOK, Ref
<1>6. \A k \in DOMAIN values, q \in DOMAIN allocs : Tried(k, q)' <=> Tried(k, q)
  BY <1>2 DEF Tried
<1>7. \A k \in DOMAIN values : Yielded(k)' = Yielded(k) /\ (First(k)' <=> First(k))
  BY <1>2, <1>6 DEF Yielded, First
<1>8. \A q \in DOMAIN allocs : GivenOut(q)' <=> GivenOut(q)
  BY <1>2, <1>6 DEF GivenOut
<1>9. \A k \in 1..r' - 1 : results'[k] = Yielded(k)'
  <2> TAKE k \in 1..r' - 1
  <2>1. k \in DOMAIN values /\ (k \in 1..r - 1 \/ k = r)
    BY <1>2
  <2>2. CASE k \in 1..r - 1
    BY <1>3, <1>4, <1>7, <2>1, <2>2 DEF ChainInv
  <2>3. CASE k = r
    <3>1. results'[r] = current /\ current = Yielded(r)
      BY <1>2, <1>3, <1>4 DEF ChainInv
    <3> QED BY <1>7, <2>1, <2>3, <3>1
  <2> QED BY <2>1, <2>2, <2>3
<1>10. (IF r =< Len(values) THEN Yielded(r) ELSE Null)' = Null
  <2> SUFFICES ASSUME r' \in DOMAIN values PROVE Yielded(r)' = Null
    BY <1>2
  <2>1. \A q \in DOMAIN allocs : ~Tried(r, q)'
    BY <1>2 DEF Tried
  <2> QED BY <1>2, <2>1 DEF Yielded
<1>11. ChainInv'
  <2>1. Len(results') = r' - 1 /\ pc' # "free"
    BY <1>2, <1>3, <1>4
  <2>2. \A q \in DOMAIN allocs :
          /\ alloc'[q] = IF GivenOut(q)' THEN Null ELSE allocs[q]
          /\ addr'[q] = GetBuffer(alloc'[q])
          /\ LiveIf(q, pc = "chain" \/ alloc[q] = Null \/ a =< q)'
    BY <1>2, <1>3, <1>8 DEF ChainInv, LiveIf
  <2> QED BY <1>2, <1>9, <1>10, <2>1, <2>2 DEF ChainInv
<1>12. LoopInv'
  <2>1. HeapBar' = HeapBar /\ owned' = owned
    BY <1>1 DEF Stutter, NextRetained
  <2> QED BY <1>2, <1>11, <2>1 DEF LoopInv, IInv
<1>13. ~failed'
  BY DEF NextRetained, IInv
<1> QED
  BY <1>1, <1>5, <1>12, <1>13 DEF Local

LEMMA EndChainStep ==
  ASSUME IInv, EndChain
  PROVE  Local' /\ Stutter
<1> USE DEF EndChain
<1>1. Stutter
  BY DEF Stutter, OwnedBar, HeapBar
<1>2. /\ Len(values) \in Nat /\ DOMAIN values = 1..Len(values)
      /\ Len(allocs) \in Nat /\ DOMAIN allocs = 1..Len(allocs)
      /\ r = Len(values) + 1 /\ r' = r /\ a' = 1 /\ pc = "chain" /\ pc' = "free"
      /\ values' = values /\ allocs' = allocs /\ heap' = heap
  BY Shapes DEF IInv, TypeOK
<1>3. TypeOK'
  BY <1>2 DEF IInv, TypeOK
<1>4. \A k \in DOMAIN values, q \in DOMAIN allocs : Tried(k, q) /\ Tried(k, q)'
  BY <1>2 DEF Tried
<1>5. \A k \in DOMAIN values : Yielded(k)' = Yielded(k)
  BY <1>2, <1>4 DEF Yielded, First
<1>6. \A q \in DOMAIN allocs : (GivenOut(q)' <=> GivenOut(q)) /\ a' =< q
  BY <1>2, <1>4 DEF GivenOut
<1>7. ChainInv
  BY DEF IInv, LoopInv
<1>8. ChainInv'
  <2>1. \A q \in DOMAIN allocs : LiveIf(q, pc = "chain" \/ alloc[q] = Null \/ a =< q)'
    BY <1>2, <1>6, <1>7 DEF ChainInv, LiveIf
  <2>2. \A k \in 1..r' - 1 : results'[k] = Yielded(k)'
    BY <1>2, <1>5, <1>7 DEF ChainInv
  <2> QED BY <1>2, <1>6, <1>7, <2>1, <2>2 DEF ChainInv
<1> QED
  BY <1>1, <1>2, <1>3, <1>8 DEF Local, IInv, LoopInv, Stutter

LEMMA FreeRemainingStep ==
  ASSUME IInv, FreeRemaining
  PROVE  Local' /\ Stutter
<1> USE DEF FreeRemaining
<1>1. /\ Len(values) \in Nat /\ DOMAIN values = 1..Len(values)
      /\ Len(allocs) \in Nat /\ DOMAIN allocs = 1..Len(allocs)
      /\ a \in DOMAIN allocs /\ r = Len(values) + 1 /\ r' = r /\ a' = a + 1
      /\ pc = "free" /\ pc' = "free"
      /\ values' = values /\ allocs' = allocs /\ alloc' = alloc /\ addr' = addr
      /\ results' = results /\ current' = current /\ owned' = owned
  BY Shapes DEF IInv, TypeOK, LoopInv, ChainInv
<1>2. /\ TypeOK /\ ChainInv /\ LoopInv /\ ~failed
      /\ alloc \in [DOMAIN allocs -> Ref]
      /\ heap \in [Buffer -> {"unused", "live", "freed"}]
  BY <1>1 DEF IInv, LoopInv, TypeOK
<1>3. /\ \A k, m \in DOMAIN allocs : allocs[k] = allocs[m] => k = m \/ allocs[k] = Null
      /\ \A k \in DOMAIN allocs : allocs[k] # Null => allocs[k] \in Buffer \ Borrowed
  BY BarFacts DEF IInv
(* An address that is not 0 is that of an alloc that is still live.        *)
<1>4. /\ addr[a] = 0 <=> alloc[a] = Null
      /\ alloc[a] # Null => /\ alloc[a] = allocs[a] /\ alloc[a] \in Buffer
                            /\ heap[alloc[a]] = "live"
  <2>1. /\ addr[a] = GetBuffer(alloc[a]) /\ alloc[a] \in Ref
        /\ alloc[a] = IF GivenOut(a) THEN Null ELSE allocs[a]
        /\ LiveIf(a, pc = "chain" \/ alloc[a] = Null \/ a =< a)
    BY <1>1, <1>2 DEF ChainInv
  <2>2. a =< a
    BY <1>1
  <2> QED BY <1>1, <1>3, <2>1, <2>2, Addresses DEF LiveIf
<1>5. /\ failed' = failed
      /\ heap' = IF alloc[a] = Null THEN heap ELSE [heap EXCEPT ![allocs[a]] = "freed"]
  BY <1>4
<1> HIDE DEF FreeRemaining
<1>6. TypeOK'
  <2>1. heap' \in [Buffer -> {"unused", "live", "freed"}]
    BY <1>2, <1>5
  <2>2. a' \in 1..Len(allocs) + 1
    BY <1>1
  <2> QED BY <1>1, <1>2, <1>5, <2>1, <2>2 DEF TypeOK
<1>7. HeapBar' = HeapBar
  <2>1. \A b \in Buffer : heap'[b] = heap[b] \/ b = allocs[a]
    BY <1>2, <1>5
  <2> QED BY <1>1, <2>1 DEF HeapBar
<1>8. Stutter
  BY <1>1, <1>7 DEF Stutter, OwnedBar
<1>9. \A k \in DOMAIN values, q \in DOMAIN allocs : Tried(k, q) /\ Tried(k, q)'
  BY <1>1 DEF Tried
<1>10. \A k \in DOMAIN values : Yielded(k)' = Yielded(k)
  BY <1>1, <1>9 DEF Yielded, First
<1>11. \A q \in DOMAIN allocs : GivenOut(q)' <=> GivenOut(q)
  BY <1>1, <1>9 DEF GivenOut
<1>12. \A q \in DOMAIN allocs : LiveIf(q, pc = "chain" \/ alloc[q] = Null \/ a =< q)'
  <2> SUFFICES ASSUME NEW q \in DOMAIN allocs, allocs[q] # Null
               PROVE  heap'[allocs[q]] = IF alloc[q] = Null \/ a + 1 =< q
                                         THEN "live" ELSE "freed"
    BY <1>1 DEF LiveIf
  <2>1. heap[allocs[q]] = IF alloc[q] = Null \/ a =< q THEN "live" ELSE "freed"
    BY <1>1, <1>2 DEF ChainInv, LiveIf
  <2>2. CASE q = a
    <3>1. ~(a + 1 =< q) /\ a =< q /\ allocs[a] \in Buffer
      BY <1>1, <1>3, <2>2
    <3> QED BY <1>2, <1>5, <2>1, <2>2, <3>1
  <2>3. CASE q # a
    <3>1. allocs[q] # allocs[a] /\ allocs[q] \in Buffer
      BY <1>1, <1>3, <2>3
    <3>2. heap'[allocs[q]] = heap[allocs[q]]
      BY <1>2, <1>5, <3>1
    <3>3. a =< q <=> a + 1 =< q
      BY <1>1, <2>3
    <3> QED BY <2>1, <3>2, <3>3
  <2> QED BY <2>2, <2>3
<1>13. ChainInv'
  <2>1. \A k \in 1..r' - 1 : results'[k] = Yielded(k)'
    BY <1>1, <1>2, <1>10 DEF ChainInv
  <2> QED BY <1>1, <1>2, <1>11, <1>12, <2>1 DEF ChainInv
<1> QED
  BY <1>1, <1>2, <1>5, <1>6, <1>7, <1>8, <1>13 DEF Local, LoopInv

LEMMA ReturnStep ==
  ASSUME IInv, Return
  PROVE  /\ Local'
         /\ values \in Promise!RetainedLists
         /\ Len(owned) \in 0..Len(OwnedBar)
         /\ Promise!Retain(values, Len(owned))
<1> USE DEF Return
<1>1. /\ Len(values) \in Nat /\ DOMAIN values = 1..Len(values)
      /\ Len(allocs) \in Nat /\ DOMAIN allocs = 1..Len(allocs)
      /\ Len(owned) \in Nat /\ DOMAIN owned = 1..Len(owned)
      /\ DOMAIN results = 1..Len(results)
      /\ \A k \in DOMAIN values : values[k] \in Ref
      /\ \A k \in DOMAIN allocs : allocs[k] \in Ref
  BY Shapes DEF IInv
<1>2. /\ owned \in Seq(Ref) /\ allocs \in Seq(Ref) /\ results \in Seq(Ref)
      /\ TypeOK /\ LoopInv /\ ChainInv /\ ~failed
      /\ pc = "free" /\ a = Len(allocs) + 1 /\ r = Len(values) + 1
      /\ Len(results) = Len(values)
  <2>1. TypeOK /\ LoopInv /\ ~failed /\ pc = "free"
    BY DEF IInv
  <2>2. ChainInv
    BY <2>1 DEF LoopInv
  <2>3. a = Len(allocs) + 1 /\ r = Len(values) + 1 /\ Len(results) = r - 1
    BY <1>1, <2>1, <2>2 DEF TypeOK, ChainInv
  <2> QED BY <1>1, <2>1, <2>2, <2>3 DEF TypeOK
<1>3. /\ owned \o results \in Seq(Ref)
      /\ Len(owned \o results) = Len(owned) + Len(values)
  <2> HIDE DEF Return
  <2>1. owned \o results \in Seq(Ref) /\ Len(owned \o results) = Len(owned) + Len(results)
    BY <1>2, ConcatProperties
  <2> QED BY <2>1, <1>2
<1>4. /\ values' = <<>> /\ allocs' = <<>> /\ DOMAIN values' = {} /\ DOMAIN allocs' = {}
      /\ Len(values') = 0 /\ Len(allocs') = 0 /\ <<>> \in Seq(Ref)
  BY EmptySeq
<1>5. TypeOK'
  <2>1. alloc' \in [DOMAIN allocs' -> Ref] /\ addr' \in [DOMAIN allocs' -> Nat]
    BY <1>4
  <2>2. r' \in 1..Len(values') + 1 /\ a' \in 1..Len(allocs') + 1
    BY <1>4
  <2> QED BY <1>2, <1>3, <1>4, <2>1, <2>2 DEF TypeOK, Ref
<1>6. LoopInv'
  BY <1>4, RetainAssumption DEF LoopInv
<1>7. OwnedBar' = owned \o results /\ HeapBar' = heap
  <2>1. OwnedBar' = owned \o results
    BY <1>3, <1>4, ConcatEmptySeq DEF OwnedBar
  <2> QED BY <1>2, <1>4, <2>1 DEF HeapBar, TypeOK
<1>8. values \in Promise!RetainedLists
  <2>1. \A k \in DOMAIN values : values[k] \in Promise!Mentionable
    BY <1>1, <1>2 DEF Promise!Mentionable, LoopInv, Ref
  <2>2. Len(values) \in 0..MaxRetained
    BY <1>1, <1>2, RetainAssumption DEF LoopInv
  <2>3. values \in [1..Len(values) -> Promise!Mentionable]
    <3>1. values \in [1..Len(values) -> Ref]
      BY <1>2, LenProperties DEF TypeOK
    <3> QED BY <1>1, <2>1, <3>1
  <2> QED BY <2>2, <2>3 DEF Promise!RetainedLists
<1>9. Len(OwnedBar) = Len(owned) + Len(allocs)
  BY <1>2, ConcatProperties DEF OwnedBar
<1>10. SubSeq(OwnedBar, 1, Len(owned)) = owned
       /\ SubSeq(OwnedBar, Len(owned) + 1, Len(OwnedBar)) = allocs
  <2>1. P!OwnershipAssumption
    BY RetainAssumption DEF P!OwnershipAssumption
  <2> QED BY <1>2, <2>1, P!ConcatParts DEF OwnedBar
<1>11. \A k \in DOMAIN values, q \in DOMAIN allocs : Tried(k, q)
  BY <1>1, <1>2 DEF Tried
<1>12. results = Promise!RetainResult(values, allocs)
  <2>1. \A k \in DOMAIN values : results[k] = Yielded(k)
    BY <1>1, <1>2 DEF ChainInv
  <2>2. \A k \in DOMAIN values :
          Yielded(k) = IF Promise!Claims(values, allocs, k) THEN values[k] ELSE Null
    BY <1>11 DEF Yielded, First, Promise!Claims, Promise!Elems
  <2>3. results \in [DOMAIN values -> Ref]
    BY <1>1, <1>2, LenProperties
  <2> QED BY <2>1, <2>2, <2>3 DEF Promise!RetainResult
<1>13. heap = [b \in Buffer |-> IF b \in Promise!Unretained(values, allocs)
                                THEN "freed" ELSE HeapBar[b]]
  <2> SUFFICES ASSUME NEW b \in Buffer
               PROVE  heap[b] = IF b \in Promise!Unretained(values, allocs)
                                THEN "freed" ELSE HeapBar[b]
    BY <1>2 DEF TypeOK
  <2>1. CASE \E q \in DOMAIN allocs : allocs[q] = b
    <3>1. PICK q \in DOMAIN allocs : allocs[q] = b
      BY <2>1
    <3>2. allocs[q] # Null /\ HeapBar[b] = "live"
      BY <3>1, RetainAssumption DEF HeapBar
    <3>3. heap[b] = IF GivenOut(q) THEN "live" ELSE "freed"
      <4>1. ~(a =< q)
        BY <1>1, <1>2
      <4> QED BY <1>2, <3>1, <3>2, <4>1 DEF ChainInv, LiveIf
    <3>4. GivenOut(q) <=> \E k \in DOMAIN values : values[k] = b
      BY <1>11, <3>1 DEF GivenOut
    <3>5. b \in Promise!Unretained(values, allocs) <=> ~ \E k \in DOMAIN values : values[k] = b
      BY <3>1, <3>2 DEF Promise!Unretained, Promise!Elems
    <3> QED BY <3>2, <3>3, <3>4, <3>5
  <2>2. CASE ~ \E q \in DOMAIN allocs : allocs[q] = b
    BY <2>2 DEF HeapBar, Promise!Unretained, Promise!Elems
  <2> QED BY <2>1, <2>2
<1>14. Promise!Retain(values, Len(owned))
  <2>1. Len(owned) + Len(values) =< MaxOwned
    BY <1>2 DEF LoopInv
  <2> QED BY <2>1, <1>7, <1>10, <1>12, <1>13 DEF Promise!Retain
<1> QED
  BY <1>1, <1>2, <1>5, <1>6, <1>8, <1>9, <1>14 DEF Local

-----------------------------------------------------------------------------
LEMMA StepRefines ==
  ASSUME IInv, [Next]_vars
  PROVE  Local' /\ [Promise!Next]_(Promise!vars)
<1>1. ASSUME NEW b \in Buffer, Alloc(b)
      PROVE  Local' /\ [Promise!Next]_(Promise!vars)
  BY <1>1, AllocStep DEF Promise!Next
<1>2. CASE NullIndicator
  BY <1>2, NullIndicatorStep DEF Promise!Next
<1>3. ASSUME NEW vs \in Body!RetainedLists, NEW n \in 0..Len(owned), Call(vs, n)
      PROVE  Local' /\ [Promise!Next]_(Promise!vars)
  BY <1>3, CallStep DEF Stutter, Promise!vars
<1>4. CASE CompareAndYield
  BY <1>4, CompareStep DEF Stutter, Promise!vars
<1>5. CASE NextRetained
  BY <1>5, NextRetainedStep DEF Stutter, Promise!vars
<1>6. CASE EndChain
  BY <1>6, EndChainStep DEF Stutter, Promise!vars
<1>7. CASE FreeRemaining
  BY <1>7, FreeRemainingStep DEF Stutter, Promise!vars
<1>8. CASE Return
  BY <1>8, ReturnStep DEF Promise!Next
<1>9. CASE UNCHANGED vars
  <2> USE <1>9 DEF vars, call
  <2>1. TypeOK'
    BY DEF IInv, TypeOK
  <2>2. LoopInv'
    <3>1. \A q \in DOMAIN allocs : GivenOut(q)' <=> GivenOut(q)
      BY DEF GivenOut, Tried
    <3>2. \A k : Yielded(k)' = Yielded(k)
      BY DEF Yielded, Tried, First
    <3>3. Yielded(r)' = Yielded(r)
      BY DEF Yielded, Tried, First
    <3>4. ChainInv => ChainInv'
      BY <3>1, <3>2, <3>3 DEF ChainInv, LiveIf
    <3> QED BY <3>4 DEF IInv, LoopInv, HeapBar
  <2>3. UNCHANGED <<OwnedBar, HeapBar>>
    BY DEF OwnedBar, HeapBar
  <2> QED BY <2>1, <2>2, <2>3 DEF Local, IInv, Promise!vars
<1> QED
  BY <1>1, <1>2, <1>3, <1>4, <1>5, <1>6, <1>7, <1>8, <1>9 DEF Next

LEMMA NextIInv == IInv /\ [Next]_vars => IInv'
  BY StepRefines, PromiseInvPreserved DEF IInv, Local

(* At every scf.if the chain has given each alloc to at most one memref,   *)
(* the first derived from it, and Ownership's invariant holds.             *)
THEOREM Invariance == Spec => []IInv
<1>1. Init => IInv
  BY InitStep
<1> QED
  BY <1>1, NextIInv, PTL DEF Spec

(* A memref gets an alloc, if any does: the first one derived from it.     *)
LEMMA FirstTaker ==
  ASSUME TypeOK, NEW q \in DOMAIN allocs, GivenOut(q)
  PROVE  \E k \in DOMAIN values : values[k] = allocs[q] /\ Tried(k, q) /\ First(k)
<1> DEFINE At == {k \in DOMAIN values : values[k] = allocs[q]}
<1>1. DOMAIN values \subseteq Nat /\ r \in Nat /\ a \in Nat
  BY Shapes DEF TypeOK
<1>2. PICK l \in At : Tried(l, q)
  BY DEF GivenOut
<1>3. PICK k \in At : \A m \in At : ~(m < k)
  BY <1>1, <1>2, P!LeastNat, RetainAssumption DEF P!OwnershipAssumption
<1>4. First(k)
  BY <1>3 DEF First
<1>5. Tried(k, q)
  BY <1>1, <1>2, <1>3 DEF Tried
<1> QED
  BY <1>3, <1>4, <1>5

(* Every indicator the generated code was given has exactly one holder in  *)
(* it, at every scf.if, and no free at its end meets null or a freed       *)
(* buffer.                                                                 *)
LEMMA InvHeldOnce == IInv => HeldOnce
<1> SUFFICES ASSUME IInv, pc = "chain", NEW q \in DOMAIN allocs, allocs[q] # Null
             PROVE  LET A == {m \in DOMAIN alloc : alloc[m] = allocs[q]}
                        R == {m \in DOMAIN results : results[m] = allocs[q]}
                        holders == {<<"alloc", m>> : m \in A} \cup {<<"result", m>> : m \in R}
                                   \cup (IF current = allocs[q] THEN {<<"current", 0>>} ELSE {})
                    IN  \E h \in holders : holders = {h}
  BY DEF HeldOnce, IInv
<1> DEFINE b == allocs[q]
           A == {m \in DOMAIN alloc : alloc[m] = b}
           R == {m \in DOMAIN results : results[m] = b}
           holders == {<<"alloc", m>> : m \in A} \cup {<<"result", m>> : m \in R}
                      \cup (IF current = b THEN {<<"current", 0>>} ELSE {})
<1>1. /\ TypeOK /\ ChainInv
      /\ DOMAIN alloc = DOMAIN allocs
      /\ Len(values) \in Nat /\ DOMAIN values = 1..Len(values)
      /\ DOMAIN results = 1..r - 1 /\ r \in 1..Len(values) + 1 /\ a \in Nat
  <2>1. TypeOK /\ ChainInv
    BY DEF IInv, LoopInv
  <2> QED BY <2>1, Shapes DEF TypeOK, ChainInv
<1>2. \A k, m \in DOMAIN allocs : allocs[k] = allocs[m] => k = m \/ allocs[k] = Null
  BY BarFacts DEF IInv
<1>3. A = IF GivenOut(q) THEN {} ELSE {q}
  BY <1>1, <1>2 DEF ChainInv
<1>4. \A k \in DOMAIN values :
        Yielded(k) = b <=> values[k] = b /\ Tried(k, q) /\ First(k)
  BY <1>2 DEF Yielded
<1>5. R = {k \in 1..r - 1 : Yielded(k) = b}
  BY <1>1 DEF ChainInv
<1>6. current = b <=> r \in DOMAIN values /\ Yielded(r) = b
  BY <1>1 DEF ChainInv
<1>7. \A k \in DOMAIN values : Tried(k, q) => k \in 1..r - 1 \/ k = r
  BY <1>1 DEF Tried
<1>8. CASE ~GivenOut(q)
  <2>1. \A k \in DOMAIN values : Yielded(k) # b
    BY <1>4, <1>8 DEF GivenOut
  <2>2. R = {} /\ current # b
    BY <1>1, <1>5, <1>6, <2>1
  <2>3. A = {q}
    BY <1>3, <1>8
  <2> HIDE DEF A, R
  <2>4. holders = {<<"alloc", q>>}
    BY <2>2, <2>3
  <2> QED BY <2>4 DEF A, R
<1>9. CASE GivenOut(q)
  <2>1. PICK k \in DOMAIN values : values[k] = b /\ Tried(k, q) /\ First(k)
    BY <1>1, <1>9, FirstTaker
  <2>2. \A m \in DOMAIN values : Yielded(m) = b <=> m = k
    <3>1. \A m \in DOMAIN values : values[m] = b /\ First(m) => m = k
      BY <1>1, <2>1 DEF First
    <3> QED BY <1>4, <2>1, <3>1
  <2>3. CASE k = r
    <3>1. current = b /\ R = {}
      BY <1>1, <1>5, <1>6, <2>2, <2>3
    <3>2. A = {}
      BY <1>3, <1>9
    <3> HIDE DEF A, R
    <3>3. holders = {<<"current", 0>>}
      BY <3>1, <3>2
    <3> QED BY <3>3 DEF A, R
  <2>4. CASE k \in 1..r - 1
    <3>1. current # b /\ R = {k}
      BY <1>1, <1>5, <1>6, <2>2, <2>4
    <3>2. A = {}
      BY <1>3, <1>9
    <3> HIDE DEF A, R
    <3>3. holders = {<<"result", k>>}
      BY <3>1, <3>2
    <3> QED BY <3>3 DEF A, R
  <2> QED BY <1>7, <2>1, <2>3, <2>4
<1> QED BY <1>8, <1>9

(* No indicator is duplicated or lost between two scf.if ops.              *)
THEOREM NoneLostOrDuplicated == Spec => []HeldOnce
  BY InvHeldOnce, Invariance, PTL

(* The generated code implements the dialect's promise.                    *)
THEOREM Refinement == Spec => ImplementsOwnership
<1>1. Init => Promise!Init
  BY InitStep
<1>2. IInv /\ [Next]_vars => [Promise!Next]_(Promise!vars)
  BY StepRefines
<1> QED
  BY <1>1, <1>2, Invariance, PTL DEF Spec, ImplementsOwnership, Promise!Spec
=============================================================================
