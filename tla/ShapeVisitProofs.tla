--------------------------- MODULE ShapeVisitProofs ---------------------------
(* Whatever the operations of a program need, the two worklists of             *)
(* ShapeVisitor::visit compute it before it is looked up.                      *)
EXTENDS ShapeVisit, SequenceTheorems, TLAPS

(* What is needed for an info, and what is requested, are lists of infos.      *)
WellFormed ==
    /\ \A p \in Programs : \A i \in Infos : Deps(p, i) \in Seq(Infos)
    /\ \A p \in Programs : \A c \in Clients(p) : Requests(p, c) \in Seq(Infos)

TypeOK ==
    /\ prog \in Programs
    /\ asks \in Seq(Infos)
    /\ bwd \in Seq(Infos)
    /\ fwd \in Seq(Infos)

(* Where an info that is needed can be found.                                  *)
Settled(d) == d \in known \/ Uninteresting(prog, d) \/ NoEntry(prog, d)

(* The last element of a list, and what is left without it.                    *)
LEMMA PoppedList ==
    ASSUME NEW S, NEW s \in Seq(S), s # <<>>
    PROVE  /\ Len(s) \in Nat /\ Len(s) >= 1
           /\ Back(s) \in S
           /\ Popped(s) \in Seq(S)
           /\ Len(Popped(s)) = Len(s) - 1
           /\ \A k \in 1..(Len(s) - 1) : Popped(s)[k] = s[k]
<1>1. Len(s) \in Nat /\ Len(s) >= 1 /\ \A k \in 1..Len(s) : s[k] \in S
  OBVIOUS
<1>2. \A k \in 1..(Len(s) - 1) : s[k] \in S
  BY <1>1
<1>3. /\ Popped(s) \in Seq(S)
      /\ Len(Popped(s)) = IF 1 <= Len(s) - 1 THEN Len(s) - 1 - 1 + 1 ELSE 0
      /\ \A k \in 1..(Len(s) - 1 - 1 + 1) : Popped(s)[k] = s[1 + k - 1]
  BY <1>1, <1>2, SubSeqProperties DEF Popped
<1>4. Len(Popped(s)) = Len(s) - 1
  <2>1. CASE Len(s) = 1
    BY <1>3, <2>1
  <2>2. CASE 1 <= Len(s) - 1
    <3>1. Len(s) - 1 - 1 + 1 = Len(s) - 1
      BY <1>1
    <3> QED
      BY <1>3, <2>2, <3>1
  <2>3. Len(s) = 1 \/ 1 <= Len(s) - 1
    BY <1>1
  <2> QED
    BY <2>1, <2>2, <2>3
<1>5. ASSUME NEW k \in 1..(Len(s) - 1) PROVE Popped(s)[k] = s[k]
  <2>1. k \in 1..(Len(s) - 1 - 1 + 1) /\ 1 + k - 1 = k
    BY <1>1
  <2> QED
    BY <1>3, <2>1
<1> QED
  BY <1>1, <1>3, <1>4, <1>5 DEF Back

(* No element is lost when the last one is taken out.                          *)
LEMMA PoppedMembers ==
    ASSUME NEW S, NEW s \in Seq(S), s # <<>>
    PROVE  \A x \in Members(s) : x = Back(s) \/ x \in Members(Popped(s))
<1> SUFFICES ASSUME NEW k \in 1..Len(s), s[k] # Back(s)
             PROVE  s[k] \in Members(Popped(s))
  BY DEF Members
<1>1. k \in 1..(Len(s) - 1)
  BY PoppedList DEF Back
<1>2. Popped(s)[k] = s[k] /\ k \in 1..Len(Popped(s))
  BY <1>1, PoppedList
<1> QED
  BY <1>2 DEF Members

(* The elements of two lists that are joined.                                  *)
LEMMA JoinedMembers ==
    ASSUME NEW S, NEW s \in Seq(S), NEW t \in Seq(S)
    PROVE  /\ s \o t \in Seq(S)
           /\ Members(s) \subseteq Members(s \o t)
           /\ Members(t) \subseteq Members(s \o t)
<1>1. /\ s \o t \in Seq(S) /\ Len(s \o t) = Len(s) + Len(t)
      /\ \A k \in 1..Len(s) : (s \o t)[k] = s[k]
      /\ \A k \in 1..Len(t) : (s \o t)[Len(s) + k] = t[k]
  OBVIOUS
<1>2. ASSUME NEW k \in 1..Len(t) PROVE t[k] \in Members(s \o t)
  <2>1. Len(s) + k \in 1..Len(s \o t)
    BY <1>1
  <2> QED
    BY <1>1, <2>1 DEF Members
<1>3. ASSUME NEW k \in 1..Len(s) PROVE s[k] \in Members(s \o t)
  <2>1. k \in 1..Len(s \o t)
    BY <1>1
  <2> QED
    BY <1>1, <2>1 DEF Members
<1> QED
  BY <1>1, <1>2, <1>3 DEF Members

(* The worklists hold infos of the program that is analysed.                   *)
LEMMA Types == WellFormed /\ TypeOK /\ [Next]_vars => TypeOK'
<1> SUFFICES ASSUME WellFormed, TypeOK, [Next]_vars PROVE TypeOK'
  OBVIOUS
<1>1. CASE Ask
  <2>1. Head(asks) \in Infos /\ Tail(asks) \in Seq(Infos)
    BY <1>1 DEF Ask, TypeOK
  <2> QED
    BY <1>1, <2>1 DEF Ask, TypeOK
<1>2. CASE Skip
  BY <1>2, PoppedList DEF Skip, TypeOK
<1>3. CASE BlockArgument
  BY <1>3, PoppedList DEF BlockArgument, ToVisit, TypeOK
<1>4. CASE Climb
  <2>1. Back(bwd) \in Infos /\ Popped(bwd) \in Seq(Infos)
    BY <1>4, PoppedList DEF Climb, ToVisit, TypeOK
  <2>2. Deps(prog, Back(bwd)) \in Seq(Infos)
    BY <2>1 DEF WellFormed, TypeOK
  <2>3. bwd' \in Seq(Infos)
    BY <1>4, <2>1, <2>2, JoinedMembers DEF Climb
  <2>4. fwd' \in Seq(Infos)
    BY <1>4, <2>1 DEF Climb, TypeOK
  <2> QED
    BY <1>4, <2>3, <2>4 DEF Climb, TypeOK
<1>5. CASE SkipForward
  BY <1>5, PoppedList DEF SkipForward, TypeOK
<1>6. CASE Forward
  BY <1>6, PoppedList DEF Forward, TypeOK
<1>7. CASE Reset
  BY <1>7 DEF Reset, TypeOK
<1>8. CASE UNCHANGED vars
  BY <1>8 DEF vars, TypeOK
<1> QED
  BY <1>1, <1>2, <1>3, <1>4, <1>5, <1>6, <1>7, <1>8 DEF Next

(* What was found before a step that only adds to the map is found after it,   *)
(* unless it was found on a list that the step shortens.                       *)
LEMMA StaysSettled ==
    ASSUME NEW d, Settled(d), prog' = prog, known \subseteq known'
    PROVE  Settled(d)'
  BY DEF Settled

(* An info leaves the first list only into the map, onto the second list, or   *)
(* because it never gets into the map; and the second list is taken from its   *)
(* end, so that what is needed goes first.                                     *)
LEMMA Ahead ==
    WellFormed /\ TypeOK /\ NeededIsAhead /\ [Next]_vars => NeededIsAhead'
<1> SUFFICES ASSUME WellFormed, TypeOK, NeededIsAhead, [Next]_vars,
                    NEW k \in 1..Len(fwd'), NEW d \in Members(Deps(prog', fwd'[k]))
             PROVE  \/ Settled(d)' \/ d \in Members(bwd')
                    \/ \E m \in (k + 1)..Len(fwd') : fwd'[m] = d
  BY DEF NeededIsAhead, Settled
<1>0. ASSUME prog' = prog, k \in 1..Len(fwd), fwd'[k] = fwd[k]
      PROVE  \/ Settled(d) \/ d \in Members(bwd)
             \/ \E m \in (k + 1)..Len(fwd) : fwd[m] = d
  BY <1>0 DEF NeededIsAhead, Settled
<1>1. CASE Ask
  BY <1>1 DEF Ask, Idle
<1>2. CASE Skip
  <2>1. /\ prog' = prog /\ fwd' = fwd /\ known' = known /\ bwd' = Popped(bwd) /\ bwd # <<>>
        /\ Settled(Back(bwd))
    BY <1>2 DEF Skip, Settled
  <2>2. Settled(d) \/ d \in Members(bwd') \/ \E m \in (k + 1)..Len(fwd') : fwd'[m] = d
    <3>1. \A x \in Members(bwd) : x = Back(bwd) \/ x \in Members(bwd')
      BY <2>1, PoppedMembers DEF TypeOK
    <3> QED
      BY <1>0, <2>1, <3>1
  <2> QED
    BY <2>1, <2>2 DEF Settled
<1>3. CASE BlockArgument
  <2>1. /\ prog' = prog /\ fwd' = fwd /\ bwd' = Popped(bwd) /\ bwd # <<>>
        /\ known' = known \cup Entry(Back(bwd))
    BY <1>3 DEF BlockArgument, ToVisit
  <2>2. Back(bwd) \in known' \/ NoEntry(prog, Back(bwd))
    BY <2>1 DEF Entry
  <2>3. \/ Settled(d) \/ d = Back(bwd) \/ d \in Members(bwd')
        \/ \E m \in (k + 1)..Len(fwd') : fwd'[m] = d
    <3>1. \A x \in Members(bwd) : x = Back(bwd) \/ x \in Members(bwd')
      BY <2>1, PoppedMembers DEF TypeOK
    <3> QED
      BY <1>0, <2>1, <3>1
  <2> QED
    BY <2>1, <2>2, <2>3 DEF Settled
<1>4. CASE Climb
  <2>1. /\ prog' = prog /\ known' = known /\ bwd # <<>>
        /\ fwd' = Append(fwd, Back(bwd))
        /\ bwd' = Popped(bwd) \o Deps(prog, Back(bwd))
    BY <1>4 DEF Climb, ToVisit
  <2>2. /\ Back(bwd) \in Infos /\ Popped(bwd) \in Seq(Infos)
        /\ Deps(prog, Back(bwd)) \in Seq(Infos)
    BY <2>1, PoppedList DEF TypeOK, WellFormed
  <2>3. /\ Members(Popped(bwd)) \subseteq Members(bwd')
        /\ Members(Deps(prog, Back(bwd))) \subseteq Members(bwd')
    BY <2>1, <2>2, JoinedMembers
  <2>4. /\ Len(fwd) \in Nat /\ Len(fwd') = Len(fwd) + 1
        /\ fwd'[Len(fwd) + 1] = Back(bwd)
        /\ \A m \in 1..Len(fwd) : fwd'[m] = fwd[m]
    BY <2>1, <2>2 DEF TypeOK
  <2>5. CASE k = Len(fwd) + 1
    BY <2>1, <2>3, <2>4, <2>5
  <2>6. CASE k \in 1..Len(fwd)
    <3>1. \/ Settled(d) \/ d \in Members(bwd)
          \/ \E m \in (k + 1)..Len(fwd) : fwd[m] = d
      BY <1>0, <2>1, <2>4, <2>6
    <3>2. CASE \E m \in (k + 1)..Len(fwd) : fwd[m] = d
      BY <2>4, <2>6, <3>2
    <3>3. CASE d \in Members(bwd)
      <4>1. CASE d = Back(bwd)
        BY <2>4, <2>6, <4>1
      <4>2. CASE d \in Members(Popped(bwd))
        BY <2>3, <4>2
      <4> QED
        BY <2>1, <3>3, <4>1, <4>2, PoppedMembers DEF TypeOK
    <3>4. CASE Settled(d)
      BY <2>1, <3>4, StaysSettled
    <3> QED
      BY <3>1, <3>2, <3>3, <3>4
  <2> QED
    BY <2>4, <2>5, <2>6
<1>5. CASE SkipForward \/ Forward
  <2>1. /\ prog' = prog /\ bwd' = bwd /\ bwd = <<>> /\ fwd' = Popped(fwd) /\ fwd # <<>>
        /\ known \subseteq known' /\ (Back(fwd) \in known' \/ NoEntry(prog, Back(fwd)))
    BY <1>5 DEF SkipForward, Forward, Entry
  <2>2. /\ Len(fwd) \in Nat /\ Len(fwd) >= 1 /\ Len(fwd') = Len(fwd) - 1
        /\ \A m \in 1..(Len(fwd) - 1) : fwd'[m] = fwd[m]
    BY <2>1, PoppedList DEF TypeOK
  <2>3. \/ Settled(d) \/ \E m \in (k + 1)..Len(fwd) : fwd[m] = d
    BY <1>0, <2>1, <2>2 DEF Members
  <2>4. CASE Settled(d)
    BY <2>1, <2>4, StaysSettled
  <2>5. ASSUME NEW m \in (k + 1)..Len(fwd), fwd[m] = d
        PROVE  Settled(d)' \/ \E n \in (k + 1)..Len(fwd') : fwd'[n] = d
    <3>1. CASE m = Len(fwd)
      BY <2>1, <2>5, <3>1 DEF Back, Settled
    <3>2. CASE m \in (k + 1)..Len(fwd')
      BY <2>2, <2>5, <3>2
    <3>3. Len(fwd) \in Nat /\ Len(fwd') = Len(fwd) - 1
      BY <2>2
    <3>4. k \in Int /\ m \in Int /\ k + 1 <= m /\ m <= Len(fwd)
      <4>1. k \in Int
        BY <3>3
      <4> QED
        BY <3>3, <4>1
    <3>5. CASE m < Len(fwd)
      <4>1. m \in (k + 1)..Len(fwd')
        BY <3>3, <3>4, <3>5
      <4> QED
        BY <3>2, <4>1
    <3>6. m = Len(fwd) \/ m < Len(fwd)
      BY <3>3, <3>4
    <3> QED
      BY <3>1, <3>5, <3>6
  <2> QED
    BY <2>3, <2>4, <2>5
<1>6. CASE Reset
  BY <1>6 DEF Reset, Idle
<1>7. CASE UNCHANGED vars
  BY <1>0, <1>7 DEF vars, Settled
<1> QED
  BY <1>1, <1>2, <1>3, <1>4, <1>5, <1>6, <1>7 DEF Next

(* At the last info of the second list nothing is ahead but what is settled.   *)
LEMMA AheadSuffices == TypeOK /\ NeededIsAhead => OperandsFirst
<1> SUFFICES ASSUME TypeOK, NeededIsAhead, bwd = <<>>, fwd # <<>>,
                    NEW d \in Members(Deps(prog, Back(fwd)))
             PROVE  d \in known \/ Uninteresting(prog, d) \/ NoEntry(prog, d)
  BY DEF OperandsFirst
<1>1. Len(fwd) \in 1..Len(fwd) /\ Back(fwd) = fwd[Len(fwd)]
  BY PoppedList DEF TypeOK, Back
<1>2. Members(bwd) = {}
  BY DEF Members
<1>3. (Len(fwd) + 1)..Len(fwd) = {}
  BY <1>1
<1> QED
  BY <1>1, <1>2, <1>3 DEF NeededIsAhead

(* lookup never meets an info that is not processed yet, whatever the          *)
(* dependencies between the operations are (shape_component_analysis.cc:717).  *)
THEOREM LookedUpInOrder == WellFormed => (Spec => []OperandsFirst)
<1> SUFFICES ASSUME WellFormed PROVE Spec => []OperandsFirst
  OBVIOUS
<1>1. Init => TypeOK /\ NeededIsAhead
  BY DEF WellFormed, Init, TypeOK, NeededIsAhead
<1>2. TypeOK /\ NeededIsAhead /\ [Next]_vars => (TypeOK /\ NeededIsAhead)'
  BY Types, Ahead
<1>3. TypeOK /\ NeededIsAhead => OperandsFirst
  BY AheadSuffices
<1> QED
  BY <1>1, <1>2, <1>3, PTL DEF Spec
=============================================================================
