------------------------------ MODULE OrderedSet ------------------------------
(***************************************************************************)
(* The OrderedSet template of src/utils/cycle_detector.h:36-92, which      *)
(* keeps the edges of GraphCycles: a sequence, and for every value in it   *)
(* its index.  Indices count from 1 here.                                  *)
(***************************************************************************)
EXTENDS OrderedSetState, Naturals, Sequences, Functions

vars == <<valueSequence, valueToIndex, contents>>

Contains(v) == v \in DOMAIN valueToIndex

Init ==
    /\ valueSequence = <<>>
    /\ valueToIndex = [v \in {} |-> 0]
    /\ contents = {}

\* The map keeps the index it has for a value that is present.
Insert(v) ==
    /\ IF Contains(v)
       THEN UNCHANGED <<valueSequence, valueToIndex>>
       ELSE /\ valueSequence' = Append(valueSequence, v)
            /\ valueToIndex' = [w \in DOMAIN valueToIndex \cup {v} |->
                                  IF w = v THEN Len(valueSequence) + 1
                                           ELSE valueToIndex[w]]
    /\ contents' = contents \cup {v}

\* Bug variant: the value that is moved into the hole keeps its old index.
SwappedOutStale(v) ==
    LET n == Len(valueSequence)
    IN  /\ valueSequence' = [k \in 1..n - 1 |->
              IF k = valueToIndex[v] THEN valueSequence[n] ELSE valueSequence[k]]
        /\ valueToIndex' = [w \in DOMAIN valueToIndex \ {v} |-> valueToIndex[w]]

\* v changes places with the last value and is popped; v may be the last.
SwappedOut(v) ==
    LET n == Len(valueSequence)
    IN  /\ valueSequence' = [k \in 1..n - 1 |->
              IF k = valueToIndex[v] THEN valueSequence[n] ELSE valueSequence[k]]
        /\ valueToIndex' = [w \in DOMAIN valueToIndex \ {v} |->
              IF w = valueSequence[n] THEN valueToIndex[v] ELSE valueToIndex[w]]

\* "Assumes `value` is already present in the set."
Erase(v) ==
    /\ Contains(v)
    /\ SwappedOut(v)
    /\ contents' = contents \ {v}

Clear ==
    /\ valueSequence' = <<>>
    /\ valueToIndex' = [v \in {} |-> 0]
    /\ contents' = {}

Next ==
    \/ \E v \in Value : Insert(v) \/ Erase(v)
    \/ Clear

Spec == Init /\ [][Next]_vars

-----------------------------------------------------------------------------
TypeOK ==
    /\ valueSequence \in Seq(Value)
    /\ DOMAIN valueToIndex \subseteq Value
    /\ contents \subseteq Value
=============================================================================
