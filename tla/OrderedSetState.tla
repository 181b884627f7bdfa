--------------------------- MODULE OrderedSetState ---------------------------
(***************************************************************************)
(* The fields of an OrderedSet (src/utils/cycle_detector.h:89-91), and     *)
(* what its users rely on.                                                 *)
(***************************************************************************)
CONSTANT Value

VARIABLES
    valueSequence,
    valueToIndex,   \* function whose domain is the set of its keys
    contents        \* history: the set that the calls so far describe

(* The map and the sequence describe the same set, the one that the calls  *)
(* have built, and each value is where the map says: what Contains, Size   *)
(* and the next Erase rely on.                                             *)
Consistent ==
    /\ DOMAIN valueToIndex = contents
    /\ \A v \in contents : /\ valueToIndex[v] \in DOMAIN valueSequence
                           /\ valueSequence[valueToIndex[v]] = v
    /\ \A k \in DOMAIN valueSequence : /\ valueSequence[k] \in contents
                                       /\ valueToIndex[valueSequence[k]] = k
=============================================================================
