---------------------------------- MODULE Dag ----------------------------------
(***************************************************************************)
(* What mlir::GraphCycles promises its clients (the comments of            *)
(* src/utils/cycle_detector.h:94-152): a directed graph that is edited one *)
(* call at a time and never has a cycle.  Every call is one step here.     *)
(***************************************************************************)
EXTENDS Naturals

CONSTANTS
    NumNodes,   \* argument of the constructor
    None        \* no value: an empty std::optional, or no call yet

VARIABLES
    edges,      \* set of pairs
    removed,    \* nodes that ContractEdge has merged into another
    result      \* what the last call returned: [ok |-> a boolean],
                \* [node |-> a node] or None

dagVars == <<edges, removed, result>>

Node == 0..NumNodes - 1
Present == Node \ removed

Closed(E, S) == \A e \in E : e[1] \in S => e[2] \in S
(* There is a path from u to v: v is in every set that contains u and that *)
(* no edge leaves.                                                         *)
Reaches(E, u, v) == \A S \in SUBSET Node : u \in S /\ Closed(E, S) => v \in S

Merge(E, drop, keep) ==
    LET m(n) == IF n = drop THEN keep ELSE n
    IN  {<<m(e[1]), m(e[2])>> : e \in E}

-----------------------------------------------------------------------------
Init ==
    /\ edges = {}
    /\ removed = {}
    /\ result = None

ClosesCycle(u, v) == u = v \/ Reaches(edges, v, u)

InsertEdge(u, v) ==
    /\ u \in Present /\ v \in Present
    /\ result' = [ok |-> ~ClosesCycle(u, v)]
    /\ edges' = IF ClosesCycle(u, v) THEN edges ELSE edges \cup {<<u, v>>}
    /\ UNCHANGED removed

RemoveEdge(u, v) ==
    /\ <<u, v>> \in edges
    /\ edges' = edges \ {<<u, v>>}
    /\ result' = None
    /\ UNCHANGED removed

IsReachable(u, v) ==
    /\ u \in Present /\ v \in Present
    /\ result' = [ok |-> Reaches(edges, u, v)]
    /\ UNCHANGED <<edges, removed>>

(* One of the two nodes takes over the edges of the other, unless a second *)
(* path between them would become a cycle.                                 *)
ContractEdge(a, b) ==
    /\ <<a, b>> \in edges
    /\ LET rest == edges \ {<<a, b>>}
       IN  \/ /\ Reaches(rest, a, b)
              /\ result' = None
              /\ UNCHANGED <<edges, removed>>
           \/ /\ ~Reaches(rest, a, b)
              /\ \E keep \in {a, b} :
                   LET drop == IF keep = a THEN b ELSE a
                   IN  /\ edges' = Merge(rest, drop, keep)
                       /\ removed' = removed \cup {drop}
                       /\ result' = [node |-> keep]

Next ==
    \E u, v \in Node :
        \/ InsertEdge(u, v)
        \/ RemoveEdge(u, v)
        \/ IsReachable(u, v)
        \/ ContractEdge(u, v)

Spec == Init /\ [][Next]_dagVars

-----------------------------------------------------------------------------
(* No edge is part of a cycle: "it is also not possible to introduce a     *)
(* cycle" (cycle_detector.h:103).                                          *)
Acyclic == \A e \in edges : ~Reaches(edges, e[2], e[1])
=============================================================================
