------------------------------ MODULE GraphCycles ------------------------------
(***************************************************************************)
(* mlir::GraphCycles (src/utils/cycle_detector.h and .cc): incremental     *)
(* cycle detection with the ranks of Pearce and Kelly.  A call is a run of *)
(* steps, one per node that a depth-first search visits and one per edge   *)
(* that ContractEdge moves.                                                *)
(*                                                                         *)
(* in and out are sets: the order of an OrderedSet is the subject of the   *)
(* module OrderedSet.  It decides in which order the searches meet nodes,  *)
(* which is any order here.  The lists deltaf and deltab are sorted before *)
(* use, and the code skips a second entry of a node on the stack: they are *)
(* sets as well.                                                           *)
(***************************************************************************)
EXTENDS Integers, FiniteSets, Functions, SequencesExt

CONSTANTS NumNodes, None    \* as in Dag

ASSUME GraphCyclesAssumption == NumNodes \in Nat /\ None \notin 0..NumNodes - 1

VARIABLES
    rank, in, out, visited,     \* Node, without its user data
    freeNodes,
    deltaf, deltab, stack,      \* scratch space of the searches
    pc,         \* "idle", "forward", "found", "backward" or "merge"
    op, x, y,   \* the call that searches, "none" if there is none
    kept,       \* the node that ContractEdge returns, while it moves edges
    pending,    \* edges that it has still to insert
    before,     \* history: what a client saw before a call of many steps
    result      \* what the last call of a client returned

graph == <<rank, in, out, freeNodes>>
scratch == <<deltaf, deltab, stack>>
call == <<pc, op, x, y, before, result>>
vars == <<graph, visited, scratch, call, kept, pending>>

Node == 0..NumNodes - 1
Present == Node \ freeNodes
Edges == {e \in Node \X Node : e[2] \in out[e[1]]}

Init ==
    /\ rank = [n \in Node |-> n]
    /\ in = [n \in Node |-> {}] /\ out = [n \in Node |-> {}]
    /\ visited = [n \in Node |-> FALSE]
    /\ freeNodes = {}
    /\ deltaf = {} /\ deltab = {} /\ stack = {}
    /\ pc = "idle" /\ op = "none" /\ x = None /\ y = None
    /\ kept = None /\ pending = {} /\ before = None
    /\ result = None

-----------------------------------------------------------------------------
(* Searching and returning.  The scratch space is dead between calls.      *)

Search(o, u, v, start) ==
    /\ pc' = "forward" /\ op' = o /\ x' = u /\ y' = v
    /\ stack' = start /\ deltaf' = {}
    /\ before' = IF kept = None THEN [edges |-> Edges, removed |-> freeNodes]
                                ELSE before
    /\ UNCHANGED <<deltab, result>>

\* ContractEdge ignores what its InsertEdge calls return.
Return(res) ==
    /\ IF kept = None
       THEN pc' = "idle" /\ result' = res /\ before' = None
       ELSE pc' = "merge" /\ UNCHANGED <<result, before>>
    /\ op' = "none" /\ x' = None /\ y' = None
    /\ deltaf' = {} /\ deltab' = {} /\ stack' = {}

ClearVisitedBits(ns) == visited' = [n \in Node |-> visited[n] /\ n \notin ns]

Link(u, v) ==
    /\ out' = [out EXCEPT ![u] = @ \cup {v}]
    /\ in' = [in EXCEPT ![v] = @ \cup {u}]

Unlink(u, v) ==
    /\ out' = [out EXCEPT ![u] = @ \ {v}]
    /\ in' = [in EXCEPT ![v] = @ \ {u}]

-----------------------------------------------------------------------------
(* InsertEdge, called by a client or by ContractEdge: for the edges that   *)
(* leave the kept node first.                                              *)

Leaving == {e \in pending : e[1] = kept}

InsertIsCalled(u, v) ==
    \/ pc = "idle" /\ u \in Present /\ v \in Present /\ UNCHANGED pending
    \/ /\ pc = "merge"
       /\ <<u, v>> \in (IF Leaving # {} THEN Leaving ELSE pending)
       /\ pending' = pending \ {<<u, v>>}

\* A self-edge is refused, an edge that exists is accepted.
InsertTrivial(u, v) ==
    /\ InsertIsCalled(u, v)
    /\ u = v \/ v \in out[u]
    /\ Return([ok |-> u # v])
    /\ UNCHANGED <<graph, visited, kept>>

InsertOrdered(u, v) ==
    /\ InsertIsCalled(u, v)
    /\ u # v /\ v \notin out[u]
    /\ rank[u] =< rank[v]
    /\ Link(u, v)
    /\ Return([ok |-> TRUE])
    /\ UNCHANGED <<rank, freeNodes, visited, kept>>

\* The edge contradicts the ranks: search from v up to the rank of u.
InsertReversed(u, v) ==
    /\ InsertIsCalled(u, v)
    /\ u # v /\ v \notin out[u]
    /\ rank[u] > rank[v]
    /\ Link(u, v)
    /\ Search("insert", u, v, {v})
    /\ UNCHANGED <<rank, freeNodes, visited, kept>>

\* The client removes an edge that exists, as Erase assumes.
RemoveEdge(u, v) ==
    /\ pc = "idle" /\ v \in out[u]
    /\ Unlink(u, v)
    /\ Return(None)
    /\ UNCHANGED <<rank, freeNodes, visited, kept, pending>>

-----------------------------------------------------------------------------
(* IsReachable, called by a client or by ContractEdge. *)

ReachTrivial(u, v) ==
    /\ pc = "idle" /\ u \in Present /\ v \in Present
    /\ u = v \/ rank[u] >= rank[v]
    /\ Return([ok |-> u = v])
    /\ UNCHANGED <<graph, visited, kept, pending>>

ReachSearch(u, v) ==
    /\ pc = "idle" /\ u \in Present /\ v \in Present
    /\ rank[u] < rank[v]
    /\ Search("reach", u, v, {u})
    /\ UNCHANGED <<graph, visited, kept, pending>>

\* ContractEdge up to its call of IsReachable, which answers "no" at once,
\* as after an empty search, where the ranks rule a path out.
ContractEdge(u, v) ==
    /\ pc = "idle" /\ v \in out[u]
    /\ Unlink(u, v)
    /\ Search("contract", u, v, IF rank[u] >= rank[v] THEN {} ELSE {u})
    /\ UNCHANGED <<rank, freeNodes, visited, kept, pending>>

-----------------------------------------------------------------------------
(* forwardDfs and backwardDfs *)

UpperBound == IF op = "insert" THEN rank[x] ELSE rank[y]

\* Bug variant: the bound is one too low.
BelowBoundByTwo(w) == ~visited[w] /\ rank[w] + 1 < UpperBound
GoesForward(w) == ~visited[w] /\ rank[w] < UpperBound

Forward(n) ==
    /\ pc = "forward" /\ n \in stack
    /\ \/ /\ visited[n]
          /\ stack' = stack \ {n}
          /\ UNCHANGED <<visited, deltaf, pc>>
       \/ /\ ~visited[n]
          /\ visited' = [visited EXCEPT ![n] = TRUE]
          /\ deltaf' = deltaf \cup {n}
          /\ IF \E w \in out[n] : rank[w] = UpperBound
             THEN pc' = "found" /\ UNCHANGED stack
             ELSE /\ stack' = (stack \ {n}) \cup {w \in out[n] : GoesForward(w)}
                  /\ UNCHANGED pc
    /\ UNCHANGED <<graph, deltab, op, x, y, before, result, kept, pending>>

\* Bug variant: nodes at the lower end of the range are left out.
GoesBackwardShort(w) == ~visited[w] /\ rank[y] + 1 < rank[w]
GoesBackward(w) == ~visited[w] /\ rank[y] < rank[w]

\* Bug variant: the stack is read, not popped.
BackwardPeeking(n) ==
    /\ pc = "backward" /\ n \in stack
    /\ IF visited[n]
       THEN UNCHANGED <<stack, visited, deltab>>
       ELSE /\ visited' = [visited EXCEPT ![n] = TRUE]
            /\ deltab' = deltab \cup {n}
            /\ stack' = stack \cup {w \in in[n] : GoesBackward(w)}
    /\ UNCHANGED <<graph, deltaf, call, kept, pending>>

Backward(n) ==
    /\ pc = "backward" /\ n \in stack
    /\ IF visited[n]
       THEN stack' = stack \ {n} /\ UNCHANGED <<visited, deltab>>
       ELSE /\ visited' = [visited EXCEPT ![n] = TRUE]
            /\ deltab' = deltab \cup {n}
            /\ stack' = (stack \ {n}) \cup {w \in in[n] : GoesBackward(w)}
    /\ UNCHANGED <<graph, deltaf, call, kept, pending>>

-----------------------------------------------------------------------------
(* After the searches. *)

\* The edge would close a cycle: it is removed again.
InsertRefused ==
    /\ pc = "found" /\ op = "insert"
    /\ Unlink(x, y)
    /\ ClearVisitedBits(deltaf)
    /\ Return([ok |-> FALSE])
    /\ UNCHANGED <<rank, freeNodes, kept, pending>>

StartBackward ==
    /\ pc = "forward" /\ stack = {} /\ op = "insert"
    /\ pc' = "backward" /\ stack' = {x} /\ deltab' = {}
    /\ UNCHANGED <<graph, visited, deltaf, op, x, y, before, result, kept, pending>>

\* The order of list: deltab sorted by rank, then deltaf sorted by rank.
\* Bug variant: the forward nodes come first.
ListedForwardFirst(u, v) ==
    \/ u \in deltaf /\ v \in deltab
    \/ u \in deltaf /\ v \in deltaf /\ rank[u] < rank[v]
    \/ u \in deltab /\ v \in deltab /\ rank[u] < rank[v]
ListedBefore(u, v) ==
    \/ u \in deltab /\ v \in deltaf
    \/ u \in deltaf /\ v \in deltaf /\ rank[u] < rank[v]
    \/ u \in deltab /\ v \in deltab /\ rank[u] < rank[v]

\* merged pairs the nodes in that order with their own ranks in ascending
\* order.
Moved == deltab \cup deltaf
Merged == {rank[n] : n \in Moved}
Reassignments ==
    {f \in Bijection(Moved, Merged) :
        \A u, v \in Moved : ListedBefore(u, v) => f[u] < f[v]}

Reorder ==
    /\ pc = "backward" /\ stack = {}
    /\ \E f \in Reassignments :
         rank' = [n \in Node |-> IF n \in Moved THEN f[n] ELSE rank[n]]
    /\ ClearVisitedBits(Moved)
    /\ Return([ok |-> TRUE])
    /\ UNCHANGED <<in, out, freeNodes, kept, pending>>

\* Bug variant: the marks are cleared on one of the two returns only.
ReachReturnsMarked ==
    /\ \/ pc = "found"
       \/ pc = "forward" /\ stack = {}
    /\ op = "reach"
    /\ IF pc = "found" THEN ClearVisitedBits(deltaf) ELSE UNCHANGED visited
    /\ Return([ok |-> pc = "found"])
    /\ UNCHANGED <<graph, kept, pending>>

ReachReturns ==
    /\ \/ pc = "found"
       \/ pc = "forward" /\ stack = {}
    /\ op = "reach"
    /\ ClearVisitedBits(deltaf)
    /\ Return([ok |-> pc = "found"])
    /\ UNCHANGED <<graph, kept, pending>>

\* A second path: the edge is inserted again, which the ranks allow.
ContractRefused ==
    /\ pc = "found" /\ op = "contract"
    /\ Link(x, y)
    /\ ClearVisitedBits(deltaf)
    /\ Return(None)
    /\ UNCHANGED <<rank, freeNodes, kept, pending>>

Degree(n) == Cardinality(in[n]) + Cardinality(out[n])

\* Bug variant: the edges that enter the dropped node are lost.
LeavingEdgesOf(n, k) == {<<k, w>> : w \in out[n]}
EdgesOf(n, k) == {<<k, w>> : w \in out[n]} \cup {<<w, k>> : w \in in[n]}

\* The node with fewer edges is dropped, y if they have equally many.
StartMerge ==
    /\ pc = "forward" /\ stack = {} /\ op = "contract"
    /\ LET drop == IF Degree(y) > Degree(x) THEN x ELSE y
       IN  /\ kept' = IF drop = x THEN y ELSE x
           /\ out' = [n \in Node |-> IF n = drop THEN {} ELSE out[n] \ {drop}]
           /\ in' = [n \in Node |-> IF n = drop THEN {} ELSE in[n] \ {drop}]
           /\ freeNodes' = freeNodes \cup {drop}
           /\ pending' = EdgesOf(drop, kept')
    /\ ClearVisitedBits(deltaf)
    /\ pc' = "merge" /\ op' = "none" /\ x' = None /\ y' = None
    /\ deltaf' = {}
    /\ UNCHANGED <<rank, deltab, stack, before, result>>

ContractReturns ==
    /\ pc = "merge" /\ pending = {}
    /\ pc' = "idle" /\ result' = [node |-> kept] /\ before' = None
    /\ kept' = None
    /\ UNCHANGED <<graph, visited, scratch, op, x, y, pending>>

-----------------------------------------------------------------------------
(* The nodes that are present, sorted by rank.                             *)
\* Bug variant: sorted in topological order.
NodesInTopologicalOrder ==
    CHOOSE nodes \in SetToSeqs(Present) :
        \A i, j \in DOMAIN nodes : i < j => rank[nodes[i]] =< rank[nodes[j]]
AllNodesInPostOrder ==
    CHOOSE nodes \in SetToSeqs(Present) :
        \A i, j \in DOMAIN nodes : i < j => rank[nodes[i]] >= rank[nodes[j]]

-----------------------------------------------------------------------------
Step ==     \* a step of a call that has begun
    \/ \E n \in Node : Forward(n) \/ Backward(n)
    \/ InsertRefused \/ StartBackward \/ Reorder
    \/ ReachReturns
    \/ ContractRefused \/ StartMerge \/ ContractReturns

Next ==
    \/ \E u, v \in Node :
         \/ InsertTrivial(u, v) \/ InsertOrdered(u, v) \/ InsertReversed(u, v)
         \/ RemoveEdge(u, v)
         \/ ReachTrivial(u, v) \/ ReachSearch(u, v)
         \/ ContractEdge(u, v)
    \/ Step

Spec == Init /\ [][Next]_vars

\* A call runs to its end: the class has no locks and never waits.
FairSpec == Spec /\ WF_vars(pc # "idle" /\ Next)

-----------------------------------------------------------------------------
TypeOK ==
    /\ rank \in [Node -> Node]
    /\ in \in [Node -> SUBSET Node] /\ out \in [Node -> SUBSET Node]
    /\ visited \in [Node -> BOOLEAN]
    /\ freeNodes \subseteq Node
    /\ deltaf \subseteq Node /\ deltab \subseteq Node /\ stack \subseteq Node
    /\ pc \in {"idle", "forward", "found", "backward", "merge"}
    /\ op \in {"none", "insert", "reach", "contract"}
    /\ x \in Node \cup {None} /\ y \in Node \cup {None}
    /\ kept \in Node \cup {None}
    /\ pending \subseteq Node \X Node
    /\ result \in [ok : BOOLEAN] \cup [node : Node] \cup {None}

AtRest == pc \in {"idle", "merge"}

(* The two ends of an edge know of each other, also while a call runs, and *)
(* merged nodes have no edges.                                             *)
Mirrored ==
    /\ \A u, v \in Node : v \in out[u] <=> u \in in[v]
    /\ \A n \in freeNodes : out[n] = {} /\ in[n] = {}

(* The invariant of Pearce and Kelly: ranks are distinct, and every edge   *)
(* leads to a higher rank whenever no search runs.                         *)
Ranked ==
    /\ IsInjective(rank)
    /\ AtRest => \A e \in Edges : rank[e[1]] < rank[e[2]]

(* No search leaves marks behind for the next one.                         *)
MarksCleared == AtRest => \A n \in Node : ~visited[n]

(* Where a search stands: it stays between the ranks of its two nodes, has *)
(* marked what it listed, and has listed or stacked all it has to.         *)
Searching == pc \in {"forward", "found", "backward"}

CallInv ==
    /\ pc = "idle" => kept = None
    /\ pc = "merge" => kept # None
    /\ kept = None => pending = {}
    /\ AtRest => op = "none" /\ deltaf = {} /\ stack = {}
    /\ pc # "backward" => deltab = {}
    /\ pc = "backward" => op = "insert"
    /\ Searching => op # "none" /\ x \in Present /\ y \in Present
    /\ op = "insert" => Searching /\ y \in out[x] /\ rank[y] < rank[x]
    /\ op \in {"reach", "contract"} => rank[x] < rank[y]
    /\ pending \subseteq Present \X Present

RankInv ==
    /\ IsInjective(rank)
    /\ \A u \in Node : \A v \in out[u] :
         rank[u] < rank[v] \/ (op = "insert" /\ u = x /\ v = y)

MarkInv == \A n \in Node : visited[n] <=> n \in deltaf \cup deltab

ForwardInv ==
    op = "insert" =>
        /\ \A n \in deltaf : rank[y] =< rank[n] /\ rank[n] < rank[x]
        /\ pc = "forward" =>
             /\ y \in deltaf \cup stack
             /\ \A n \in stack : rank[y] =< rank[n] /\ rank[n] < rank[x]
             /\ \A n \in deltaf : \A w \in out[n] :
                  rank[w] > rank[x] \/ w \in deltaf \cup stack

BackwardInv ==
    pc = "backward" =>
        /\ y \in deltaf /\ x \in deltab \cup stack
        /\ deltab \cap deltaf = {}
        /\ \A n \in deltab \cup stack : rank[y] < rank[n] /\ rank[n] =< rank[x]
        /\ \A n \in deltaf : \A w \in out[n] : rank[w] > rank[x] \/ w \in deltaf
        /\ \A n \in deltab : \A w \in in[n] :
             rank[w] =< rank[y] \/ w \in deltab \cup deltaf \cup stack

IInv == TypeOK /\ Mirrored /\ CallInv /\ RankInv /\ MarkInv /\ ForwardInv /\ BackwardInv

(* While ContractEdge moves edges, none of them closes a cycle: its        *)
(* ignoring what InsertEdge returns loses no edge.                         *)
MergeNeverRefused == kept # None => pc # "found"

EdgesBar == IF pc = "idle" THEN Edges ELSE before.edges
RemovedBar == IF pc = "idle" THEN freeNodes ELSE before.removed
Promise == INSTANCE Dag WITH edges <- EdgesBar, removed <- RemovedBar

(* Every call does what the header promises, in particular InsertEdge and  *)
(* ContractEdge refuse exactly the edges that would close a cycle and then *)
(* leave the graph as it was.                                              *)
ImplementsDag == Promise!Spec

(* Between calls no edge is part of a cycle, whatever was inserted, removed *)
(* and contracted.                                                         *)
NeverCyclic == pc = "idle" => Promise!Acyclic

(* "If there is a path from X to Y then X appears after Y in the returned  *)
(* vector" (cycle_detector.h:150-151), whatever calls came before.         *)
PostOrderRespectsPaths ==
    pc = "idle" =>
        LET nodes == AllNodesInPostOrder
        IN  \A i, j \in DOMAIN nodes : i < j => ~Promise!Reaches(Edges, nodes[i], nodes[j])

(* Every call returns.                                                     *)
CallsReturn == [](pc # "idle" => <>(pc = "idle"))
=============================================================================
