--------------------------- MODULE GraphCyclesProofs ---------------------------
(***************************************************************************)
(* For any number of nodes and any sequence of calls, the edges of         *)
(* mlir::GraphCycles agree with the ranks, so that there is no cycle, no   *)
(* search leaves marks behind, and every call does what Dag promises.      *)
(***************************************************************************)
EXTENDS GraphCycles, OrderedSetState, TLAPS, NaturalsInduction, WellFoundedInduction, FiniteSetTheorems,
        SequenceTheorems

LEMMA LeastNat ==
  ASSUME NEW T, T \subseteq Nat, T # {}
  PROVE  \E k \in T : \A m \in T : k =< m
<1>1. PICK k \in T : \A m \in T : ~(<<m, k>> \in OpToRel(<, Nat))
  BY NatLessThanWellFounded, WFMin
<1>2. \A m \in T : ~(m < k)
  BY <1>1 DEF OpToRel
<1> QED
  BY <1>2

LEMMA NodesAreNats == Node \subseteq Nat
  BY GraphCyclesAssumption DEF Node

-----------------------------------------------------------------------------
(* Reorder.  A reassignment lowers no node of the forward search and       *)
(* raises none of the backward search: look at the first node of the list  *)
(* of which that is wrong; its old rank went to a node listed before it.   *)

LEMMA ReassignmentFacts ==
  ASSUME TypeOK, RankInv, deltab \cap deltaf = {}, NEW f \in Reassignments
  PROVE  /\ Moved \subseteq Node
         /\ \A n \in Moved : f[n] \in Nat /\ rank[n] \in Nat
         /\ \A n \in Moved : \E m \in Moved : f[n] = rank[m]
         /\ \A n \in Moved : \E m \in Moved : rank[n] = f[m]
         /\ \A m, n \in Moved : f[m] = f[n] => m = n
         /\ \A m, n \in Moved : m # n => ListedBefore(m, n) \/ ListedBefore(n, m)
         /\ \A m, n \in Moved : ListedBefore(m, n) => f[m] < f[n]
<1>1. f \in [Moved -> Merged] /\ IsInjective(f) /\ \A r \in Merged : \E m \in Moved : f[m] = r
  BY DEF Reassignments, Bijection, Injection, Surjection
<1>2. Moved \subseteq Node
  BY DEF Moved, TypeOK
<1>3. \A n \in Node : rank[n] \in Nat
  BY NodesAreNats DEF TypeOK
<1>4. \A n \in Moved : f[n] \in Merged /\ rank[n] \in Merged
  BY <1>1 DEF Merged
<1>5. \A n \in Moved : \E m \in Moved : f[n] = rank[m]
  BY <1>4 DEF Merged
<1>6. \A m, n \in Moved : f[m] = f[n] => m = n
  BY <1>1 DEF IsInjective
<1>7. \A m, n \in Moved : m # n => rank[m] # rank[n]
  BY <1>2 DEF RankInv, IsInjective, TypeOK
<1>8. \A m, n \in Moved : m # n => ListedBefore(m, n) \/ ListedBefore(n, m)
  <2> TAKE m, n \in Moved
  <2> HAVE m # n
  <2>1. rank[m] < rank[n] \/ rank[n] < rank[m]
    BY <1>2, <1>3, <1>7
  <2> QED BY <2>1 DEF ListedBefore, Moved
<1> QED
  BY <1>1, <1>2, <1>3, <1>4, <1>5, <1>6, <1>8 DEF Reassignments

LEMMA Lowered ==
  ASSUME TypeOK, RankInv, deltab \cap deltaf = {}, NEW f \in Reassignments,
         NEW b \in deltab
  PROVE  f[b] =< rank[b]
<1> DEFINE Bad == {n \in deltab : rank[n] < f[n]}
           Ranks == {rank[n] : n \in Bad}
<1>1. deltab \subseteq Moved
  BY DEF Moved
<1> SUFFICES ASSUME Bad # {} PROVE FALSE
  BY <1>1, ReassignmentFacts
<1>2. Ranks \subseteq Nat /\ Ranks # {}
  BY <1>1, ReassignmentFacts
<1>3. PICK r \in Ranks : \A s \in Ranks : r =< s
  <2> HIDE DEF Ranks
  <2> QED BY <1>2, LeastNat
<1>4. PICK n \in Bad : r = rank[n]
  OBVIOUS
<1>5. PICK m \in Moved : rank[n] = f[m]
  BY <1>1, ReassignmentFacts
<1>6. f[m] < f[n] /\ m # n
  <2>1. f[n] \in Nat
    BY <1>1, ReassignmentFacts
  <2> QED BY <1>5, <2>1
<1>7. ListedBefore(m, n)
  <2>1. n \in Moved
    BY <1>1
  <2>2. f[m] \in Nat /\ f[n] \in Nat
    BY <2>1, ReassignmentFacts
  <2>3. ListedBefore(n, m) => f[n] < f[m]
    BY <2>1, ReassignmentFacts
  <2>4. ~ListedBefore(n, m)
    BY <1>6, <2>2, <2>3
  <2> QED BY <1>6, <2>1, <2>4, ReassignmentFacts
<1>8. m \in deltab /\ rank[m] < rank[n]
  BY <1>7 DEF ListedBefore
<1>9. m \notin Bad
  <2>1. m \in Bad => r =< rank[m]
    BY <1>3
  <2>2. rank[m] \in Nat /\ rank[n] \in Nat
    BY <1>1, <1>8, ReassignmentFacts
  <2> QED BY <1>4, <1>8, <2>1, <2>2
<1> QED
  BY <1>1, <1>5, <1>8, <1>9, ReassignmentFacts

LEMMA Raised ==
  ASSUME TypeOK, RankInv, deltab \cap deltaf = {}, NEW f \in Reassignments,
         NEW b \in deltaf
  PROVE  rank[b] =< f[b]
<1> DEFINE Bad == {n \in deltaf : f[n] < rank[n]}
           Gaps == {NumNodes - rank[n] : n \in Bad}
<1>1. deltaf \subseteq Moved
  BY DEF Moved
<1> SUFFICES ASSUME Bad # {} PROVE FALSE
  BY <1>1, ReassignmentFacts
<1>2. \A n \in deltaf : rank[n] \in Nat /\ NumNodes - rank[n] \in Nat
  <2>1. \A n \in deltaf : rank[n] \in Node
    BY DEF TypeOK
  <2> QED BY <2>1, GraphCyclesAssumption DEF Node
<1>3. Gaps \subseteq Nat /\ Gaps # {}
  BY <1>2
<1>4. PICK r \in Gaps : \A s \in Gaps : r =< s
  <2> HIDE DEF Gaps
  <2> QED BY <1>3, LeastNat
<1>5. PICK n \in Bad : r = NumNodes - rank[n]
  OBVIOUS
<1>6. PICK m \in Moved : rank[n] = f[m]
  BY <1>1, ReassignmentFacts
<1>7. f[n] < f[m] /\ m # n
  <2>1. f[n] \in Nat
    BY <1>1, ReassignmentFacts
  <2> QED BY <1>6, <2>1
<1>8. ListedBefore(n, m)
  <2>1. n \in Moved
    BY <1>1
  <2>2. f[m] \in Nat /\ f[n] \in Nat
    BY <2>1, ReassignmentFacts
  <2>3. ListedBefore(m, n) => f[m] < f[n]
    BY <2>1, ReassignmentFacts
  <2>4. ~ListedBefore(m, n)
    BY <1>7, <2>2, <2>3
  <2> QED BY <1>7, <2>1, <2>4, ReassignmentFacts
<1>9. m \in deltaf /\ rank[n] < rank[m]
  BY <1>8 DEF ListedBefore
<1>10. m \notin Bad
  <2>1. NumNodes - rank[m] < NumNodes - rank[n]
    BY <1>2, <1>9, GraphCyclesAssumption
  <2>2. m \in Bad => r =< NumNodes - rank[m]
    BY <1>4
  <2>3. NumNodes - rank[m] \in Nat /\ NumNodes - rank[n] \in Nat
    BY <1>2, <1>9
  <2> QED BY <1>5, <2>1, <2>2, <2>3
<1> QED
  BY <1>1, <1>6, <1>9, <1>10, ReassignmentFacts

(* The ranks after Reorder, edge by edge: it matters which of the two      *)
(* searches listed its ends.                                               *)
LEMMA ReorderRanked ==
  ASSUME IInv, pc = "backward", stack = {}, NEW f \in Reassignments,
         NEW u \in Node, NEW v \in out[u]
  PROVE  LET new(n) == IF n \in Moved THEN f[n] ELSE rank[n]
         IN  new(u) < new(v)
<1> USE DEF IInv
<1>1. deltab \cap deltaf = {} /\ x \in deltab /\ y \in deltaf
  BY DEF BackwardInv
<1>2. v \in Node /\ rank[u] \in Nat /\ rank[v] \in Nat
      /\ rank[x] \in Nat /\ rank[y] \in Nat
  BY NodesAreNats DEF TypeOK, CallInv, Present, Searching
<1>3. rank[u] < rank[v] \/ (u = x /\ v = y)
  BY DEF RankInv
<1>4. u \in in[v]
  BY <1>2 DEF Mirrored
<1>5. \A n \in Moved : rank[y] =< rank[n] /\ rank[n] =< rank[x]
  <2>1. \A n \in deltaf : rank[y] =< rank[n] /\ rank[n] < rank[x] /\ rank[n] \in Nat
    BY NodesAreNats DEF ForwardInv, CallInv, TypeOK
  <2>2. \A n \in deltab : rank[y] < rank[n] /\ rank[n] =< rank[x] /\ rank[n] \in Nat
    BY NodesAreNats DEF BackwardInv, TypeOK
  <2> QED BY <1>2, <2>1, <2>2 DEF Moved
<1>6. \A n \in Moved : rank[y] =< f[n] /\ f[n] =< rank[x] /\ f[n] \in Nat /\ rank[n] \in Nat
  BY <1>1, <1>5, ReassignmentFacts
<1>7. CASE u \in deltab /\ v \in Moved
  <2>1. ListedBefore(u, v)
    BY <1>1, <1>3, <1>7 DEF ListedBefore, Moved
  <2> QED BY <1>1, <1>7, <2>1, ReassignmentFacts DEF Moved
<1>8. CASE u \in deltab /\ v \notin Moved
  <2>1. rank[u] < rank[v]
    BY <1>1, <1>3, <1>8 DEF Moved
  <2>2. f[u] =< rank[u]
    BY <1>1, <1>8, Lowered
  <2> QED BY <1>2, <1>6, <1>8, <2>1, <2>2 DEF Moved
<1>9. CASE u \in deltaf
  <2>1. rank[v] > rank[x] \/ v \in deltaf
    BY <1>9 DEF BackwardInv
  <2>2. CASE v \in deltaf
    <3>1. ListedBefore(u, v)
      BY <1>1, <1>3, <1>9, <2>2 DEF ListedBefore
    <3> QED BY <1>1, <1>9, <2>2, <3>1, ReassignmentFacts DEF Moved
  <2>3. CASE rank[v] > rank[x]
    <3>1. v \notin Moved
      BY <1>2, <1>5, <2>3
    <3> QED BY <1>2, <1>6, <1>9, <2>3, <3>1 DEF Moved
  <2> QED BY <2>1, <2>2, <2>3
<1>10. CASE u \notin Moved /\ v \in deltab
  <2>1. rank[u] =< rank[y]
    BY <1>4, <1>10 DEF BackwardInv, Moved
  <2>2. rank[u] # rank[y]
    BY <1>1, <1>2, <1>10 DEF RankInv, IsInjective, TypeOK, Moved
  <2> QED BY <1>2, <1>6, <1>10, <2>1, <2>2 DEF Moved
<1>11. CASE u \notin Moved /\ v \in deltaf
  <2>1. rank[u] < rank[v]
    BY <1>1, <1>3, <1>11 DEF Moved
  <2>2. rank[v] =< f[v]
    BY <1>1, <1>11, Raised
  <2> QED BY <1>2, <1>6, <1>11, <2>1, <2>2 DEF Moved
<1>12. CASE u \notin Moved /\ v \notin Moved
  BY <1>1, <1>3, <1>12 DEF Moved
<1> QED
  BY <1>7, <1>8, <1>9, <1>10, <1>11, <1>12 DEF Moved

-----------------------------------------------------------------------------
(* Parts that many actions share: editing an edge, returning, searching.   *)

LEMMA InitIInv == Init => IInv
<1> SUFFICES ASSUME Init PROVE IInv
  OBVIOUS
<1> USE DEF Init
<1>1. TypeOK
  BY DEF TypeOK
<1>2. RankInv
  BY NodesAreNats DEF RankInv, IsInjective
<1> QED
  BY <1>1, <1>2 DEF IInv, Mirrored, CallInv, MarkInv, ForwardInv, BackwardInv,
                    AtRest, Searching

LEMMA LinkKeepsMirror ==
  ASSUME TypeOK, Mirrored, NEW u \in Present, NEW v \in Present, Link(u, v),
         UNCHANGED freeNodes
  PROVE  /\ Mirrored'
         /\ in' \in [Node -> SUBSET Node] /\ out' \in [Node -> SUBSET Node]
         /\ \A n \in Node : out'[n] = IF n = u THEN out[n] \cup {v} ELSE out[n]
<1> USE DEF Link, TypeOK, Present
<1>1. \A n \in Node : /\ out'[n] = IF n = u THEN out[n] \cup {v} ELSE out[n]
                      /\ in'[n] = IF n = v THEN in[n] \cup {u} ELSE in[n]
  OBVIOUS
<1>2. \A a, b \in Node : b \in out'[a] <=> a \in in'[b]
  BY <1>1 DEF Mirrored
<1>3. \A n \in freeNodes' : out'[n] = {} /\ in'[n] = {}
  BY <1>1 DEF Mirrored
<1>4. in' \in [Node -> SUBSET Node] /\ out' \in [Node -> SUBSET Node]
  OBVIOUS
<1> HIDE DEF Link, TypeOK, Present
<1> QED
  BY <1>1, <1>2, <1>3, <1>4 DEF Mirrored

LEMMA UnlinkKeepsMirror ==
  ASSUME TypeOK, Mirrored, NEW u \in Node, NEW v \in Node, Unlink(u, v),
         UNCHANGED freeNodes
  PROVE  /\ Mirrored'
         /\ in' \in [Node -> SUBSET Node] /\ out' \in [Node -> SUBSET Node]
         /\ \A n \in Node : out'[n] = IF n = u THEN out[n] \ {v} ELSE out[n]
<1> USE DEF Unlink, TypeOK
<1>1. \A n \in Node : /\ out'[n] = IF n = u THEN out[n] \ {v} ELSE out[n]
                      /\ in'[n] = IF n = v THEN in[n] \ {u} ELSE in[n]
  OBVIOUS
<1>2. \A a, b \in Node : b \in out'[a] <=> a \in in'[b]
  BY <1>1 DEF Mirrored
<1>3. \A n \in freeNodes' : out'[n] = {} /\ in'[n] = {}
  BY <1>1 DEF Mirrored
<1> QED
  BY <1>1, <1>2, <1>3 DEF Mirrored

LEMMA ClearedMarks ==
  ASSUME TypeOK, MarkInv, NEW ns, deltaf \cup deltab \subseteq ns, ClearVisitedBits(ns)
  PROVE  visited' \in [Node -> BOOLEAN] /\ \A n \in Node : ~visited'[n]
  BY DEF TypeOK, MarkInv, ClearVisitedBits

LEMMA Returning ==
  ASSUME IInv, NEW r \in [ok : BOOLEAN] \cup {None}, Return(r),
         UNCHANGED <<kept, freeNodes>>, pending' \subseteq pending,
         rank' \in [Node -> Node], IsInjective(rank'),
         in' \in [Node -> SUBSET Node], out' \in [Node -> SUBSET Node], Mirrored',
         \A u \in Node : \A v \in out'[u] : rank'[u] < rank'[v],
         visited' \in [Node -> BOOLEAN], \A n \in Node : ~visited'[n]
  PROVE  IInv'
<1> USE DEF IInv, Return
<1>1. pc' \in {"idle", "merge"} /\ op' = "none" /\ x' = None /\ y' = None
      /\ deltaf' = {} /\ deltab' = {} /\ stack' = {} /\ (pc' = "idle" => kept' = None)
  OBVIOUS
<1>2. result' \in [ok : BOOLEAN] \cup [node : Node] \cup {None}
  BY DEF TypeOK
<1>3. TypeOK'
  BY <1>1, <1>2 DEF TypeOK
<1>4. CallInv'
  BY <1>1 DEF CallInv, AtRest, Searching, Present
<1>5. RankInv'
  BY <1>1 DEF RankInv
<1> HIDE DEF Return
<1> QED
  BY <1>1, <1>3, <1>4, <1>5 DEF MarkInv, ForwardInv, BackwardInv

LEMMA Calling ==
  ASSUME IInv, AtRest, NEW o \in {"insert", "reach", "contract"},
         NEW u \in Present, NEW v \in Present, NEW start \in SUBSET Node,
         Search(o, u, v, start),
         UNCHANGED <<rank, visited, freeNodes, kept>>, pending' \subseteq pending,
         in' \in [Node -> SUBSET Node], out' \in [Node -> SUBSET Node], Mirrored',
         \A m \in Node : \A n \in out'[m] :
            rank[m] < rank[n] \/ (o = "insert" /\ m = u /\ n = v),
         o = "insert" => v \in out'[u] /\ rank[v] < rank[u] /\ start = {v},
         o # "insert" => rank[u] < rank[v]
  PROVE  IInv'
<1> USE DEF IInv, Search
<1>1. /\ pc' = "forward" /\ op' = o /\ x' = u /\ y' = v
      /\ stack' = start /\ deltaf' = {} /\ deltab' = {}
  BY DEF CallInv, AtRest
<1>2. TypeOK'
  BY <1>1 DEF TypeOK, Present
<1>3. CallInv'
  BY <1>1 DEF CallInv, AtRest, Searching, Present
<1>4. RankInv'
  BY <1>1 DEF RankInv
<1>5. MarkInv'
  BY <1>1 DEF MarkInv, CallInv, AtRest
<1>6. ForwardInv'
  <2>1. rank[u] \in Nat /\ rank[v] \in Nat
    BY NodesAreNats DEF TypeOK, Present
  <2> QED BY <1>1, <2>1 DEF ForwardInv
<1> HIDE DEF Search
<1> QED
  BY <1>1, <1>2, <1>3, <1>4, <1>5, <1>6 DEF BackwardInv

(* At rest the edges agree with the ranks, and no node is marked.          *)
LEMMA RestFacts ==
  ASSUME IInv, AtRest
  PROVE  /\ \A u \in Node : \A v \in out[u] : rank[u] < rank[v]
         /\ \A n \in Node : ~visited[n]
  BY DEF IInv, AtRest, CallInv, RankInv, MarkInv

-----------------------------------------------------------------------------
(* The actions. *)

(* Who calls InsertEdge is at rest, and names nodes that are present.      *)
LEMMA InsertArgs ==
  ASSUME IInv, NEW u \in Node, NEW v \in Node, InsertIsCalled(u, v)
  PROVE  AtRest /\ u \in Present /\ v \in Present /\ pending' \subseteq pending
  BY DEF IInv, CallInv, InsertIsCalled, Leaving, AtRest

LEMMA InsertTrivialInv ==
  ASSUME IInv, NEW u \in Node, NEW v \in Node, InsertTrivial(u, v)
  PROVE  IInv'
<1> USE DEF InsertTrivial
<1>1. AtRest /\ pending' \subseteq pending
  BY InsertArgs
<1>2. UNCHANGED <<rank, in, out, freeNodes, visited, kept>>
  BY DEF graph
<1>3. Mirrored'
  BY <1>2 DEF IInv, Mirrored
<1>4. [ok |-> u # v] \in [ok : BOOLEAN] \cup {None}
  OBVIOUS
<1> QED
  BY <1>1, <1>2, <1>3, <1>4, RestFacts, Returning DEF IInv, TypeOK, RankInv

LEMMA InsertOrderedInv ==
  ASSUME IInv, NEW u \in Node, NEW v \in Node, InsertOrdered(u, v)
  PROVE  IInv'
<1> USE DEF InsertOrdered
<1>1. AtRest /\ pending' \subseteq pending /\ u \in Present /\ v \in Present
  BY InsertArgs
<1>2. UNCHANGED <<rank, freeNodes, visited, kept>>
  OBVIOUS
<1>3. /\ Mirrored'
      /\ in' \in [Node -> SUBSET Node] /\ out' \in [Node -> SUBSET Node]
      /\ \A n \in Node : out'[n] = IF n = u THEN out[n] \cup {v} ELSE out[n]
  BY <1>1, <1>2, LinkKeepsMirror DEF IInv
<1>4. rank[u] < rank[v]
  <2>1. rank[u] \in Nat /\ rank[v] \in Nat /\ rank[u] # rank[v]
    BY NodesAreNats DEF IInv, TypeOK, RankInv, IsInjective
  <2> QED BY <2>1
<1>5. \A m \in Node : \A n \in out'[m] : rank'[m] < rank'[n]
  BY <1>1, <1>2, <1>3, <1>4, RestFacts
<1>6. [ok |-> TRUE] \in [ok : BOOLEAN] \cup {None}
  OBVIOUS
<1> QED
  BY <1>1, <1>2, <1>3, <1>5, <1>6, RestFacts, Returning DEF IInv, TypeOK, RankInv

LEMMA InsertReversedInv ==
  ASSUME IInv, NEW u \in Node, NEW v \in Node, InsertReversed(u, v)
  PROVE  IInv'
<1> USE DEF InsertReversed
<1>1. AtRest /\ pending' \subseteq pending /\ u \in Present /\ v \in Present
  BY InsertArgs
<1>2. UNCHANGED <<rank, freeNodes, visited, kept>>
  OBVIOUS
<1>3. /\ Mirrored'
      /\ in' \in [Node -> SUBSET Node] /\ out' \in [Node -> SUBSET Node]
      /\ \A n \in Node : out'[n] = IF n = u THEN out[n] \cup {v} ELSE out[n]
  BY <1>1, <1>2, LinkKeepsMirror DEF IInv
<1>4. rank[v] < rank[u]
  BY NodesAreNats DEF IInv, TypeOK
<1>5. \A m \in Node : \A n \in out'[m] : rank[m] < rank[n] \/ (m = u /\ n = v)
  BY <1>1, <1>3, RestFacts
<1> QED
  BY <1>1, <1>2, <1>3, <1>4, <1>5, Calling

LEMMA RemoveEdgeInv ==
  ASSUME IInv, NEW u \in Node, NEW v \in Node, RemoveEdge(u, v)
  PROVE  IInv'
<1> USE DEF RemoveEdge
<1>1. AtRest /\ UNCHANGED <<rank, freeNodes, visited, kept, pending>>
  BY DEF AtRest
<1>2. /\ Mirrored'
      /\ in' \in [Node -> SUBSET Node] /\ out' \in [Node -> SUBSET Node]
      /\ \A n \in Node : out'[n] = IF n = u THEN out[n] \ {v} ELSE out[n]
  BY <1>1, UnlinkKeepsMirror DEF IInv
<1>3. \A m \in Node : \A n \in out'[m] : rank'[m] < rank'[n]
  BY <1>1, <1>2, RestFacts
<1> QED
  BY <1>1, <1>2, <1>3, RestFacts, Returning DEF IInv, TypeOK, RankInv

LEMMA ReachTrivialInv ==
  ASSUME IInv, NEW u \in Node, NEW v \in Node, ReachTrivial(u, v)
  PROVE  IInv'
<1> USE DEF ReachTrivial
<1>1. AtRest /\ UNCHANGED <<rank, in, out, freeNodes, visited, kept, pending>>
  BY DEF AtRest, graph
<1>2. Mirrored'
  BY <1>1 DEF IInv, Mirrored
<1>3. [ok |-> u = v] \in [ok : BOOLEAN] \cup {None}
  OBVIOUS
<1> QED
  BY <1>1, <1>2, <1>3, RestFacts, Returning DEF IInv, TypeOK, RankInv

LEMMA ReachSearchInv ==
  ASSUME IInv, NEW u \in Node, NEW v \in Node, ReachSearch(u, v)
  PROVE  IInv'
<1> USE DEF ReachSearch
<1>1. AtRest /\ UNCHANGED <<rank, in, out, freeNodes, visited, kept, pending>>
  BY DEF AtRest, graph
<1>2. Mirrored'
  BY <1>1 DEF IInv, Mirrored
<1>3. {u} \in SUBSET Node
  OBVIOUS
<1> QED
  BY <1>1, <1>2, <1>3, RestFacts, Calling DEF IInv, TypeOK

LEMMA ContractEdgeInv ==
  ASSUME IInv, NEW u \in Node, NEW v \in Node, ContractEdge(u, v)
  PROVE  IInv'
<1> USE DEF ContractEdge
<1>1. AtRest /\ UNCHANGED <<rank, freeNodes, visited, kept, pending>>
  BY DEF AtRest
<1>2. /\ Mirrored'
      /\ in' \in [Node -> SUBSET Node] /\ out' \in [Node -> SUBSET Node]
      /\ \A n \in Node : out'[n] = IF n = u THEN out[n] \ {v} ELSE out[n]
  BY <1>1, UnlinkKeepsMirror DEF IInv
<1>3. u \in Present /\ v \in Present
  BY DEF IInv, Mirrored, Present
<1>4. \A m \in Node : \A n \in out'[m] : rank[m] < rank[n]
  BY <1>1, <1>2, RestFacts
<1>5. rank[u] < rank[v]
  BY <1>1, RestFacts
<1> DEFINE start == IF rank[u] >= rank[v] THEN {} ELSE {u}
<1>6. start \in SUBSET Node /\ Search("contract", u, v, start)
  OBVIOUS
<1> HIDE DEF start, ContractEdge
<1> QED
  BY <1>1, <1>2, <1>3, <1>4, <1>5, <1>6, Calling

(* A step of the forward search, for InsertEdge: the neighbours of the     *)
(* node are listed, stacked, or ranked above x.                            *)
LEMMA ForwardInvStep ==
  ASSUME IInv, NEW n \in Node, Forward(n)
  PROVE  IInv'
<1> USE DEF IInv, Forward
<1>1. /\ pc = "forward" /\ n \in stack /\ deltab = {} /\ deltab' = {}
      /\ UNCHANGED <<rank, in, out, freeNodes, op, x, y, before, result, kept, pending>>
      /\ pc' \in {"forward", "found"}
      /\ stack' \subseteq Node
  BY DEF graph, CallInv, TypeOK
<1>2. TypeOK'
  BY <1>1 DEF TypeOK
<1>3. Mirrored'
  BY <1>1 DEF Mirrored
<1>4. CallInv'
  BY <1>1 DEF CallInv, AtRest, Searching, Present
<1>5. RankInv'
  BY <1>1 DEF RankInv
<1>6. MarkInv'
  BY <1>1 DEF MarkInv, TypeOK
<1>7. ForwardInv'
  <2> SUFFICES ASSUME op = "insert" PROVE ForwardInv'
    BY <1>1 DEF ForwardInv
  <2>1. /\ x \in Node /\ y \in Node /\ out[n] \subseteq Node
        /\ \A m \in Node : rank[m] \in Nat
    BY NodesAreNats DEF CallInv, Present, TypeOK
  <2>2. /\ rank[y] =< rank[n] /\ rank[n] < rank[x]
        /\ \A m \in stack : rank[y] =< rank[m] /\ rank[m] < rank[x]
        /\ \A m \in deltaf : rank[y] =< rank[m] /\ rank[m] < rank[x]
        /\ \A m \in deltaf : \A w \in out[m] : rank[w] > rank[x] \/ w \in deltaf \cup stack
        /\ y \in deltaf \cup stack
    BY <1>1 DEF ForwardInv
  <2>3. CASE visited[n]
    <3>1. n \in deltaf /\ stack' = stack \ {n} /\ deltaf' = deltaf
      BY <1>1, <2>3 DEF MarkInv
    <3> QED BY <1>1, <2>2, <3>1 DEF ForwardInv
  <2>4. CASE ~visited[n]
    <3>1. deltaf' = deltaf \cup {n}
      BY <2>4
    <3>2. CASE pc' = "found"
      BY <1>1, <2>2, <3>1, <3>2 DEF ForwardInv
    <3>3. CASE pc' = "forward"
      <4>1. /\ \A w \in out[n] : rank[w] # rank[x]
            /\ stack' = (stack \ {n}) \cup {w \in out[n] : GoesForward(w)}
        BY <1>1, <2>4, <3>3 DEF UpperBound
      <4>2. \A w \in out[n] : rank[n] < rank[w]
        <5>1. n # x
          BY <2>1, <2>2
        <5> QED BY <5>1 DEF RankInv
      <4>3. \A w \in out[n] : GoesForward(w) <=> ~visited[w] /\ rank[w] < rank[x]
        BY DEF GoesForward, UpperBound
      <4>4. \A w \in out[n] : rank[w] > rank[x] \/ w \in deltaf' \cup stack'
        BY <1>1, <2>1, <3>1, <4>1, <4>2, <4>3 DEF MarkInv
      <4>5. \A m \in stack' : rank[y] =< rank[m] /\ rank[m] < rank[x]
        BY <2>1, <2>2, <4>1, <4>2, <4>3
      <4> HIDE DEF Forward
      <4> QED BY <1>1, <2>2, <3>1, <3>3, <4>1, <4>4, <4>5 DEF ForwardInv
    <3> QED BY <1>1, <3>2, <3>3
  <2> QED BY <2>3, <2>4
<1> HIDE DEF Forward
<1> QED
  BY <1>1, <1>2, <1>3, <1>4, <1>5, <1>6, <1>7 DEF BackwardInv

LEMMA StartBackwardInv ==
  ASSUME IInv, StartBackward
  PROVE  IInv'
<1> USE DEF IInv, StartBackward
<1>1. /\ pc' = "backward" /\ op = "insert" /\ stack = {} /\ stack' = {x}
      /\ deltab = {} /\ deltab' = {}
      /\ UNCHANGED <<rank, in, out, freeNodes, visited, deltaf, op, x, y, before,
                     result, kept, pending>>
  BY DEF graph, CallInv
<1>2. x \in Node /\ y \in Node /\ rank[y] < rank[x]
  BY DEF CallInv, Present
<1>3. rank[x] \in Nat
  BY <1>2, NodesAreNats DEF TypeOK
<1>4. TypeOK' /\ Mirrored' /\ RankInv' /\ MarkInv'
  BY <1>1, <1>2 DEF TypeOK, Mirrored, RankInv, MarkInv
<1>5. CallInv'
  BY <1>1 DEF CallInv, AtRest, Searching, Present
<1>6. ForwardInv'
  BY <1>1 DEF ForwardInv
<1>7. BackwardInv'
  BY <1>1, <1>2, <1>3 DEF BackwardInv, ForwardInv
<1> HIDE DEF StartBackward
<1> QED
  BY <1>4, <1>5, <1>6, <1>7

LEMMA BackwardInvStep ==
  ASSUME IInv, NEW n \in Node, Backward(n)
  PROVE  IInv'
<1> USE DEF IInv, Backward
<1>1. /\ pc = "backward" /\ n \in stack /\ op = "insert"
      /\ UNCHANGED <<rank, in, out, freeNodes, deltaf, pc, op, x, y, before,
                     result, kept, pending>>
      /\ stack' \subseteq Node
  BY DEF graph, call, CallInv, TypeOK
<1>2. TypeOK'
  BY <1>1 DEF TypeOK
<1>3. Mirrored' /\ RankInv' /\ CallInv' /\ ForwardInv'
  BY <1>1 DEF Mirrored, RankInv, CallInv, AtRest, Searching, Present, ForwardInv
<1>4. MarkInv'
  BY <1>1 DEF MarkInv, TypeOK
<1>5. BackwardInv'
  <2>1. /\ x \in Node /\ y \in Node /\ in[n] \subseteq Node
        /\ \A m \in Node : rank[m] \in Nat
    BY NodesAreNats DEF CallInv, Present, TypeOK, Searching
  <2>2. /\ y \in deltaf /\ x \in deltab \cup stack
        /\ deltab \cap deltaf = {}
        /\ \A m \in deltab \cup stack : rank[y] < rank[m] /\ rank[m] =< rank[x]
        /\ \A m \in deltaf : \A w \in out[m] : rank[w] > rank[x] \/ w \in deltaf
        /\ \A m \in deltab : \A w \in in[m] :
             rank[w] =< rank[y] \/ w \in deltab \cup deltaf \cup stack
    BY <1>1 DEF BackwardInv
  <2>3. CASE visited[n]
    <3>1. stack' = stack \ {n} /\ deltab' = deltab /\ n \in deltab \cup deltaf
      BY <2>3 DEF MarkInv
    <3>2. n = x => n \in deltab
      BY <1>1, <2>1, <3>1 DEF ForwardInv
    <3> HIDE DEF Backward
    <3> QED BY <1>1, <2>2, <3>1, <3>2 DEF BackwardInv
  <2>4. CASE ~visited[n]
    <3>1. /\ deltab' = deltab \cup {n}
          /\ stack' = (stack \ {n}) \cup {w \in in[n] : GoesBackward(w)}
          /\ n \notin deltaf
      BY <2>4 DEF MarkInv
    <3>2. \A w \in in[n] : rank[w] < rank[n]
      <4> TAKE w \in in[n]
      <4>1. w \in Node /\ n \in out[w] /\ n # y
        BY <1>1, <2>1, <2>2 DEF Mirrored
      <4> QED BY <4>1 DEF RankInv
    <3>3. \A w \in in[n] : GoesBackward(w) <=> ~visited[w] /\ rank[y] < rank[w]
      BY DEF GoesBackward
    <3>4. \A w \in in[n] : rank[w] =< rank[y] \/ w \in deltab' \cup deltaf \cup stack'
      BY <1>1, <2>1, <3>1, <3>3 DEF MarkInv
    <3>5. \A m \in stack' : rank[y] < rank[m] /\ rank[m] =< rank[x]
      BY <1>1, <2>1, <2>2, <3>1, <3>2, <3>3
    <3> HIDE DEF Backward
    <3> QED BY <1>1, <2>2, <3>1, <3>4, <3>5 DEF BackwardInv
  <2> QED BY <2>3, <2>4
<1> HIDE DEF Backward
<1> QED
  BY <1>2, <1>3, <1>4, <1>5

LEMMA ReorderInv ==
  ASSUME IInv, Reorder
  PROVE  IInv'
<1> USE DEF IInv, Reorder
<1>1. pc = "backward" /\ stack = {} /\ UNCHANGED <<in, out, freeNodes, kept, pending>>
  OBVIOUS
<1>2. PICK f \in Reassignments :
        rank' = [n \in Node |-> IF n \in Moved THEN f[n] ELSE rank[n]]
  OBVIOUS
<1>3. deltab \cap deltaf = {}
  BY <1>1 DEF BackwardInv
<1>4. /\ Moved \subseteq Node
      /\ \A n \in Moved : \E m \in Moved : f[n] = rank[m]
      /\ \A m, n \in Moved : f[m] = f[n] => m = n
  BY <1>3, ReassignmentFacts
<1>5. \A n \in Node : rank[n] \in Node
  BY DEF TypeOK
<1>6. rank' \in [Node -> Node]
  BY <1>2, <1>4, <1>5
<1>7. IsInjective(rank')
  <2> SUFFICES ASSUME NEW a \in Node, NEW b \in Node, rank'[a] = rank'[b] PROVE a = b
    BY <1>6 DEF IsInjective
  <2>1. \A c, d \in Node : rank[c] = rank[d] => c = d
    BY DEF RankInv, IsInjective, TypeOK
  <2> QED BY <1>2, <1>4, <2>1
<1>8. \A u \in Node : \A v \in out'[u] : rank'[u] < rank'[v]
  <2> TAKE u \in Node
  <2> TAKE v \in out'[u]
  <2>1. v \in out[u] /\ v \in Node
    BY <1>1 DEF TypeOK
  <2> HIDE DEF Reorder, IInv
  <2> QED BY <1>1, <1>2, <2>1, ReorderRanked
<1>9. visited' \in [Node -> BOOLEAN] /\ \A n \in Node : ~visited'[n]
  BY ClearedMarks DEF Moved
<1>10. Mirrored' /\ in' \in [Node -> SUBSET Node] /\ out' \in [Node -> SUBSET Node]
  BY <1>1 DEF Mirrored, TypeOK
<1>11. Return([ok |-> TRUE]) /\ [ok |-> TRUE] \in [ok : BOOLEAN] \cup {None}
  OBVIOUS
<1> HIDE DEF Reorder, IInv
<1> QED
  BY <1>1, <1>6, <1>7, <1>8, <1>9, <1>10, <1>11, Returning

(* A refused edge was the only one that contradicted the ranks.            *)
LEMMA InsertRefusedInv ==
  ASSUME IInv, InsertRefused
  PROVE  IInv'
<1> USE DEF InsertRefused
<1>1. UNCHANGED <<rank, freeNodes, kept, pending>> /\ deltab = {}
      /\ x \in Node /\ y \in Node
  BY DEF IInv, CallInv, Searching, Present
<1>2. /\ Mirrored'
      /\ in' \in [Node -> SUBSET Node] /\ out' \in [Node -> SUBSET Node]
      /\ \A n \in Node : out'[n] = IF n = x THEN out[n] \ {y} ELSE out[n]
  BY <1>1, UnlinkKeepsMirror DEF IInv
<1>3. \A m \in Node : \A n \in out'[m] : rank'[m] < rank'[n]
  BY <1>1, <1>2 DEF IInv, RankInv
<1>4. visited' \in [Node -> BOOLEAN] /\ \A n \in Node : ~visited'[n]
  BY <1>1, ClearedMarks DEF IInv
<1> QED
  BY <1>1, <1>2, <1>3, <1>4, Returning DEF IInv, TypeOK, RankInv

LEMMA ReachReturnsInv ==
  ASSUME IInv, ReachReturns
  PROVE  IInv'
<1> USE DEF ReachReturns
<1>1. UNCHANGED <<rank, in, out, freeNodes, kept, pending>> /\ deltab = {}
  BY DEF graph, IInv, CallInv
<1>2. Mirrored' /\ in' \in [Node -> SUBSET Node] /\ out' \in [Node -> SUBSET Node]
  BY <1>1 DEF IInv, Mirrored, TypeOK
<1>3. \A m \in Node : \A n \in out'[m] : rank'[m] < rank'[n]
  BY <1>1 DEF IInv, RankInv
<1>4. visited' \in [Node -> BOOLEAN] /\ \A n \in Node : ~visited'[n]
  BY <1>1, ClearedMarks DEF IInv
<1>5. [ok |-> pc = "found"] \in [ok : BOOLEAN] \cup {None}
  OBVIOUS
<1> QED
  BY <1>1, <1>2, <1>3, <1>4, <1>5, Returning DEF IInv, TypeOK, RankInv

LEMMA ContractRefusedInv ==
  ASSUME IInv, ContractRefused
  PROVE  IInv'
<1> USE DEF ContractRefused
<1>1. UNCHANGED <<rank, freeNodes, kept, pending>> /\ deltab = {}
      /\ x \in Present /\ y \in Present /\ rank[x] < rank[y]
  BY DEF IInv, CallInv, Searching
<1>2. /\ Mirrored'
      /\ in' \in [Node -> SUBSET Node] /\ out' \in [Node -> SUBSET Node]
      /\ \A n \in Node : out'[n] = IF n = x THEN out[n] \cup {y} ELSE out[n]
  BY <1>1, LinkKeepsMirror DEF IInv
<1>3. \A m \in Node : \A n \in out'[m] : rank'[m] < rank'[n]
  BY <1>1, <1>2 DEF IInv, RankInv
<1>4. visited' \in [Node -> BOOLEAN] /\ \A n \in Node : ~visited'[n]
  BY <1>1, ClearedMarks DEF IInv
<1> QED
  BY <1>1, <1>2, <1>3, <1>4, Returning DEF IInv, TypeOK, RankInv

LEMMA StartMergeInv ==
  ASSUME IInv, StartMerge
  PROVE  IInv'
<1> DEFINE drop == IF Degree(y) > Degree(x) THEN x ELSE y
           keep == IF drop = x THEN y ELSE x
<1>1. /\ pc' = "merge" /\ op' = "none" /\ x' = None /\ y' = None
      /\ deltaf' = {} /\ stack = {} /\ stack' = {} /\ deltab = {} /\ deltab' = {}
      /\ kept' = keep /\ freeNodes' = freeNodes \cup {drop}
      /\ pending' = EdgesOf(drop, keep)
      /\ UNCHANGED <<rank, before, result>>
      /\ op = "contract"
  BY DEF StartMerge, IInv, CallInv
<1>2. x \in Present /\ y \in Present /\ x # y
  <2>1. x \in Present /\ y \in Present /\ rank[x] < rank[y]
    BY <1>1 DEF StartMerge, IInv, CallInv, Searching
  <2>2. rank[x] \in Nat
    BY <2>1, NodesAreNats DEF IInv, TypeOK, Present
  <2> QED BY <2>1, <2>2
<1>3. drop \in Node /\ keep \in Present /\ drop # keep
  BY <1>2 DEF Present
<1>4. /\ out' = [n \in Node |-> IF n = drop THEN {} ELSE out[n] \ {drop}]
      /\ in' = [n \in Node |-> IF n = drop THEN {} ELSE in[n] \ {drop}]
  BY DEF StartMerge
<1> HIDE DEF drop, keep
<1>5. in' \in [Node -> SUBSET Node] /\ out' \in [Node -> SUBSET Node]
  BY <1>4 DEF IInv, TypeOK
<1>6. Mirrored'
  <2>1. \A n \in Node : /\ out'[n] = IF n = drop THEN {} ELSE out[n] \ {drop}
                        /\ in'[n] = IF n = drop THEN {} ELSE in[n] \ {drop}
    BY <1>4
  <2>2. \A u, v \in Node : v \in out'[u] <=> u \in in'[v]
    <3> TAKE u, v \in Node
    <3>1. v \in out[u] <=> u \in in[v]
      BY DEF IInv, Mirrored
    <3> QED BY <2>1, <3>1
  <2>3. \A n \in freeNodes' : out'[n] = {} /\ in'[n] = {}
    BY <1>1, <1>3, <2>1 DEF IInv, Mirrored, TypeOK
  <2> QED BY <2>2, <2>3 DEF Mirrored
<1>7. RankInv'
  BY <1>1, <1>4 DEF IInv, RankInv
<1>8. visited' \in [Node -> BOOLEAN] /\ \A n \in Node : ~visited'[n]
  BY <1>1, ClearedMarks DEF StartMerge, IInv
<1>9. \A w \in out[drop] \cup in[drop] : w \in Present' /\ keep \in Present'
  <2> SUFFICES ASSUME NEW w \in out[drop] \cup in[drop] PROVE w \in Present'
    BY <1>1, <1>3 DEF Present
  <2>1. w \in Node /\ w \notin freeNodes
    BY <1>3 DEF IInv, Mirrored, TypeOK
  <2>2. w # drop
    <3>1. drop \notin out[drop]
      <4>1. rank[drop] \in Nat
        BY <1>3, NodesAreNats DEF IInv, TypeOK
      <4> QED BY <1>1, <1>3, <4>1 DEF IInv, RankInv
    <3> QED BY <1>3, <3>1 DEF IInv, Mirrored
  <2> QED BY <1>1, <2>1, <2>2 DEF Present
<1>10. pending' \subseteq Present' \X Present'
  BY <1>1, <1>9 DEF EdgesOf
<1>11. TypeOK'
  BY <1>1, <1>3, <1>5, <1>8, <1>10 DEF IInv, TypeOK, Present
<1>12. CallInv'
  <2>1. kept' # None
    BY <1>1, <1>3, GraphCyclesAssumption DEF Present, Node
  <2> QED BY <1>1, <1>10, <2>1 DEF CallInv, AtRest, Searching
<1>13. MarkInv'
  BY <1>1, <1>8 DEF MarkInv
<1> QED
  BY <1>1, <1>6, <1>7, <1>11, <1>12, <1>13 DEF IInv, ForwardInv, BackwardInv

LEMMA ContractReturnsInv ==
  ASSUME IInv, ContractReturns
  PROVE  IInv'
<1> USE DEF ContractReturns, IInv
<1>1. /\ pc' = "idle" /\ kept' = None /\ pending = {} /\ pending' = {}
      /\ UNCHANGED <<rank, in, out, freeNodes, visited, deltaf, deltab, stack, op, x, y>>
      /\ op = "none" /\ result' = [node |-> kept]
  BY DEF graph, scratch, CallInv, AtRest
<1>2. kept \in Node
  BY <1>1 DEF TypeOK, CallInv
<1>3. TypeOK' /\ Mirrored' /\ RankInv' /\ MarkInv'
  BY <1>1, <1>2 DEF TypeOK, Mirrored, RankInv, MarkInv
<1>4. CallInv'
  BY <1>1 DEF CallInv, AtRest, Searching, Present
<1> HIDE DEF ContractReturns
<1> QED
  BY <1>1, <1>3, <1>4 DEF ForwardInv, BackwardInv

LEMMA NextIInv == IInv /\ [Next]_vars => IInv'
<1> SUFFICES ASSUME IInv, [Next]_vars PROVE IInv'
  OBVIOUS
<1>1. ASSUME NEW u \in Node, NEW v \in Node,
             \/ InsertTrivial(u, v) \/ InsertOrdered(u, v) \/ InsertReversed(u, v)
             \/ RemoveEdge(u, v)
             \/ ReachTrivial(u, v) \/ ReachSearch(u, v)
             \/ ContractEdge(u, v)
      PROVE  IInv'
  BY <1>1, InsertTrivialInv, InsertOrderedInv, InsertReversedInv, RemoveEdgeInv,
     ReachTrivialInv, ReachSearchInv, ContractEdgeInv
<1>2. ASSUME NEW n \in Node, Forward(n) \/ Backward(n)
      PROVE  IInv'
  BY <1>2, ForwardInvStep, BackwardInvStep
<1>3. ASSUME \/ InsertRefused \/ StartBackward \/ Reorder
             \/ ReachReturns
             \/ ContractRefused \/ StartMerge \/ ContractReturns
      PROVE  IInv'
  BY <1>3, InsertRefusedInv, StartBackwardInv, ReorderInv, ReachReturnsInv,
     ContractRefusedInv, StartMergeInv, ContractReturnsInv
<1>4. CASE UNCHANGED vars
  BY <1>4 DEF vars, graph, scratch, call, IInv, TypeOK, Mirrored, CallInv, AtRest,
              Searching, Present, RankInv, MarkInv, ForwardInv, BackwardInv
<1> QED
  BY <1>1, <1>2, <1>3, <1>4 DEF Next, Step

(* The inductive invariant: wherever a search stands, it has marked what   *)
(* it listed, stays between the ranks of the two nodes of the new edge,    *)
(* and has listed or stacked every neighbour that it has to move.          *)
THEOREM Invariance == Spec => []IInv
<1>1. Init => IInv
  BY InitIInv
<1>2. IInv /\ [Next]_vars => IInv'
  BY NextIInv
<1> QED
  BY <1>1, <1>2, PTL DEF Spec

(* The invariant of Pearce and Kelly, for graphs of any size: InsertEdge   *)
(* and ContractEdge leave distinct ranks that every edge ascends.          *)
THEOREM RanksAscend == Spec => []Ranked
<1>1. IInv => Ranked
  <2> SUFFICES ASSUME IInv PROVE Ranked
    OBVIOUS
  <2>1. ASSUME AtRest, NEW e \in Edges PROVE rank[e[1]] < rank[e[2]]
    BY <2>1, RestFacts DEF Edges
  <2> QED BY <2>1 DEF Ranked, IInv, RankInv
<1> QED
  BY <1>1, Invariance, PTL

(* No return of a search, early or not, leaves a mark that would hide a    *)
(* node from the next search.                                              *)
THEOREM NoMarkStays == Spec => []MarksCleared
<1>1. IInv => MarksCleared
  BY RestFacts DEF MarksCleared
<1> QED
  BY <1>1, Invariance, PTL

(* The two ends of every edge agree, and a merged node has no edges.       *)
THEOREM EdgesMirrored == Spec => []Mirrored
<1>1. IInv => Mirrored
  BY DEF IInv
<1> QED
  BY <1>1, Invariance, PTL

(* Between calls the graph has no cycle: the nodes above an edge's head in *)
(* rank are a set that no edge leaves and that does not hold its tail.     *)
THEOREM NoCycle == Spec => []NeverCyclic
<1>1. ASSUME IInv, pc = "idle" PROVE Promise!Acyclic
  <2> SUFFICES ASSUME NEW e \in EdgesBar PROVE ~Promise!Reaches(EdgesBar, e[2], e[1])
    BY DEF Promise!Acyclic
  <2>1. EdgesBar = Edges /\ AtRest
    BY <1>1 DEF EdgesBar, AtRest
  <2>2. \A d \in Edges : /\ d[1] \in Node /\ d[2] \in Node
                         /\ rank[d[1]] < rank[d[2]]
    BY <1>1, <2>1, RestFacts DEF Edges
  <2> DEFINE Above == {n \in Node : rank[e[1]] < rank[n]}
  <2>3. \A n \in Node : rank[n] \in Nat
    BY <1>1, NodesAreNats DEF IInv, TypeOK
  <2>4. e[2] \in Above /\ e[1] \notin Above
    BY <2>1, <2>2, <2>3
  <2>5. Promise!Closed(EdgesBar, Above)
    BY <2>1, <2>2, <2>3 DEF Promise!Closed
  <2>6. Above \in SUBSET Promise!Node
    BY DEF Promise!Node, Node
  <2> HIDE DEF Above
  <2> QED BY <2>4, <2>5, <2>6 DEF Promise!Reaches
<1>2. IInv => NeverCyclic
  BY <1>1 DEF NeverCyclic
<1> QED
  BY <1>2, Invariance, PTL

-----------------------------------------------------------------------------
(* Paths.  Reaches speaks of closed sets, so that no induction is needed:  *)
(* a set that no edge of E leaves shows that there is no path out of it.   *)

LEMMA ReachesSelf ==
  ASSUME NEW E, NEW u
  PROVE  Promise!Reaches(E, u, u)
  BY DEF Promise!Reaches

LEMMA ReachesOn ==
  ASSUME NEW E, NEW u, NEW v, NEW w, Promise!Reaches(E, u, v), <<v, w>> \in E
  PROVE  Promise!Reaches(E, u, w)
<1> SUFFICES ASSUME NEW S \in SUBSET Promise!Node, u \in S, Promise!Closed(E, S)
             PROVE  w \in S
  BY DEF Promise!Reaches
<1>1. v \in S
  BY DEF Promise!Reaches
<1> QED
  BY <1>1 DEF Promise!Closed

LEMMA ReachesInMore ==
  ASSUME NEW E, NEW F, E \subseteq F, NEW u, NEW v, Promise!Reaches(E, u, v)
  PROVE  Promise!Reaches(F, u, v)
<1> SUFFICES ASSUME NEW S \in SUBSET Promise!Node, u \in S, Promise!Closed(F, S)
             PROVE  v \in S
  BY DEF Promise!Reaches
<1>1. Promise!Closed(E, S)
  BY DEF Promise!Closed
<1> QED
  BY <1>1 DEF Promise!Reaches

LEMMA Cut ==
  ASSUME NEW E, NEW S \in SUBSET Node, NEW u \in S, NEW v, v \notin S,
         \A e \in E : e[1] \in S => e[2] \in S
  PROVE  ~Promise!Reaches(E, u, v)
<1>1. Promise!Closed(E, S)
  BY DEF Promise!Closed
<1>2. S \in SUBSET Promise!Node
  BY DEF Promise!Node, Node
<1> QED
  BY <1>1, <1>2 DEF Promise!Reaches

(* No path leads down when every edge leads up.                            *)
LEMMA NoPathDown ==
  ASSUME NEW h \in [Node -> Nat], NEW E \in SUBSET (Node \X Node),
         \A e \in E : h[e[1]] < h[e[2]],
         NEW u \in Node, NEW v \in Node, h[v] < h[u]
  PROVE  ~Promise!Reaches(E, u, v)
<1> DEFINE Above == {n \in Node : h[u] =< h[n]}
<1>1. \A n \in Node : h[n] \in Nat
  OBVIOUS
<1>2. u \in Above /\ v \notin Above
  BY <1>1
<1>3. \A e \in E : e[1] \in Above => e[2] \in Above
  <2> TAKE e \in E
  <2>1. e[1] \in Node /\ e[2] \in Node /\ h[e[1]] < h[e[2]]
    OBVIOUS
  <2> QED BY <1>1, <2>1
<1>4. Above \in SUBSET Node
  OBVIOUS
<1> HIDE DEF Above
<1> QED
  BY <1>2, <1>3, <1>4, Cut

LEMMA NoPathBack ==
  ASSUME NEW h \in [Node -> Nat], NEW E \in SUBSET (Node \X Node),
         \A e \in E : h[e[1]] < h[e[2]],
         NEW e \in E
  PROVE  ~Promise!Reaches(E, e[2], e[1])
<1>1. e[1] \in Node /\ e[2] \in Node /\ h[e[1]] < h[e[2]]
  OBVIOUS
<1> QED
  BY <1>1, NoPathDown

(* Merging two nodes that no path connects closes no cycle.  The nodes     *)
(* below them go above the merged node, all others stay below it.          *)
LEMMA MergeAcyclic ==
  ASSUME NEW r \in [Node -> Node], NEW E \in SUBSET (Node \X Node),
         \A e \in E : r[e[1]] < r[e[2]],
         NEW a \in Node, NEW b \in Node, r[a] < r[b],
         ~Promise!Reaches(E, a, b),
         NEW keep \in {a, b}, NEW drop \in {a, b}, keep # drop
  PROVE  \A e \in Promise!Merge(E, drop, keep) :
           ~Promise!Reaches(Promise!Merge(E, drop, keep), e[2], e[1])
<1> DEFINE Below == {n \in Node \ {a, b} : \/ Promise!Reaches(E, a, n)
                                           \/ Promise!Reaches(E, b, n)}
           h == [n \in Node |-> IF n = keep THEN NumNodes
                                ELSE IF n \in Below THEN NumNodes + 1 + r[n]
                                ELSE r[n]]
           m(n) == IF n = drop THEN keep ELSE n
<1>1. \A n \in Node : r[n] \in Nat /\ r[n] < NumNodes
  <2>1. \A k \in Node : k \in Nat /\ k < NumNodes
    BY GraphCyclesAssumption DEF Node
  <2> QED BY <2>1
<1>2. r \in [Node -> Nat]
  BY <1>1
<1>3. /\ h \in [Node -> Nat] /\ NumNodes \in Nat
      /\ h[keep] = NumNodes
      /\ \A n \in Below : n \in Node /\ h[n] = NumNodes + 1 + r[n]
      /\ \A n \in Node : n \notin {a, b} /\ n \notin Below => h[n] = r[n]
  BY <1>1, GraphCyclesAssumption
<1>4. \A n \in Node : Promise!Reaches(E, a, n) => r[a] =< r[n]
  <2> TAKE n \in Node
  <2>1. r[n] < r[a] => ~Promise!Reaches(E, a, n)
    BY <1>2, NoPathDown
  <2> QED BY <1>1, <2>1
<1>5. \A n \in Node : Promise!Reaches(E, b, n) => r[b] =< r[n]
  <2> TAKE n \in Node
  <2>1. r[n] < r[b] => ~Promise!Reaches(E, b, n)
    BY <1>2, NoPathDown
  <2> QED BY <1>1, <2>1
<1>6. ASSUME NEW p \in Node, NEW q \in Node, <<p, q>> \in E,
             Promise!Reaches(E, a, p) \/ Promise!Reaches(E, b, p)
      PROVE  q \in Below
  <2>1. r[p] < r[q]
    <3>1. r[<<p, q>>[1]] < r[<<p, q>>[2]]
      BY <1>6
    <3> QED BY <3>1
  <2>2. \/ Promise!Reaches(E, a, q) /\ r[a] =< r[p]
        \/ Promise!Reaches(E, b, q) /\ r[b] =< r[p]
    BY <1>4, <1>5, <1>6, ReachesOn
  <2>3. r[a] < r[q] /\ q # a
    BY <1>1, <2>1, <2>2
  <2>4. q # b
    <3>1. CASE Promise!Reaches(E, a, q)
      BY <3>1
    <3>2. CASE Promise!Reaches(E, b, q) /\ r[b] =< r[p]
      BY <1>1, <2>1, <3>2
    <3> QED BY <2>2, <3>1, <3>2
  <2> QED BY <2>2, <2>3, <2>4
<1>7. ASSUME NEW p \in Node, NEW q \in Node, <<p, q>> \in E
      PROVE  m(p) \in Node /\ m(q) \in Node /\ h[m(p)] < h[m(q)]
  <2>1. r[p] < r[q]
    <3>1. r[<<p, q>>[1]] < r[<<p, q>>[2]]
      BY <1>7
    <3> QED BY <3>1
  <2>2. m(p) \in Node /\ m(q) \in Node
    OBVIOUS
  <2>3. \A n \in Node : /\ n \in {a, b} => m(n) = keep
                        /\ n \notin {a, b} => m(n) = n
    OBVIOUS
  <2>4. \A n \in Below : n \notin {a, b}
    OBVIOUS
  <2>5. CASE p \in {a, b}
    <3>1. q \in Below
      BY <1>6, <1>7, <2>5, ReachesSelf
    <3>2. m(p) = keep /\ m(q) = q
      BY <2>3, <2>4, <2>5, <3>1
    <3> HIDE DEF h, m, Below
    <3> QED BY <1>1, <1>3, <2>2, <3>1, <3>2
  <2>6. CASE p \in Below
    <3>1. q \in Below
      BY <1>6, <1>7, <2>6
    <3>2. m(p) = p /\ m(q) = q
      BY <2>3, <2>4, <2>6, <3>1
    <3> HIDE DEF h, m, Below
    <3> QED BY <1>1, <1>3, <2>1, <2>2, <2>6, <3>1, <3>2
  <2>7. CASE p \notin {a, b} /\ p \notin Below
    <3>1. m(p) = p /\ h[p] = r[p]
      BY <1>3, <2>3, <2>7
    <3>2. CASE q \in {a, b}
      <4>1. m(q) = keep
        BY <2>3, <3>2
      <4> HIDE DEF h, m, Below
      <4> QED BY <1>1, <1>3, <2>2, <3>1, <4>1
    <3>3. CASE q \in Below
      <4>1. m(q) = q
        BY <2>3, <2>4, <3>3
      <4> HIDE DEF h, m, Below
      <4> QED BY <1>1, <1>3, <2>2, <3>1, <3>3, <4>1
    <3>4. CASE q \notin {a, b} /\ q \notin Below
      <4>1. m(q) = q /\ h[q] = r[q]
        BY <1>3, <2>3, <3>4
      <4> HIDE DEF h, m, Below
      <4> QED BY <2>1, <2>2, <3>1, <4>1
    <3> QED BY <3>2, <3>3, <3>4
  <2> QED BY <2>5, <2>6, <2>7
<1> DEFINE M == Promise!Merge(E, drop, keep)
<1>8. \A e \in M : e \in Node \X Node /\ h[e[1]] < h[e[2]]
  <2> TAKE e \in M
  <2>1. PICK d \in E : e = <<m(d[1]), m(d[2])>>
    BY DEF Promise!Merge
  <2>2. d[1] \in Node /\ d[2] \in Node /\ d = <<d[1], d[2]>>
    OBVIOUS
  <2> HIDE DEF h, m, M
  <2> QED BY <1>7, <2>1, <2>2
<1> HIDE DEF h, M
<1>9. M \in SUBSET (Node \X Node)
  BY <1>8
<1>10. \A e \in M : ~Promise!Reaches(M, e[2], e[1])
  BY <1>3, <1>8, <1>9, NoPathBack
<1> QED
  BY <1>10 DEF M

-----------------------------------------------------------------------------
(* What a search is about, and where it stands: it has listed and stacked  *)
(* only nodes that its source reaches, and it has not passed its target.   *)
(* For InsertEdge it runs in the graph without the new edge.               *)

Source == IF op = "insert" THEN y ELSE x
Target == IF op = "insert" THEN x ELSE y
Searched == IF op = "insert" THEN Edges \ {<<x, y>>} ELSE Edges

SearchInv ==
    /\ pc = "forward" =>
         /\ Source \in deltaf \cup stack
         /\ \A n \in deltaf \cup stack :
              rank[n] < rank[Target] /\ Promise!Reaches(Searched, Source, n)
         /\ \A n \in deltaf : \A w \in out[n] :
              rank[w] > rank[Target] \/ w \in deltaf \cup stack
    /\ pc = "found" => Promise!Reaches(Searched, Source, Target)

(* While a client's call searches, the client's view is the graph without  *)
(* the edge that InsertEdge adds, or with the one that ContractEdge took.  *)
HistoryInv ==
    kept = None /\ Searching =>
        /\ before.edges = IF op = "contract" THEN Edges \cup {<<x, y>>} ELSE Searched
        /\ before.removed = freeNodes
        /\ op = "contract" => <<x, y>> \notin Edges

(* While ContractEdge moves edges: together with those it has still to     *)
(* insert, the edges are those of the merged graph, which has no cycle.    *)
Contracted(a, b) ==
    LET drop == IF kept = a THEN b ELSE a
        rest == before.edges \ {<<a, b>>}
    IN  /\ <<a, b>> \in before.edges /\ ~Promise!Reaches(rest, a, b)
        /\ kept \in {a, b}
        /\ freeNodes = before.removed \cup {drop}
        /\ Edges \cup pending = Promise!Merge(rest, drop, kept)

MergeInv ==
    kept # None =>
        /\ op \in {"none", "insert"}
        /\ \E a, b \in Node : Contracted(a, b)
        /\ \A e \in Edges \cup pending : ~Promise!Reaches(Edges \cup pending, e[2], e[1])

CInv == SearchInv /\ HistoryInv /\ MergeInv

LEMMA EdgeFacts ==
  ASSUME TypeOK
  PROVE  /\ Edges \in SUBSET (Node \X Node)
         /\ \A u, v \in Node : <<u, v>> \in Edges <=> v \in out[u]
         /\ \A u \in Node : \A v \in out[u] : v \in Node /\ <<u, v>> \in Edges
         /\ rank \in [Node -> Nat]
  BY NodesAreNats DEF TypeOK, Edges

LEMMA RestAscends ==
  ASSUME IInv, AtRest
  PROVE  \A e \in Edges : rank[e[1]] < rank[e[2]]
  BY RestFacts DEF Edges

LEMMA SearchedFacts ==
  ASSUME IInv
  PROVE  /\ Searched \in SUBSET Edges
         /\ \A e \in Searched : rank[e[1]] < rank[e[2]]
<1>1. ASSUME NEW e \in Searched PROVE rank[e[1]] < rank[e[2]]
  <2>1. e[1] \in Node /\ e[2] \in out[e[1]] /\ e = <<e[1], e[2]>>
    BY EdgeFacts DEF Searched, IInv, Edges
  <2>2. ~(op = "insert" /\ e[1] = x /\ e[2] = y)
    BY <2>1 DEF Searched
  <2> QED BY <2>1, <2>2 DEF IInv, RankInv
<1> QED
  BY <1>1 DEF Searched

(* A search that has emptied its stack has listed all that its source      *)
(* reaches below the rank of its target, and has not met the target.       *)
LEMMA Exhausted ==
  ASSUME IInv, CInv, pc = "forward", stack = {}
  PROVE  ~Promise!Reaches(Searched, Source, Target)
<1> DEFINE S == deltaf \cup {n \in Node : rank[n] > rank[Target]}
<1>1. x \in Node /\ y \in Node /\ Target \in Node /\ Source \in Node
  BY DEF IInv, CallInv, Searching, Present, Target, Source
<1>2. \A n \in Node : rank[n] \in Nat
  BY EdgeFacts DEF IInv
<1>3. /\ Source \in deltaf
      /\ \A n \in deltaf : n \in Node /\ rank[n] < rank[Target]
      /\ \A n \in deltaf : \A w \in out[n] : rank[w] > rank[Target] \/ w \in deltaf
  BY DEF CInv, SearchInv, IInv, TypeOK
<1>4. Source \in S /\ Target \notin S /\ S \in SUBSET Node
  BY <1>1, <1>2, <1>3
<1>5. \A e \in Searched : e[1] \in S => e[2] \in S
  <2> TAKE e \in Searched
  <2>1. rank[e[1]] < rank[e[2]] /\ e \in Edges
    BY SearchedFacts
  <2>2. e[1] \in Node /\ e[2] \in Node /\ e[2] \in out[e[1]]
    BY <2>1, EdgeFacts DEF IInv, Edges
  <2> QED BY <1>1, <1>2, <1>3, <2>1, <2>2
<1> HIDE DEF S
<1> QED
  BY <1>4, <1>5, Cut

LEMMA BothExhausted ==
  ASSUME IInv, pc = "backward"
  PROVE  ~Promise!Reaches(Searched, y, x)
<1> DEFINE S == deltaf \cup {n \in Node : rank[n] > rank[x]}
<1>1. x \in Node /\ y \in Node /\ op = "insert"
  BY DEF IInv, CallInv, Searching, Present
<1>2. \A n \in Node : rank[n] \in Nat
  BY EdgeFacts DEF IInv
<1>3. /\ y \in deltaf
      /\ \A n \in deltaf : n \in Node /\ rank[n] < rank[x]
      /\ \A n \in deltaf : \A w \in out[n] : rank[w] > rank[x] \/ w \in deltaf
  BY <1>1 DEF IInv, TypeOK, ForwardInv, BackwardInv
<1>4. y \in S /\ x \notin S /\ S \in SUBSET Node
  BY <1>1, <1>2, <1>3
<1>5. \A e \in Searched : e[1] \in S => e[2] \in S
  <2> TAKE e \in Searched
  <2>1. rank[e[1]] < rank[e[2]] /\ e \in Edges
    BY SearchedFacts
  <2>2. e[1] \in Node /\ e[2] \in Node /\ e[2] \in out[e[1]]
    BY <2>1, EdgeFacts DEF IInv, Edges
  <2> QED BY <1>1, <1>2, <1>3, <2>1, <2>2
<1> HIDE DEF S
<1> QED
  BY <1>4, <1>5, Cut

(* A search that InsertEdge makes for ContractEdge never meets its target: *)
(* with the path it found, the new edge would close a cycle.               *)
LEMMA NeverFoundInMerge ==
  ASSUME IInv, CInv, kept # None
  PROVE  pc # "found"
<1> SUFFICES ASSUME pc = "found" PROVE FALSE
  OBVIOUS
<1>1. op = "insert" /\ x \in Node /\ y \in out[x]
  BY DEF IInv, CallInv, Searching, Present, CInv, MergeInv
<1>2. Promise!Reaches(Searched, y, x)
  BY <1>1 DEF CInv, SearchInv, Source, Target
<1>3. <<x, y>> \in Edges \cup pending
  BY <1>1, EdgeFacts DEF IInv
<1>4. ~Promise!Reaches(Edges \cup pending, <<x, y>>[2], <<x, y>>[1])
  BY <1>3 DEF CInv, MergeInv
<1>5. Searched \subseteq Edges \cup pending
  BY SearchedFacts
<1> QED
  BY <1>2, <1>4, <1>5, ReachesInMore

-----------------------------------------------------------------------------
(* CInv is preserved.  First what many actions share: a return, a start    *)
(* of a search, and a step that leaves the call's subject alone.           *)

(* How Link and Unlink change the set of edges.                            *)
LEMMA LinkedEdges ==
  ASSUME TypeOK, NEW u \in Node, NEW v \in Node, Link(u, v)
  PROVE  Edges' = Edges \cup {<<u, v>>}
<1>1. \A n \in Node : out'[n] = IF n = u THEN out[n] \cup {v} ELSE out[n]
  BY DEF Link, TypeOK
<1>2. \A e \in Node \X Node : e[2] \in out'[e[1]] <=> e[2] \in out[e[1]] \/ e = <<u, v>>
  <2> TAKE e \in Node \X Node
  <2>1. e = <<u, v>> <=> e[1] = u /\ e[2] = v
    OBVIOUS
  <2>2. e[1] \in Node
    OBVIOUS
  <2> QED BY <1>1, <2>1, <2>2
<1>3. Edges \subseteq Node \X Node /\ <<u, v>> \in Node \X Node
  BY DEF Edges
<1> QED
  BY <1>2, <1>3 DEF Edges

LEMMA UnlinkedEdges ==
  ASSUME TypeOK, NEW u \in Node, NEW v \in Node, Unlink(u, v)
  PROVE  Edges' = Edges \ {<<u, v>>}
<1>1. \A n \in Node : out'[n] = IF n = u THEN out[n] \ {v} ELSE out[n]
  BY DEF Unlink, TypeOK
<1>2. \A e \in Node \X Node : e[2] \in out'[e[1]] <=> e[2] \in out[e[1]] /\ e # <<u, v>>
  <2> TAKE e \in Node \X Node
  <2>1. e = <<u, v>> <=> e[1] = u /\ e[2] = v
    OBVIOUS
  <2>2. e[1] \in Node
    OBVIOUS
  <2> QED BY <1>1, <2>1, <2>2
<1>3. Edges \subseteq Node \X Node /\ <<u, v>> \in Node \X Node
  BY DEF Edges
<1> QED
  BY <1>2, <1>3 DEF Edges

LEMMA MergeKept ==
  ASSUME CInv, UNCHANGED <<kept, freeNodes>>,
         kept # None => /\ op' \in {"none", "insert"}
                        /\ before' = before
                        /\ Edges' \cup pending' = Edges \cup pending
  PROVE  MergeInv'
<1> SUFFICES ASSUME kept # None PROVE MergeInv'
  BY DEF MergeInv
<1>1. \A a, b \in Node : Contracted(a, b) => Contracted(a, b)'
  BY DEF Contracted
<1> QED
  BY <1>1 DEF CInv, MergeInv

LEMMA RestCInv ==
  ASSUME AtRest', MergeInv'
  PROVE  CInv'
  BY DEF CInv, SearchInv, HistoryInv, AtRest, Searching

LEMMA ReturnCInv ==
  ASSUME CInv, NEW r, Return(r), UNCHANGED <<kept, freeNodes>>,
         kept # None => Edges' \cup pending' = Edges \cup pending
  PROVE  CInv'
<1>1. AtRest' /\ op' = "none" /\ (kept # None => before' = before)
  BY DEF Return, AtRest
<1> QED
  BY <1>1, MergeKept, RestCInv

LEMMA SearchCInv ==
  ASSUME IInv, CInv, AtRest, NEW o \in {"insert", "reach", "contract"},
         NEW u \in Node, NEW v \in Node, NEW s \in Node, NEW t \in Node,
         Search(o, u, v, {s}), UNCHANGED <<rank, kept, freeNodes>>,
         <<s, t>> = IF o = "insert" THEN <<v, u>> ELSE <<u, v>>, rank[s] < rank[t],
         o # "insert" => kept = None,
         kept # None => Edges' \cup pending' = Edges \cup pending,
         kept = None => /\ o = "insert" => Edges' = Edges \cup {<<u, v>>} /\ <<u, v>> \notin Edges
                        /\ o = "reach" => Edges' = Edges
                        /\ o = "contract" => Edges' = Edges \ {<<u, v>>} /\ <<u, v>> \in Edges
  PROVE  CInv'
<1>1. /\ pc' = "forward" /\ op' = o /\ x' = u /\ y' = v
      /\ stack' = {s} /\ deltaf' = {}
      /\ before' = IF kept = None THEN [edges |-> Edges, removed |-> freeNodes]
                                  ELSE before
  BY DEF Search
<1>2. Source' = s /\ Target' = t
  BY <1>1 DEF Source, Target
<1>3. SearchInv'
  BY <1>1, <1>2, ReachesSelf DEF SearchInv
<1>4. HistoryInv'
  <2> SUFFICES ASSUME kept = None PROVE HistoryInv'
    BY DEF HistoryInv
  <2>1. before'.edges = Edges /\ before'.removed = freeNodes
    BY <1>1
  <2>2. Searched' = IF o = "insert" THEN Edges' \ {<<u, v>>} ELSE Edges'
    BY <1>1 DEF Searched
  <2>3. Edges = IF o = "contract" THEN Edges' \cup {<<u, v>>} ELSE Searched'
    BY <2>2
  <2> QED BY <1>1, <2>1, <2>3 DEF HistoryInv
<1>5. MergeInv'
  BY <1>1, MergeKept
<1> QED
  BY <1>3, <1>4, <1>5 DEF CInv

(* A step of a call that edits no edge and does not end a search.          *)
LEMMA OnwardCInv ==
  ASSUME CInv, SearchInv', Searching,
         UNCHANGED <<out, freeNodes, op, x, y, before, kept, pending>>
  PROVE  CInv'
<1>1. Edges' = Edges
  BY DEF Edges
<1>2. Searched' = Searched
  BY <1>1 DEF Searched
<1>3. HistoryInv'
  BY <1>1, <1>2 DEF CInv, HistoryInv
<1>4. MergeInv'
  BY <1>1, MergeKept DEF CInv, MergeInv
<1> QED
  BY <1>3, <1>4 DEF CInv

-----------------------------------------------------------------------------
(* CInv, action by action. *)

(* A nested InsertEdge finds its edge present, or inserts it: either way   *)
(* it becomes one of Edges.  It is no self-edge, which would be a cycle.   *)
LEMMA NestedInsert ==
  ASSUME IInv, CInv, NEW u \in Node, NEW v \in Node, InsertIsCalled(u, v), kept # None
  PROVE  /\ pc = "merge" /\ u # v
         /\ Edges \cup {<<u, v>>} \cup pending' = Edges \cup pending
<1>1. /\ pc = "merge" /\ <<u, v>> \in pending
      /\ pending' = pending \ {<<u, v>>}
  BY DEF InsertIsCalled, Leaving, IInv, CallInv
<1>2. ~Promise!Reaches(Edges \cup pending, <<u, v>>[2], <<u, v>>[1])
  BY <1>1 DEF CInv, MergeInv
<1>3. u # v
  BY <1>2, ReachesSelf
<1> QED
  BY <1>1, <1>3

LEMMA InsertTrivialCInv ==
  ASSUME IInv, CInv, NEW u \in Node, NEW v \in Node, InsertTrivial(u, v)
  PROVE  CInv'
<1>1. /\ InsertIsCalled(u, v) /\ Return([ok |-> u # v])
      /\ UNCHANGED <<out, freeNodes, kept>>
      /\ u = v \/ v \in out[u]
  BY DEF InsertTrivial, graph
<1>2. Edges' = Edges
  BY <1>1 DEF Edges
<1>3. v \in out[u] => <<u, v>> \in Edges
  BY EdgeFacts DEF IInv
<1> QED
  BY <1>1, <1>2, <1>3, NestedInsert, ReturnCInv

LEMMA InsertOrderedCInv ==
  ASSUME IInv, CInv, NEW u \in Node, NEW v \in Node, InsertOrdered(u, v)
  PROVE  CInv'
<1>1. /\ InsertIsCalled(u, v) /\ Return([ok |-> TRUE])
      /\ UNCHANGED <<freeNodes, kept>>
      /\ Link(u, v)
  BY DEF InsertOrdered
<1>2. Edges' = Edges \cup {<<u, v>>}
  BY <1>1, LinkedEdges DEF IInv
<1> QED
  BY <1>1, <1>2, NestedInsert, ReturnCInv

LEMMA InsertReversedCInv ==
  ASSUME IInv, CInv, NEW u \in Node, NEW v \in Node, InsertReversed(u, v)
  PROVE  CInv'
<1>1. /\ InsertIsCalled(u, v) /\ Search("insert", u, v, {v})
      /\ UNCHANGED <<rank, freeNodes, kept>>
      /\ Link(u, v) /\ v \notin out[u] /\ rank[v] < rank[u]
  BY NodesAreNats DEF InsertReversed, IInv, TypeOK
<1>2. Edges' = Edges \cup {<<u, v>>} /\ <<u, v>> \notin Edges
  BY <1>1, LinkedEdges, EdgeFacts DEF IInv
<1>3. AtRest
  BY <1>1, InsertArgs
<1>4. kept # None => Edges' \cup pending' = Edges \cup pending
  BY <1>1, <1>2, NestedInsert
<1> QED
  BY <1>1, <1>2, <1>3, <1>4, SearchCInv

LEMMA ClientKeptNone ==
  ASSUME IInv, pc = "idle"
  PROVE  kept = None /\ AtRest
  BY DEF IInv, CallInv, AtRest

LEMMA RemoveEdgeCInv ==
  ASSUME IInv, CInv, NEW u \in Node, NEW v \in Node, RemoveEdge(u, v)
  PROVE  CInv'
<1>1. Return(None) /\ UNCHANGED <<freeNodes, kept>> /\ kept = None
  BY ClientKeptNone DEF RemoveEdge
<1> QED
  BY <1>1, ReturnCInv

LEMMA ReachTrivialCInv ==
  ASSUME IInv, CInv, NEW u \in Node, NEW v \in Node, ReachTrivial(u, v)
  PROVE  CInv'
<1>1. Return([ok |-> u = v]) /\ UNCHANGED <<freeNodes, kept>> /\ kept = None
  BY ClientKeptNone DEF ReachTrivial, graph
<1> QED
  BY <1>1, ReturnCInv

LEMMA ReachSearchCInv ==
  ASSUME IInv, CInv, NEW u \in Node, NEW v \in Node, ReachSearch(u, v)
  PROVE  CInv'
<1>1. /\ Search("reach", u, v, {u}) /\ UNCHANGED <<rank, out, freeNodes, kept>>
      /\ kept = None /\ AtRest /\ rank[u] < rank[v]
  BY ClientKeptNone DEF ReachSearch, graph
<1>2. Edges' = Edges
  BY <1>1 DEF Edges
<1> QED
  BY <1>1, <1>2, SearchCInv

LEMMA ContractEdgeCInv ==
  ASSUME IInv, CInv, NEW u \in Node, NEW v \in Node, ContractEdge(u, v)
  PROVE  CInv'
<1>1. /\ pc = "idle" /\ v \in out[u] /\ Unlink(u, v)
      /\ UNCHANGED <<rank, freeNodes, kept>>
      /\ kept = None /\ AtRest
  BY ClientKeptNone DEF ContractEdge
<1>2. Edges' = Edges \ {<<u, v>>} /\ <<u, v>> \in Edges
  BY <1>1, UnlinkedEdges, EdgeFacts DEF IInv
<1>3. rank[u] < rank[v]
  BY <1>1, RestFacts
<1>4. Search("contract", u, v, {u})
  <2>1. ~(rank[u] >= rank[v])
    BY <1>3, EdgeFacts DEF IInv
  <2> QED BY <2>1 DEF ContractEdge
<1> QED
  BY <1>1, <1>2, <1>3, <1>4, SearchCInv

(* A step of the forward search.  A node of the target's rank is the       *)
(* target, and what the new node leads to is reached through it.           *)
LEMMA ForwardCInv ==
  ASSUME IInv, CInv, NEW n \in Node, Forward(n)
  PROVE  CInv'
<1>1. /\ pc = "forward" /\ n \in stack /\ deltab = {}
      /\ UNCHANGED <<rank, out, freeNodes, op, x, y, before, kept, pending>>
      /\ Searching
  BY DEF Forward, graph, IInv, CallInv, Searching
<1>2. /\ Source' = Source /\ Target' = Target /\ UpperBound = rank[Target]
      /\ Searched' = Searched
  BY <1>1 DEF Source, Target, UpperBound, Searched, Edges
<1>3. /\ x \in Node /\ y \in Node /\ Target \in Node
      /\ \A m \in Node : rank[m] \in Nat
      /\ out[n] \subseteq Node
      /\ op = "insert" => rank[y] < rank[x]
  BY <1>1, EdgeFacts DEF IInv, CallInv, Present, Target, TypeOK
<1>4. /\ Source \in deltaf \cup stack
      /\ \A m \in deltaf \cup stack :
           rank[m] < rank[Target] /\ Promise!Reaches(Searched, Source, m)
      /\ \A m \in deltaf : \A w \in out[m] :
           rank[w] > rank[Target] \/ w \in deltaf \cup stack
  BY <1>1 DEF CInv, SearchInv
<1>5. SearchInv'
  <2>1. CASE visited[n]
    <3>1. n \in deltaf /\ stack' = stack \ {n} /\ deltaf' = deltaf /\ pc' = pc
      BY <1>1, <2>1 DEF Forward, IInv, MarkInv
    <3> QED BY <1>1, <1>2, <1>4, <3>1 DEF SearchInv
  <2>2. CASE ~visited[n]
    <3>1. /\ deltaf' = deltaf \cup {n}
          /\ IF \E w \in out[n] : rank[w] = rank[Target]
             THEN pc' = "found" /\ UNCHANGED stack
             ELSE /\ stack' = (stack \ {n}) \cup {w \in out[n] : GoesForward(w)}
                  /\ UNCHANGED pc
      BY <1>2, <2>2 DEF Forward
    <3>2. \A w \in out[n] : Promise!Reaches(Searched, Source, w)
      <4> TAKE w \in out[n]
      <4>1. <<n, w>> \in Edges
        BY EdgeFacts DEF IInv
      <4>2. op = "insert" => n # x
        BY <1>1, <1>3, <1>4 DEF Target
      <4>3. <<n, w>> \in Searched
        BY <4>1, <4>2 DEF Searched
      <4> QED BY <1>1, <1>4, <4>3, ReachesOn
    <3>3. CASE \E w \in out[n] : rank[w] = rank[Target]
      <4>1. PICK w \in out[n] : rank[w] = rank[Target]
        BY <3>3
      <4>2. w = Target
        BY <1>3, <4>1 DEF IInv, RankInv, IsInjective, TypeOK
      <4>3. pc' = "found" /\ Promise!Reaches(Searched, Source, Target)
        BY <3>1, <3>2, <3>3, <4>2
      <4> QED BY <1>2, <4>3 DEF SearchInv
    <3>4. CASE \A w \in out[n] : rank[w] # rank[Target]
      <4>1. /\ stack' = (stack \ {n}) \cup {w \in out[n] : GoesForward(w)}
            /\ pc' = "forward"
        BY <1>1, <3>1, <3>4
      <4>2. \A w \in out[n] : GoesForward(w) <=> ~visited[w] /\ rank[w] < rank[Target]
        BY <1>2 DEF GoesForward
      <4>3. \A w \in out[n] : visited[w] <=> w \in deltaf
        BY <1>1, <1>3 DEF IInv, MarkInv
      <4>4. \A m \in deltaf' \cup stack' :
              rank[m] < rank[Target] /\ Promise!Reaches(Searched, Source, m)
        BY <1>1, <1>4, <3>1, <3>2, <4>1, <4>2
      <4>5. \A w \in out[n] : rank[w] > rank[Target] \/ w \in deltaf' \cup stack'
        BY <1>3, <3>1, <3>4, <4>1, <4>2, <4>3
      <4>6. \A m \in deltaf' : \A w \in out[m] :
              rank[w] > rank[Target] \/ w \in deltaf' \cup stack'
        BY <1>4, <3>1, <4>1, <4>5
      <4>7. Source \in deltaf' \cup stack'
        BY <1>4, <3>1, <4>1
      <4> QED BY <1>1, <1>2, <4>1, <4>4, <4>6, <4>7 DEF SearchInv
    <3> QED BY <3>3, <3>4
  <2> QED BY <2>1, <2>2
<1> QED
  BY <1>1, <1>5, OnwardCInv

LEMMA StartBackwardCInv ==
  ASSUME IInv, CInv, StartBackward
  PROVE  CInv'
<1>1. /\ pc = "forward" /\ pc' = "backward"
      /\ UNCHANGED <<out, freeNodes, op, x, y, before, kept, pending>>
  BY DEF StartBackward, graph
<1>2. SearchInv' /\ Searching
  BY <1>1 DEF SearchInv, Searching
<1> QED
  BY <1>1, <1>2, OnwardCInv

LEMMA BackwardCInv ==
  ASSUME IInv, CInv, NEW n \in Node, Backward(n)
  PROVE  CInv'
<1>1. /\ pc = "backward" /\ pc' = "backward"
      /\ UNCHANGED <<out, freeNodes, op, x, y, before, kept, pending>>
  BY DEF Backward, graph, call
<1>2. SearchInv' /\ Searching
  BY <1>1 DEF SearchInv, Searching
<1> QED
  BY <1>1, <1>2, OnwardCInv

LEMMA ReorderCInv ==
  ASSUME IInv, CInv, Reorder
  PROVE  CInv'
<1>1. Return([ok |-> TRUE]) /\ UNCHANGED <<out, freeNodes, kept, pending>>
  BY DEF Reorder
<1>2. Edges' = Edges
  BY <1>1 DEF Edges
<1> QED
  BY <1>1, <1>2, ReturnCInv

LEMMA InsertRefusedCInv ==
  ASSUME IInv, CInv, InsertRefused
  PROVE  CInv'
<1>1. Return([ok |-> FALSE]) /\ UNCHANGED <<freeNodes, kept>> /\ pc = "found"
  BY DEF InsertRefused
<1> QED
  BY <1>1, NeverFoundInMerge, ReturnCInv

(* A client's search: ContractEdge itself only inserts edges.              *)
LEMMA ClientSearch ==
  ASSUME CInv, op \in {"reach", "contract"}
  PROVE  kept = None
  BY DEF CInv, MergeInv

LEMMA ReachReturnsCInv ==
  ASSUME IInv, CInv, ReachReturns
  PROVE  CInv'
<1>1. Return([ok |-> pc = "found"]) /\ UNCHANGED <<freeNodes, kept>> /\ kept = None
  BY ClientSearch DEF ReachReturns, graph
<1> QED
  BY <1>1, ReturnCInv

LEMMA ContractRefusedCInv ==
  ASSUME IInv, CInv, ContractRefused
  PROVE  CInv'
<1>1. Return(None) /\ UNCHANGED <<freeNodes, kept>> /\ kept = None
  BY ClientSearch DEF ContractRefused
<1> QED
  BY <1>1, ReturnCInv

(* What StartMerge leaves in the graph and what it still has to insert are *)
(* together the edges of the merged graph.                                 *)
LEMMA MergedEdges ==
  ASSUME IInv, NEW drop \in Node, NEW keep \in Node, drop # keep,
         \A e \in Edges : e[1] # e[2],
         out' = [n \in Node |-> IF n = drop THEN {} ELSE out[n] \ {drop}]
  PROVE  Edges' \cup EdgesOf(drop, keep) = Promise!Merge(Edges, drop, keep)
<1> DEFINE m(n) == IF n = drop THEN keep ELSE n
           M == Promise!Merge(Edges, drop, keep)
<1>1. \A e \in Node \X Node :
        e \in Edges' <=> e \in Edges /\ e[1] # drop /\ e[2] # drop
  BY DEF Edges
<1>2. Edges' \subseteq Node \X Node
  BY DEF Edges
<1>3. \A n \in Node : /\ n \in out[drop] <=> <<drop, n>> \in Edges
                      /\ n \in in[drop] <=> <<n, drop>> \in Edges
  BY EdgeFacts DEF IInv, Mirrored
<1>4. out[drop] \subseteq Node /\ in[drop] \subseteq Node
  BY DEF IInv, TypeOK
<1>5. \A d \in Edges : <<m(d[1]), m(d[2])>> \in M
  BY DEF Promise!Merge
<1>6. \A e \in M : \E d \in Edges : e = <<m(d[1]), m(d[2])>>
  BY DEF Promise!Merge
<1>7. \A d \in Edges : d[1] \in Node /\ d[2] \in Node /\ d = <<d[1], d[2]>>
  BY EdgeFacts DEF IInv
<1> HIDE DEF M
<1>8. ASSUME NEW e \in Edges' PROVE e \in M
  <2>1. e \in Edges /\ e[1] # drop /\ e[2] # drop /\ e = <<e[1], e[2]>>
    BY <1>1, <1>2, <1>7
  <2> QED BY <1>5, <2>1
<1>9. ASSUME NEW e \in EdgesOf(drop, keep) PROVE e \in M
  <2>1. CASE \E w \in out[drop] : e = <<keep, w>>
    <3>1. PICK w \in out[drop] : e = <<keep, w>>
      BY <2>1
    <3>2. <<drop, w>> \in Edges
      BY <1>3, <1>4
    <3>3. <<m(<<drop, w>>[1]), m(<<drop, w>>[2])>> \in M
      BY <1>5, <3>2
    <3>4. w # drop
      BY <3>2
    <3> QED BY <3>1, <3>3, <3>4
  <2>2. CASE \E w \in in[drop] : e = <<w, keep>>
    <3>1. PICK w \in in[drop] : e = <<w, keep>>
      BY <2>2
    <3>2. <<w, drop>> \in Edges
      BY <1>3, <1>4
    <3>3. <<m(<<w, drop>>[1]), m(<<w, drop>>[2])>> \in M
      BY <1>5, <3>2
    <3>4. w # drop
      BY <3>2
    <3> QED BY <3>1, <3>3, <3>4
  <2> QED BY <2>1, <2>2 DEF EdgesOf
<1>10. ASSUME NEW e \in M PROVE e \in Edges' \cup EdgesOf(drop, keep)
  <2>1. PICK d \in Edges : e = <<m(d[1]), m(d[2])>>
    BY <1>6
  <2>2. d[1] \in Node /\ d[2] \in Node /\ d = <<d[1], d[2]>> /\ d[1] # d[2]
    BY <1>7
  <2>3. CASE d[1] = drop
    <3>1. d[2] \in out[drop] /\ e = <<keep, d[2]>>
      BY <1>3, <2>1, <2>2, <2>3
    <3> QED BY <3>1 DEF EdgesOf
  <2>4. CASE d[2] = drop
    <3>1. d[1] \in in[drop] /\ e = <<d[1], keep>>
      BY <1>3, <2>1, <2>2, <2>4
    <3> QED BY <3>1 DEF EdgesOf
  <2>5. CASE d[1] # drop /\ d[2] # drop
    <3>1. e = d
      BY <2>1, <2>2, <2>5
    <3> QED BY <1>1, <2>2, <2>5, <3>1
  <2> QED BY <2>3, <2>4, <2>5
<1> HIDE DEF m
<1> QED
  BY <1>8, <1>9, <1>10 DEF M

LEMMA StartMergeCInv ==
  ASSUME IInv, CInv, StartMerge
  PROVE  CInv'
<1> DEFINE drop == IF Degree(y) > Degree(x) THEN x ELSE y
           keep == IF drop = x THEN y ELSE x
<1>1. /\ pc = "forward" /\ stack = {} /\ op = "contract"
      /\ pc' = "merge" /\ op' = "none" /\ before' = before
      /\ kept' = keep /\ freeNodes' = freeNodes \cup {drop}
      /\ pending' = EdgesOf(drop, keep)
      /\ out' = [n \in Node |-> IF n = drop THEN {} ELSE out[n] \ {drop}]
  BY DEF StartMerge
<1>2. /\ x \in Node /\ y \in Node /\ rank[x] < rank[y] /\ x # y
      /\ kept = None /\ Searching
  <2>1. x \in Node /\ y \in Node /\ rank[x] < rank[y] /\ Searching
    BY <1>1 DEF IInv, CallInv, Present, Searching
  <2>2. rank[x] \in Nat
    BY <2>1, EdgeFacts DEF IInv
  <2> QED BY <1>1, <2>1, <2>2, ClientSearch
<1>3. drop \in {x, y} /\ keep \in {x, y} /\ drop # keep /\ drop = IF keep = x THEN y ELSE x
  BY <1>2
<1> HIDE DEF drop, keep
<1>4. Searched = Edges /\ Source = x /\ Target = y
  BY <1>1 DEF Searched, Source, Target
<1>5. \A e \in Edges : rank[e[1]] < rank[e[2]]
  BY <1>4, SearchedFacts
<1>6. ~Promise!Reaches(Edges, x, y)
  BY <1>1, <1>4, Exhausted
<1>7. before.edges \ {<<x, y>>} = Edges /\ before.removed = freeNodes
      /\ <<x, y>> \in before.edges
  BY <1>1, <1>2 DEF CInv, HistoryInv
<1>8. Edges' \cup pending' = Promise!Merge(Edges, drop, keep)
  <2>1. \A e \in Edges : e[1] # e[2]
    <3> TAKE e \in Edges
    <3>1. e[1] \in Node /\ rank[e[1]] \in Nat /\ rank[e[1]] < rank[e[2]]
      BY <1>5, EdgeFacts DEF IInv
    <3> QED BY <3>1
  <2> QED BY <1>1, <1>2, <1>3, <2>1, MergedEdges
<1>9. \E a, b \in Node : Contracted(a, b)'
  <2> PICK a \in Node, b \in Node : a = x /\ b = y
    BY <1>2
  <2>1. /\ <<a, b>> \in before'.edges /\ ~Promise!Reaches(before'.edges \ {<<a, b>>}, a, b)
        /\ kept' \in {a, b}
        /\ freeNodes' = before'.removed \cup {drop}
        /\ drop = IF kept' = a THEN b ELSE a
        /\ Edges' \cup pending' = Promise!Merge(before'.edges \ {<<a, b>>}, drop, kept')
    BY <1>1, <1>3, <1>6, <1>7, <1>8
  <2>2. Contracted(a, b)'
    BY <2>1 DEF Contracted
  <2> QED BY <2>2
<1>10. \A e \in Edges' \cup pending' : ~Promise!Reaches(Edges' \cup pending', e[2], e[1])
  <2>1. rank \in [Node -> Node] /\ Edges \in SUBSET (Node \X Node)
    BY EdgeFacts DEF IInv, TypeOK
  <2>2. \A e \in Promise!Merge(Edges, drop, keep) :
           ~Promise!Reaches(Promise!Merge(Edges, drop, keep), e[2], e[1])
    BY <1>2, <1>3, <1>5, <1>6, <2>1, MergeAcyclic
  <2> QED BY <1>8, <2>2
<1>11. MergeInv'
  BY <1>1, <1>2, <1>9, <1>10 DEF MergeInv
<1>12. AtRest'
  BY <1>1 DEF AtRest
<1> QED
  BY <1>11, <1>12, RestCInv

LEMMA ContractReturnsCInv ==
  ASSUME IInv, CInv, ContractReturns
  PROVE  CInv'
<1>1. AtRest' /\ MergeInv'
  BY DEF ContractReturns, AtRest, MergeInv
<1> QED
  BY <1>1, RestCInv

LEMMA NextCInv == IInv /\ CInv /\ [Next]_vars => CInv'
<1> SUFFICES ASSUME IInv, CInv, [Next]_vars PROVE CInv'
  OBVIOUS
<1>1. ASSUME NEW u \in Node, NEW v \in Node,
             \/ InsertTrivial(u, v) \/ InsertOrdered(u, v) \/ InsertReversed(u, v)
             \/ RemoveEdge(u, v)
             \/ ReachTrivial(u, v) \/ ReachSearch(u, v)
             \/ ContractEdge(u, v)
      PROVE  CInv'
  BY <1>1, InsertTrivialCInv, InsertOrderedCInv, InsertReversedCInv, RemoveEdgeCInv,
     ReachTrivialCInv, ReachSearchCInv, ContractEdgeCInv
<1>2. ASSUME NEW n \in Node, Forward(n) \/ Backward(n)
      PROVE  CInv'
  BY <1>2, ForwardCInv, BackwardCInv
<1>3. ASSUME \/ InsertRefused \/ StartBackward \/ Reorder
             \/ ReachReturns
             \/ ContractRefused \/ StartMerge \/ ContractReturns
      PROVE  CInv'
  BY <1>3, InsertRefusedCInv, StartBackwardCInv, ReorderCInv, ReachReturnsCInv,
     ContractRefusedCInv, StartMergeCInv, ContractReturnsCInv
<1>4. CASE UNCHANGED vars
  <2>1. UNCHANGED <<rank, out, freeNodes, deltaf, stack, pc, op, x, y, before, kept, pending>>
    BY <1>4 DEF vars, graph, scratch, call
  <2>2. UNCHANGED <<Edges, Source, Target>>
    BY <2>1 DEF Edges, Source, Target
  <2>3. UNCHANGED Searched
    BY <2>1, <2>2 DEF Searched
  <2>4. SearchInv' /\ HistoryInv'
    BY <2>1, <2>2, <2>3 DEF CInv, SearchInv, HistoryInv, Searching
  <2>5. MergeInv'
    BY <2>1, <2>2, MergeKept DEF CInv, MergeInv
  <2> QED BY <2>4, <2>5 DEF CInv
<1> QED
  BY <1>1, <1>2, <1>3, <1>4 DEF Next, Step

LEMMA InitCInv == Init => CInv
  BY DEF Init, CInv, SearchInv, HistoryInv, MergeInv, Searching

(* The second inductive invariant: what a search has shown so far, what    *)
(* the client's view of the graph is while a call runs, and what           *)
(* ContractEdge has still to insert.                                       *)
THEOREM CallInvariance == Spec => [](IInv /\ CInv)
<1>1. Init => IInv /\ CInv
  BY InitIInv, InitCInv
<1>2. IInv /\ CInv /\ [Next]_vars => IInv' /\ CInv'
  BY NextIInv, NextCInv
<1> QED
  BY <1>1, <1>2, PTL DEF Spec

(* ContractEdge may ignore what its InsertEdge calls return: none of the   *)
(* edges that it moves closes a cycle, so that none is lost.               *)
THEOREM NoMovedEdgeRefused == Spec => []MergeNeverRefused
<1>1. IInv /\ CInv => MergeNeverRefused
  BY NeverFoundInMerge DEF MergeNeverRefused
<1> QED
  BY <1>1, CallInvariance, PTL

-----------------------------------------------------------------------------
(* GraphCycles implements Dag: the return of a client's call is the step   *)
(* of the call, every other step changes nothing that a client can see.    *)

View == <<EdgesBar, RemovedBar, result>>

LEMMA IdleView ==
  ASSUME pc = "idle"
  PROVE  EdgesBar = Edges /\ RemovedBar = freeNodes /\ Promise!Present = Present
  BY DEF EdgesBar, RemovedBar, Promise!Present, Promise!Node, Present, Node

LEMMA BusyView ==
  ASSUME pc # "idle"
  PROVE  EdgesBar = before.edges /\ RemovedBar = before.removed
  BY DEF EdgesBar, RemovedBar

(* What a client sees at the return of its call.                           *)
LEMMA ReturnView ==
  ASSUME NEW r, Return(r), kept = None, UNCHANGED freeNodes
  PROVE  EdgesBar' = Edges' /\ RemovedBar' = freeNodes /\ result' = r
  BY DEF Return, EdgesBar, RemovedBar

LEMMA NestedReturnView ==
  ASSUME NEW r, Return(r), kept # None, pc # "idle"
  PROVE  UNCHANGED View
  BY DEF Return, EdgesBar, RemovedBar, View

LEMMA SearchView ==
  ASSUME IInv, NEW o, NEW u, NEW v, NEW s, Search(o, u, v, s), AtRest
  PROVE  UNCHANGED View
  BY DEF Search, EdgesBar, RemovedBar, View, IInv, CallInv, AtRest

LEMMA OnwardView ==
  ASSUME pc # "idle", pc' # "idle", UNCHANGED <<before, result>>
  PROVE  UNCHANGED View
  BY DEF EdgesBar, RemovedBar, View

(* What a client sees while its search runs.                               *)
LEMMA ClientSearchView ==
  ASSUME IInv, CInv, kept = None, Searching
  PROVE  /\ EdgesBar = IF op = "contract" THEN Edges \cup {<<x, y>>} ELSE Searched
         /\ RemovedBar = freeNodes
         /\ x \in Promise!Present /\ y \in Promise!Present
         /\ x \in Promise!Node /\ y \in Promise!Node
<1>1. /\ EdgesBar = IF op = "contract" THEN Edges \cup {<<x, y>>} ELSE Searched
      /\ RemovedBar = freeNodes
  BY BusyView DEF CInv, HistoryInv, Searching
<1>2. x \in Present /\ y \in Present
  BY DEF IInv, CallInv
<1> QED
  BY <1>1, <1>2 DEF Promise!Present, Promise!Node, Present, Node

LEMMA ExactNodes == Promise!Node = Node
  BY DEF Promise!Node, Node

(* Without a search: the ranks tell that there is no path.                 *)
LEMMA RanksTell ==
  ASSUME IInv, AtRest, NEW u \in Node, NEW v \in Node, rank[u] < rank[v]
  PROVE  ~Promise!Reaches(Edges, v, u)
<1>1. rank \in [Node -> Nat] /\ Edges \in SUBSET (Node \X Node)
  BY EdgeFacts DEF IInv
<1> QED
  BY <1>1, RestAscends, NoPathDown

LEMMA DistinctRanks ==
  ASSUME IInv, NEW u \in Node, NEW v \in Node, u # v
  PROVE  rank[u] \in Nat /\ rank[v] \in Nat /\ rank[u] # rank[v]
  BY NodesAreNats DEF IInv, TypeOK, RankInv, IsInjective

LEMMA InsertTrivialRefines ==
  ASSUME IInv, CInv, NEW u \in Node, NEW v \in Node, InsertTrivial(u, v)
  PROVE  Promise!Next \/ UNCHANGED View
<1>1. /\ InsertIsCalled(u, v) /\ Return([ok |-> u # v])
      /\ UNCHANGED <<out, freeNodes, kept>>
      /\ u = v \/ v \in out[u]
  BY DEF InsertTrivial, graph
<1>2. CASE kept # None
  BY <1>1, <1>2, NestedInsert, NestedReturnView
<1>3. CASE kept = None
  <2>1. pc = "idle" /\ u \in Present /\ v \in Present /\ AtRest
    BY <1>1, <1>3 DEF InsertIsCalled, IInv, CallInv, AtRest
  <2>2. /\ EdgesBar = Edges /\ EdgesBar' = Edges /\ RemovedBar' = RemovedBar
        /\ result' = [ok |-> u # v] /\ u \in Promise!Present /\ v \in Promise!Present
    BY <1>1, <1>3, <2>1, IdleView, ReturnView DEF Edges
  <2>3. u # v => <<u, v>> \in Edges /\ ~Promise!Reaches(Edges, v, u)
    <3> HAVE u # v
    <3>1. rank[u] < rank[v] /\ <<u, v>> \in Edges
      BY <1>1, <2>1, RestFacts, EdgeFacts DEF IInv
    <3> QED BY <2>1, <3>1, RanksTell
  <2>4. Promise!InsertEdge(u, v)
    BY <2>2, <2>3 DEF Promise!InsertEdge, Promise!ClosesCycle
  <2> QED BY <2>4, ExactNodes DEF Promise!Next
<1> QED
  BY <1>2, <1>3

LEMMA InsertOrderedRefines ==
  ASSUME IInv, CInv, NEW u \in Node, NEW v \in Node, InsertOrdered(u, v)
  PROVE  Promise!Next \/ UNCHANGED View
<1>1. /\ InsertIsCalled(u, v) /\ Return([ok |-> TRUE])
      /\ UNCHANGED <<freeNodes, kept>>
      /\ Link(u, v) /\ u # v /\ rank[u] =< rank[v]
  BY DEF InsertOrdered
<1>2. CASE kept # None
  BY <1>1, <1>2, NestedInsert, NestedReturnView
<1>3. CASE kept = None
  <2>1. pc = "idle" /\ u \in Present /\ v \in Present /\ AtRest
    BY <1>1, <1>3 DEF InsertIsCalled, IInv, CallInv, AtRest
  <2>2. Edges' = Edges \cup {<<u, v>>}
    BY <1>1, LinkedEdges DEF IInv
  <2>3. /\ EdgesBar = Edges /\ EdgesBar' = Edges \cup {<<u, v>>}
        /\ RemovedBar' = RemovedBar
        /\ result' = [ok |-> TRUE] /\ u \in Promise!Present /\ v \in Promise!Present
    BY <1>1, <1>3, <2>1, <2>2, IdleView, ReturnView
  <2>4. ~Promise!Reaches(Edges, v, u)
    <3>1. rank[u] < rank[v]
      BY <1>1, DistinctRanks
    <3> QED BY <2>1, <3>1, RanksTell
  <2>5. Promise!InsertEdge(u, v)
    BY <1>1, <2>3, <2>4 DEF Promise!InsertEdge, Promise!ClosesCycle
  <2> QED BY <2>5, ExactNodes DEF Promise!Next
<1> QED
  BY <1>2, <1>3

LEMMA SearchStarts ==
  ASSUME IInv, NEW u \in Node, NEW v \in Node,
         InsertReversed(u, v) \/ ReachSearch(u, v) \/ ContractEdge(u, v)
  PROVE  UNCHANGED View
<1>1. CASE InsertReversed(u, v)
  BY <1>1, InsertArgs, SearchView DEF InsertReversed
<1>2. CASE ReachSearch(u, v)
  BY <1>2, SearchView DEF ReachSearch, AtRest
<1>3. CASE ContractEdge(u, v)
  BY <1>3, SearchView DEF ContractEdge, AtRest
<1> QED
  BY <1>1, <1>2, <1>3

LEMMA RemoveEdgeRefines ==
  ASSUME IInv, NEW u \in Node, NEW v \in Node, RemoveEdge(u, v)
  PROVE  Promise!Next
<1>1. /\ pc = "idle" /\ v \in out[u] /\ Unlink(u, v) /\ Return(None)
      /\ UNCHANGED freeNodes /\ kept = None
  BY ClientKeptNone DEF RemoveEdge
<1>2. Edges' = Edges \ {<<u, v>>} /\ <<u, v>> \in Edges
  BY <1>1, UnlinkedEdges, EdgeFacts DEF IInv
<1>3. Promise!RemoveEdge(u, v)
  BY <1>1, <1>2, IdleView, ReturnView DEF Promise!RemoveEdge
<1> QED
  BY <1>3, ExactNodes DEF Promise!Next

LEMMA ReachTrivialRefines ==
  ASSUME IInv, NEW u \in Node, NEW v \in Node, ReachTrivial(u, v)
  PROVE  Promise!Next
<1>1. /\ pc = "idle" /\ u \in Present /\ v \in Present /\ Return([ok |-> u = v])
      /\ u = v \/ rank[u] >= rank[v]
      /\ UNCHANGED <<out, freeNodes>> /\ kept = None /\ AtRest
  BY ClientKeptNone DEF ReachTrivial, graph
<1>2. Promise!Reaches(Edges, u, v) <=> u = v
  <2>1. u = v => Promise!Reaches(Edges, u, v)
    BY ReachesSelf
  <2>2. ASSUME u # v PROVE ~Promise!Reaches(Edges, u, v)
    <3>1. rank[v] < rank[u]
      BY <1>1, <2>2, DistinctRanks
    <3> QED BY <1>1, <3>1, RanksTell
  <2> QED BY <2>1, <2>2
<1>3. /\ EdgesBar = Edges /\ EdgesBar' = Edges /\ RemovedBar' = RemovedBar
      /\ result' = [ok |-> u = v] /\ u \in Promise!Present /\ v \in Promise!Present
  BY <1>1, IdleView, ReturnView DEF Edges
<1>4. (u = v) = Promise!Reaches(EdgesBar, u, v)
  BY <1>2, <1>3, Zenon DEF Promise!Reaches
<1>5. result' = [ok |-> Promise!Reaches(EdgesBar, u, v)]
  BY <1>3, <1>4, Zenon
<1>6. Promise!IsReachable(u, v)
  BY <1>3, <1>5 DEF Promise!IsReachable
<1> QED
  BY <1>6, ExactNodes DEF Promise!Next

LEMMA SearchSteps ==
  ASSUME NEW n \in Node, Forward(n) \/ Backward(n) \/ StartBackward \/ StartMerge
  PROVE  UNCHANGED View
<1>1. pc # "idle" /\ pc' # "idle" /\ UNCHANGED <<before, result>>
  BY DEF Forward, Backward, StartBackward, StartMerge, graph, call
<1> QED
  BY <1>1, OnwardView

(* The forward search met the node that the edge leaves: a path back.      *)
LEMMA InsertRefusedRefines ==
  ASSUME IInv, CInv, InsertRefused
  PROVE  Promise!Next
<1>1. /\ pc = "found" /\ op = "insert" /\ Searching
      /\ Unlink(x, y) /\ Return([ok |-> FALSE]) /\ UNCHANGED <<freeNodes, kept>>
  BY DEF InsertRefused, Searching
<1>2. kept = None
  BY <1>1, NeverFoundInMerge
<1>3. x \in Node /\ y \in Node
  BY <1>1 DEF IInv, CallInv, Present
<1>4. Searched = Edges \ {<<x, y>>} /\ Edges' = Searched
  BY <1>1, <1>3, UnlinkedEdges DEF Searched, IInv
<1>5. /\ EdgesBar = Searched /\ EdgesBar' = EdgesBar /\ RemovedBar' = RemovedBar
      /\ result' = [ok |-> FALSE]
      /\ x \in Promise!Present /\ y \in Promise!Present
      /\ x \in Promise!Node /\ y \in Promise!Node
  BY <1>1, <1>2, <1>4, ClientSearchView, ReturnView
<1>6. Promise!Reaches(EdgesBar, y, x)
  BY <1>1, <1>5 DEF CInv, SearchInv, Source, Target
<1>7. Promise!InsertEdge(x, y)
  BY <1>5, <1>6 DEF Promise!InsertEdge, Promise!ClosesCycle
<1> QED
  BY <1>5, <1>7 DEF Promise!Next

(* The forward search listed all that the edge's head reaches, and did not *)
(* meet its tail: there is no path back.                                   *)
LEMMA ReorderRefines ==
  ASSUME IInv, CInv, Reorder
  PROVE  Promise!Next \/ UNCHANGED View
<1>1. /\ pc = "backward" /\ op = "insert" /\ Searching
      /\ Return([ok |-> TRUE]) /\ UNCHANGED <<out, freeNodes, kept>>
  BY DEF Reorder, IInv, CallInv, Searching
<1>2. CASE kept # None
  BY <1>1, <1>2, NestedReturnView
<1>3. CASE kept = None
  <2>1. x \in Node /\ y \in Node /\ <<x, y>> \in Edges /\ x # y
    <3>1. x \in Node /\ y \in out[x] /\ rank[y] < rank[x]
      BY <1>1 DEF IInv, CallInv, Present
    <3>2. rank[x] \in Nat
      BY <3>1, EdgeFacts DEF IInv
    <3> QED BY <3>1, <3>2, EdgeFacts DEF IInv
  <2>2. Searched = Edges \ {<<x, y>>} /\ Edges' = Edges
    BY <1>1 DEF Searched, Edges
  <2>3. /\ EdgesBar = Searched /\ EdgesBar' = EdgesBar \cup {<<x, y>>}
        /\ RemovedBar' = RemovedBar /\ result' = [ok |-> TRUE]
        /\ x \in Promise!Present /\ y \in Promise!Present
        /\ x \in Promise!Node /\ y \in Promise!Node
    BY <1>1, <1>3, <2>1, <2>2, ClientSearchView, ReturnView
  <2>4. ~Promise!Reaches(EdgesBar, y, x)
    BY <1>1, <2>3, BothExhausted
  <2>5. Promise!InsertEdge(x, y)
    BY <2>1, <2>3, <2>4 DEF Promise!InsertEdge, Promise!ClosesCycle
  <2> QED BY <2>3, <2>5 DEF Promise!Next
<1> QED
  BY <1>2, <1>3

(* IsReachable and ContractEdge: what the search from x to y has shown.    *)
LEMMA SearchAnswers ==
  ASSUME IInv, CInv, op \in {"reach", "contract"},
         pc = "found" \/ (pc = "forward" /\ stack = {})
  PROVE  Promise!Reaches(Edges, x, y) <=> pc = "found"
<1>1. Source = x /\ Target = y /\ Searched = Edges
  BY DEF Source, Target, Searched
<1>2. pc = "found" => Promise!Reaches(Edges, x, y)
  BY <1>1 DEF CInv, SearchInv
<1>3. pc = "forward" /\ stack = {} => ~Promise!Reaches(Edges, x, y)
  BY <1>1, Exhausted
<1> QED
  BY <1>2, <1>3

LEMMA ReachReturnsRefines ==
  ASSUME IInv, CInv, ReachReturns
  PROVE  Promise!Next
<1>1. /\ pc = "found" \/ (pc = "forward" /\ stack = {})
      /\ op = "reach" /\ Searching
      /\ Return([ok |-> pc = "found"]) /\ UNCHANGED <<out, freeNodes>>
  BY DEF ReachReturns, graph, Searching
<1>2. kept = None
  BY <1>1, ClientSearch
<1>3. Searched = Edges /\ Edges' = Edges
  BY <1>1 DEF Searched, Edges
<1>4. /\ EdgesBar = Edges /\ EdgesBar' = Edges /\ RemovedBar' = RemovedBar
      /\ result' = [ok |-> pc = "found"]
      /\ x \in Promise!Present /\ y \in Promise!Present
      /\ x \in Promise!Node /\ y \in Promise!Node
  BY <1>1, <1>2, <1>3, ClientSearchView, ReturnView
<1>5. Promise!Reaches(Edges, x, y) <=> pc = "found"
  BY <1>1, SearchAnswers
<1>6. (pc = "found") = Promise!Reaches(EdgesBar, x, y)
  BY <1>4, <1>5, Zenon DEF Promise!Reaches
<1>7. result' = [ok |-> Promise!Reaches(EdgesBar, x, y)]
  BY <1>4, <1>6, Zenon
<1>8. Promise!IsReachable(x, y)
  BY <1>4, <1>7 DEF Promise!IsReachable
<1> QED
  BY <1>4, <1>8 DEF Promise!Next

LEMMA ContractRefusedRefines ==
  ASSUME IInv, CInv, ContractRefused
  PROVE  Promise!Next
<1>1. /\ pc = "found" /\ op = "contract" /\ Searching
      /\ Link(x, y) /\ Return(None) /\ UNCHANGED freeNodes
  BY DEF ContractRefused, Searching
<1>2. kept = None
  BY <1>1, ClientSearch
<1>3. x \in Node /\ y \in Node /\ <<x, y>> \notin Edges
  BY <1>1, <1>2 DEF IInv, CallInv, Present, CInv, HistoryInv
<1>4. Edges' = Edges \cup {<<x, y>>}
  BY <1>1, <1>3, LinkedEdges DEF IInv
<1>5. /\ EdgesBar = Edges \cup {<<x, y>>} /\ EdgesBar' = EdgesBar
      /\ RemovedBar' = RemovedBar /\ result' = None
      /\ x \in Promise!Node /\ y \in Promise!Node
  BY <1>1, <1>2, <1>4, ClientSearchView, ReturnView
<1>6. EdgesBar \ {<<x, y>>} = Edges /\ Promise!Reaches(Edges, x, y)
  BY <1>1, <1>3, <1>5, SearchAnswers
<1>7. Promise!ContractEdge(x, y)
  BY <1>5, <1>6 DEF Promise!ContractEdge
<1> QED
  BY <1>5, <1>7 DEF Promise!Next

LEMMA ContractReturnsRefines ==
  ASSUME IInv, CInv, ContractReturns
  PROVE  Promise!Next
<1>1. /\ pc = "merge" /\ pending = {} /\ pc' = "idle" /\ result' = [node |-> kept]
      /\ UNCHANGED <<out, freeNodes>>
  BY DEF ContractReturns, graph
<1>2. kept # None
  BY <1>1 DEF IInv, CallInv
<1>3. PICK a \in Node, b \in Node : Contracted(a, b)
  BY <1>2 DEF CInv, MergeInv
<1>4. /\ EdgesBar = before.edges /\ RemovedBar = before.removed
      /\ EdgesBar' = Edges /\ RemovedBar' = freeNodes
  BY <1>1 DEF EdgesBar, RemovedBar, Edges
<1>5. LET drop == IF kept = a THEN b ELSE a
          rest == EdgesBar \ {<<a, b>>}
      IN  /\ <<a, b>> \in EdgesBar /\ ~Promise!Reaches(rest, a, b)
          /\ kept \in {a, b}
          /\ RemovedBar' = RemovedBar \cup {drop}
          /\ EdgesBar' = Promise!Merge(rest, drop, kept)
  BY <1>1, <1>3, <1>4 DEF Contracted
<1>6. Promise!ContractEdge(a, b)
  BY <1>1, <1>5 DEF Promise!ContractEdge
<1> QED
  BY <1>6, ExactNodes DEF Promise!Next

LEMMA StepRefines ==
  ASSUME IInv, CInv, [Next]_vars
  PROVE  Promise!Next \/ UNCHANGED View
<1>1. ASSUME NEW u \in Node, NEW v \in Node,
             \/ InsertTrivial(u, v) \/ InsertOrdered(u, v) \/ InsertReversed(u, v)
             \/ RemoveEdge(u, v)
             \/ ReachTrivial(u, v) \/ ReachSearch(u, v)
             \/ ContractEdge(u, v)
      PROVE  Promise!Next \/ UNCHANGED View
  BY <1>1, InsertTrivialRefines, InsertOrderedRefines, SearchStarts,
     RemoveEdgeRefines, ReachTrivialRefines
<1>2. ASSUME NEW n \in Node, Forward(n) \/ Backward(n)
      PROVE  UNCHANGED View
  BY <1>2, SearchSteps
<1>3. ASSUME StartBackward \/ StartMerge
      PROVE  UNCHANGED View
  <2>1. x \in Node
    BY <1>3 DEF StartBackward, StartMerge, IInv, CallInv, Searching, Present
  <2> QED BY <1>3, <2>1, SearchSteps
<1>4. ASSUME \/ InsertRefused \/ Reorder \/ ReachReturns
             \/ ContractRefused \/ ContractReturns
      PROVE  Promise!Next \/ UNCHANGED View
  BY <1>4, InsertRefusedRefines, ReorderRefines, ReachReturnsRefines,
     ContractRefusedRefines, ContractReturnsRefines
<1>5. CASE UNCHANGED vars
  BY <1>5 DEF vars, graph, call, View, EdgesBar, RemovedBar, Edges
<1> QED
  BY <1>1, <1>2, <1>3, <1>4, <1>5 DEF Next, Step

(* Every call does what the header promises: InsertEdge and ContractEdge   *)
(* refuse exactly the edges that would close a cycle, IsReachable answers  *)
(* exactly whether there is a path, and a refused call changes nothing.    *)
THEOREM Refinement == Spec => ImplementsDag
<1>1. Init => Promise!Init
  BY DEF Init, Promise!Init, EdgesBar, RemovedBar, Edges
<1>2. IInv /\ CInv /\ [Next]_vars => [Promise!Next]_(Promise!dagVars)
  BY StepRefines DEF Promise!dagVars, View
<1> QED
  BY <1>1, <1>2, CallInvariance, PTL DEF Spec, ImplementsDag, Promise!Spec

-----------------------------------------------------------------------------
(* AllNodesInPostOrder.  Distinct ranks give every present node a place of *)
(* its own: the number of present nodes that rank at least as high.        *)

AtLeast(n) == {m \in Present : rank[m] >= rank[n]}

LEMMA PresentFinite == IsFiniteSet(Present) /\ Cardinality(Present) \in Nat
<1>1. IsFiniteSet(Node)
  BY FS_Interval, GraphCyclesAssumption DEF Node
<1>2. Present \in SUBSET Node
  BY DEF Present
<1> QED
  BY <1>1, <1>2, FS_Subset, FS_CardinalityType

LEMMA Places ==
  ASSUME TypeOK, RankInv
  PROVE  \E place \in Bijection(Present, 1..Cardinality(Present)) :
           \A m, n \in Present : rank[m] > rank[n] => place[m] < place[n]
<1> DEFINE place == [n \in Present |-> Cardinality(AtLeast(n))]
           N == Cardinality(Present)
<1>1. IsFiniteSet(Present) /\ N \in Nat
  BY PresentFinite
<1>2. \A n \in Present : n \in Node /\ rank[n] \in Nat
  BY NodesAreNats DEF Present, TypeOK
<1>3. \A n \in Present : /\ AtLeast(n) \in SUBSET Present
                         /\ n \in AtLeast(n)
                         /\ IsFiniteSet(AtLeast(n))
  <2> TAKE n \in Present
  <2>1. AtLeast(n) \in SUBSET Present /\ n \in AtLeast(n)
    BY <1>2 DEF AtLeast
  <2> QED BY <1>1, <2>1, FS_Subset
<1>4. \A n \in Present : Cardinality(AtLeast(n)) \in 1..N
  <2> TAKE n \in Present
  <2>1. Cardinality(AtLeast(n)) \in Nat /\ Cardinality(AtLeast(n)) =< N
    BY <1>1, <1>3, FS_Subset, FS_CardinalityType
  <2>2. Cardinality(AtLeast(n)) # 0
    BY <1>3, FS_EmptySet
  <2> QED BY <1>1, <2>1, <2>2
<1>5. \A m, n \in Present :
        rank[m] > rank[n] => Cardinality(AtLeast(m)) < Cardinality(AtLeast(n))
  <2> TAKE m, n \in Present
  <2> HAVE rank[m] > rank[n]
  <2>1. AtLeast(m) \in SUBSET AtLeast(n) /\ n \notin AtLeast(m)
    BY <1>2 DEF AtLeast
  <2>2. AtLeast(n) # AtLeast(m)
    BY <1>3, <2>1
  <2>3. /\ Cardinality(AtLeast(m)) =< Cardinality(AtLeast(n))
        /\ Cardinality(AtLeast(m)) # Cardinality(AtLeast(n))
    BY <1>3, <2>1, <2>2, FS_Subset
  <2> QED BY <1>4, <2>3
<1>6. place \in [Present -> 1..N]
  BY <1>4
<1>7. \A m, n \in Present : place[m] = place[n] => m = n
  <2> TAKE m, n \in Present
  <2> HAVE place[m] = place[n]
  <2>1. ~(rank[m] > rank[n]) /\ ~(rank[n] > rank[m])
    <3>1. Cardinality(AtLeast(m)) = Cardinality(AtLeast(n))
      OBVIOUS
    <3> QED BY <1>4, <1>5, <3>1
  <2>2. rank[m] = rank[n]
    BY <1>2, <2>1
  <2> QED BY <1>2, <2>2 DEF RankInv, IsInjective, TypeOK
<1>8. place \in Injection(Present, 1..N)
  <2> HIDE DEF place, N
  <2> QED BY <1>6, <1>7 DEF Injection, IsInjective
<1>9. place \in Surjection(Present, 1..N)
  <2>1. IsFiniteSet(1..N) /\ Cardinality(1..N) = N
    BY <1>1, FS_Interval
  <2> HIDE DEF place
  <2> QED BY <1>8, <2>1, FS_Injection
<1>10. \A m, n \in Present : rank[m] > rank[n] => place[m] < place[n]
  BY <1>5
<1> HIDE DEF place
<1> QED
  BY <1>8, <1>9, <1>10 DEF Bijection

LEMMA PostOrderSorted ==
  ASSUME TypeOK, RankInv
  PROVE  LET nodes == AllNodesInPostOrder
         IN  /\ nodes \in SetToSeqs(Present)
             /\ \A i, j \in DOMAIN nodes : i < j => rank[nodes[i]] >= rank[nodes[j]]
<1> DEFINE N == Cardinality(Present)
<1>1. PICK place \in Bijection(Present, 1..N) :
         \A m, n \in Present : rank[m] > rank[n] => place[m] < place[n]
  BY Places
<1>2. /\ \A n \in Present : place[n] \in 1..N
      /\ \A m, n \in Present : place[m] = place[n] => m = n
      /\ \A i \in 1..N : \E n \in Present : place[n] = i
  BY DEF Bijection, Injection, Surjection, IsInjective
<1> DEFINE s == [i \in 1..N |-> CHOOSE n \in Present : place[n] = i]
<1>3. \A i \in 1..N : s[i] \in Present /\ place[s[i]] = i
  BY <1>2
<1>4. s \in [1..N -> Present] /\ DOMAIN s = 1..N
  BY <1>3
<1> HIDE DEF s
<1>5. \A i, j \in 1..N : i # j => s[i] # s[j]
  BY <1>3
<1>6. s \in SetToSeqs(Present)
  BY <1>4, <1>5 DEF SetToSeqs
<1>7. \A i, j \in DOMAIN s : i < j => rank[s[i]] >= rank[s[j]]
  <2> TAKE i, j \in DOMAIN s
  <2> HAVE i < j
  <2>1. /\ s[i] \in Present /\ s[j] \in Present
        /\ ~(place[s[j]] < place[s[i]])
    BY <1>3, <1>4
  <2>2. ~(rank[s[j]] > rank[s[i]])
    BY <1>1, <2>1
  <2>3. rank[s[i]] \in Nat /\ rank[s[j]] \in Nat
    BY <2>1, NodesAreNats DEF Present, TypeOK
  <2> QED BY <2>2, <2>3
<1> QED
  BY <1>6, <1>7 DEF AllNodesInPostOrder

(* A node appears in the returned vector after every node that it reaches, *)
(* for graphs of any size.                                                 *)
THEOREM PostOrder == Spec => []PostOrderRespectsPaths
<1>1. IInv => PostOrderRespectsPaths
  <2> SUFFICES ASSUME IInv, pc = "idle",
                      NEW i \in DOMAIN AllNodesInPostOrder,
                      NEW j \in DOMAIN AllNodesInPostOrder, i < j
               PROVE  ~Promise!Reaches(Edges, AllNodesInPostOrder[i], AllNodesInPostOrder[j])
    BY DEF PostOrderRespectsPaths
  <2> DEFINE nodes == AllNodesInPostOrder
  <2>1. /\ nodes \in SetToSeqs(Present)
        /\ \A k, l \in DOMAIN nodes : k < l => rank[nodes[k]] >= rank[nodes[l]]
    BY PostOrderSorted DEF IInv
  <2> HIDE DEF nodes
  <2>2. /\ nodes \in [1..Cardinality(Present) -> Present]
        /\ \A k, l \in 1..Cardinality(Present) : k # l => nodes[k] # nodes[l]
    BY <2>1 DEF SetToSeqs
  <2>3. /\ i \in 1..Cardinality(Present) /\ j \in 1..Cardinality(Present)
        /\ i \in DOMAIN nodes /\ j \in DOMAIN nodes /\ i # j
    BY <2>2, PresentFinite DEF nodes
  <2>4. nodes[i] \in Node /\ nodes[j] \in Node /\ nodes[i] # nodes[j]
    BY <2>2, <2>3 DEF Present
  <2>5. rank[nodes[j]] < rank[nodes[i]]
    <3>1. rank[nodes[i]] >= rank[nodes[j]]
      BY <2>1, <2>3
    <3> QED BY <2>4, <3>1, DistinctRanks
  <2>6. AtRest
    BY DEF AtRest
  <2>7. ~Promise!Reaches(Edges, nodes[i], nodes[j])
    BY <2>4, <2>5, <2>6, RanksTell
  <2> QED BY <2>7 DEF nodes
<1> QED
  BY <1>1, Invariance, PTL

-----------------------------------------------------------------------------
(* OrderedSet.  The edges of a node are kept in one, for which this module *)
(* has sets: the sequence and the map of an OrderedSet agree, for any set  *)
(* of values, so that it is the set its calls describe.                    *)

EdgeSet == INSTANCE OrderedSet

EdgeSetInv == EdgeSet!TypeOK /\ Consistent

LEMMA EdgeSetInsert ==
  ASSUME EdgeSetInv, NEW v \in Value, EdgeSet!Insert(v)
  PROVE  EdgeSetInv'
<1> USE DEF EdgeSetInv, EdgeSet!TypeOK, Consistent, EdgeSet!Insert, EdgeSet!Contains
<1>1. valueSequence \in Seq(Value) /\ Len(valueSequence) \in Nat
      /\ DOMAIN valueSequence = 1..Len(valueSequence)
  BY LenProperties
<1>2. CASE EdgeSet!Contains(v)
  BY <1>2
<1>3. CASE ~EdgeSet!Contains(v)
  <2>1. /\ valueSequence' \in Seq(Value)
        /\ DOMAIN valueSequence' = 1..Len(valueSequence) + 1
        /\ \A k \in 1..Len(valueSequence) : valueSequence'[k] = valueSequence[k]
        /\ valueSequence'[Len(valueSequence) + 1] = v
    BY <1>1, <1>3
  <2>2. /\ DOMAIN valueToIndex' = contents \cup {v}
        /\ valueToIndex'[v] = Len(valueSequence) + 1
        /\ \A w \in contents : valueToIndex'[w] = valueToIndex[w]
    BY <1>3
  <2>3. contents' = contents \cup {v} /\ v \notin contents
    BY <1>3
  <2> HIDE DEF EdgeSet!Insert
  <2>4. EdgeSet!TypeOK'
    BY <2>1, <2>2, <2>3
  <2>5. Consistent'
    BY <1>1, <2>1, <2>2, <2>3
  <2> QED BY <2>4, <2>5
<1> QED
  BY <1>2, <1>3

(* The last value takes the place of the erased one, unless it is that one. *)
LEMMA EdgeSetErase ==
  ASSUME EdgeSetInv, NEW v \in Value, EdgeSet!Erase(v)
  PROVE  EdgeSetInv'
<1> DEFINE n == Len(valueSequence)
           hole == valueToIndex[v]
           last == valueSequence[n]
<1>1. valueSequence \in Seq(Value) /\ n \in Nat /\ DOMAIN valueSequence = 1..n
  BY LenProperties DEF EdgeSetInv, EdgeSet!TypeOK
<1>2. v \in contents /\ hole \in 1..n /\ valueSequence[hole] = v /\ contents \subseteq Value
  BY <1>1 DEF EdgeSetInv, EdgeSet!TypeOK, Consistent, EdgeSet!Erase, EdgeSet!Contains
<1>3. n \in 1..n /\ last \in contents /\ valueToIndex[last] = n /\ n - 1 \in Nat
  BY <1>1, <1>2 DEF EdgeSetInv, Consistent
<1>4. /\ valueSequence' = [k \in 1..n - 1 |-> IF k = hole THEN last ELSE valueSequence[k]]
      /\ valueToIndex' = [w \in contents \ {v} |-> IF w = last THEN hole ELSE valueToIndex[w]]
      /\ contents' = contents \ {v}
  BY DEF EdgeSet!Erase, EdgeSet!SwappedOut, EdgeSetInv, Consistent
<1>5. \A w \in contents : valueToIndex[w] \in 1..n /\ valueSequence[valueToIndex[w]] = w
  BY <1>1 DEF EdgeSetInv, Consistent
<1>6. \A k \in 1..n : valueSequence[k] \in contents /\ valueToIndex[valueSequence[k]] = k
  BY <1>1 DEF EdgeSetInv, Consistent
<1> HIDE DEF n, hole, last
<1>7. EdgeSet!TypeOK'
  <2>1. valueSequence' \in [1..n - 1 -> Value]
    BY <1>1, <1>2, <1>3, <1>4, <1>6
  <2>2. valueSequence' \in Seq(Value)
    BY <1>3, <2>1, SeqDef
  <2> QED BY <1>2, <1>4, <2>2 DEF EdgeSet!TypeOK
<1>8. Consistent'
  <2>1. DOMAIN valueSequence' = 1..n - 1
    BY <1>4
  <2>2. \A w \in contents' : /\ valueToIndex'[w] \in 1..n - 1
                             /\ valueSequence'[valueToIndex'[w]] = w
    <3> SUFFICES ASSUME NEW w \in contents, w # v
                 PROVE  /\ valueToIndex'[w] \in 1..n - 1
                        /\ valueSequence'[valueToIndex'[w]] = w
      BY <1>4
    <3>1. CASE w = last
      <4>1. hole # n
        BY <1>2, <3>1 DEF last
      <4> QED BY <1>1, <1>2, <1>4, <3>1, <4>1
    <3>2. CASE w # last
      <4>1. valueToIndex[w] \in 1..n /\ valueToIndex[w] # n /\ valueToIndex[w] # hole
        BY <1>2, <1>5, <3>2 DEF last
      <4> QED BY <1>1, <1>4, <1>5, <3>2, <4>1
    <3> QED BY <3>1, <3>2
  <2>3. \A k \in 1..n - 1 : /\ valueSequence'[k] \in contents'
                            /\ valueToIndex'[valueSequence'[k]] = k
    <3> SUFFICES ASSUME NEW k \in 1..n - 1
                 PROVE  /\ valueSequence'[k] \in contents'
                        /\ valueToIndex'[valueSequence'[k]] = k
      OBVIOUS
    <3>1. k \in 1..n /\ k # n
      BY <1>1
    <3>2. CASE k = hole
      <4>1. last # v
        BY <1>3, <3>1, <3>2 DEF hole
      <4> QED BY <1>3, <1>4, <3>2, <4>1
    <3>3. CASE k # hole
      <4>1. valueSequence[k] # v /\ valueSequence[k] # last /\ valueSequence[k] \in contents
        BY <1>3, <1>6, <3>1, <3>3 DEF hole
      <4> QED BY <1>4, <1>6, <3>1, <3>3, <4>1
    <3> QED BY <3>2, <3>3
  <2> QED BY <1>4, <2>1, <2>2, <2>3 DEF Consistent
<1> QED
  BY <1>7, <1>8 DEF EdgeSetInv

(* Whatever is inserted, erased and cleared, Contains and the indices that *)
(* Erase uses describe the sequence.                                       *)
THEOREM AlwaysConsistent == EdgeSet!Spec => []Consistent
<1>1. EdgeSet!Init => EdgeSetInv
  BY DEF EdgeSet!Init, EdgeSetInv, EdgeSet!TypeOK, Consistent
<1>2. EdgeSetInv /\ [EdgeSet!Next]_(EdgeSet!vars) => EdgeSetInv'
  <2> SUFFICES ASSUME EdgeSetInv, [EdgeSet!Next]_(EdgeSet!vars) PROVE EdgeSetInv'
    OBVIOUS
  <2>1. ASSUME NEW v \in Value, EdgeSet!Insert(v) \/ EdgeSet!Erase(v) PROVE EdgeSetInv'
    BY <2>1, EdgeSetInsert, EdgeSetErase
  <2>2. CASE EdgeSet!Clear
    BY <2>2 DEF EdgeSet!Clear, EdgeSetInv, EdgeSet!TypeOK, Consistent
  <2>3. CASE UNCHANGED EdgeSet!vars
    BY <2>3 DEF EdgeSet!vars, EdgeSetInv, EdgeSet!TypeOK, Consistent
  <2> QED BY <2>1, <2>2, <2>3 DEF EdgeSet!Next
<1>3. EdgeSetInv => Consistent
  BY DEF EdgeSetInv
<1> QED
  BY <1>1, <1>2, <1>3, PTL DEF EdgeSet!Spec
=============================================================================
