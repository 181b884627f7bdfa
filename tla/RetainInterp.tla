---------------------------- MODULE RetainInterp ----------------------------
(***************************************************************************)
(* deallocation.retain as the interpreter executes it                      *)
(* (src/tools/mlir_interpreter/dialects/deallocation.cc:51-78): a double   *)
(* loop over the retained memrefs and the allocs, one iteration a step,    *)
(* then a loop that frees what was not used.  Around it, the function body *)
(* that executes allocs and keeps the indicators, as in Ownership.         *)
(***************************************************************************)
EXTENDS Integers, Sequences, FiniteSets

CONSTANTS Buffer, Borrowed, Null, MaxOwned, MaxRetained    \* as in Ownership

ASSUME RetainAssumption ==
    /\ Null \notin Buffer
    /\ Borrowed \subseteq Buffer
    /\ MaxOwned \in Nat
    /\ MaxRetained \in Nat

VARIABLES
    heap,     \* "freed" iff Buffer::freedBy is set
    owned,    \* indicators of the body that are not operands of a retain
    values,   \* operands of the retain being executed: the memrefs ...
    allocs,   \* ... and the indicators (the parameter `owned` of the code)
    used,     \* used[j]: allocs[j] is in the result
    result,
    i, j,     \* loop counters, from 1
    pc,       \* "body", "match" (first loops) or "free" (last loop)
    stats,    \* InterpreterStats, a buffer counting as one byte
    failed    \* a failure was recorded

call == <<values, allocs, used, result, i, j>>
vars == <<heap, owned, call, pc, stats, failed>>

Ref == Buffer \cup {Null}
Mentionable == {Null} \cup {b \in Buffer : heap[b] = "live"}
RetainedLists == UNION {[1..n -> Mentionable] : n \in 0..MaxRetained}

\* Buffer::deallocate (framework/tensor_or_memref.h:219-232).
Deallocate(b) ==
    IF heap[b] = "freed"
    THEN failed' = TRUE /\ UNCHANGED heap
    ELSE heap' = [heap EXCEPT ![b] = "freed"] /\ UNCHANGED failed

\* The bookkeeping of memref.alloc and of every op that frees.
CountAlloc ==
    stats' = [heapSize |-> stats.heapSize + 1,
              peakHeapSize |-> IF stats.heapSize + 1 > stats.peakHeapSize
                               THEN stats.heapSize + 1 ELSE stats.peakHeapSize,
              numAllocations |-> stats.numAllocations + 1,
              numDeallocations |-> stats.numDeallocations]
\* Bug variant: the size is forgotten.
CountFreeOnly == stats' = [stats EXCEPT !.numDeallocations = @ + 1]
CountFree ==
    stats' = [stats EXCEPT !.heapSize = @ - 1, !.numDeallocations = @ + 1]

-----------------------------------------------------------------------------
Init ==
    /\ heap = [b \in Buffer |-> IF b \in Borrowed THEN "live" ELSE "unused"]
    /\ owned = <<>>
    /\ values = <<>> /\ allocs = <<>> /\ used = <<>> /\ result = <<>>
    /\ i = 1 /\ j = 1
    /\ pc = "body"
    /\ stats = [heapSize |-> 0, peakHeapSize |-> 0,
                numAllocations |-> 0, numDeallocations |-> 0]
    /\ failed = FALSE

\* memref.alloc followed by deallocation.own of its result.
Alloc(b) ==
    /\ pc = "body" /\ ~failed
    /\ heap[b] = "unused"
    /\ Len(owned) < MaxOwned
    /\ heap' = [heap EXCEPT ![b] = "live"]
    /\ owned' = Append(owned, b)
    /\ CountAlloc
    /\ UNCHANGED <<call, pc, failed>>

NullIndicator ==
    /\ pc = "body" /\ ~failed
    /\ Len(owned) < MaxOwned
    /\ owned' = Append(owned, Null)
    /\ UNCHANGED <<heap, call, pc, stats, failed>>

\* Enter the op: the first n indicators are not among its operands.
Call(vs, n) ==
    /\ pc = "body" /\ ~failed
    /\ n + Len(vs) =< MaxOwned
    /\ values' = vs
    /\ allocs' = SubSeq(owned, n + 1, Len(owned))
    /\ owned' = SubSeq(owned, 1, n)
    /\ used' = [k \in DOMAIN allocs' |-> FALSE]
    /\ result' = [k \in DOMAIN vs |-> Null]
    /\ i' = 1 /\ j' = 1
    /\ pc' = "match"
    /\ UNCHANGED <<heap, stats, failed>>

\* Bug variant: the `used` test is forgotten, an alias gets the alloc again.
MatchesUsedToo == allocs[j] # Null /\ values[i] = allocs[j]
\* Body of the inner loop for values[i] and allocs[j].
Matches == ~used[j] /\ allocs[j] # Null /\ values[i] = allocs[j]

Match ==
    /\ pc = "match" /\ i =< Len(values) /\ j =< Len(allocs)
    /\ IF Matches
       THEN /\ used' = [used EXCEPT ![j] = TRUE]
            /\ result' = [result EXCEPT ![i] = allocs[j]]
       ELSE UNCHANGED <<used, result>>
    /\ j' = j + 1
    /\ UNCHANGED <<heap, owned, values, allocs, i, pc, stats, failed>>

NextValue ==
    /\ pc = "match" /\ i =< Len(values) /\ j > Len(allocs)
    /\ i' = i + 1 /\ j' = 1
    /\ UNCHANGED <<heap, owned, values, allocs, used, result, pc, stats, failed>>

EndMatch ==
    /\ pc = "match" /\ i > Len(values)
    /\ pc' = "free" /\ j' = 1
    /\ UNCHANGED <<heap, owned, values, allocs, used, result, i, stats, failed>>

\* Bug variant: allocs that are in the result are freed as well.
IsUnusedOrNot == allocs[j] # Null
IsUnused == ~used[j] /\ allocs[j] # Null

\* One iteration of the loop that frees what was not used.
Free ==
    /\ pc = "free" /\ j =< Len(allocs)
    /\ IF IsUnused
       THEN CountFree /\ Deallocate(allocs[j])
       ELSE UNCHANGED <<heap, stats, failed>>
    /\ j' = j + 1
    /\ UNCHANGED <<owned, values, allocs, used, result, i, pc>>

Return ==
    /\ pc = "free" /\ j > Len(allocs)
    /\ owned' = owned \o result
    /\ pc' = "body"
    /\ values' = <<>> /\ allocs' = <<>> /\ used' = <<>> /\ result' = <<>>
    /\ i' = 1 /\ j' = 1
    /\ UNCHANGED <<heap, stats, failed>>

Next ==
    \/ \E b \in Buffer : Alloc(b)
    \/ NullIndicator
    \/ \E vs \in RetainedLists, n \in 0..Len(owned) : Call(vs, n)
    \/ Match
    \/ NextValue
    \/ EndMatch
    \/ Free
    \/ Return

Spec == Init /\ [][Next]_vars

-----------------------------------------------------------------------------
(* Refinement: seen from the body, the op happens when it returns.  Until  *)
(* then its operands are still in the body and none of them is freed.      *)
OwnedBar == owned \o allocs
HeapBar == [b \in Buffer |-> IF \E k \in DOMAIN allocs : allocs[k] = b
                             THEN "live" ELSE heap[b]]

Promise == INSTANCE Ownership WITH owned <- OwnedBar, heap <- HeapBar

(* The loops do what the op promises: whatever memrefs and indicators they *)
(* are given, the body sees one step of Ownership.                         *)
ImplementsOwnership == Promise!Spec

-----------------------------------------------------------------------------
TypeOK ==
    /\ heap \in [Buffer -> {"unused", "live", "freed"}]
    /\ owned \in Seq(Ref)
    /\ values \in Seq(Ref) /\ allocs \in Seq(Ref)
    /\ used \in [DOMAIN allocs -> BOOLEAN]
    /\ result \in [DOMAIN values -> Ref]
    /\ i \in 1..Len(values) + 1 /\ j \in 1..Len(allocs) + 1
    /\ pc \in {"body", "match", "free"}
    /\ stats \in [{"heapSize", "peakHeapSize", "numAllocations",
                   "numDeallocations"} -> Int]
    /\ failed \in BOOLEAN

\* Iteration (k, q) of the first loops has been executed.
Tried(k, q) == k < i \/ (k = i /\ q < j)
First(k) == \A m \in DOMAIN values : m < k => values[m] # values[k]
LiveIf(q, cond) ==
    allocs[q] # Null => heap[allocs[q]] = IF cond THEN "live" ELSE "freed"

MatchInv ==
    /\ \A q \in DOMAIN allocs :
         /\ used[q] <=> allocs[q] # Null
                        /\ \E k \in DOMAIN values : values[k] = allocs[q] /\ Tried(k, q)
         /\ LiveIf(q, TRUE)
    /\ \A k \in DOMAIN values :
         result[k] = IF /\ values[k] # Null
                        /\ \E q \in DOMAIN allocs : allocs[q] = values[k] /\ Tried(k, q)
                        /\ First(k)
                     THEN values[k] ELSE Null

FreeInv ==
    /\ i = Len(values) + 1
    /\ \A q \in DOMAIN allocs :
         /\ used[q] <=> allocs[q] # Null /\ \E k \in DOMAIN values : values[k] = allocs[q]
         /\ LiveIf(q, used[q] \/ j =< q)
    /\ \A k \in DOMAIN values :
         result[k] = IF /\ values[k] # Null
                        /\ \E q \in DOMAIN allocs : allocs[q] = values[k]
                        /\ First(k)
                     THEN values[k] ELSE Null

(* Where the loops are: an alloc is used once a memref derived from it has *)
(* been compared with it, and belongs to the first such memref; it is      *)
(* freed once the last loop has passed it unused.                          *)
LoopInv ==
    /\ pc = "body" => values = <<>> /\ allocs = <<>>
    /\ pc = "match" => MatchInv
    /\ pc = "free" => FreeInv
    /\ \A k \in DOMAIN values : values[k] # Null => HeapBar[values[k]] = "live"
    /\ Len(values) =< MaxRetained
    /\ pc # "body" => Len(owned) + Len(values) =< MaxOwned

IInv == TypeOK /\ LoopInv /\ Promise!Inv /\ ~failed

(* The double-free branch of Buffer::deallocate is never reached from a    *)
(* retain whose allocs come from allocs and retains.                       *)
NeverFails == ~failed

(* Between ops the statistics count the buffers that have an owner in the  *)
(* body, which are those that an interpreter run would report as leaked.   *)
StatsExact ==
    pc = "body" =>
        /\ stats.heapSize = stats.numAllocations - stats.numDeallocations
        /\ stats.heapSize = Cardinality({k \in DOMAIN owned : owned[k] # Null})
=============================================================================
