----------------------------- MODULE Ownership -----------------------------
(***************************************************************************)
(* What the deallocation dialect promises the code that uses it            *)
(* (src/deallocation/IR/deallocation_ops.td, src/deallocation/README.md).  *)
(*                                                                         *)
(* A function body holds a list of ownership indicators: each is a buffer  *)
(* or null.  It gets one from every alloc it executes, and hands some of   *)
(* them to a retain, which gives back one indicator for each memref it was *)
(* asked to retain and frees what is left.  The buffers in Borrowed are    *)
(* arguments of the function: memrefs may alias them, but their owner is   *)
(* the caller.                                                             *)
(*                                                                         *)
(* A retain is one step here.  RetainInterp and RetainScf are the two      *)
(* implementations of it in the repository, loop iteration by iteration.   *)
(***************************************************************************)
EXTENDS Naturals, Sequences

CONSTANTS
    Buffer,        \* identities of heap buffers
    Borrowed,      \* those passed in by the caller of the function
    Null,          \* the null pointer
    MaxOwned,      \* bound: indicators a body holds at a time
    MaxRetained    \* bound: memrefs of one retain

ASSUME OwnershipAssumption ==
    /\ Null \notin Buffer
    /\ Borrowed \subseteq Buffer
    /\ MaxOwned \in Nat
    /\ MaxRetained \in Nat

VARIABLES
    heap,     \* heap[b]: whether b was allocated, and freed since
    owned     \* the indicators the body holds

vars == <<heap, owned>>

Ref == Buffer \cup {Null}
Elems(s) == {s[k] : k \in DOMAIN s}

\* The memrefs a program may mention: null, or a buffer that is still live.
Mentionable == {Null} \cup {b \in Buffer : heap[b] = "live"}
RetainedLists == UNION {[1..n -> Mentionable] : n \in 0..MaxRetained}

-----------------------------------------------------------------------------
(* The result of retain(values) of(allocs): an alloc goes to the first of  *)
(* the memrefs that are derived from it, and is returned once only.        *)
\* Bug variant: every alias of an alloc gets it.
ClaimsAll(values, allocs, k) == values[k] \in Elems(allocs) \ {Null}
Claims(values, allocs, k) ==
    /\ values[k] \in Elems(allocs) \ {Null}
    /\ \A m \in DOMAIN values : m < k => values[m] # values[k]

RetainResult(values, allocs) ==
    [k \in DOMAIN values |-> IF Claims(values, allocs, k) THEN values[k] ELSE Null]

\* Bug variant: allocs are dropped without being freed.
UnretainedNone(values, allocs) == {}
\* Bug variant: whatever is not retained is freed, owned or not.
UnretainedAnything(values, allocs) == Buffer \ Elems(values)
\* The allocs that retain frees: those no memref is derived from.
Unretained(values, allocs) == (Elems(allocs) \ {Null}) \ Elems(values)

-----------------------------------------------------------------------------
Init ==
    /\ heap = [b \in Buffer |-> IF b \in Borrowed THEN "live" ELSE "unused"]
    /\ owned = <<>>

Alloc(b) ==
    /\ heap[b] = "unused"
    /\ Len(owned) < MaxOwned
    /\ heap' = [heap EXCEPT ![b] = "live"]
    /\ owned' = Append(owned, b)

\* deallocation.null: the indicator of a memref the block does not own.
NullIndicator ==
    /\ Len(owned) < MaxOwned
    /\ owned' = Append(owned, Null)
    /\ UNCHANGED heap

\* The first n indicators are kept, the others are the retain's allocs.
Retain(values, n) ==
    LET kept == SubSeq(owned, 1, n)
        allocs == SubSeq(owned, n + 1, Len(owned))
    IN  /\ n + Len(values) =< MaxOwned
        /\ owned' = kept \o RetainResult(values, allocs)
        /\ heap' = [b \in Buffer |-> IF b \in Unretained(values, allocs)
                                     THEN "freed" ELSE heap[b]]

Next ==
    \/ \E b \in Buffer : Alloc(b)
    \/ NullIndicator
    \/ \E values \in RetainedLists, n \in 0..Len(owned) : Retain(values, n)

Spec == Init /\ [][Next]_vars

-----------------------------------------------------------------------------
TypeOK ==
    /\ heap \in [Buffer -> {"unused", "live", "freed"}]
    /\ owned \in Seq(Ref)

(* Indicators are unique pointers (README.md:6-9): no two of them own the  *)
(* same buffer, so no buffer can be freed through one while another still  *)
(* stands for it.                                                          *)
UniqueOwner ==
    \A k, m \in DOMAIN owned : owned[k] = owned[m] => k = m \/ owned[k] = Null

(* What an indicator owns has been allocated here and not been freed: an   *)
(* indicator never dangles and never owns an argument of the function      *)
(* ("Function arguments are always owned by the caller", README.md:40).    *)
OwnedIsLive ==
    \A k \in DOMAIN owned :
        owned[k] # Null => heap[owned[k]] = "live" /\ owned[k] \notin Borrowed

(* Nothing leaks: a live buffer that the caller does not own has an        *)
(* indicator in the body.                                                  *)
NoLeak ==
    \A b \in Buffer \ Borrowed : heap[b] = "live" => b \in Elems(owned)

(* The buffers of the caller are live throughout.                          *)
BorrowedStayLive == \A b \in Borrowed : heap[b] = "live"

Inv == TypeOK /\ UniqueOwner /\ OwnedIsLive /\ NoLeak /\ BorrowedStayLive

(* A buffer that was freed stays freed, and a fresh one is not freed       *)
(* before it was allocated: no double free, no resurrection.               *)
Lifecycle ==
    [][\A b \in Buffer :
         /\ heap[b] = "freed" => heap'[b] = "freed"
         /\ heap'[b] = "freed" => heap[b] # "unused"]_vars
=============================================================================
