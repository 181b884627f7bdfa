----------------------------- MODULE RetainScf -----------------------------
(***************************************************************************)
(* deallocation.retain as hlo-deallocation-to-scf lowers it                *)
(* (src/deallocation/transforms/deallocation_to_scf.cc:38-119): a chain of *)
(* scf.if ops that compares base pointers, for a retain with one memref or *)
(* one alloc.  A state of this module is a point of the execution of the   *)
(* generated code; a step is one of its scf.if ops.                        *)
(*                                                                         *)
(* The pass has asserted that there are allocs, and leaves a retain with   *)
(* several memrefs and several allocs alone (a library call implements     *)
(* it), so that neither is called here.                                    *)
(***************************************************************************)
EXTENDS Integers, Sequences

CONSTANTS Buffer, Borrowed, Null, MaxOwned, MaxRetained,
          Base    \* the base pointer of each buffer

ASSUME RetainAssumption ==
    /\ Null \notin Buffer
    /\ Borrowed \subseteq Buffer
    /\ MaxOwned \in Nat
    /\ MaxRetained \in Nat

ASSUME BaseAssumption ==
    /\ Base \in [Buffer -> Nat \ {0}]
    /\ \A b, c \in Buffer : Base[b] = Base[c] => b = c

VARIABLES
    heap, owned,    \* as in Ownership; the retain's operands are not in owned
    values,         \* operands: the memrefs
    allocs,         \* operands: the indicators
    alloc, addr,    \* remainingBuffersAndResult: the allocs still to be given
                    \* out and their base pointers, null and 0 once given out
    current,        \* its last element: the result for values[r] so far
    results,        \* results for the memrefs before values[r]
    r, a,           \* the scf.if that comes next: memref r against alloc a
    pc,             \* "body", "chain" or "free"
    failed          \* the generated code freed null, or a buffer twice

call == <<values, allocs, alloc, addr, current, results, r, a>>
vars == <<heap, owned, call, pc, failed>>

Body == INSTANCE Ownership

\* deallocation.get_buffer
GetBuffer(x) == IF x = Null THEN 0 ELSE Base[x]

-----------------------------------------------------------------------------
Init ==
    /\ Body!Init
    /\ values = <<>> /\ allocs = <<>> /\ alloc = <<>> /\ addr = <<>>
    /\ results = <<>>
    /\ current = Null /\ r = 1 /\ a = 1
    /\ pc = "body"
    /\ failed = FALSE

Alloc(b) == pc = "body" /\ Body!Alloc(b) /\ UNCHANGED <<call, pc, failed>>

NullIndicator == pc = "body" /\ Body!NullIndicator /\ UNCHANGED <<call, pc, failed>>

\* The ops before the chain: get_buffer of every alloc.
Call(vs, n) ==
    /\ pc = "body" /\ ~failed
    /\ n < Len(owned)
    /\ Len(vs) = 1 \/ Len(owned) - n = 1
    /\ n + Len(vs) =< MaxOwned
    /\ values' = vs
    /\ owned' = SubSeq(owned, 1, n)
    /\ allocs' = SubSeq(owned, n + 1, Len(owned))
    /\ alloc' = allocs'
    /\ addr' = [k \in DOMAIN allocs' |-> GetBuffer(allocs'[k])]
    /\ current' = Null /\ results' = <<>>
    /\ r' = 1 /\ a' = 1
    /\ pc' = "chain"
    /\ UNCHANGED <<heap, failed>>

Same == GetBuffer(values[r]) = addr[a]

\* Bug variant: an alloc that was given out can be given out again.
YieldKeepingAlloc ==
    /\ current' = alloc[a]
    /\ UNCHANGED <<alloc, addr>>
YieldIfSame ==
    /\ alloc' = [alloc EXCEPT ![a] = Null]
    /\ addr' = [addr EXCEPT ![a] = 0]
    /\ current' = alloc[a]
YieldIfDifferent == UNCHANGED <<alloc, addr, current>>

\* scf.if for memref r and alloc a: both branches yield three values.
CompareAndYield ==
    /\ pc = "chain" /\ r =< Len(values) /\ a =< Len(allocs)
    /\ IF Same THEN YieldIfSame ELSE YieldIfDifferent
    /\ a' = a + 1
    /\ UNCHANGED <<heap, owned, values, allocs, results, r, pc, failed>>

\* Bug variant: the result for a memref carries over to the next one.
NextRetainedKeepingResult ==
    /\ pc = "chain" /\ r =< Len(values) /\ a > Len(allocs)
    /\ results' = Append(results, current)
    /\ r' = r + 1 /\ a' = 1
    /\ UNCHANGED <<heap, owned, values, allocs, alloc, addr, current, pc, failed>>

\* The chain of memref r ends; the next one starts from null.
NextRetained ==
    /\ pc = "chain" /\ r =< Len(values) /\ a > Len(allocs)
    /\ results' = Append(results, current)
    /\ current' = Null
    /\ r' = r + 1 /\ a' = 1
    /\ UNCHANGED <<heap, owned, values, allocs, alloc, addr, pc, failed>>

EndChain ==
    /\ pc = "chain" /\ r > Len(values)
    /\ pc' = "free" /\ a' = 1
    /\ UNCHANGED <<heap, owned, values, allocs, alloc, addr, current, results,
                   r, failed>>

\* scf.if (addr[a] != 0) { deallocation.free }
FreeRemaining ==
    /\ pc = "free" /\ a =< Len(allocs)
    /\ IF addr[a] = 0
       THEN UNCHANGED <<heap, failed>>
       ELSE IF alloc[a] = Null \/ heap[alloc[a]] = "freed"
            THEN failed' = TRUE /\ UNCHANGED heap
            ELSE heap' = [heap EXCEPT ![alloc[a]] = "freed"] /\ UNCHANGED failed
    /\ a' = a + 1
    /\ UNCHANGED <<owned, values, allocs, alloc, addr, current, results, r, pc>>

Return ==
    /\ pc = "free" /\ a > Len(allocs)
    /\ owned' = owned \o results
    /\ pc' = "body"
    /\ values' = <<>> /\ allocs' = <<>> /\ alloc' = <<>> /\ addr' = <<>>
    /\ results' = <<>>
    /\ current' = Null /\ r' = 1 /\ a' = 1
    /\ UNCHANGED <<heap, failed>>

Next ==
    \/ \E b \in Buffer : Alloc(b)
    \/ NullIndicator
    \/ \E vs \in Body!RetainedLists, n \in 0..Len(owned) : Call(vs, n)
    \/ CompareAndYield
    \/ NextRetained
    \/ EndChain
    \/ FreeRemaining
    \/ Return

Spec == Init /\ [][Next]_vars

-----------------------------------------------------------------------------
OwnedBar == owned \o allocs
HeapBar == [b \in Buffer |-> IF \E k \in DOMAIN allocs : allocs[k] = b
                             THEN "live" ELSE heap[b]]

Promise == INSTANCE Ownership WITH owned <- OwnedBar, heap <- HeapBar

(* The generated code does what the op it replaces promises.               *)
ImplementsOwnership == Promise!Spec

-----------------------------------------------------------------------------
Ref == Buffer \cup {Null}

(* While the code runs, no indicator is duplicated or lost: each alloc is  *)
(* either still to be given out, or is the current result, or a result.    *)
(* The frees at the end then meet neither null nor a freed buffer.         *)
HeldOnce ==
    /\ ~failed
    /\ pc = "chain" =>
            \A k \in DOMAIN allocs : allocs[k] # Null =>
                LET holders == {<<"alloc", m>> : m \in {q \in DOMAIN alloc : alloc[q] = allocs[k]}}
                          \cup {<<"result", m>> : m \in {q \in DOMAIN results : results[q] = allocs[k]}}
                          \cup (IF current = allocs[k] THEN {<<"current", 0>>} ELSE {})
                IN  \E h \in holders : holders = {h}
=============================================================================
