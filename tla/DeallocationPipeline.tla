--------------------------- MODULE DeallocationPipeline ---------------------------
(***************************************************************************)
(* The passes of src/deallocation one after the other: hlo-deallocate,     *)
(* hlo-deallocation-simplification, the canonicalizer, and, function by    *)
(* function, the steps of hlo-buffer-reuse, which repeats the middle ones  *)
(* until none of them changes anything.                                    *)
(***************************************************************************)
EXTENDS BufferReuse, Semantics

CONSTANTS Programs,     \* the source programs: their functions, the last one to be
                        \* run, the types of values and the restrict arguments
          MaxChoices    \* the length of the scripts that programs are run on

VARIABLES prog,      \* the source program
          funcs,     \* its functions
          types,     \* the types that are not "f32"
          next,      \* the next unused value
          at,        \* the function that hlo-buffer-reuse is at
          phase,     \* the step that is next
          changed,   \* some step of this round changed something: result
          reference  \* for each script, what the source program reads (history)

vars == <<prog, funcs, types, next, at, phase, changed, reference>>

Scripts == [1..MaxChoices -> BOOLEAN]
RunNow(script) == Run(funcs, script, Len(Last(prog.funcs).yields))

Init ==
    /\ prog \in Programs
    /\ funcs = prog.funcs
    /\ types = prog.types
    /\ next = FirstFresh
    /\ at = 1
    /\ phase = "deallocate"
    /\ changed = FALSE
    /\ reference = [script \in Scripts |-> RunNow(script).reads]

\* A step that only rewrites the current function.
Step(from, to, func) ==
    /\ phase = from
    /\ phase' = to
    /\ funcs' = [funcs EXCEPT ![at] = func]
    /\ UNCHANGED <<prog, reference, types, next, at>>

-----------------------------------------------------------------------------
(* applyPatternsAndFoldGreedily without patterns: operations without       *)
(* effects go when nothing uses them, allocs when nothing but deallocs do. *)
RECURSIVE WithoutDeadOps(_)

DeadOps(func) ==
    LET pure == UNION {ToSet(PathsOf(func, kind)) : kind \in {"own", "null", "view", "select"}}
        allocs == ToSet(PathsOf(func, "alloc"))
        deallocs(v) == {p \in ToSet(PathsOf(func, "dealloc")) : OpAt(func, p).args = <<v>>}
    IN  {{p} : p \in {p \in pure : \A v \in ToSet(OpAt(func, p).res) : UsesOf(func, v) = 0}}
        \cup {{p} \cup deallocs(OpAt(func, p).res[1]) : p \in {p \in allocs :
                UsesOf(func, OpAt(func, p).res[1]) = Cardinality(deallocs(OpAt(func, p).res[1]))}}

\* The later one of two operations, none of which is in the other, goes first.
IsBefore(p, q) ==
    \E k \in DOMAIN p \cap DOMAIN q : p[k] < q[k] /\ \A n \in 1..k - 1 : p[n] = q[n]
Erased(func, S) ==
    FoldLeft(LAMBDA f, p : Splice(f, p, <<>>), func,
             SetToSortSeq(S, LAMBDA p, q : IsBefore(q, p)))

WithoutDeadOps(func) ==
    IF DeadOps(func) = {} THEN func
    ELSE WithoutDeadOps(Erased(func, CHOOSE S \in DeadOps(func) : TRUE))

-----------------------------------------------------------------------------
(* DeallocatePass and DeallocationSimplificationPass; a program that       *)
(* hlo-deallocate rejects goes no further.                                 *)
Deallocate ==
    /\ phase = "deallocate"
    /\ LET st == TransformModule(funcs)
       IN  /\ phase' = IF Ok(st) THEN "simplify" ELSE "rejected"
           /\ funcs' = st.program
           /\ next' = st.next
    /\ UNCHANGED <<prog, reference, types, at, changed>>

SimplifyDeallocation ==
    /\ phase = "simplify"
    /\ phase' = "canonicalize"
    /\ funcs' = [f \in DOMAIN funcs |-> Simplify(funcs[f])]
    /\ UNCHANGED <<prog, reference, types, next, at, changed>>

Canonicalize ==
    /\ phase = "canonicalize"
    /\ phase' = "copies"
    /\ funcs' = [f \in DOMAIN funcs |-> WithoutDeadOps(funcs[f])]
    /\ UNCHANGED <<prog, reference, types, next, at, changed>>

-----------------------------------------------------------------------------
(* BufferReusePass::runOnOperation.                                        *)
Eliminate ==
    /\ Step("copies", "fold", EliminateCopies(funcs[at], types, prog.restrict))
    /\ UNCHANGED changed

\* The first step of a round.
Fold ==
    /\ Step("fold", "reuse", WithoutDeadOps(funcs[at]))
    /\ UNCHANGED changed

ReuseConservatively ==
    LET done == ReuseBuffers(funcs[at], types, "conservative")
    IN  Step("reuse", "hoist", done.block) /\ changed' = done.changed

\* Bug variant: a hoist counts as a change wherever there is an operation with regions.
HoistStepAlwaysChanges ==
    LET done == HoistAllocs(funcs[at], types)
        regions == \E op \in ToSet(funcs[at].ops) : op.regions # <<>>
    IN  /\ Step("hoist", IF regions THEN "fold" ELSE "doubleBuffer", done.block)
        /\ changed' = (changed \/ regions)

\* hoistAllocs || doubleBuffer || simplifyLoopDeallocs: only if nothing is
\* changed by one of them the next one is called.
Hoist ==
    LET done == HoistAllocs(funcs[at], types)
    IN  /\ Step("hoist", IF done.changed THEN "fold" ELSE "doubleBuffer", done.block)
        /\ changed' = (changed \/ done.changed)

BufferTwice ==
    /\ phase = "doubleBuffer"
    /\ LET done == DoubleBuffer(funcs[at], [types |-> types, next |-> next])
       IN  /\ phase' = IF done.changed THEN "fold" ELSE "loopDeallocs"
           /\ funcs' = [funcs EXCEPT ![at] = done.block]
           /\ types' = done.st.types
           /\ next' = done.st.next
           /\ changed' = (changed \/ done.changed)
    /\ UNCHANGED <<prog, reference, at>>

SimplifyLoops ==
    LET done == SimplifyLoopDeallocs(funcs[at])
    IN  /\ Step("loopDeallocs", IF changed \/ done.changed THEN "fold" ELSE "aggressive", done.block)
        /\ changed' = (changed \/ done.changed)

ReuseAggressively ==
    /\ Step("aggressive", "promote", ReuseBuffers(funcs[at], types, "aggressive").block)
    /\ UNCHANGED changed

Promote ==
    /\ Step("promote", "end", PromoteBuffers(funcs[at], types))
    /\ UNCHANGED changed

\* The last folding; then the pass runs on the next function.
EndFunction ==
    /\ phase = "end"
    /\ funcs' = [funcs EXCEPT ![at] = WithoutDeadOps(@)]
    /\ IF at < Len(funcs) THEN at' = at + 1 /\ phase' = "copies"
                          ELSE UNCHANGED at /\ phase' = "done"
    /\ UNCHANGED <<prog, reference, types, next, changed>>

Final == {"done", "rejected"}
Stopped == phase \in Final /\ UNCHANGED vars

Next == \/ Deallocate \/ SimplifyDeallocation \/ Canonicalize
        \/ Eliminate \/ Fold \/ ReuseConservatively \/ Hoist \/ BufferTwice \/ SimplifyLoops
        \/ ReuseAggressively \/ Promote \/ EndFunction \/ Stopped

\* Every step goes on to another phase, and the pass manager takes one until
\* the passes have ended.  (This action, unlike Next, is cheap to test for
\* being enabled.)
Phases == Final \cup {"deallocate", "simplify", "canonicalize", "copies", "fold", "reuse", "hoist",
                      "doubleBuffer", "loopDeallocs", "aggressive", "promote", "end"}
GoOn == phase \notin Final /\ phase' \in Phases

Spec == Init /\ [][Next]_vars /\ WF_phase(GoOn)

-----------------------------------------------------------------------------
IsManaged == phase \notin {"deallocate", "rejected"}

\* Whatever the passes did so far, the program reads what the source program
\* reads, and leaves the same contents in its results and arguments.
ReadsPreserved ==
    IsManaged => \A script \in Scripts : ReadsAs(RunNow(script).reads, reference[script])

\* No run touches or frees what is not allocated, nor what belongs to the
\* caller, and what it returns is alive.
NoFaults == IsManaged => \A script \in Scripts : RunNow(script).faults \subseteq {"leak"}

\* Every run frees what it allocated, or hands it over.
NothingLeaks == IsManaged => \A script \in Scripts : "leak" \notin RunNow(script).faults

\* The rewrites of hlo-buffer-reuse, each of which makes room for others, do
\* not go on for ever.
Terminates == <>(phase \in Final)
=============================================================================
