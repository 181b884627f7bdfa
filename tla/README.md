# Formal models of mlir-hlo

TLA+ specifications of the parts of mlir-hlo whose correctness is a matter of
state and of sequences of steps: the passes that insert, simplify and optimize
buffer deallocation, the interpreter that runs their output in tests, the
incremental cycle detector, the user range analysis and buffer packing, the shape
component analysis and the patterns that decide on its answers. They are
model-checked with TLC on small instances; for nine of the modules the main
invariants are also proved with TLAPS, for every value of the constants.

`PROJECT.json` is the machine-readable side: components, runs, the source lines
behind every definition (`map`), one plausible bug per checked property
(`mutants`), hazards, findings and theorems. Line numbers below are those of
the sources at the modelled commit.

Contents: 1 the system, 2 the modules, 3 the runs, 4 what is proved,
5 findings and observations, 6 what is not modelled, 7 plan.

## 1. The system

mlir-hlo is a compiler library: dialects (mhlo, lhlo, chlo, thlo, gml_st,
deallocation), passes that rewrite programs in them, analyses that those passes
ask, and an interpreter that runs the programs in tests. Nothing in it runs
concurrently or survives a crash, and no component sends messages: MLIR calls a
pass, the pass calls an analysis, both edit the program in place. What makes
the code hard is elsewhere:

- *aliasing*: two memrefs may point into one buffer, on some control paths only;
- *order of analysis*: a decision is taken on facts that are complete only later
  (loop-carried aliases, the aliasing of a recursive callee);
- *editing while iterating*: loops that insert into and erase from the list
  they walk;
- *long sequences of legal calls*: an incremental structure is right after each
  single call and wrong after ten;
- *passes that trust each other*: a pass relies on a form of the program that
  the one before it happens to leave;
- *rewriting until nothing changes*: rewrites that make room for each other;
- *conclusions from symbols*: a rewrite is decided once, on expressions, and has
  to be right for all sizes at run time.

| component | state | operations | talks to |
|---|---|---|---|
| deallocation dialect (`deallocation/IR`) | ownership indicators: unique pointers to buffers | `own`, `null`, `retain`, `free`, `get_buffer` | the contract between the next five rows |
| hlo-deallocate (`deallocate.cc`) | alias classes, indicator of each memref, aliasing of each function, owned and released sets of a block | transform a module, function, block, op | writes `own`, `null`, `retain` into the program |
| hlo-deallocation-simplification | nullability lattice, rewritten in place | simplify retains | reads the output of hlo-deallocate |
| hlo-buffer-reuse | live ranges in a block | hoist, double buffer, eliminate copies, reuse, promote, until nothing changes | after simplification |
| hlo-deallocation-to-scf | - | replace a retain by a chain of `scf.if` | implements `retain` for compiled code |
| interpreter (`tools/mlir_interpreter`) | heap (`Buffer`), scopes, side channels, statistics, first failure | one function per op | implements `retain` for tests |
| cycle detector (`utils/cycle_detector`) | ranks, edge sets, marks, free nodes | InsertEdge, RemoveEdge, IsReachable, ContractEdge, AllNodesInPostOrder | clients that merge operations (in this repository only its unit test); built on OrderedSet |
| ordered set (`utils/cycle_detector.h`) | a sequence and a map into it | Insert, Erase, Clear, Contains | edge sets of the cycle detector |
| user range analysis (`analysis/userange_analysis`) | operation lists and interval lists per value | find the operations in use, turn them into intervals; intersect, merge, subtract, interfere | asks the alias analysis and liveness of MLIR; asked by buffer packing and by its test pass |
| buffer packing (`transforms/buffer_packing.cc`) | sorted allocations, gaps, offsets | pack | takes the intervals of the analysis |
| shape component analysis (`mhlo/analysis`) | cached expressions per shape or value, symbols per name, two worklists | GetShapeInfo, GetValueInfo, reset | asked by the next row, and by its test pass |
| symbolic-shape-optimization (`mhlo/transforms`) | - | seven patterns; each makes an analysis of its own | asks the shape component analysis |
| mhlo/lhlo/gml_st/thlo/chlo/tosa passes, bindings, tools, stablehlo | none that outlives one rewrite | local rewrites | MLIR's drivers |

What makes each of them correct:

- *retain and its implementations*: of the indicators a function body holds, no
  two own the same buffer, each owns a live one, none owns a buffer of the
  caller, and every live buffer of the body has one. All three implementations
  (interpreter, scf, library call) must look like the same single step.
- *hlo-deallocate*: whichever way branches and loops go, the program it returns
  never touches a freed buffer, frees each buffer once, and leaves no block
  owning more than it hands on; it rejects exactly the programs for which it
  cannot.
- *cycle detector*: its answers are those of a graph that is searched from
  scratch, after any sequence of calls; every call ends.
- *ordered set*: the map and the sequence agree after any sequence of calls.
- *hlo-deallocation-simplification and hlo-buffer-reuse*: the program reads what
  it read before, on every path, without a fault or a leak; the rewrites come to
  an end.
- *interpreter*: an operation that asks for something from the operation around
  it gets it from that one; a failure stops the run, and so does the limit on the
  steps.
- *user ranges*: whatever is executed between two uses of a buffer is in its
  range; the loops over intervals compute the set operation they are named for
  and leave the lists in the form the next caller relies on.
- *buffer packing*: two buffers in use at the same time never share memory.
- *shape component analysis*: an operand is computed before it is looked up; in
  every execution a component has the value of the expression given for it.
- *symbolic-shape-optimization*: no pattern changes what a program computes,
  whatever the dynamic sizes are.

The full list, with the components that are left out, is `components` in
`PROJECT.json`; the places where each can go wrong are `hazards`.

## 2. The modules

    Ownership  <-- RetainInterp, RetainScf      (refinement)
    Dag        <-- GraphCycles                  (refinement)

    Deallocate <-- DeallocateExec               (EXTENDS: runs what the pass returns)
               <-- Rewrite <-- Simplification <-- BufferReuse   (EXTENDS)
               <-- Semantics                                    (EXTENDS)
    BufferReuse, Semantics <-- DeallocationPipeline             (EXTENDS)

    UseInterval <-- UseIntervals, Userange      (EXTENDS)
    UseIntervals, Userange <-- UserangeAnalysis (EXTENDS)
    ShapeVisit, ShapePrograms <-- ShapeComponents <-- SymbolicShapes
                                                (INSTANCE, EXTENDS, EXTENDS)
    OrderedSetState <-- OrderedSet              (EXTENDS)
    BufferPacking, Interpreter                  (on their own)

`MCx` instantiates module x for TLC; `xProofs` holds its theorems, and
GraphCyclesProofs that of OrderedSet too, in which the code keeps the edges of a node. Definitions
keep the names of the source where they can. Definitions under a comment
`Bug variant` are not used by any specification: they are the bodies that
`mutants` puts in place of the definition below them.

**Ownership** - the promise of the deallocation dialect
(`deallocation_ops.td`, `deallocation/README.md`). A function body holds a list
of indicators, `owned`; `heap` says which buffers are live. `Alloc` is
`memref.alloc` with `deallocation.own`, `NullIndicator` is `deallocation.null`,
and `Retain(values, n)` is the op as one step: any memrefs the program may
mention, and all indicators behind the first n.

**RetainInterp** - `retain` in the interpreter
(`dialects/deallocation.cc:51-78`) with `Buffer::deallocate`
(`framework/tensor_or_memref.h:219-232`) and the heap statistics. One step is
one iteration of the inner loop (`Match`), of the outer one (`NextValue`) or of
the loop that frees (`Free`). `ImplementsOwnership` maps it to Ownership: until
the op returns, its operands still count as indicators of the body and as live.

**RetainScf** - the code that `hlo-deallocation-to-scf` emits
(`deallocation_to_scf.cc:38-119`): for one memref or one alloc, a chain of
`scf.if` that compares base addresses. A state is a point of the execution of
that chain. Implements Ownership in the same way. A retain with several of both
is a library call that is not in the repository.

**Deallocate** - the pass `hlo-deallocate`, all of `deallocate.cc`, as
operators on programs: `TransformModule` returns the rewritten functions or the
first error. The alias classes, the indicator map, the view map and the
aliasing of functions are the fields of the state record that is threaded
through; each `Transform...` operator is the function of that name. Programs
have `alloc`, `realloc` and `dealloc`, views, selects, uses, calls, `scf.if`,
`for`, `while` and an op that the pass does not know; values are numbers.
Helpers of `util.cc` (region edges) are written out for those ops.

**DeallocateExec** - execution of what the pass returned, operation by
operation, with a stack of blocks, arbitrary conditions and trip counts, and a
heap that never reuses a buffer. Init picks a source program and transforms it;
the properties are about the run. **MCDeallocate** defines the source programs.

**Dag** - what `cycle_detector.h` promises: a graph without cycles, one step a
call. **GraphCycles** - the class: `InsertEdge`, `IsReachable` and
`ContractEdge` are runs of steps, one per node that a depth-first search visits
and one per edge that a contraction moves; `RemoveEdge` is one step. The
variables are the fields of the nodes and of `Rep`; `before` remembers the graph at
the start of a call, for the refinement to Dag. The order in which a search
meets nodes is arbitrary: in the code it is that of an OrderedSet.

**OrderedSet** - `Insert`, `Erase`, `Clear` with `valueSequence` and
`valueToIndex`, which **OrderedSetState** declares, with what their users rely on;
`contents` is the set that the calls describe.

**UseInterval** - `struct UseInterval`: an interval, its order, when two of them are
contiguous, and their union. **UseIntervals** - `intervalSubtract`,
`intervalIntersect`, `intervalMerge` (with `mergeAndEraseContiguousIntervals`) and
`rangesInterfere` of `userange_analysis.cc`, one step per iteration: `a` is the list
that is edited, `i` and `j` are the two iterators. `ListsSpec` starts with one of these
operations and two lists.

**Rewrite** - walking and editing programs of Deallocate by paths: the
operations of a kind in the order of `walk`, replacing one, renaming a value.
It stands for the MLIR interfaces that the next two modules use.

**Simplification** - the pass `hlo-deallocation-simplification`:
`getAllocNullabilityImpl` with the set of values that are being considered,
`getOwnedValue`, `valueIsUnused`, and the two walks, the first of which sees its
own edits. A nullability is the set of what an indicator may be.

**BufferReuse** - the rewrites of `hlo-buffer-reuse`: `eliminateCopies`,
`reuseBuffers` in both modes, `hoistAllocs`, `doubleBuffer`,
`simplifyLoopDeallocs`, `promoteBuffers`, each with its tests in the order of
the code. Types are names, with a number of elements; "dynamic" is a shape
that is not static.

**Semantics** - an evaluator for programs before and after these passes.
Conditions, trip counts and selections come from a script of booleans; a buffer
holds the number of the last write to it, or garbage. `Run` returns what was
read and what went wrong.

**DeallocationPipeline** - the composition: one action per pass, and one per
step of `BufferReusePass::runOnOperation`, in its order and with its loop.
Init picks a program and runs it on every script; the properties compare the
program with that after every step. **MCDeallocationPipeline** defines the
source programs.

**Userange** - `UserangeInfoBuilder`, `computeInterval` and the constructor of
`UserangeAnalysis` as operators on a control flow graph with nested regions
(block successors, values, views, loops), with what the analysis asks of MLIR
(`Liveness`, `BufferViewFlowAnalysis`), and what it must be measured by: the
operations that some execution runs between two uses of the buffer (`Needed`).
**UserangeAnalysis** - the constructor: the ranges of all aliases of a value
(Userange) are merged into that of the value, one after the other (UseIntervals).
Its `Spec` is that of UseIntervals with the operation "analyse" added.
**MCUserangeAnalysis** has the three programs of `tests/test_userange.mlir`, with an
assumption (`AsTested`) that the operators return the ranges expected there.

**Interpreter** - `interpret` of regions and operations as a stack machine:
a frame is a region with its scope, the operation it is at, the regions that
the handler of this operation will still interpret, and the side channels.
Failures, the limit on steps, what the listener sees and the heap statistics
are state; values are not, and whatever depends on them is a free choice. Allocated
buffers are two numbers: those that `memref.alloc` or `bufferization.clone` has counted
(`live`), and those that exist without it (`uncounted`: arguments of the run,
`memref.get_global`, constants, `bufferization.alloc_tensor`), each of the same size.
`memref.dealloc` frees either kind and subtracts it in any case, before it looks for
what may not be freed; with `disableDeallocations`, chosen at the start, it subtracts
and frees nothing. `given` is a history variable: how many uncounted buffers there
have been.
A program is given with the set of all its regions (`Regions`), so that what the
verifiers of the dialects make sure of (`Verified`) can be said of regions at any
depth without recursion; MCInterpreter computes that set. `OneChannelPerScope`, which
no verifier checks, is a precondition of OwnChannel only (see 5).

**BufferPacking** - `SortedPackingStrategy` with both comparators
(`buffer_packing.cc`): computing the gaps of an allocation, and testing every
later allocation against them, one test a step. Memory is counted in segments of
64 bytes. `RangesAscend` is what the pass takes for granted of its input (see 5).

**ShapeVisit** - the two worklists of `ShapeVisitor::visit`
(`shape_component_analysis.cc:68-236`): which info is taken next, which is skipped,
which is entered at once. What an info needs is a parameter, so that the order
can be proved about for every program.

**ShapePrograms** - programs of shape computations and all their executions: a
program is a sequence of operations, each of which defines one value. Data tensors
have a shape, shape tensors and indices have elements. What the operations
compute is modelled from the lowerings in the repository where there are any
(`ComputedShape`, `Reshapable`), and from what the analysis takes them to be.

**ShapeComponents** - the analysis: ShapeVisit with its parameters (`ShapeDeps`,
`ValueDeps`: the `backward...` functions) and with what is entered (`ShapeExprs`,
`ValueExprs`: the `forward...` functions). `cache` is `symbolicExprsMap` and
`shared` is `symbolicShapeConstraintsMap`; an assertion that fails (`AssertionFails`)
leaves `Forward` without a step. Expressions are those of MLIR's
AffineExpr, with its simplifications.

**SymbolicShapes** - the patterns of `symbolic_shape_optimization.cc`: what each
asks for (`PatternRequests`), what it decides (`SimplifiedBroadcast`,
`KnownExpanding`, `KnownBroadcastable`, `NeverNegativeOne`, `ReshapableWitness`,
`Groups`), and what the operation that it makes gives in an execution
(`RewriteHolds`). **MCSymbolicShapes** defines the programs.

## 3. The runs

States are distinct states. Deadlock is checked in every run: where a
specification stops, it stops in an explicit stuttering step (`Done`,
`Stopped`).

| run | states | question |
|---|---|---|
| ownership | 310 | Does the promise of the dialect itself keep indicators unique, live and complete over any sequence of allocs and retains? |
| retain_interp | 37510 | Do the loops of the interpreter keep that promise, never reach the double-free branch, and keep the statistics exact? |
| retain_scf | 16310 | Does the generated chain of `scf.if` keep it? |
| graph_cycles | 304512 | After any sequence of calls, do the ranks order the graph, are the marks cleared, and is every answer that of a search from scratch? Does every call return? |
| ordered_set | 326 | Do the map and the sequence agree after any sequence of calls? |
| deallocate | 97569 | Are 458 programs free of leaks, double frees and uses after free after the pass, on every path? Are the invalid ones rejected with the right error? |
| deallocation_pipeline | 10112 | Do 595 programs, run on all scripts of four choices after every step of the passes, read what they read before, without a fault or a leak? Do the passes end? |
| use_intervals | 442128 | Do the loops compute what they are named for, for all pairs of short lists? Do the ranges of 107 programs cover every execution? |
| buffer_packing | 1330788 | Can two buffers in use ever share memory, in any order the comparators allow? Does each get one place, inside its buffer? |
| interpreter | 1069694 | Does every operation find the side channel of the operation around it, is the listener's view exact until a failure, how far do statistics and heap differ, and does every run with a limit end? |
| symbolic_shapes | 1025057 | Are operands computed before they are looked up, in 1124 programs and for every pattern and the test pass as client? Does each expression have the value of its component, and each rewrite the result of the operation, in every execution? |
| deallocate_same_operands | - | a disagreement between the code and what its documentation says (5) |

*Properties.* UniqueOwner, NoLeak and Lifecycle are the contract of indicators;
NeverFails is the double-free branch of `Buffer::deallocate`; StatsExact ties the
statistics to the indicators; HeldOnce says that inside the chain of `scf.if` an
alloc is in exactly one of the places that could hand it out, and that nothing
is freed twice.

Ranked is the Pearce-Kelly invariant, MarksCleared that no search leaves marks
for the next one; MergeNeverRefused is the reason why ContractEdge may ignore
what its InsertEdge calls return; NeverCyclic and PostOrderRespectsPaths are
what clients rely on, and ImplementsDag says that every call returns what the
header promises and that a refused one leaves no trace. CallsReturn: every call
ends.

NoUseAfterFree, FreesOnce and BlocksBalance are memory safety of the
transformed programs, block by block; CallerKeeps says that a function frees
nothing that existed before it was called; Verdict compares the errors with
those of `tests/Dialect/deallocation/deallocate_invalid.mlir`.

ReadsPreserved, NoFaults and NothingLeaks compare the program behind each step
of the two later passes with the one before it, on all scripts: what it reads,
whether it touches or frees a buffer it must not, whether a buffer is left.
Terminates says that the loop of `runOnOperation` stops changing the program.

IntersectExact, MergeCovers (which includes that merging a list of one interval
leaves a regular list) and InterfereSound (which includes SubtractKeepsRest) are
the set meaning of the interval loops. RangeCovers: whatever
an execution runs between two uses of a buffer is in its range. GapsAreFree is
the reason for NoClobber, and PackedOnce says that every allocation has one
place, inside its buffer.

OwnChannel: an operation that asks for a side channel gets that of the closest
operation around it which provides one. Accounted says what the statistics and
the listener are worth: `heapSize` is never more than the counted buffers that are
left, whatever failed and with `disableDeallocations` too; as long as nothing failed and
deallocations are not disabled, it is less by exactly the freed buffers that were never
counted, so that it is exact for a run that frees only what it has allocated; and as
long as nothing failed, the regions the listener has seen entered and not left are those
that are running. RunEnds: with a limit on the steps every run ends.

LookupsSucceed: no assertion of the analysis fails, above all those of `lookup`
and `insert`, that an operand is in the cache and that nothing is entered twice.
ExprsHold: in every execution each component that the cache has an expression
for has the value of that expression. RewritesHold: what a pattern decides on
these expressions is right in every execution, and a constraint that it replaces
by a false witness does fail in one.

*Bounds, and why they are enough.*

- ownership, retain_scf: four buffers, one of them the caller's; up to 4 (3)
  indicators and 3 retained memrefs. The loops compare one memref with one
  alloc at a time; three memrefs and three allocs cover a buffer that is
  retained by none, one and several memrefs, with nulls and foreign buffers
  between them. retain_interp has three buffers and the same bounds on the
  lists. Buffers are not interchangeable for TLC because one is borrowed, and no
  symmetry is declared.
- graph_cycles: `NumNodes = 4`. Every graph of four nodes is reached in every
  order of ranks that the calls can produce. A reordering with two nodes on each
  side, a search that stops at the bound, and a contraction that moves edges in
  both directions fit into four nodes. The theorems of section 4
  remove the bound for the invariants.
- ordered_set: five values, so that the erased value is first, in the middle,
  last and alone.
- deallocate: loops with two iter args (every way of yielding arguments, own
  allocations and views of them), nested loops, branches with up to two
  results, callees that allocate, return an argument, or either, a recursive
  callee, and the realloc and dealloc programs of the tests.
  `MaxTrips = 3`: a buffer allocated in one iteration is carried, swapped, and
  dropped in the next two. `MaxCalls = 3`: the recursion is unfolded
  three times; deeper runs are cut, not completed. `FirstFresh = 100` separates
  the values of the source from those of the pass. In the loop and branch
  families no memref is yielded twice and no buffer is passed in two iter
  args: these are the cases that fail (5).
- deallocation_pipeline: `MaxChoices = 4` conditions, trip decisions or selections
  are scripted, after them every condition is false, so that a loop runs up to
  four times and a branch in it goes both ways in any order. Types have one or
  two elements and static or dynamic shapes; `MaxStack = 4` is the 4096 of
  `promoteBuffers`, small enough to run out. The programs are straight lines of
  two or three allocs with writes, reads and copies; loops with two iter args in
  every order, with temporaries in the body, in a nested loop and in the region of the
  condition; branches with temporaries; calls and reallocs. Left out are the loop
  of the second finding (5), and memrefs that a loop yields twice.
- use_intervals: positions 0..7 and up to three intervals, any two regular
  lists. An operation looks at one interval of each list and at most at the next
  ones of the first; three are enough for an interval that overlaps two others
  with one more behind. The theorems of section 4 remove these bounds. The programs are those of the test, and every choice of
  places for the uses of a buffer around and in a loop of blocks, an `scf.for` that
  carries a buffer, a loop or an `if` in a loop, and a chain of views. Left out
  is a buffer that is used in the inner of two loops only, which the analysis does
  not cover (5).
- buffer_packing: three allocations of 0 to 3 segments with use ranges of one or
  two intervals, and the window sizes 0 (sort by size), 1 and 5 (the windows
  split or join the allocations). Three allocations give a rest of a gap that is split
  again.
- interpreter: operations nested up to three deep, in the order before, around
  and behind those that ask for a side channel; `MaxTrips = 2` iterations of a loop,
  so that a channel of the first could be seen by the second; every limit from 0
  to `MaxSteps = 16`, which cuts each program at each of its operations;
  `MaxArguments = 1` buffer passed in, and programs that free it, a global and what
  they have allocated, also twice. Left
  out are two parallel loops in one block, and functions that call themselves
  before anything else (5).
- symbolic_shapes: a dynamic dimension is 0, 1, 2 or 3 at run time
  (`MCSizes`): the sizes that broadcasts and divisions single out, and two others. An
  element of a shape tensor that is passed in is -1, 0, 2 or 3 (`MCElements`).
  The programs are: two arguments of rank 0 to 2 with constants, ones, dynamic
  and named dimensions, broadcast together; a tensor of rank 2 reshaped to lists of up to three
  of its dimensions, their products, constants and -1, behind a witness; a
  second reshape of the result, with products as dimensions; and the programs of
  `tests/shape-component-analysis.mlir`, which have the other operations. The
  client is each operation that a pattern matches, or the test pass, which asks
  for everything. `Reset` may happen between two requests. Left out are the
  cases that section 5 names.

The instances are exhaustive within these bounds: no state constraint cuts a
run.

*Fairness.* The program has one thread and no waiting; what has begun is the
only thing that can happen until it is done. GraphCycles assumes weak fairness of
the next step of the running call and nothing about clients: CallsReturn then
says that the searches end, which rests on marks and rank bounds, for the graph
searched may contain the very edge that closes a cycle. DeallocationPipeline
assumes that the pass manager goes on with the pass it has begun, and
Interpreter that the run goes on: no step of either waits for anything.

## 4. What is proved

All theorems hold for every value of the constants under the named assumptions
`OwnershipAssumption`, `RetainAssumption` and `GraphCyclesAssumption` (null is
not a buffer, borrowed buffers are buffers, bounds are naturals; `None` is not a
node), `RangesAscend` and `FinitelyMany` (use ranges are ascending lists of
positions behind 0; a function has finitely many allocations) and
`InterpreterAssumption` (programs pass the verifiers). OrderedSet and UseIntervals
assume nothing; LookedUpInOrder has `WellFormed` as its hypothesis: what an info needs
and what is requested are lists of infos, and ChannelsAreOwn `OneChannelPerScope`, which
MCInterpreter assumes of the programs of its run. The invariants called `IInv` were checked
with TLC, on instances like those of section 3, before they were proved.

| theorem | module | what |
|---|---|---|
| Invariance, NoTwoOwners, NothingLeaks, FreedOnce | OwnershipProofs | `Inv` (UniqueOwner, OwnedIsLive, NoLeak, BorrowedStayLive) and `Lifecycle` |
| Invariance, NoFailure, Refinement, StatisticsExact | RetainInterpProofs | `IInv`, `NeverFails`, `ImplementsOwnership`, `StatsExact` |
| Invariance, NoneLostOrDuplicated, Refinement | RetainScfProofs | `IInv`, `HeldOnce`, `ImplementsOwnership` |
| Invariance, RanksAscend, NoMarkStays, EdgesMirrored, NoCycle | GraphCyclesProofs | `IInv`, `Ranked`, `MarksCleared`, `Mirrored`, `NeverCyclic` |
| CallInvariance, NoMovedEdgeRefused, Refinement, PostOrder | GraphCyclesProofs | `CInv`, `MergeNeverRefused`, `ImplementsDag`, `PostOrderRespectsPaths` |
| AlwaysConsistent | GraphCyclesProofs | `Consistent` of OrderedSet |
| LookedUpInOrder | ShapeVisitProofs | `OperandsFirst`, the part of `LookupsSucceed` about the order |
| Invariance, FreeGaps, NeverClobbered, EachPlacedOnce | BufferPackingProofs | `IInv`, `GapsAreFree`, `NoClobber`, `PackedOnce` |
| Invariance, NothingElseSubtracted, IntersectionIsExact, MergeIsACover, InterferenceIsSound | UseIntervalsProofs | `IInv`, `SubtractKeepsRest`, `IntersectExact`, `MergeCovers`, `InterfereSound` |
| Invariance, CallsAccounted, ChannelsAreOwn | InterpreterProofs | `IInv`, `Accounted`, `OwnChannel` |

*Ownership.* `Inv` is inductive as it stands. The work is in Retain: a result is
a claimed alloc, no alloc is claimed twice because only the first alias claims
it, and what is not claimed is exactly what is freed. `Lifecycle` follows from
`Inv`: what a retain frees is owned, hence live.

*RetainInterp.* `NeverFails` is not inductive. `IInv` adds where the loops are:
an alloc is used iff some memref compared so far equals it, its result sits at
the first such memref, it is freed iff the last loop has passed it unused
(`LoopInv`), and, seen through the refinement mapping, `Inv` of Ownership holds
(`Promise!Inv`), from which two allocs of one retain are distinct. The step
`Return` is the step Retain of Ownership; every other loop step is a stutter.
`StatsExact` counts: `StatsInv` says that the buffers on the heap are finitely many,
as many as `heapSize` and as allocations without deallocations; between two retains
the indicators, being unique and complete, are in bijection with these buffers.

*RetainScf.* The lowered code never compares buffers: it compares addresses, and
overwrites the variable of an alloc that was given out, instead of marking it.
`ChainInv` says what this amounts to: after each `scf.if` the variable of an alloc is
null iff the memrefs served so far contain its buffer, its address is that of the
variable, and what was yielded for a memref, which the chain carries from one `scf.if`
to the next, is what `Retain` of Ownership would return for it. So the last step is
the step Retain, and every other one a stutter; `HeldOnce` follows because the
allocs of a retain are distinct (`Promise!Inv`).

*GraphCycles.* `Ranked` speaks about rest points only. `IInv` adds: the graph
is mirrored in `in` and `out`; which fields are set in which phase (`CallInv`);
all edges ascend except the one being inserted (`RankInv`); marks are exactly on
the listed nodes (`MarkInv`); the forward search has listed or stacked all
successors below the bound (`ForwardInv`) and the backward search all
predecessors above it, apart from forward nodes (`BackwardInv`). When both stacks are
empty, giving the ranks of the listed nodes to the backward nodes first and
then to the forward nodes makes every edge ascend. That the backward and the
forward nodes do not meet is what the failed search for the bound shows.
`NeverCyclic` follows from `Ranked`: the nodes of higher rank than a node form
a set that no edge leaves. `PostOrderRespectsPaths` follows as well, once it is known
that the present nodes can be sorted at all (`Places`).

That GraphCycles implements Dag needs a second invariant, `CInv`, about calls under
way. `SearchInv`: what a search has listed is reached from its source, without the
edge that InsertEdge has put there for the time being, and ranks below its target; so
"found" means that there is a path. If the stack runs empty instead, the listed nodes and
those ranked above the target are a set that no edge leaves, so that there is
none. `HistoryInv`: until its call returns, the client's graph is the one
without that edge, or with the one that ContractEdge has taken out. `MergeInv`: while
ContractEdge moves edges, those present and those still to move are together
the edges of the merged graph, which has no cycle: give the merged node a rank
above all others, and the nodes that it reaches ranks above that
(`MergeAcyclic`). A nested InsertEdge that found a path would have found a cycle
of that graph; hence `MergeNeverRefused`. Reaches speaks of sets that no edge
leaves, which spares the induction over paths. The return of a client's call is
its step of Dag, everything else a stutter.

*OrderedSet.* `Consistent` with its types is inductive; the case of `Erase` where the value
is itself the last is the one that needs care.

*UseIntervals.* The four properties speak of the end of a loop; `IInv` says of each
loop what the edited list is on the way. `IntersectKept`: the intervals that iterA
has passed are common to both lists, nothing common has been lost, and what iterB has
passed lies before the rest, so that an interval can be erased when the next one of
`b` is behind it. `MergeKept`: every interval starts and ends in a position of the
two lists, and between two of these there is at most one other position
(`Filled`), which is what "contiguous" means for doubled ids; of the intervals of
`b`, those that iterB has passed are covered. Order holds only from iterA on
(`TailOrdered`): what is before it may be out of order when `b` has two or
more intervals (5), and for a single one the list is regular (`Separate`) all the time.
`Grown` describes `mergeAndEraseContiguousIntervals`: one interval in place of
those from iterA to the last neighbour that the growing interval reaches; that all
its positions are accounted for goes back over these neighbours one by one. `ScanKept`:
no interval that one iterator has passed overlaps any of the other list.
`SubtractKeepsRest` needs no order at all, which is why it survives the halves
in the wrong order. The theorems are about `ListsSpec`, the operations on two lists;
the merges of "analyse" are the same steps, but their lists come from Userange, and may
be irregular (5): `RangeCovers` stays with TLC.

*ShapeVisit.* `OperandsFirst` speaks about the moment in which an info is
computed. `NeededIsAhead` is inductive: what an info on the second list needs is
in the map, or later on that list, or still on the first one. When the first
list is empty and the info is the last of the second, only the map is left.
`Climb` puts an info on the second list together with what it needs on the
first; an info leaves the first only into the map or to the end of the second, and
the second only into the map. `Reset` happens with both lists empty. It does not need
that programs are free of cycles: with a cycle the climb would not end, and
there would be nothing to look up.

*BufferPacking.* `GapsAreFree` is not inductive: an allocation that is packed into one
gap must not be in use during another one that already counts its segments as
free. `IInv` adds that the gaps are in order and do not overlap (`GapsInv`), which
is what the comment "The list is sorted" in `findGapAndUpdate` claims and what
the split of a gap keeps. `LayoutInv` is `NoClobber` for the complete
buffers and the one being filled: whoever is in use during the gap ends below the
segments that the gap counts as free, and the new view begins there. `PlacedInv` is
`PackedOnce` at every point: an allocation is ahead of the iterators or has one
view, never both, though `erase` shifts the list under them. Nothing in these proofs is
about the order that the comparators give: any order of the list would be sound.

*Interpreter.* `IInv` is about every frame of the stack (`StackOK`): what a handler
has still to interpret belongs to its operation, its scope holds the channel of its
operation and nothing else, and the block's scope those of the parallel loops up to
where the frame is; each region lies in the operation that the frame below it is
running. That is kept by the three things an action can do to the stack: replace the
top, push, pop. `Accounted` is a part of it, inductive with the types of what it
speaks of: each outcome of a dealloc keeps `heapSize` at or below `live`, and those
that do not fail move `live - heapSize` and `given - uncounted` by the same amount. For `OwnChannel`, the innermost
region offers an operation nothing (its scope has channels of parallel loops
only, and no reduction is behind one), the region around it offers the channel of the
operation it runs, once or several times the same, and if that is not a
vector.mask, no frame further out is one: the region of a mask has no operations
with regions. An operation in the body of a function finds none: what asks for
reductions or indices is never there.

*Checked by TLC only*: liveness (CallsReturn, Terminates, RunEnds), which is out
of reach of the prover; Deallocate, DeallocateExec, Simplification, BufferReuse,
Semantics, DeallocationPipeline, Userange, UserangeAnalysis, ShapePrograms,
ShapeComponents and SymbolicShapes, which are built from or reach RECURSIVE
operators that the prover does not support.

## 5. Findings and observations

The finding is a run that violates one property.

- *One buffer in several iter args* (`deallocate.cc:358`, run
  deallocate_same_operands). A loop body is transformed before the aliases of its
  arguments are known, and frees a buffer that another iter arg yields. It is
  the function `@while` of `deallocate.mlir:106-119`.

Seen while modelling; where a definition is named, it shows the case when put in
place of `SomePrograms` in the .cfg:

- *The owned value of a select* (`deallocation_simplification.cc:126`). If a loop
  yields an `arith.select` of an argument of the function and of the one buffer that
  its body allocates, `getOwnedValue` takes the memref at the place of the
  indicator for the buffer that the indicator owns; the retain becomes a dealloc
  of what may be the caller's buffer (`SelectsUnowned` of
  MCDeallocationPipeline, NoFaults).
- *A memref yielded twice* (`deallocate.cc:284`). The second retain result for it
  overwrites the first at the position of the first; the buffer is neither freed
  nor yielded, while `deallocation/README.md:9-10` says that an indicator must be
  one or the other (`YieldedTwice` of MCDeallocate, BlocksBalance).
- *Two results of a call in one buffer* (`deallocate.cc:184`). The caller knows
  which arguments a result may alias, not that two results may
  (`SharedResults` of MCDeallocate, NoUseAfterFree).
- *intervalMerge* (`userange_analysis.cc:335`) can leave overlapping intervals, and
  out of order, against `userange_analysis.h:73`. It needs a second list of two
  or more intervals; a list of one is merged correctly (MergeCovers).
  (5,5),(8,11) merged with (7,7),(9,9) gives (5,11),(9,9).
- The operations of a view are not sorted before `computeInterval` walks them
  (`userange_analysis.cc:434`), so that a view which is used in a region gives an
  irregular range (`NestedUseOfView` of MCUserangeAnalysis, with `Regular` of the
  result). BufferPacking takes ascending intervals for granted (`RangesAscend`):
  its results hold for inputs without these two cases.
- `computeUserange` adds the operations of the innermost loop around a use, while
  its comment (`userange_analysis.cc:49-50`) speaks of every parent that is a
  loop: a buffer used in an inner loop only is not in use, for the analysis, in
  the rest of the outer one.
- `intervalSubtract` puts the upper half of an interval that it splits before
  the lower one (`userange_analysis.cc:277-283`), so a later interval of the
  second list is compared with the halves in the wrong order: positions that
  should be subtracted may stay. InterfereSound, with SubtractKeepsRest, states what
  does hold. No pass in the repository calls `rangesInterfere`,
  `intervalSubtract`, `intervalIntersect` or `unionRanges`.
- `deallocation/README.md:45-47` warns that returning an argument leads to a
  double free. It does not any more: CallerKeeps and FreesOnce hold for callees that
  return an argument.
- `ownershipIndicator.erase(v)` in transformIfImplicitCapture erases nothing:
  the keys are memrefs, v is an indicator. Results of region ops get no entry in that
  map, so that a realloc of the result of an `scf.if` or a loop is rejected.
- The comment at `buffer_reuse.cc:524` speaks of immediate neighbours; the
  conservative mode reuses a buffer for the next alloc of the block, whatever is
  between. The pattern `retainNoOp`, which a comment
  at `deallocation_simplification.cc:96` refers to, does not exist.
- The side channel of an `scf.parallel` stays in the scope of the block around it
  (`scf.cc:161`), although registering two of a type in a scope is declared
  undefined (`interpreter.h:164-165`): two parallel loops in one block share it
  (`SharedScopes` of MCInterpreter, OwnChannel).
- A step is counted at the end of an operation: the limit does not stop a function
  that calls itself before anything else.
- `tensor.pad` takes the first result of its region without asking whether the
  region failed (`tensor.cc:232`).
- `mhlo.case` compares the index with the number of its results, not with that
  of its regions (`mhlo.cc:656`).
- The interpreter's option `disableDeallocations` (`interpreter.h:66-69`) does
  not stop `retain` and `free` from deallocating. `memref.dealloc` then still
  subtracts from `heapSize` each time, also of a stack buffer or a second time.
- `memref.dealloc` subtracts from `heapSize` (`memref.cc:94`) what no alloc has added:
  globals, constants, `bufferization.alloc_tensor` and arguments of the run are not
  counted (`memref.cc:206-225`, `bufferization.cc:38-49`), and the balance can be negative.
  The same happens before a failure, of a part of a buffer, a stack buffer or a
  freed one. Accounted states what holds nevertheless.
- The messages of a double free and of a use after free print `*allocatedBy`
  (`tensor_or_memref.h:226`, `:259`), which only alloc and alloca set: for other
  buffers that is a null pointer. Interpreter takes a double free for a failure.
- *Two dynamic dimensions in one expansion*: the comments at
  `symbolic_shape_optimization.cc:472-473` and `:591` allow at most one, but the
  first dimension of a group is not counted. A tensor whose dimension is the
  product of two dynamic ones, reshaped to these two, gives an `expand_shape` that
  cannot be built (a program that does so violates RewritesHold).
- `CstrBroadcastableOpLowering` compares every shape with the first one only:
  [1], [n] and [m] get a true witness although n and m need not agree
  (RewritesHold).
- `analyzeDynamicBroadcastInDimExpandingBehavior` aligns the last dimensions and
  does not look at `broadcast_dimensions`: with an operand of one dimension that is
  broadcast into the first of two, the annotation is wrong (RewritesHold).
- `shape.num_elements` of a shape tensor whose own length is dynamic has no value
  info to look up (`shape_component_analysis.cc:715-719`, LookupsSucceed). Such
  programs are built by `rank_specialization.cc:432-434`, when the rank is not known.
- A static dimension of zero fails "shape value must be positive"
  (`shape_component_analysis.cc:484`, LookupsSucceed).
- The shape of a scalar `arith.index_cast` is passed on from its operand, which has
  none (`shape_component_analysis.cc:103-106`): the lookup fails. Only the test
  pass could ask for it.
- `forwardDim` and `forwardTensorExtract` with an index that is not a constant
  enter the info twice, against the assertion of `insert`.
- The climb has no set of visited infos: an info that is reachable on many paths
  is climbed from once for each of them, exponentially often in a chain of
  operations that use their operand twice.
- `cstr_reshapable` is replaced by a false witness when symbolic factors are left on
  one side; they may be one at run time, so that the constraint held.
- `RemoveEdge` is documented for any edge (`cycle_detector.h:128`), while `Erase`
  assumes its value to be present. The models remove existing edges only.

## 6. What is not modelled, and why

The modelled code is a small part of the repository by its lines. By far the
most of them are definitions of operations, their verifiers and folders, rewrite
patterns from one dialect into another, and the vendored stablehlo: each a
function from one piece of a program to another, without state that outlives the
call, without steps that others could come between, and correct if two tensor
functions are equal. A state machine of such a rewrite would be the rewrite
itself.

- *Values in the interpreter*: what its operations compute. Its control flow,
  scopes, failures, limits, heap and statistics are in Interpreter and RetainInterp.
- *Positions of uses* (`UsePosition`) and `unionRanges` of the user range
  analysis: no pass in the repository asks for them.
- *Construction of the packed views* (the second half of buffer-packing) and
  `memory-count`: straight-line code behind the plan that is modelled.
- *convert-deallocation-ops-to-llvm*: emits a call of a library function that is
  not in the repository; Ownership is what that function must do.
- *hlo-split-alloc-tensors, xla-buffer-arg-rewrite*: one local rewrite each.
- *Dialects, lowerings, tiling and fusion (mhlo, lhlo, thlo, gml_st, chlo, tosa)*:
  local rewrites, driven by MLIR.
- *The greedy driver of symbolic-shape-optimization* and the canonicalizations
  that the pass adds: each pattern is applied to a program once.
- *Elements of data tensors* in ShapePrograms: no pattern depends on them.
- *stablehlo*: a vendored project. *Bindings, tools, build files*: no logic.

Abstractions inside the models: tensors, shapes and element types (all
memrefs of Deallocate have one element type; those of BufferReuse have a size and
are static or dynamic); locations and messages other than the error kinds of
Verdict; MLIR's canonicalizer, of which DeallocationPipeline keeps the removal
of dead code; the iteration order of `llvm::EquivalenceClasses` in Deallocate,
which is fixed to one order and on which only the order of emitted ops depends; the
vector order inside GraphCycles, which is arbitrary.

## 7. Plan

1. Proofs: a condition on the second list of a merge, weaker than that it is a single
   interval, under which the merged list is regular.
2. Values in the interpreter as far as its control flow reads them (indices of
   `mhlo.case`, results of failed regions as in `tensor.pad`).
3. The views that buffer packing creates, as bytes instead of segments.
4. A program that several patterns of symbolic-shape-optimization rewrite one
   after the other, with a cache that a rewrite makes stale (`reset`).
