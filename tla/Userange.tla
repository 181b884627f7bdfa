-------------------------------- MODULE Userange --------------------------------
(***************************************************************************)
(* How UserangeAnalysis finds the operations in which a buffer is in use   *)
(* (UserangeInfoBuilder and computeInterval of                             *)
(* src/analysis/userange_analysis.cc), and what the executions of the      *)
(* program ask of it.                                                      *)
(*                                                                         *)
(* A program has its operations in the order of walk, the nested ones      *)
(* before their parent, so that an index is a position; a value is defined *)
(* by an operation or is an argument of a block.                           *)
(*   ops[k]: block; uses and reads (what an elementwise operation only     *)
(*     reads); res; loop (LoopLikeOpInterface); jumps, where it goes, if   *)
(*     not to the next operation of its block, with what it passes on:     *)
(*     records [to, pass], pass a set of <<value, where it arrives>>, to   *)
(*     an operation that ends if it comes from itself or from inside;      *)
(*     views, pairs of a value and a result that is a view of it           *)
(*   blocks[b]: parent, the operation it is nested in or 0; args; succs    *)
(*   allocs: the values that are results of an alloc                       *)
(***************************************************************************)
EXTENDS Integers, FiniteSetsExt, SequencesExt, UseInterval

\* A set of positive numbers in ascending order.
Ascending(S) == SelectSeq([n \in 1..Max(S \cup {0}) |-> n], LAMBDA n : n \in S)

BlockOps(p, b) == {k \in DOMAIN p.ops : p.ops[k].block = b}
FrontOf(p, b) == Min(BlockOps(p, b))
BackOf(p, b) == Max(BlockOps(p, b))
BlocksOf(p, k) == Ascending({b \in DOMAIN p.blocks : p.blocks[b].parent = k})

\* getUses: the latest first.
UsesOf(p, v) == Reverse(Ascending({k \in DOMAIN p.ops : v \in p.ops[k].uses}))
DefOf(p, v) == CHOOSE k \in DOMAIN p.ops : v \in p.ops[k].res
IsArg(p, v) == \E b \in DOMAIN p.blocks : v \in p.blocks[b].args
BlockOfValue(p, v) == IF IsArg(p, v) THEN CHOOSE b \in DOMAIN p.blocks : v \in p.blocks[b].args
                      ELSE p.ops[DefOf(p, v)].block

-----------------------------------------------------------------------------
(* What MLIR tells the analysis: nesting, aliases and liveness.            *)
RECURSIVE AncestorIn(_, _, _), Reached(_, _), LiveFrom(_, _, _)

\* findAncestorOpInBlock, or 0.
AncestorIn(p, b, k) ==
    IF k = 0 \/ p.ops[k].block = b THEN k ELSE AncestorIn(p, b, p.blocks[p.ops[k].block].parent)

\* BufferViewFlowAnalysis::resolve: the values a buffer may be passed on to.
Passes(p) == UNION {j.pass : j \in UNION {op.jumps : op \in ToSet(p.ops)}}
                \cup UNION {op.views : op \in ToSet(p.ops)}
Reached(p, S) ==
    LET more == S \cup {e[2] : e \in {e \in Passes(p) : e[1] \in S}}
    IN  IF more = S THEN S ELSE Reached(p, more)
Resolve(p, v) == Reached(p, {v})

\* Liveness: the blocks, of the region v is defined in or nested ones, at
\* the start of which v is live.
Encloses(p, b, v) == AncestorIn(p, b, FrontOf(p, BlockOfValue(p, v))) # 0
UsesIn(p, b, v) == {k \in {AncestorIn(p, b, u) : u \in ToSet(UsesOf(p, v))} : k # 0}
LiveFrom(p, v, S) ==
    LET more == S \cup {b \in DOMAIN p.blocks : ~Encloses(p, b, v) /\ p.blocks[b].succs \cap S # {}}
    IN  IF more = S THEN S ELSE LiveFrom(p, v, more)
LiveIn(p, v) == LiveFrom(p, v, {b \in DOMAIN p.blocks : ~Encloses(p, b, v) /\ UsesIn(p, b, v) # {}})
IsLiveOut(p, b, v) == p.blocks[b].succs \cap LiveIn(p, v) # {}

\* resolveLiveness: block by block, the last one found first.
BlockRange(p, b, v) ==
    LET start == IF b = BlockOfValue(p, v) /\ ~IsArg(p, v) THEN DefOf(p, v) ELSE FrontOf(p, b)
        end == IF IsLiveOut(p, b, v) THEN BackOf(p, b) ELSE Max(UsesIn(p, b, v) \cup {start})
    IN  Ascending({k \in BlockOps(p, b) : start <= k /\ k <= end})

RECURSIVE RangesOf(_, _, _, _, _)
RangesOf(p, v, toProcess, visited, result) ==
    IF toProcess = <<>> THEN result
    ELSE LET b == Last(toProcess)
             more == Ascending((p.blocks[b].succs \cap LiveIn(p, v)) \ visited)
         IN  RangesOf(p, v, Front(toProcess) \o more, visited \cup ToSet(more),
                      result \o BlockRange(p, b, v))
ResolveLiveness(p, v) ==
    LET blocks == FoldLeft(LAMBDA bs, k : IF p.ops[k].block \in ToSet(bs) THEN bs
                                          ELSE Append(bs, p.ops[k].block),
                           <<BlockOfValue(p, v)>>, UsesOf(p, v))
    IN  RangesOf(p, v, blocks, ToSet(blocks), <<>>)

-----------------------------------------------------------------------------
(* UserangeInfoBuilder for a value v and its uses.  The builder u has the  *)
(* visited blocks, those it started from, and the operations found so far. *)
RECURSIVE AddBetween(_, _, _, _, _), AddRegions(_, _, _, _), AddBlocks(_, _, _, _, _)

\* What it works on: a program, a value, the operations that count as its uses.
Job(p, v, uses) == [p |-> p, v |-> v, uses |-> uses]
Ancestors(q, b) == {AncestorIn(q.p, b, k) : k \in ToSet(q.uses)} \ {0}

\* getStartOperation and getEndOperation
StartOp(q, b) == Min({BackOf(q.p, b)} \cup Ancestors(q, b))
EndOp(q, b) == IF IsLiveOut(q.p, b, q.v) THEN BackOf(q.p, b)
               ELSE Max({FrontOf(q.p, b)} \cup Ancestors(q, b))

\* addAllOperationsBetween: the operations of the block from start to end.
AddBetween(q, u, b, start, end) ==
    FoldLeft(LAMBDA w, k : LET inner == AddRegions(q, w, k, BlocksOf(q.p, k))
                           IN  [inner EXCEPT !.found = @ \cup {k}],
             u, Ascending({k \in BlockOps(q.p, b) : start <= k /\ k <= end}))

\* The operations of a block that lie before its first use.
AddBeforeStart(q, u, b) ==
    IF FrontOf(q.p, b) = StartOp(q, b) THEN u
    ELSE AddBetween(q, u, b, FrontOf(q.p, b), StartOp(q, b) - 1)

\* addAllOperationsInRegion, for these blocks of the operation.
AddRegions(q, u, k, blocks) ==
    IF blocks = <<>> THEN u
    ELSE LET b == Head(blocks)
             isNew == b \notin u.starts \cup u.visited
             all == AddBetween(q, [u EXCEPT !.visited = @ \cup {b}], b, FrontOf(q.p, b), BackOf(q.p, b))
             before == IF b \in u.starts THEN AddBeforeStart(q, u, b) ELSE u
             rest == IF EndOp(q, b) = BackOf(q.p, b) THEN before
                     ELSE AddBetween(q, before, b, EndOp(q, b) + 1, BackOf(q.p, b))
         IN  AddRegions(q, IF isNew THEN all ELSE rest, k, Tail(blocks))

\* findOperationsInUse: from the blocks that are left, the last one first.
Successors(q, b) == Ascending(q.p.blocks[b].succs \cap LiveIn(q.p, q.v))
AddBlocks(q, u, startBlock, b, toProcess) ==
    LET from == IF b = startBlock THEN StartOp(q, b) ELSE FrontOf(q.p, b)
        range == AddBetween(q, u, b, from, EndOp(q, b))
        looped == IF startBlock \in ToSet(Successors(q, b)) THEN AddBeforeStart(q, range, startBlock) ELSE range
        more == SelectSeq(Successors(q, b), LAMBDA c : c # startBlock /\ c \notin looped.visited)
        next == toProcess \o more
        done == [looped EXCEPT !.visited = @ \cup ToSet(more)]
    IN  IF next = <<>> THEN done ELSE AddBlocks(q, done, startBlock, Last(next), Front(next))

\* The closest loop around an operation, or 0, and whether it lies deeper
\* than what v is defined in.
RECURSIVE LoopParent(_, _), IsDeeper(_, _, _)
ParentOf(p, k) == p.blocks[p.ops[k].block].parent

\* Bug variant: only the operation directly around it is looked at.
ParentIfLoop(p, k) == IF ParentOf(p, k) # 0 /\ p.ops[ParentOf(p, k)].loop THEN ParentOf(p, k) ELSE 0

LoopParent(p, k) ==
    IF ParentOf(p, k) = 0 \/ p.ops[ParentOf(p, k)].loop THEN ParentOf(p, k)
    ELSE LoopParent(p, ParentOf(p, k))
IsDeeper(p, v, k) ==
    /\ ParentOf(p, k) # p.blocks[BlockOfValue(p, v)].parent
    /\ ParentOf(p, k) # 0
    /\ \/ ParentOf(p, ParentOf(p, k)) = p.blocks[BlockOfValue(p, v)].parent
       \/ IsDeeper(p, v, ParentOf(p, k))

\* findTopLiveBlock
RECURSIVE TopLiveOp(_, _, _)
TopLiveOp(q, k, top) ==
    IF k = 0 THEN top
    ELSE TopLiveOp(q, ParentOf(q.p, k), IF IsLiveOut(q.p, q.p.ops[k].block, q.v) THEN k ELSE top)

\* One use of computeUserange.
AddUse(q, u, k) ==
    LET loop == LoopParent(q.p, k)
        v == IF loop # 0 /\ IsDeeper(q.p, q.v, k) THEN AddRegions(q, u, loop, BlocksOf(q.p, loop)) ELSE u
        b == q.p.ops[TopLiveOp(q, k, k)].block
        started == [v EXCEPT !.starts = @ \cup {b}]
    IN  IF b \in v.starts \cup v.visited THEN started ELSE AddBlocks(q, started, b, b, <<>>)
ComputeUserange(q) ==
    FoldLeft(LAMBDA u, k : AddUse(q, u, k), [starts |-> {}, visited |-> {}, found |-> {}], q.uses).found

-----------------------------------------------------------------------------
(* computeId and computeInterval, and the ranges of the constructor.       *)
ComputeId(p, v, k) == IF v \in p.ops[k].reads THEN 2 * k - 2 ELSE 2 * k - 1

\* The difference of the ids is unsigned: an id that is smaller than the one
\* before is as good as far away.
ComputeInterval(p, v, list) ==
    FoldLeft(LAMBDA s, k :
                LET id == ComputeId(p, v, k)
                IN  IF id >= Last(s).end /\ id - Last(s).end <= 2
                    THEN Append(Front(s), Interval(Last(s).start, id))
                    ELSE Append(s, Interval(id, id)),
             <<Interval(ComputeId(p, v, list[1]), ComputeId(p, v, list[1]))>>, Tail(list))

\* The operations of an alloc and of a block argument are sorted, those of
\* another alias are taken as liveness has them.
OperationsOf(p, v) ==
    LET uses == IF IsArg(p, v) THEN <<FrontOf(p, BlockOfValue(p, v))>> \o UsesOf(p, v) ELSE UsesOf(p, v)
    IN  IF v \in p.allocs \/ IsArg(p, v)
        THEN Ascending(ComputeUserange(Job(p, v, uses)))
        ELSE ResolveLiveness(p, v)
RangeOf(p, v) == ComputeInterval(p, v, OperationsOf(p, v))
AliasRanges(p, v) == {<<w, RangeOf(p, w)>> : w \in Resolve(p, v) \ {v}}

-----------------------------------------------------------------------------
(* The executions.  A state has the operation that is next, whether it is  *)
(* about to end, the values that hold the buffer last allocated for v, and *)
(* the operations since one of them was used, {} if none was.              *)
RECURSIVE Reachable(_, _, _)

Received(holds, pass) == (holds \ {e[2] : e \in pass}) \cup {e[2] : e \in {e \in pass : e[1] \in holds}}
Ends(p, s) == s.ends \/ BlocksOf(p, s.at) = <<>>
Touches(p, s) == Ends(p, s) /\ p.ops[s.at].uses \cap s.holds # {}

Executed(p, v, s) ==
    LET op == p.ops[s.at]
        isAlloc == v \in op.res
    IN  [s EXCEPT !.holds = IF isAlloc THEN {v} ELSE Received(@, op.views),
                  !.since = IF isAlloc THEN {} ELSE IF Touches(p, s) THEN {s.at}
                            ELSE IF @ = {} THEN {} ELSE @ \cup {s.at}]
Jumped(p, s, j) ==
    [s EXCEPT !.at = j.to, !.holds = Received(@, j.pass),
              !.ends = AncestorIn(p, p.ops[j.to].block, s.at) = j.to]
Successor(p, s) == Min({k \in BlockOps(p, p.ops[s.at].block) : k > s.at})

StepsFrom(p, v, s) ==
    IF ~Ends(p, s) THEN {Jumped(p, s, j) : j \in p.ops[s.at].jumps}
    ELSE IF p.ops[s.at].jumps # {} /\ BlocksOf(p, s.at) = <<>>
    THEN {Jumped(p, Executed(p, v, s), j) : j \in p.ops[s.at].jumps}
    ELSE IF s.at = BackOf(p, p.ops[s.at].block) THEN {}
    ELSE {[Executed(p, v, s) EXCEPT !.at = Successor(p, s), !.ends = FALSE]}

Reachable(p, v, S) ==
    LET more == S \cup UNION {StepsFrom(p, v, s) : s \in S}
    IN  IF more = S THEN S ELSE Reachable(p, v, more)

\* The operations that are executed from one use of the buffer to another one.
Needed(p, v) ==
    UNION {s.since \cup {s.at} : s \in
        {s \in Reachable(p, v, {[at |-> FrontOf(p, 1), ends |-> FALSE, holds |-> {}, since |-> {}]}) :
            Touches(p, s)}}
=============================================================================
