------------------------------- MODULE BufferReuse -------------------------------
(***************************************************************************)
(* The rewrites of the pass hlo-buffer-reuse                               *)
(* (src/deallocation/transforms/buffer_reuse.cc) as operators on the body  *)
(* of a function.  A memref without an entry in types has type "f32"; one  *)
(* of type "dynamic" has no static shape.                                  *)
(***************************************************************************)
EXTENDS Simplification

CONSTANTS NumElements,   \* the number of elements of each static type
          MaxStack       \* the elements that may be promoted to the stack

Type(types, v) == IF v \in DOMAIN types THEN types[v]
                  ELSE IF IsIndicator(v) THEN "ownership" ELSE "f32"
IsStatic(types, v) == Type(types, v) # "dynamic"
SameType(types, u, v) == Type(types, u) = Type(types, v)

First(S) == IF S = {} THEN 0 ELSE Min(S)
\* The first dealloc of v among the operations.
DeallocOf(ops, v) == First({j \in DOMAIN ops : ops[j].kind = "dealloc" /\ ops[j].args = <<v>>})
AllocsOf(ops) == LET allocs == SelectSeq(ops, LAMBDA op : op.kind = "alloc")
                 IN  Computed([n \in DOMAIN allocs |-> allocs[n].res[1]])

-----------------------------------------------------------------------------
(* eliminateCopies: a copy whose source is freed right behind it.          *)
RECURSIVE EliminateFrom(_, _, _, _)

\* The path of the alloc of v in the function, or <<>>.
AllocPath(func, v) ==
    LET found == SelectSeq(PathsOf(func, "alloc"), LAMBDA p : OpAt(func, p).res = <<v>>)
    IN  IF found = <<>> THEN <<>> ELSE found[1]

Mentions(op, v) ==
    \/ v \in Operands(op)
    \/ \E region \in ToSet(op.regions) : UsesOf(region, v) > 0

\* v is used in [start; end), where start is a path and v an operand of the
\* copy; if end is not in the block of start, the copy is among the operations.
HasUsesBetween(func, start, end, v) ==
    \/ Front(start) # Front(end)
    \/ \E k \in Last(start) .. Last(end) - 1 : Mentions(BlockOf(func, start).ops[k], v)

\* Bug variant: what happened to the target before the copy is not looked at.
TargetIsFirstUseOfAllocUnchecked(func, copy, target) == AllocPath(func, target) # <<>>

TargetIsFirstUseOfAlloc(func, copy, target) ==
    /\ AllocPath(func, target) # <<>>
    /\ ~HasUsesBetween(func, AllocPath(func, target), copy, target)

IsSafe(func, restrict, copy, source, target) ==
    \/ target \in restrict /\ ~HasUsesBetween(func, <<1>>, copy, target)
    \/ /\ TargetIsFirstUseOfAlloc(func, copy, target)
       /\ ~HasUsesBetween(func, <<1>>, AllocPath(func, target), source)

IsEliminable(func, types, restrict, copy) ==
    LET ops == BlockOf(func, copy).ops
        source == OpAt(func, copy).args[1]
        target == OpAt(func, copy).args[2]
    IN  /\ Last(copy) < Len(ops)
        /\ ops[Last(copy) + 1].kind = "dealloc" /\ ops[Last(copy) + 1].args = <<source>>
        /\ SameType(types, source, target)
        /\ AllocPath(func, source) # <<>>
        /\ IsSafe(func, restrict, copy, source, target)

\* The copy, the dealloc behind it and the alloc of the source are erased.
WithoutCopy(func, copy) ==
    LET source == OpAt(func, copy).args[1]
        target == OpAt(func, copy).args[2]
        alloc == AllocPath(func, source)
    IN  Splice(Renamed(Splice(Splice(func, copy, <<>>), copy, <<>>), source, target), alloc, <<>>)

EliminateFrom(func, types, restrict, i) ==
    LET copies == PathsOf(func, "copy")
    IN  IF i > Len(copies) THEN func
        ELSE IF IsEliminable(func, types, restrict, copies[i])
             THEN EliminateFrom(WithoutCopy(func, copies[i]), types, restrict, i)
             ELSE EliminateFrom(func, types, restrict, i + 1)

EliminateCopies(func, types, restrict) == EliminateFrom(func, types, restrict, 1)

-----------------------------------------------------------------------------
(* reuseBuffers: a buffer that is freed takes the place of the next alloc. *)
RECURSIVE ReuseFrom(_, _, _, _, _)

\* An alloc of this type from the k-th to before the a-th operation.
AnyAllocBetween(ops, types, k, a) ==
    \E op \in OpsIn(Block(<<>>, SubSeq(ops, k, a - 1), <<>>)) :
        op.kind = "alloc" /\ SameType(types, op.res[1], ops[a].res[1])

\* The alloc that the buffer freed by the k-th operation is reused for, or 0.
ReusedBy(ops, types, mode, k) ==
    LET a == First({j \in DOMAIN ops : j > k /\ ops[j].kind = "alloc"})
    IN  IF /\ a # 0
           /\ ~(mode = "conservative" /\ AnyAllocBetween(ops, types, k, a))
           /\ IsStatic(types, ops[a].res[1])
           /\ SameType(types, ops[a].res[1], ops[k].args[1])
        THEN a ELSE 0

Coalesced(block, k, a) ==
    Renamed([block EXCEPT !.ops = Without(@, {k, a})], block.ops[a].res[1], block.ops[k].args[1])

\* From the k-th operation of a block on; a reuse goes on behind the alloc.
ReuseFrom(block, types, mode, k, changed) ==
    IF k > Len(block.ops) THEN [block |-> block, changed |-> changed]
    ELSE IF block.ops[k].kind = "dealloc" /\ ReusedBy(block.ops, types, mode, k) # 0
    THEN LET a == ReusedBy(block.ops, types, mode, k)
         IN  ReuseFrom(Coalesced(block, k, a), types, mode, a - 1, TRUE)
    ELSE LET inner == Computed([r \in DOMAIN block.ops[k].regions |->
                                    ReuseFrom(block.ops[k].regions[r], types, mode, 1, FALSE)])
         IN  ReuseFrom([block EXCEPT !.ops[k].regions = Computed([r \in DOMAIN inner |-> inner[r].block])],
                       types, mode, k + 1, changed \/ \E r \in DOMAIN inner : inner[r].changed)

ReuseBuffers(block, types, mode) == ReuseFrom(block, types, mode, 1, FALSE)

-----------------------------------------------------------------------------
(* hoistAllocs: what a region allocates and frees is allocated before and  *)
(* freed behind the operation, once for all of its regions.                *)
RECURSIVE HoistAllocs(_, _)

\* The alloc of v leaves region r: for a free buffer of its type, or for one
\* that is allocated before the operation.
HoistAlloc(acc, types, r, v) ==
    LET region == acc.op.regions[r]
        a == First({j \in DOMAIN region.ops : region.ops[j].res = <<v>>})
        d == DeallocOf(region.ops, v)
        f == First({n \in DOMAIN acc.free : acc.free[n] # NoValue /\ SameType(types, acc.free[n], v)})
        rest == [region EXCEPT !.ops = Without(@, {a, d})]
    IN  IF d = 0 \/ ~IsStatic(types, v) THEN acc
        ELSE IF f = 0
        THEN [acc EXCEPT !.op.regions[r] = rest, !.hoisted = Append(@, v),
                         !.allocs = Append(@, region.ops[a]),
                         !.deallocs = <<region.ops[d]>> \o @]
        ELSE [acc EXCEPT !.op.regions[r] = Renamed(rest, v, acc.free[f]),
                         !.hoisted = Append(@, acc.free[f]), !.free[f] = NoValue]

HoistFromRegion(acc, types, r) ==
    LET done == FoldLeft(LAMBDA a, v : HoistAlloc(a, types, r, v),
                         [acc EXCEPT !.free = acc.hoisted, !.hoisted = <<>>],
                         AllocsOf(acc.op.regions[r].ops))
    IN  [done EXCEPT !.hoisted = @ \o SelectSeq(done.free, LAMBDA v : v # NoValue)]

HoistFrom(op, types) ==
    FoldLeft(LAMBDA acc, r : HoistFromRegion(acc, types, r),
             [op |-> op, free |-> <<>>, hoisted |-> <<>>, allocs |-> <<>>, deallocs |-> <<>>],
             IF HasFlow(op) THEN Indices(Len(op.regions)) ELSE <<>>)

HoistOp(acc, types, op) ==
    LET inner == Computed([r \in DOMAIN op.regions |-> HoistAllocs(op.regions[r], types)])
        done == HoistFrom([op EXCEPT !.regions = Computed([r \in DOMAIN inner |-> inner[r].block])],
                          types)
    IN  [ops |-> acc.ops \o done.allocs \o <<done.op>> \o done.deallocs,
         changed |-> \/ acc.changed \/ done.hoisted # <<>>
                     \/ \E r \in DOMAIN inner : inner[r].changed]

HoistAllocs(block, types) ==
    LET done == FoldLeft(LAMBDA acc, op : HoistOp(acc, types, op),
                         [ops |-> <<>>, changed |-> FALSE], block.ops)
    IN  [block |-> [block EXCEPT !.ops = done.ops], changed |-> done.changed]

-----------------------------------------------------------------------------
(* doubleBuffer: an alloc and a dealloc of a loop's body become one more   *)
(* buffer that goes around with the loop.  st holds the types and the next *)
(* unused value.                                                           *)
RECURSIVE DoubleBufferPairs(_, _), DoubleBuffer(_, _)

\* The pairs of an alloc and a dealloc in the block, both the first of a type.
PairsIn(ops, types) ==
    {<<a, d>> \in (DOMAIN ops) \X (DOMAIN ops) :
        LET type == Type(types, ops[a].res[1])
        IN  /\ ops[a].kind = "alloc" /\ ops[d].kind = "dealloc" /\ type # "dynamic"
            /\ Type(types, ops[d].args[1]) = type
            /\ \A k \in 1..a - 1 : ops[k].kind = "alloc" => Type(types, ops[k].res[1]) # type
            /\ \A k \in 1..d - 1 : ops[k].kind = "dealloc" => Type(types, ops[k].args[1]) # type}

\* The other region of a while loop passes the buffer on.
Forwarded(regions, r, arg) ==
    [q \in DOMAIN regions |->
        IF q = r THEN regions[q]
        ELSE [regions[q] EXCEPT !.yields = Append(@, arg), !.args = Append(@, arg)]]

\* Region r of acc.op: the alloc becomes an argument of the region and an
\* operand of the loop, the dealloc is yielded instead.
DoubleBufferPair(acc, r, a, d) ==
    LET region == acc.op.regions[r]
        alloc == region.ops[a]
        arg == acc.st.next
        renamed == Renamed(region, alloc.res[1], arg)
        stashed == [renamed EXCEPT !.args = Append(@, arg), !.ops = Without(@, {a, d}),
                                   !.yields = Append(@, renamed.ops[d].args[1])]
    IN  [acc EXCEPT
            !.op.args = Append(@, alloc.res[1]),
            !.op.regions = Forwarded([@ EXCEPT ![r] = stashed], r, arg + 1),
            !.st.next = @ + 3,
            !.st.types = (arg :> Type(@, alloc.res[1])) @@ (arg + 1 :> Type(@, alloc.res[1]))
                            @@ (arg + 2 :> Type(@, alloc.res[1])) @@ @,
            !.allocs = Append(@, alloc),
            !.results = Append(@, arg + 2)]

DoubleBufferPairs(acc, r) ==
    LET pairs == PairsIn(acc.op.regions[r].ops, acc.st.types)
    IN  IF pairs = {} THEN acc
        ELSE LET pair == CHOOSE p \in pairs : TRUE
             IN  DoubleBufferPairs(DoubleBufferPair(acc, r, pair[1], pair[2]), r)

DoubleBufferLoop(op, st) ==
    LET done == FoldLeft(DoubleBufferPairs,
                         [op |-> op, st |-> st, allocs |-> <<>>, results |-> <<>>],
                         IF op.kind \in {"for", "while"} THEN Indices(Len(op.regions)) ELSE <<>>)
    IN  [done EXCEPT !.op.res = @ \o done.results]

DoubleBufferRegion(acc, region) ==
    LET done == DoubleBuffer(region, acc.st)
    IN  [st |-> done.st, regions |-> Append(acc.regions, done.block), changed |-> acc.changed \/ done.changed]

DoubleBufferOp(acc, op) ==
    LET inner == FoldLeft(DoubleBufferRegion,
                          [st |-> acc.st, regions |-> <<>>, changed |-> acc.changed], op.regions)
        done == DoubleBufferLoop([op EXCEPT !.regions = inner.regions], inner.st)
    IN  [st |-> done.st, changed |-> inner.changed \/ done.results # <<>>,
         ops |-> acc.ops \o done.allocs \o <<done.op>>
                    \o [n \in DOMAIN done.results |->
                            Op("dealloc", <<Reverse(done.results)[n]>>, <<>>, <<>>, 0)]]

DoubleBuffer(block, st) ==
    LET done == FoldLeft(DoubleBufferOp, [ops |-> <<>>, st |-> st, changed |-> FALSE], block.ops)
    IN  [block |-> [block EXCEPT !.ops = done.ops], st |-> done.st, changed |-> done.changed]

-----------------------------------------------------------------------------
(* simplifyLoopDeallocs: when a loop permutes buffers and its results are  *)
(* freed, the buffers themselves can be freed.                             *)

RegionArgs(op) == UNION {ToSet(region.args) : region \in ToSet(op.regions)}
\* The dealloc that is the only use of a result.
OnlyDealloc(block, v) == IF UsesOf(block, v) = 1 THEN DeallocOf(block.ops, v) ELSE 0

\* Every member is an operand, an argument of a region, or a result that is
\* freed or not used at all.
IsUnderstood(block, op, C) ==
    \A v \in C : \/ v \in ToSet(op.args) \cup RegionArgs(op)
                 \/ v \in ToSet(op.res) /\ (UsesOf(block, v) = 0 \/ OnlyDealloc(block, v) # 0)

\* The deallocs of the class, if there are as many of them as operands.
ClassDeallocs(block, op, C) ==
    LET deallocs == {OnlyDealloc(block, v) : v \in (C \cap ToSet(op.res)) \ ToSet(op.args)} \ {0}
    IN  IF IsUnderstood(block, op, C) /\ Cardinality(deallocs) = Cardinality(C \cap ToSet(op.args))
        THEN deallocs ELSE {}

\* The deallocs free the operands of the class, in some order.
SimplifyClass(acc, op, C) ==
    LET deallocs == InSomeOrder(ClassDeallocs(acc.block, op, C))
        operands == InSomeOrder(C \cap ToSet(op.args))
    IN  FoldLeft(LAMBDA a, n : [block |-> [a.block EXCEPT !.ops[deallocs[n]].args = <<operands[n]>>],
                                changed |-> TRUE],
                 acc, Indices(Len(deallocs)))

SimplifyLoop(acc, op) ==
    IF HasFlow(op)
    THEN FoldSet(LAMBDA C, a : SimplifyClass(a, op, C), acc, UnionAll({}, FlowEdges(op)))
    ELSE acc

SimplifyLoopDeallocs(block) ==
    FoldLeft(LAMBDA acc, k : SimplifyLoop(acc, block.ops[k]), [block |-> block, changed |-> FALSE],
             Indices(Len(block.ops)))

-----------------------------------------------------------------------------
(* promoteBuffers: what the function's block itself allocates and frees    *)
(* goes to the stack, as far as there is room.                             *)
RECURSIVE PromoteFrom(_, _, _, _)

\* What owns the buffer becomes null.
WithoutOwners(block, v) ==
    FoldLeft(LAMBDA b, p : IF OpAt(b, p).args = <<v>> THEN Splice(b, p, <<NullOp(OpAt(b, p).res[1])>>)
                           ELSE b,
             block, PathsOf(block, "own"))

PromoteToStack(block, k, d) ==
    WithoutOwners([block EXCEPT !.ops = Without([@ EXCEPT ![k].kind = "alloca"], {d})],
                  block.ops[k].res[1])

PromoteFrom(block, types, k, remaining) ==
    IF k > Len(block.ops) THEN block
    ELSE IF block.ops[k].kind # "alloc" \/ ~IsStatic(types, block.ops[k].res[1])
    THEN PromoteFrom(block, types, k + 1, remaining)
    ELSE LET v == block.ops[k].res[1]
             d == DeallocOf(block.ops, v)
             size == NumElements[Type(types, v)]
         IN  IF d = k + 1
             THEN PromoteFrom([block EXCEPT !.ops = Without(@, {k, d})], types, k, remaining)
             ELSE IF d # 0 /\ size <= remaining
             THEN PromoteFrom(PromoteToStack(block, k, d), types, k + 1, remaining - size)
             ELSE PromoteFrom(block, types, k + 1, remaining)

PromoteBuffers(block, types) == PromoteFrom(block, types, 1, MaxStack)
=============================================================================
