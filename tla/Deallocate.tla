------------------------------- MODULE Deallocate -------------------------------
(***************************************************************************)
(* The pass hlo-deallocate (src/deallocation/transforms/deallocate.cc) as  *)
(* operators on programs.  A program is a sequence of functions, each a    *)
(* block; a block has arguments, operations and the operands of its        *)
(* terminator; an operation has operands, results and regions (blocks; a   *)
(* region without a block is left out).  Values are numbers, and all of    *)
(* them are memrefs of one element type or ownership indicators: nothing   *)
(* else plays a part in the pass.                                          *)
(***************************************************************************)
EXTENDS Integers, Sequences, FiniteSetsExt, SequencesExt

CONSTANT FirstFresh   \* the values of a source program are below it

\* The null Value.
NoValue == 0

\* The elements of a set in some order.
InSomeOrder(S) == FoldSet(LAMBDA v, seq : Append(seq, v), <<>>, S)

Block(args, ops, yields) == [args |-> args, ops |-> ops, yields |-> yields]
Op(kind, args, res, regions, callee) ==
    [kind |-> kind, args |-> args, owned |-> {}, res |-> res, regions |-> regions,
     callee |-> callee]
OwnOp(v, indicator) == Op("own", <<v>>, <<indicator>>, <<>>, 0)
NullOp(indicator) == Op("null", <<>>, <<indicator>>, <<>>, 0)
RetainOp(memrefs, owned, res) == [Op("retain", memrefs, res, <<>>, 0) EXCEPT !.owned = owned]

\* The n values from first on.
Fresh(first, n) == [k \in 1..n |-> first + k - 1]

-----------------------------------------------------------------------------
(* llvm::EquivalenceClasses: a set of disjoint sets of values.             *)

ClassOf(alias, v) == UNION ({{v}} \cup {C \in alias : v \in C})

Insert(alias, v) == (alias \ {ClassOf(alias, v)}) \cup {ClassOf(alias, v)}

UnionSets(alias, u, v) ==
    (alias \ {ClassOf(alias, u), ClassOf(alias, v)})
        \cup {ClassOf(alias, u) \cup ClassOf(alias, v)}

\* zip: the two lists as far as both go.
UnionPairs(alias, us, vs) ==
    LET both == SelectSeq([k \in DOMAIN us |-> k], LAMBDA k : k =< Len(vs))
    IN  FoldLeft(LAMBDA a, k : UnionSets(a, us[k], vs[k]), alias, both)

UnionAll(alias, edges) == FoldLeft(LAMBDA a, e : UnionPairs(a, e[1], e[2]), alias, edges)

\* A value that was never inserted is not even equivalent to itself.
Equivalent(alias, u, v) == \E C \in alias : u \in C /\ v \in C

RECURSIVE DoesAlias(_, _, _, _)
\* The operation, or one nested in it, mentions a value that may alias v.
DoesAlias(op, v, alias, considerOperands) ==
    \/ \E u \in ToSet(op.res) \cup op.owned \cup
                (IF considerOperands THEN ToSet(op.args) ELSE {}) : Equivalent(alias, v, u)
    \/ \E region \in ToSet(op.regions) :
         \/ \E u \in ToSet(region.yields) : Equivalent(alias, v, u)
         \/ \E sub \in ToSet(region.ops) : DoesAlias(sub, v, alias, TRUE)

-----------------------------------------------------------------------------
(* The state of the pass: the functions, the alias classes, the indicator  *)
(* of each memref, the source of each view, which arguments each result of *)
(* an entered function may alias, the next unused value, the first error.  *)
InitState(program) ==
    [program |-> program, alias |-> {}, indicator |-> <<>>, viewOf |-> <<>>,
     funcAlias |-> <<>>, next |-> FirstFresh, error |-> "none"]

Fail(st, error) == [st EXCEPT !.error = error]
Ok(st) == st.error = "none"

SetIndicator(st, v, indicator) ==
    [st EXCEPT !.indicator = (v :> indicator) @@ @, !.alias = UnionSets(@, v, indicator)]

\* Each of the memrefs gets a new indicator, numbered from st.next on.
NewIndicators(st, memrefs) ==
    FoldLeft(LAMBDA s, v : SetIndicator([s EXCEPT !.next = @ + 1], v, s.next), st, memrefs)

RECURSIVE FindIndicator(_, _)
FindIndicator(st, v) ==
    IF v \in DOMAIN st.viewOf THEN FindIndicator(st, st.viewOf[v])
    ELSE IF v \in DOMAIN st.indicator THEN st.indicator[v]
    ELSE NoValue

-----------------------------------------------------------------------------
(* The end of transformBlock: the owned values are freed or yielded.       *)

\* A retain of its own for v, behind the last operation that mentions an
\* alias of it.
FreeEarly(ops, v, alias) ==
    LET mentions == {0} \cup {k \in DOMAIN ops : DoesAlias(ops[k], v, alias, TRUE)}
        last == CHOOSE k \in mentions : \A m \in mentions : m =< k
    IN  InsertAt(ops, last + 1, RetainOp(<<>>, {v}, <<>>))

FirstIndex(seq, v) == CHOOSE k \in DOMAIN seq : seq[k] = v /\ \A m \in 1..k - 1 : seq[m] # v

\* A retain for the memrefs of a class, its results numbered from acc.next on.
\* Of two results for the same memref the later one is kept.
YieldRetained(acc, memrefs, owners, res) ==
    [acc EXCEPT
        !.acquired = FoldLeft(LAMBDA a, k : (memrefs[k] :> res[k]) @@ a, @, Fresh(1, Len(memrefs))),
        !.ops = Append(@, RetainOp(memrefs, owners, res)),
        !.alias = UnionPairs(@, res, memrefs),
        !.next = @ + Len(memrefs)]

\* Bug variant: any one owner of the only memref is taken for its owner.
YieldMemrefsFirstOwner(acc, memrefs, owners) ==
    IF owners # {} /\ Len(memrefs) = 1
    THEN [acc EXCEPT !.acquired = (memrefs[1] :> CHOOSE v \in owners : TRUE) @@ @]
    ELSE YieldRetained(acc, memrefs, owners, Fresh(acc.next, Len(memrefs)))

\* The indicators of the yielded memrefs of a class: the only owner of the
\* only memref, or the results of a retain.
YieldMemrefs(acc, memrefs, owners) ==
    IF Cardinality(owners) = 1 /\ Len(memrefs) = 1
    THEN [acc EXCEPT !.acquired = (memrefs[1] :> CHOOSE v \in owners : TRUE) @@ @]
    ELSE YieldRetained(acc, memrefs, owners, Fresh(acc.next, Len(memrefs)))

YieldClass(acc, C, yields, owned) ==
    YieldMemrefs(acc, SelectSeq(yields, LAMBDA v : v \in C), owned \cap C)

FreeUnyielded(ops, yields, owned, alias) ==
    FoldLeft(LAMBDA o, v : FreeEarly(o, v, alias), ops,
             InSomeOrder({v \in owned : ~\E y \in ToSet(yields) : Equivalent(alias, y, v)}))

\* The number null is kept for an indicator that is Null.
YieldClasses(yields, owned, alias, null) ==
    FoldLeft(LAMBDA acc, C : YieldClass(acc, C, yields, owned),
             [acquired |-> <<>>, ops |-> <<>>, alias |-> alias, next |-> null + 1],
             InSomeOrder({ClassOf(alias, y) : y \in ToSet(yields)}))

\* The indicator of a memref is stored at its first position only
\* (llvm::find); at the others it is null.
InOrderOf(yields, indicators, null) ==
    [k \in DOMAIN yields |->
        IF FirstIndex(yields, yields[k]) = k THEN indicators[yields[k]] ELSE null]

WithNull(ops, null, acquired) ==
    IF null \in ToSet(acquired) THEN Append(ops, NullOp(null)) ELSE ops

Reconciled(st, freed, done, acquired) ==
    [st |-> [st EXCEPT !.alias = done.alias, !.next = done.next],
     ops |-> WithNull(freed, st.next, acquired) \o done.ops, acquired |-> acquired]

ReconciledWith(st, yields, freed, done) ==
    Reconciled(st, freed, done, InOrderOf(yields, done.acquired, st.next))

\* The indicators to yield, in the order of the memrefs, and the block up to
\* its terminator.
Reconcile(st, ops, yields, owned) ==
    ReconciledWith(st, yields,
        FreeUnyielded(ops, yields, owned, st.alias),
        YieldClasses(yields, owned,
                     FoldLeft(Insert, st.alias, yields \o InSomeOrder(owned)), st.next))

-----------------------------------------------------------------------------
(* transformIfImplicitCapture: a value that one branch releases is handed  *)
(* over by the other one (number side), which must yield it.  The call     *)
(* ownershipIndicator.erase(v) finds nothing to erase: the keys are        *)
(* memrefs, v is an indicator.                                             *)

CaptureAt(acc, side, v, at) ==
    IF at = {}
    THEN [acc EXCEPT !.st = Fail(@, "released value not yielded on other branch")]
    ELSE [acc EXCEPT !.acquired[side] = [k \in DOMAIN @ |-> IF k = Min(at) THEN v ELSE @[k]]]

Capture(acc, regions, side, v) ==
    IF ~Ok(acc.st) THEN acc
    ELSE IF side > Len(regions)
         THEN [acc EXCEPT !.st = Fail(@, "cannot implicitly capture from an if without else")]
    ELSE CaptureAt(acc, side, v, {k \in DOMAIN regions[side].yields :
                                    FindIndicator(acc.st, regions[side].yields[k]) = v})

TransformIfImplicitCapture(st, regions, acquired, releasedBy) ==
    FoldLeft(LAMBDA acc, v : Capture(acc, regions, IF v \in releasedBy[1] THEN 2 ELSE 1, v),
             [st |-> st, acquired |-> acquired],
             InSomeOrder((releasedBy[1] \cup releasedBy[2]) \ (releasedBy[1] \cap releasedBy[2])))

\* Bug variant: only the operation itself is searched for other uses.
IsLastUseHere(op, rest, yields, alias, v) == ~DoesAlias(op, v, alias, FALSE)

\* No operation from op on, nor the terminator, mentions a value that may
\* alias v; that op takes v as its operand does not count.
IsLastUse(op, rest, yields, alias, v) ==
    /\ ~DoesAlias(op, v, alias, FALSE)
    /\ \A later \in ToSet(rest) : ~DoesAlias(later, v, alias, TRUE)
    /\ \A y \in ToSet(yields) : ~Equivalent(alias, v, y)

\* Bug variant: the indicator is passed on, but remains with the block.
PassAndKeep(acc, indicator) == [acc EXCEPT !.operands = Append(@, indicator)]

Pass(acc, indicator) ==
    [acc EXCEPT !.operands = Append(@, indicator), !.released = @ \cup {indicator}]
PassNull(acc) ==
    [acc EXCEPT !.operands = Append(@, acc.st.next), !.st.next = @ + 1,
                !.nulls = Append(@, NullOp(acc.st.next))]

PassIndicator(acc, indicator, v, op, rest, yields, owned) ==
    IF indicator \in owned \ acc.released /\ IsLastUse(op, rest, yields, acc.st.alias, v)
    THEN Pass(acc, indicator)
    ELSE PassNull(acc)

\* One more operand for each memref operand: its indicator if the ownership
\* can be transferred, or else null.
PassOperand(acc, v, op, rest, yields, owned) ==
    PassIndicator(acc, FindIndicator(acc.st, v), v, op, rest, yields, owned)

\* The lists of values that flow into each other (getSuccessorRegions).
FlowEdges(op) ==
    CASE op.kind = "if" -> [r \in DOMAIN op.regions |-> <<op.regions[r].yields, op.res>>]
      [] op.kind = "for" ->
            <<<<op.args, op.regions[1].args>>, <<op.args, op.res>>,
              <<op.regions[1].yields, op.regions[1].args>>, <<op.regions[1].yields, op.res>>>>
      [] op.kind = "while" ->
            <<<<op.args, op.regions[1].args>>,
              <<op.regions[1].yields, op.regions[2].args>>, <<op.regions[1].yields, op.res>>,
              <<op.regions[2].yields, op.regions[1].args>>>>

-----------------------------------------------------------------------------
(* transformBlock, the four transformOp and transformFuncOp.  The result   *)
(* for an operation: the operations it becomes, the indicators it releases *)
(* and those it acquires.                                                  *)

Result(st, ops, released, acquired) ==
    [st |-> st, ops |-> ops, released |-> released, acquired |-> acquired]

RECURSIVE TransformBlock(_, _, _), TransformFunc(_, _)

\* Bug variant: a loop may release what it does not own.
AfterRegionOfAnyKind(acc, r, kind) ==
    [st |-> r.st, regions |-> Append(acc.regions, r.block),
     acquired |-> Append(acc.acquired, r.acquired),
     releasedBy |-> Append(acc.releasedBy, r.released)]

AfterRegion(acc, r, kind) ==
    [st |-> IF Ok(r.st) /\ r.released # {} /\ kind # "if"
            THEN Fail(r.st, "can't implicitly capture across loop boundaries")
            ELSE r.st,
     regions |-> Append(acc.regions, r.block),
     acquired |-> Append(acc.acquired, r.acquired),
     releasedBy |-> Append(acc.releasedBy, r.released)]

\* One region of a region op, after the regions before it.
TransformRegion(acc, region, kind) ==
    IF Ok(acc.st) THEN AfterRegion(acc, TransformBlock(acc.st, region, TRUE), kind) ELSE acc

TransformRegions(st, op) ==
    FoldLeft(LAMBDA acc, region : TransformRegion(acc, region, op.kind),
             [st |-> st, regions |-> <<>>, acquired |-> <<>>, releasedBy |-> <<>>], op.regions)

IndicatorEdges(regions, oldRegions) ==
    [r \in DOMAIN regions |->
        <<SubSeq(regions[r].args, 1, Len(oldRegions[r].args)),
          SubSeq(regions[r].args, Len(oldRegions[r].args) + 1, 2 * Len(oldRegions[r].args))>>]

ReplaceOp(st, op, newOp, retained, operands) ==
    Result([st EXCEPT
              !.next = @ + Len(op.res),
              !.alias = UnionAll(@, FlowEdges(newOp) \o IndicatorEdges(newOp.regions, op.regions)
                                       \o <<<<op.res, retained>>>>)],
           Append(operands.nulls, newOp), operands.released, retained)

WithOperands(op, regions, operands) ==
    ReplaceOp(operands.st, op,
              [op EXCEPT !.args = operands.operands, !.regions = regions,
                         !.res = @ \o Fresh(operands.st.next, Len(op.res))],
              Fresh(operands.st.next, Len(op.res)), operands)

PassOperands(st, op, regions, rest, yields, owned, released) ==
    WithOperands(op, regions,
        FoldLeft(LAMBDA acc, v : PassOperand(acc, v, [op EXCEPT !.regions = regions],
                                             rest, yields, owned),
                 [st |-> st, operands |-> op.args, released |-> released, nulls |-> <<>>],
                 op.args))

AfterCapture(captured, inner, op, rest, yields, owned) ==
    IF Ok(captured.st)
    THEN PassOperands(captured.st, op,
             [r \in DOMAIN inner.regions |->
                [inner.regions[r] EXCEPT !.yields = @ \o captured.acquired[r]]],
             rest, yields, owned, UNION ToSet(inner.releasedBy))
    ELSE Result(captured.st, <<op>>, {}, <<>>)

AfterRegions(inner, op, rest, yields, owned) ==
    AfterCapture(
        IF Ok(inner.st) /\ UNION ToSet(inner.releasedBy) # {}
        THEN TransformIfImplicitCapture(inner.st, inner.regions, inner.acquired,
                                        Append(inner.releasedBy, {}))
        ELSE [st |-> inner.st, acquired |-> inner.acquired],
        inner, op, rest, yields, owned)

TransformRegionOp(st, op, rest, yields, owned) ==
    AfterRegions(TransformRegions(st, op), op, rest, yields, owned)

\* The edges from the arguments that the k-th result may alias.
CallEdges(op, aliased) ==
    [k \in DOMAIN op.res |->
        <<[n \in 1..Cardinality(aliased[k]) |-> op.res[k]],
          InSomeOrder({op.args[n] : n \in aliased[k]})>>]

AfterCallee(st, op) ==
    IF Ok(st)
    THEN Result([NewIndicators(st, op.res) EXCEPT
                    !.alias = UnionAll(@, CallEdges(op, st.funcAlias[op.callee]))],
                <<[op EXCEPT !.res = @ \o Fresh(st.next, Len(op.res))]>>,
                {}, Fresh(st.next, Len(op.res)))
    ELSE Result(st, <<op>>, {}, <<>>)

TransformCall(st, op) == AfterCallee(TransformFunc(st, op.callee), op)

\* Bug variant: what is freed need not have an indicator.
EffectsUnchecked(st, op, first, freed) ==
    Result(st, <<op>> \o [k \in DOMAIN op.res |-> OwnOp(op.res[k], first + k - 1)],
           freed \ {NoValue}, Fresh(first, Len(op.res)))

\* The results are owned by the indicators from first on.
Effects(st, op, first, freed) ==
    IF NoValue \in freed
    THEN Result(Fail(st, "unable to find ownership indicator for operand"), <<op>>, {}, <<>>)
    ELSE Result(st, <<op>> \o [k \in DOMAIN op.res |-> OwnOp(op.res[k], first + k - 1)],
                freed, Fresh(first, Len(op.res)))

\* An operation that allocates its result, frees its operand, or both.
TransformEffects(st, op) ==
    Effects(NewIndicators(st, op.res), op, st.next,
            IF op.kind = "alloc" THEN {}
            ELSE {FindIndicator(NewIndicators(st, op.res), op.args[1])})

AfterOtherRegion(acc, r) ==
    [st |-> IF Ok(r.st) /\ (r.acquired # <<>> \/ r.released # {})
            THEN Fail(r.st, "block released or returned an alloc")
            ELSE r.st,
     regions |-> Append(acc.regions, r.block)]

TransformOtherRegions(st, op) ==
    FoldLeft(LAMBDA acc, region :
                IF Ok(acc.st) THEN AfterOtherRegion(acc, TransformBlock(acc.st, region, FALSE))
                ELSE acc,
             [st |-> st, regions |-> <<>>], op.regions)

AfterOther(inner, op) ==
    Result([inner.st EXCEPT
              !.alias = UnionAll(@, FoldLeft(LAMBDA seq, v : Append(seq,
                                        <<[n \in DOMAIN op.args |-> v], op.args>>), <<>>, op.res)),
              !.viewOf = IF op.kind = "view" THEN (op.res[1] :> op.args[1]) @@ @ ELSE @],
           <<[op EXCEPT !.regions = inner.regions]>>, {}, <<>>)

\* Any other operation, perhaps with regions that yield nothing: the results
\* may alias the operands.
TransformOther(st, op) == AfterOther(TransformOtherRegions(st, op), op)

TransformOp(st, op, rest, yields, owned) ==
    CASE op.kind \in {"if", "for", "while"} -> TransformRegionOp(st, op, rest, yields, owned)
      [] op.kind = "call" -> TransformCall(st, op)
      [] op.kind \in {"alloc", "realloc", "dealloc"} -> TransformEffects(st, op)
      [] OTHER -> TransformOther(st, op)

AfterOp(acc, r, passedOn) ==
    [st |-> IF Ok(r.st) /\ passedOn \cap acc.released # {}
            THEN Fail(r.st, "same value released twice") ELSE r.st,
     ops |-> acc.ops \o r.ops,
     owned |-> (acc.owned \ r.released) \cup ToSet(r.acquired),
     released |-> acc.released \cup passedOn]

TransformedOp(acc, r) == AfterOp(acc, r, r.released \ acc.owned)

\* The k-th operation of a block, after those before it.
TransformNext(acc, block, k) ==
    IF Ok(acc.st)
    THEN TransformedOp(acc, TransformOp(acc.st, block.ops[k],
                                        SubSeq(block.ops, k + 1, Len(block.ops)),
                                        block.yields, acc.owned))
    ELSE acc

BlockResult(block, inputs, released, done) ==
    [st |-> done.st, block |-> Block(block.args \o inputs, done.ops, block.yields),
     acquired |-> done.acquired, released |-> released]

AfterBody(block, inputs, body) ==
    IF Ok(body.st)
    THEN BlockResult(block, inputs, body.released,
                     Reconcile(body.st, body.ops, block.yields, body.owned))
    ELSE [st |-> body.st, block |-> block, acquired |-> <<>>, released |-> {}]

TransformBody(st, block, inputs) ==
    AfterBody(block, inputs,
        FoldLeft(LAMBDA acc, k : TransformNext(acc, block, k),
                 [st |-> st, ops |-> <<>>, owned |-> ToSet(inputs), released |-> {}],
                 Fresh(1, Len(block.ops))))

TransformBlock(st, block, ownsInputs) ==
    TransformBody(IF ownsInputs THEN NewIndicators(st, block.args) ELSE st, block,
                  IF ownsInputs THEN Fresh(st.next, Len(block.args)) ELSE <<>>)

MayAlias(alias, values, args) ==
    [k \in DOMAIN values |-> {n \in DOMAIN args : Equivalent(alias, values[k], args[n])}]

AfterFunc(f, args, r) ==
    IF ~Ok(r.st) THEN r.st
    ELSE IF r.released # {} THEN Fail(r.st, "invalid realloc of memref")
    ELSE [r.st EXCEPT
            !.funcAlias = (f :> MayAlias(r.st.alias, r.block.yields \o r.acquired, args)) @@ @,
            !.program[f] = [r.block EXCEPT !.yields = @ \o r.acquired]]

\* While a function is transformed, every result may alias every argument.
TransformFuncBody(st, f, func) ==
    AfterFunc(f, func.args,
        TransformBlock([st EXCEPT !.funcAlias =
                            (f :> [k \in 1..2 * Len(func.yields) |-> DOMAIN func.args]) @@ @],
                       func, FALSE))

\* A function that was entered before is done, or its aliasing is the trivial
\* overapproximation until it is.
TransformFunc(st, f) ==
    IF f \in DOMAIN st.funcAlias THEN st ELSE TransformFuncBody(st, f, st.program[f])

TransformModule(program) ==
    FoldLeft(LAMBDA st, f : IF Ok(st) THEN TransformFunc(st, f) ELSE st,
             InitState(program), Fresh(1, Len(program)))
=============================================================================
