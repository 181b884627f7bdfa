---------------------------- MODULE SymbolicShapes ----------------------------
(* The patterns of symbolic-shape-optimization. Each application of a pattern  *)
(* makes an analysis, asks it for some shapes and values, and decides on the   *)
(* expressions that it gets. A client of the analysis is the operation that a  *)
(* pattern matches, or 0 for the test pass, which asks for everything.         *)
(* src/mhlo/transforms/symbolic_shape_optimization/                            *)
EXTENDS ShapeComponents, Bags

PatternOps == {"broadcast", "dynamic_broadcast_in_dim", "compute_reshape_shape",
               "cstr_reshapable", "cstr_broadcastable", "dynamic_reshape"}

IsScalarTensor(p, v) == p[v].dims = <<>>
Degenerate(p, k) == IsScalarTensor(p, p[k].args[1]) \/ IsScalarTensor(p, k)

ValueInfos(values) == [k \in DOMAIN values |-> ValueInfo(values[k])]

PatternRequests(p, k) ==
    LET op == p[k]
    IN  CASE op.kind = "broadcast" -> ValueInfos(op.args)
          [] op.kind = "cstr_broadcastable" -> ValueInfos(<<op.args[1]>> \o op.args)
          [] op.kind = "cstr_reshapable" -> ValueInfos(op.args)
          [] op.kind = "compute_reshape_shape" -> <<ValueInfo(op.args[2])>>
          [] op.kind = "dynamic_broadcast_in_dim" -> <<ShapeInfo(op.args[1]), ValueInfo(op.args[2])>>
          [] op.kind = "dynamic_reshape" ->
                IF Degenerate(p, k) THEN <<>> ELSE <<ShapeInfo(op.args[1]), ValueInfo(op.args[2])>>

TestRequests(p) == FlattenSeq([v \in DOMAIN p |-> <<ShapeInfo(v), ValueInfo(v)>>])

HasOneResult(op) ==
    /\ op.kind \notin {"arg", "shape arg", "enter"}
    /\ op.kind = "reduce" => Len(op.args) = 1

\* A pattern gives up at the first request that is not answered; the test pass
\* goes on. It asks for the results of operations, if they have one.
UpToUnanswered(p, requests) ==
    LET open == {k \in DOMAIN requests : IsUninteresting(p, requests[k]) \/ HasNoEntry(p, requests[k])}
    IN  IF open = {} THEN requests ELSE SubSeq(requests, 1, Min(open))

PatternClients(p) == {0} \cup {k \in DOMAIN p : p[k].kind \in PatternOps}
RequestsBy(p, k) ==
    IF k = 0
    THEN SelectSeq(TestRequests(p), LAMBDA i : HasOneResult(p[i.value]))
    ELSE UpToUnanswered(p, PatternRequests(p, k))

AllAnswered == Range(PatternRequests(prog, client)) \subseteq DOMAIN cache

-----------------------------------------------------------------------------
(* Broadcasts. *)

\* Bug variant: an operand of a lower rank is aligned at the first dimension.
ContributorsFirst(infos, i) ==
    LET places == [k \in DOMAIN infos |-> [operand |-> k, dim |-> i]]
    IN  SelectSeq(places, LAMBDA c : c.dim <= Len(infos[c.operand])
                                     /\ ~IsConstant(infos[c.operand][c.dim], 1))

\* Where the i-th dimension of the result may come from: the operands that have
\* it, and in which it is not the constant 1; [operand, dim], in order.
Contributors(infos, i) ==
    LET rank == Max({0} \cup {Len(infos[k]) : k \in DOMAIN infos})
        places == [k \in DOMAIN infos |-> [operand |-> k, dim |-> i + Len(infos[k]) - rank]]
    IN  SelectSeq(places, LAMBDA c : c.dim >= 1 /\ ~IsConstant(infos[c.operand][c.dim], 1))

\* SimplifyBroadcasts and BroadcastOpLowering: each dimension of the result is the
\* constant 1 or one of its contributors, if all of them have the same expression.
SimplifiedBroadcast(infos) ==
    LET rank == Max({0} \cup {Len(infos[k]) : k \in DOMAIN infos})
        from == [i \in 1..rank |-> Contributors(infos, i)]
        expr(c) == infos[c.operand][c.dim]
    IN  IF \E i \in 1..rank : \E c, d \in Range(from[i]) : expr(c) # expr(d)
        THEN {}
        ELSE {[i \in 1..rank |-> IF from[i] = <<>> THEN <<>> ELSE <<Head(from[i])>>]}

\* analyzeDynamicBroadcastInDimExpandingBehavior.
KnownExpanding(in, out) ==
    {i \in DOMAIN in : IsConstant(in[i], 1) /\ IsKnownNotOne(out[Len(out) - Len(in) + i])}
KnownNonexpanding(in, out) ==
    {i \in DOMAIN in : \/ in[i] = out[Len(out) - Len(in) + i]
                       \/ IsConstant(out[Len(out) - Len(in) + i], 1)}

\* isKnownBroadcastable: the last dimensions of one shape against those of the first.
KnownBroadcastable(first, shape) ==
    \A j \in 0..(Min({Len(first), Len(shape)}) - 1) :
        LET a == first[Len(first) - j]
            b == shape[Len(shape) - j]
        IN  /\ ~IsConstant(a, 0) /\ ~IsConstant(b, 0)
            /\ IsConstant(a, 1) \/ IsConstant(b, 1) \/ a = b

-----------------------------------------------------------------------------
(* Reshapes. *)

\* isProduct: the factors of an expression, none if it is not a product.
One == [concrete |-> 1, symbolic |-> EmptyBag]
RECURSIVE Factors(_)
Factors(e) ==
    CASE e.op = "const" -> {[One EXCEPT !.concrete = e.c]}
      [] e.op = "symbol" -> {[One EXCEPT !.symbolic = SetToBag({e.symbol})]}
      [] e.op = "*" -> {[concrete |-> a.concrete * b.concrete, symbolic |-> a.symbolic (+) b.symbolic] :
                            a \in Factors(e.l), b \in Factors(e.r)}
      [] OTHER -> {}

\* RemoveComputeReshapeShape.
NeverNegativeOne(info) == \A j \in DOMAIN info : IsKnownNotNegativeOne(prog, info[j])

\* RemoveRedundantCstrReshapable: the constant witness that the constraint is
\* replaced with, none if the pattern fails. At most one dimension is -1.
WildcardDims(info) == {j \in DOMAIN info : IsConstant(info[j], -1)}
ShapeProducts(info) ==
    LET others == SelectSeq(info, LAMBDA e : ~IsConstant(e, -1))
        factors == [k \in DOMAIN others |-> Factors(others[k].expr)]
    IN  IF \E k \in DOMAIN factors : factors[k] = {} THEN {}
        ELSE {FoldLeft(LAMBDA a, b : LET f == CHOOSE f \in b : TRUE
                                     IN  [concrete |-> a.concrete * f.concrete,
                                          symbolic |-> a.symbolic (+) f.symbolic],
                       One, factors)}
ReshapableWitness(numElements, info) ==
    IF \/ Cardinality(WildcardDims(info)) > 1
       \/ \E j \in DOMAIN info \ WildcardDims(info) : ~IsKnownNotNegativeOne(prog, info[j])
    THEN {}
    ELSE UNION {IF ~(s.symbolic \sqsubseteq n.symbolic) THEN {}
                ELSE IF WildcardDims(info) = {}
                THEN {n.symbolic = s.symbolic /\ n.concrete = s.concrete}
                ELSE IF n.concrete % s.concrete = 0 THEN {TRUE} ELSE {} :
                    n \in Factors(numElements[1].expr), s \in ShapeProducts(info)}

\* eliminateCommonFactors: the common factors, and what is left of each product.
Gcd(a, b) == Max({d \in 1..Max({a, b}) : a % d = 0 /\ b % d = 0})
CommonFactors(a, b) ==
    LET g == Gcd(a.concrete, b.concrete)
        common == [s \in DOMAIN a.symbolic \cap DOMAIN b.symbolic |->
                        Min({a.symbolic[s], b.symbolic[s]})]
    IN  [gcd |-> [concrete |-> g, symbolic |-> common],
         a |-> [concrete |-> a.concrete \div g, symbolic |-> a.symbolic (-) common],
         b |-> [concrete |-> b.concrete \div g, symbolic |-> b.symbolic (-) common]]
TypeSize(product) == IF product.symbolic = EmptyBag THEN product.concrete ELSE Dyn

UnpairedUnit(dims, others) ==
    /\ dims # <<>> /\ IsConstant(Head(dims), 1)
    /\ others = <<>> \/ ~IsConstant(Head(others), 1)

\* Consume dimensions until their product is what is left of the other side. Fails
\* if it cannot be; the result is the rest of the dimensions and the sizes.
RECURSIVE Absorb(_, _, _)
Absorb(dims, left, sizes) ==
    IF left = One THEN {[dims |-> dims, sizes |-> sizes]}
    ELSE IF dims = <<>> THEN {}
    ELSE UNION {LET c == CommonFactors(f, left)
                IN  IF c.a # One THEN {}
                    ELSE Absorb(Tail(dims), c.b, Append(sizes, TypeSize(c.gcd))) :
                f \in Factors(Head(dims).expr)}

\* Consume trailing unit dimensions that have no partner.
RECURSIVE WithUnits(_, _)
WithUnits(g, others) ==
    IF UnpairedUnit(g.dims, others)
    THEN WithUnits([dims |-> Tail(g.dims), sizes |-> Append(g.sizes, 1)], others)
    ELSE g

\* One dimension of a group may be dynamic, apart from the first.
OneDynamic(sizes) == Cardinality({j \in 2..Len(sizes) : sizes[j] = Dyn}) <= 1

\* findExpandingAndCollapsingDimensionGroups: [kind, sizes] for each group, where
\* sizes is its part of expandedIntermShape; none if it fails.
RECURSIVE Groups(_, _)
Groups(operand, result) ==
    IF operand = <<>> \/ result = <<>>
    THEN IF operand = result THEN {<<>>} ELSE {}
    ELSE UNION {
        LET c == CommonFactors(o, r)
            first == <<TypeSize(c.gcd)>>
            Group(kind, sizes, rest) == {<<[kind |-> kind, sizes |-> sizes]>> \o g : g \in rest}
        IN  CASE c.a # One /\ c.b # One -> {}
              [] c.a = One /\ (c.b # One \/ UnpairedUnit(Tail(operand), Tail(result))) ->
                    UNION {LET w == WithUnits(g, Tail(result))
                           IN  Group("collapsing", w.sizes, Groups(w.dims, Tail(result))) :
                           g \in Absorb(Tail(operand), c.b, first)}
              [] c.b = One /\ (c.a # One \/ UnpairedUnit(Tail(result), Tail(operand))) ->
                    UNION {LET w == WithUnits(g, Tail(operand))
                           IN  Group("expanding", w.sizes, Groups(Tail(operand), w.dims)) :
                           g \in {h \in Absorb(Tail(result), c.a, first) : OneDynamic(h.sizes)}}
              [] OTHER -> Group("none", first, Groups(Tail(operand), Tail(result))) :
        o \in Factors(Head(operand).expr), r \in Factors(Head(result).expr)}

-----------------------------------------------------------------------------
(* What the rewritten operation gives in an execution of the program. *)

\* The dimensions that expand_shape makes of a dimension of this size: at most one
\* of them is not in the type, and is what the others leave of it.
Expansions(size, sizes) ==
    LET dynamic == {j \in DOMAIN sizes : sizes[j] = Dyn}
        static == Product(SelectSeq(sizes, LAMBDA d : d # Dyn))
    IN  IF Cardinality(dynamic) > 1 \/ size % static # 0
           \/ (dynamic = {} /\ size # static)
        THEN {}
        ELSE {[j \in DOMAIN sizes |-> IF j \in dynamic THEN size \div static ELSE sizes[j]]}

\* The shapes that the chain of expand_shape and collapse_shape may give, none if a
\* type is wrong.
RECURSIVE Reassociated(_, _)
Reassociated(groups, shape) ==
    IF groups = <<>> THEN {<<>>}
    ELSE LET g == Head(groups)
             taken == IF g.kind = "expanding" THEN 1 ELSE Len(g.sizes)
             dims == SubSeq(shape, 1, taken)
             rest == Reassociated(Tail(groups), SubSeq(shape, taken + 1, Len(shape)))
             made == CASE g.kind = "expanding" -> Expansions(dims[1], g.sizes)
                       [] ~Fits(g.sizes, dims) -> {}
                       [] g.kind = "collapsing" /\ Fits(g.sizes, dims) -> {<<Product(dims)>>}
                       [] g.kind = "none" /\ Fits(g.sizes, dims) -> {dims}
         IN  {m \o r : m \in made, r \in rest}

\* Whether the rewrite of the operation gives in this execution what it gave.
RewriteHolds(run) ==
    LET op == prog[client]
        in(k) == run[op.args[k]]
        shapeOf(k) == cache[ShapeInfo(op.args[k])]
        valueOf(k) == cache[ValueInfo(op.args[k])]
        values == [k \in DOMAIN op.args |-> valueOf(k)]
    IN  CASE op.kind = "broadcast" ->
                \A s \in SimplifiedBroadcast(values) :
                    run[client].elems =
                        [i \in DOMAIN s |->
                            IF s[i] = <<>> THEN 1 ELSE in(s[i][1].operand).elems[s[i][1].dim]]
          [] op.kind = "dynamic_broadcast_in_dim" ->
                LET grows(i) == run[client].shape[op.at[i] + 1] # in(1).shape[i]
                IN  /\ \A i \in KnownExpanding(shapeOf(1), valueOf(2)) : in(1).shape[i] = 1 /\ grows(i)
                    /\ \A i \in KnownNonexpanding(shapeOf(1), valueOf(2)) : ~grows(i)
          [] op.kind = "compute_reshape_shape" ->
                NeverNegativeOne(valueOf(2)) => run[client].elems = in(2).elems
          [] op.kind = "cstr_reshapable" ->
                TRUE \in ReshapableWitness(valueOf(1), valueOf(2)) => run[client] = Truth(TRUE)
          [] op.kind = "cstr_broadcastable" ->
                (\A k \in DOMAIN op.args : KnownBroadcastable(valueOf(1), valueOf(k))) =>
                    run[client] = Truth(TRUE)
          [] op.kind = "dynamic_reshape" /\ Degenerate(prog, client) ->
                \A v \in {op.args[1], client} : \A d \in Range(run[v].shape) : d = 1
          [] op.kind = "dynamic_reshape" /\ ~Degenerate(prog, client) ->
                \A g \in Groups(shapeOf(1), valueOf(2)) :
                    run[client].shape \in Reassociated(g, in(1).shape)

\* A pattern of symbolic-shape-optimization decides on equalities of expressions.
\* What it puts in the place of an operation computes the same in every execution,
\* whatever the sizes of the dynamic dimensions. A false witness alone is asked for
\* less: the constraint that it replaces fails in at least one execution.
RewritesHold ==
    Answered /\ client # 0 /\ AllAnswered =>
        LET runs == {run \in Executions(prog) : client \in DOMAIN run}
            op == prog[client]
        IN  /\ \A run \in runs : RewriteHolds(run)
            /\ op.kind = "cstr_reshapable"
                /\ FALSE \in ReshapableWitness(cache[ValueInfo(op.args[1])], cache[ValueInfo(op.args[2])])
                    => \E run \in runs : run[client] = Truth(FALSE)
=============================================================================
