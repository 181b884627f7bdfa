--------------------------- MODULE ShapeComponents ---------------------------
(* The shape component analysis: every dimension of a tensor and every element *)
(* of a shape tensor gets a constant, a symbol, or an expression over symbols. *)
(* The worklists are those of ShapeVisit; here is what is requested, what is   *)
(* needed for it, and which expressions are entered.                           *)
(* src/mhlo/analysis/shape_component_analysis.{h,cc}                           *)
EXTENDS ShapePrograms

CONSTANTS ProgramsToAnalyze, ClientsOf(_), RequestsOf(_, _)

VARIABLES
    prog, client, asks, bwd, fwd,
    cache,   \* symbolicExprsMap
    shared   \* symbolicShapeConstraintsMap: from names to symbols

vars == <<prog, client, asks, bwd, fwd, cache, shared>>

-----------------------------------------------------------------------------
(* Infos, symbols and expressions. The position of a symbol in an expression   *)
(* stands for an entry of its list of symbols; here the symbol itself is the   *)
(* leaf, and no list is shifted when two expressions are combined. The list is *)
(* kept, for it counts when expressions are compared.                          *)

ShapeInfo(v) == [value |-> v, of |-> "shape"]
ValueInfo(v) == [value |-> v, of |-> "value"]

Const(c) == [expr |-> [op |-> "const", c |-> c], symbols |-> <<>>]
SymbolFor(info, index) ==
    LET s == [source |-> info, index |-> index]
    IN  [expr |-> [op |-> "symbol", symbol |-> s], symbols |-> <<s>>]
Named(s) == [expr |-> [op |-> "symbol", symbol |-> s], symbols |-> <<s>>]

IsConst(e) == e.op = "const"
Node(op, l, r) == [op |-> op, l |-> l, r |-> r]
\* A binary expression of this kind with a constant on the right.
Scaled(op, e) == e.op = op /\ IsConst(e.r)

\* AffineExpr operator* and operator+ simplify: constants are folded and moved to
\* the right, also out of a nested expression of the same kind.
RECURSIVE Times(_, _)
Times(a, b) ==
    CASE IsConst(a) /\ IsConst(b) -> [a EXCEPT !.c = a.c * b.c]
      [] IsConst(a) /\ ~IsConst(b) -> Times(b, a)
      [] ~IsConst(a) /\ IsConst(b) ->
            IF b.c = 1 THEN a
            ELSE IF b.c = 0 THEN b
            ELSE IF Scaled("*", a) THEN Times(a.l, Times(a.r, b)) ELSE Node("*", a, b)
      [] ~IsConst(a) /\ ~IsConst(b) ->
            IF Scaled("*", a) THEN Times(Times(a.l, b), a.r) ELSE Node("*", a, b)

RECURSIVE Plus(_, _)
Plus(a, b) ==
    CASE IsConst(a) /\ IsConst(b) -> [a EXCEPT !.c = a.c + b.c]
      [] IsConst(a) /\ ~IsConst(b) -> Plus(b, a)
      [] ~IsConst(a) /\ IsConst(b) ->
            IF b.c = 0 THEN a
            ELSE IF Scaled("+", a) THEN Plus(a.l, Plus(a.r, b)) ELSE Node("+", a, b)
      [] ~IsConst(a) /\ ~IsConst(b) ->
            IF Scaled("+", a) THEN Plus(Plus(a.l, b), a.r) ELSE Node("+", a, b)

\* The combiners of forwardBinOp and forwardNumElements.
Combined(expr, a, b) == [expr |-> expr, symbols |-> a.symbols \o b.symbols]

IsConstant(e, c) == IsConst(e.expr) /\ e.expr.c = c
IsKnownNotOne(e) == IsConst(e.expr) /\ e.expr.c # 1

IsGoodSymbol(p, s) ==
    \/ s.source.of = "shape"
    \/ p[s.source.value].kind \in {"shape_of", "compute_reshape_shape", "num_elements"}
IsGoodFactor(p, e) ==
    \/ IsConst(e) /\ e.c >= 0
    \/ e.op = "symbol" /\ IsGoodSymbol(p, e.symbol)
IsKnownNotNegativeOne(p, e) ==
    \/ IsGoodFactor(p, e.expr)
    \/ e.expr.op = "*" /\ IsGoodFactor(p, e.expr.l) /\ IsGoodFactor(p, e.expr.r)

-----------------------------------------------------------------------------
(* What is needed. *)

\* Ops with the trait SameOperandsAndResultShape. A scalar add or multiply is one of
\* arith and has it not.
SameShape(op) ==
    \/ op.kind \in {"elementwise", "index_cast"}
    \/ op.kind \in {"add", "multiply"} /\ op.form = "tensor"

ShapeDeps(p, v) ==
    LET op == p[v]
    IN  CASE SameShape(op) \/ op.kind \in {"assuming", "transpose", "select"} -> <<ShapeInfo(op.args[1])>>
          [] op.kind \in {"dynamic_broadcast_in_dim", "dynamic_reshape"} -> <<ValueInfo(op.args[2])>>
          [] op.kind = "reduce" -> IF Len(op.args) = 1 THEN <<ShapeInfo(op.args[1])>> ELSE <<>>
          [] OTHER -> <<>>

ValueDeps(p, v) ==
    LET op == p[v]
    IN  CASE op.kind \in {"shape_of", "dim"} -> <<ShapeInfo(op.args[1])>>
          [] op.kind \in {"broadcast", "from_elements", "concatenate", "add", "multiply"} ->
                [k \in DOMAIN op.args |-> ValueInfo(op.args[k])]
          [] op.kind \in {"num_elements", "index_cast", "extract", "reshape", "slice"} ->
                <<ValueInfo(op.args[1])>>
          [] OTHER -> <<>>

Needs(p, i) == IF i.of = "shape" THEN ShapeDeps(p, i.value) ELSE ValueDeps(p, i.value)

IsUninteresting(p, i) ==
    LET op == p[i.value]
    IN  \/ op.form = "witness"
        \/ i.of = "value" /\ op.form = "tensor" /\ (Len(op.dims) > 1 \/ Dyn \in Range(op.dims))

IsBlockArgument(p, i) == i.of = "shape" /\ p[i.value].kind \in {"arg", "shape arg"}
HasNoEntry(p, i) == i.of = "shape" /\ p[i.value].form = "scalar"

InfosOf(p) == {ShapeInfo(v) : v \in DOMAIN p} \cup {ValueInfo(v) : v \in DOMAIN p}

V == INSTANCE ShapeVisit WITH
        known <- DOMAIN cache,
        Programs <- ProgramsToAnalyze,
        Infos <- UNION {InfosOf(p) : p \in ProgramsToAnalyze},
        Clients <- ClientsOf,
        Requests <- RequestsOf,
        Deps <- Needs,
        Uninteresting <- IsUninteresting,
        AtOnce <- IsBlockArgument,
        NoEntry <- HasNoEntry

-----------------------------------------------------------------------------
(* What is entered. *)

\* dimsFromStaticShape: the type wins where it is static.
FromType(dims, exprs) ==
    [j \in DOMAIN dims |-> IF dims[j] = Dyn THEN exprs[j] ELSE Const(dims[j])]

Dim0Size(op) == IF op.form # "tensor" \/ op.dims = <<>> THEN 1 ELSE op.dims[1]
Unknown(p, i) == [j \in 1..Dim0Size(p[i.value]) |-> SymbolFor(i, j)]
UnknownShape(p, i) ==
    FromType(p[i.value].dims, [j \in DOMAIN p[i.value].dims |-> SymbolFor(i, j)])

\* The shape of a block argument: what its attribute says, with one symbol for all
\* that have the same name. known are the names that have a symbol.
SymbolsOf(p, i, known) ==
    LET at == p[i.value].at
        first(n) == CHOOSE j \in DOMAIN at : at[j] = n /\ \A k \in DOMAIN at : at[k] = n => j <= k
    IN  known @@ [n \in {m \in Range(at) : m < 0} |-> [source |-> i, index |-> first(n)]]
ArgumentShape(p, i, known) ==
    LET at == p[i.value].at
    IN  IF at = <<>> THEN UnknownShape(p, i)
        ELSE [j \in DOMAIN at |->
                IF at[j] >= 0 THEN Const(at[j]) ELSE Named(SymbolsOf(p, i, known)[at[j]])]

\* One dimension of forwardBroadcast, from the expressions of the operands that
\* have it, in order. fresh is the symbol for expressions that contradict.
\* Bug variant: the first expression is taken.
RECURSIVE BroadcastFirst(_, _, _)
BroadcastFirst(exprs, sofar, fresh) ==
    IF exprs = <<>> THEN sofar
    ELSE LET e == Head(exprs)
         IN  IF IsConstant(e, 1) THEN BroadcastFirst(Tail(exprs), sofar, fresh) ELSE e
RECURSIVE BroadcastDim(_, _, _)
BroadcastDim(exprs, sofar, fresh) ==
    IF exprs = <<>> THEN sofar
    ELSE LET e == Head(exprs)
         IN  IF IsConstant(e, 1) THEN BroadcastDim(Tail(exprs), sofar, fresh)
             ELSE IF IsKnownNotOne(e) THEN e
             ELSE IF IsConstant(sofar, 1) \/ sofar = e THEN BroadcastDim(Tail(exprs), e, fresh)
             ELSE fresh

BroadcastExprs(i, operands) ==
    LET rank == Max({0} \cup {Len(operands[k]) : k \in DOMAIN operands})
        Contributing(j) == SelectSeq(operands, LAMBDA info : j + Len(info) > rank)
        At(j) == [k \in DOMAIN Contributing(j) |->
                    LET info == Contributing(j)[k] IN info[j + Len(info) - rank]]
    IN  [j \in 1..rank |-> BroadcastDim(At(j), Const(1), SymbolFor(i, j))]

\* forwardNumElements: the product of the symbolic factors, times the concrete one.
ProductExpr(factors) ==
    LET concrete == Product([k \in DOMAIN factors |->
                        IF IsConst(factors[k].expr) THEN factors[k].expr.c ELSE 1])
        symbolic == SelectSeq(factors, LAMBDA e : ~IsConst(e.expr))
        product == FoldLeft(LAMBDA a, b : Combined(Times(a.expr, b.expr), a, b), Head(symbolic), Tail(symbolic))
    IN  IF symbolic = <<>> THEN Const(concrete)
        ELSE [product EXCEPT !.expr = Times(Const(concrete).expr, product.expr)]

\* The index operand of tensor.dim and tensor.extract.
HasConstantIndex(p, op) == p[op.args[2]].kind = "constant"
Index(p, op) == p[op.args[2]].at[1] + 1

ShapeExprs(p, i, in) ==
    LET op == p[i.value]
    IN  CASE SameShape(op) \/ op.kind \in {"assuming", "select", "dynamic_broadcast_in_dim"} -> in[1]
          [] op.kind = "dynamic_reshape" -> FromType(op.dims, in[1])
          [] op.kind = "reduce" /\ Len(op.args) = 1 -> Without(in[1], Range(op.at))
          [] op.kind = "transpose" -> [j \in DOMAIN op.at |-> in[1][op.at[j] + 1]]
          [] OTHER -> UnknownShape(p, i)

ValueExprs(p, i, in) ==
    LET op == p[i.value]
        Binary(Op(_, _)) == [j \in 1..Dim0Size(op) |-> Combined(Op(in[1][j].expr, in[2][j].expr), in[1][j], in[2][j])]
    IN  CASE op.kind = "shape_of" -> FromType(p[op.args[1]].dims, in[1])
          [] op.kind = "broadcast" -> BroadcastExprs(i, in)
          [] op.kind = "num_elements" -> <<ProductExpr(in[1])>>
          [] op.kind \in {"dim", "extract"} -> <<in[1][Index(p, op)]>>
          [] op.kind = "index_cast" -> SubSeq(in[1], 1, Dim0Size(op))
          [] op.kind = "add" -> Binary(Plus)
          [] op.kind = "multiply" -> Binary(Times)
          [] op.kind = "from_elements" -> [k \in DOMAIN in |-> in[k][1]]
          [] op.kind = "concatenate" ->
                IF \A k \in DOMAIN in : Len(in[k]) = 1 THEN FlattenSeq(in) ELSE Unknown(p, i)
          [] op.kind = "reshape" -> IF Len(in[1]) = 1 THEN in[1] ELSE Unknown(p, i)
          [] op.kind = "slice" ->
                IF op.dims = <<1>> THEN <<in[1][op.at[1] + 1]>> ELSE Unknown(p, i)
          [] op.kind = "constant" -> [j \in 1..Dim0Size(op) |-> Const(op.at[j])]
          [] OTHER -> Unknown(p, i)

Exprs(p, i, in) == IF i.of = "shape" THEN ShapeExprs(p, i, in) ELSE ValueExprs(p, i, in)

\* The assertions that a forward visit can fail: an operand that has no entry, a
\* dimension that is not positive, and a second insertion of the same info.
AssertionFails(p, i) ==
    LET op == p[i.value]
        needs == Needs(p, i)
    IN  \/ \E k \in DOMAIN needs : needs[k] \notin DOMAIN cache
        \/ /\ i.of = "value"
           /\ \/ /\ op.kind = "num_elements"
                 /\ \E e \in Range(cache[needs[1]]) : IsConst(e.expr) /\ e.expr.c <= 0
              \/ op.kind \in {"dim", "extract"} /\ ~HasConstantIndex(p, op)
              \/ /\ op.kind = "slice" /\ op.dims = <<1>>
                 /\ op.at[1] >= Len(cache[needs[1]])

-----------------------------------------------------------------------------

Init ==
    /\ cache = <<>>
    /\ shared = <<>>
    /\ V!Init

\* GetShapeInfo and GetValueInfo.
Ask == UNCHANGED <<cache, shared>> /\ V!Ask
Skip == UNCHANGED <<cache, shared>> /\ V!Skip
Climb == UNCHANGED <<cache, shared>> /\ V!Climb
SkipForward == UNCHANGED <<cache, shared>> /\ V!SkipForward

BlockArgument ==
    /\ V!ToVisit
    /\ LET i == V!Back(bwd)
       IN  /\ cache' = [j \in V!Entry(i) |-> ArgumentShape(prog, i, shared)] @@ cache
           /\ shared' = SymbolsOf(prog, i, shared)
    /\ V!BlockArgument

\* The info to be computed next; the program stops if an assertion fails in it.
ToCompute == bwd = <<>> /\ fwd # <<>> /\ V!Back(fwd) \notin DOMAIN cache
Forward ==
    /\ ToCompute
    /\ LET i == V!Back(fwd)
           needs == Needs(prog, i)
       IN  /\ ~AssertionFails(prog, i)
           /\ cache' = [j \in V!Entry(i) |->
                            Exprs(prog, i, [k \in DOMAIN needs |-> cache[needs[k]]])] @@ cache
    /\ UNCHANGED shared
    /\ V!Forward

Reset ==
    /\ cache' = <<>>
    /\ shared' = <<>>
    /\ V!Reset

Answered == V!Idle /\ asks = <<>>
Stopped == Answered /\ UNCHANGED vars

Next == Ask \/ Reset \/ Skip \/ BlockArgument \/ Climb \/ SkipForward \/ Forward \/ Stopped

Spec == Init /\ [][Next]_vars

-----------------------------------------------------------------------------
(* What an expression means in an execution. *)

Components(run, i) == IF i.of = "shape" THEN run[i.value].shape ELSE run[i.value].elems

RECURSIVE Eval(_, _)
Eval(e, run) ==
    CASE e.op = "const" -> e.c
      [] e.op = "symbol" -> Components(run, e.symbol.source)[e.symbol.index]
      [] e.op = "*" -> Eval(e.l, run) * Eval(e.r, run)
      [] e.op = "+" -> Eval(e.l, run) + Eval(e.r, run)

\* The elements of data tensors are not modelled.
HasComponents(run, i) ==
    i.value \in DOMAIN run /\ (i.of = "value" => run[i.value].elems # <<>>)

\* lookup and insert assert "op not processed yet?" and "op already processed?"
\* (cc:717, 725): every operand is looked up after it was computed, no info is
\* computed twice.
LookupsSucceed ==
    /\ V!OperandsFirst
    /\ ToCompute => ~AssertionFails(prog, V!Back(fwd))

\* The analysis tells the truth: whatever the sizes at run time, each component of
\* each value has the value of the expression that the map holds for it. Rewrites
\* (cc:214-225 and the forward functions) are sound because of this.
ExprsHold ==
    Answered =>
        \A run \in Executions(prog) : \A i \in DOMAIN cache :
            HasComponents(run, i) =>
                Components(run, i) = [j \in DOMAIN cache[i] |-> Eval(cache[i][j].expr, run)]
=============================================================================
