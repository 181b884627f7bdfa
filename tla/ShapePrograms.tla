---------------------------- MODULE ShapePrograms ----------------------------
(* Programs of shape computations and what they compute: the operations of the *)
(* mhlo, shape, tensor and arith dialects that the shape component analysis    *)
(* knows. A program is a sequence of operations, each of which defines one     *)
(* value. Data tensors have a shape only; shape tensors and indices have       *)
(* elements. Regions of shape.assuming are laid out in line, behind an         *)
(* operation "enter" that requires the witness.                                *)
EXTENDS Integers, Sequences, FiniteSetsExt, SequencesExt

CONSTANTS
    Sizes,    \* what a dynamic dimension can be at run time
    Elements  \* what an element of a shape tensor that is passed in can be

Dyn == -1     \* a dynamic dimension of a type

(* An operation: [kind, args, form, dims, at]. form is "tensor", "scalar" or   *)
(* "witness", dims the type of a tensor, at the attribute of the operation.    *)

Product(s) == FoldLeft(LAMBDA a, b : a * b, 1, s)

\* Run-time values.
Data(shape) == [shape |-> shape, elems |-> <<>>]
Vector(elems) == [shape |-> <<Len(elems)>>, elems |-> elems]
Number(n) == [shape |-> <<>>, elems |-> <<n>>]
Truth(b) == Number(IF b THEN 1 ELSE 0)

Fits(dims, shape) ==
    /\ Len(dims) = Len(shape)
    /\ \A j \in DOMAIN dims : dims[j] \in {Dyn, shape[j]} /\ shape[j] >= 0

\* A shape as one of a higher rank: broadcasting aligns the last dimensions.
Padded(s, rank) ==
    [j \in 1..rank |-> IF j + Len(s) <= rank THEN 1 ELSE s[j + Len(s) - rank]]
Rank(shapes) == Max({Len(s) : s \in shapes})

Broadcastable(shapes) ==
    \A j \in 1..Rank(shapes) :
        Cardinality({Padded(s, Rank(shapes))[j] : s \in shapes} \ {1}) <= 1
Broadcasted(shapes) ==
    [j \in 1..Rank(shapes) |->
        LET sizes == {Padded(s, Rank(shapes))[j] : s \in shapes} \ {1}
        IN  IF sizes = {} THEN 1 ELSE CHOOSE d \in sizes : TRUE]

\* The lowering of mhlo.compute_reshape_shape: -1 is replaced by what is missing,
\* in the unsigned division of the number of elements by the negated product. A
\* product of zero is a division by zero.
ComputedShape(n, s) ==
    LET accounted == -Product(s)
        missing == IF accounted < 0 THEN 0 ELSE n \div accounted
    IN  IF accounted = 0 THEN {}
        ELSE {[j \in DOMAIN s |-> IF s[j] = -1 THEN missing ELSE s[j]]}

\* The lowering of mhlo.cstr_reshapable.
Reshapable(n, s) ==
    LET wildcards == {j \in DOMAIN s : s[j] = -1}
        total == Product([j \in DOMAIN s |-> IF s[j] = -1 THEN 1 ELSE s[j]])
        divisor == IF total = 0 THEN 1 ELSE total
    IN  /\ \A j \in DOMAIN s : s[j] >= -1
        /\ Cardinality(wildcards) <= 1
        /\ n % divisor = 0
        /\ Cardinality(wildcards) = 1 \/ n = total

Without(shape, dropped) ==
    LET kept == SetToSortSeq({j \in DOMAIN shape : j - 1 \notin dropped}, <)
    IN  [j \in DOMAIN kept |-> shape[kept[j]]]

\* What an argument, or the result of an unknown operation, can be.
\* rt.symbolic_shape is a promise of the caller: sizes, and negative names that
\* stand for the same size wherever they occur.
SizesAt(op, j) ==
    IF op.dims[j] # Dyn THEN {op.dims[j]}
    ELSE IF op.at # <<>> /\ op.at[j] >= 0 THEN {op.at[j]} ELSE Sizes
SameNames(op1, s1, op2, s2) ==
    \A j \in DOMAIN op1.at, k \in DOMAIN op2.at :
        op1.at[j] = op2.at[k] /\ op1.at[j] < 0 => s1[j] = s2[k]
Passed(p, run, op) ==
    {s \in [DOMAIN op.dims -> UNION {SizesAt(op, j) : j \in DOMAIN op.dims}] :
        /\ \A j \in DOMAIN s : s[j] \in SizesAt(op, j)
        /\ SameNames(op, s, op, s)
        /\ \A v \in DOMAIN run : p[v].kind = "arg" => SameNames(op, s, p[v], run[v].shape)}

-----------------------------------------------------------------------------
(* The operations of mhlo, each with the set of its results: empty if it is    *)
(* undefined for these operands.                                               *)
Defined(condition, value) == IF condition THEN {value} ELSE {}

Elementwise(a, b, elems) == Defined(a.shape = b.shape, [a EXCEPT !.elems = elems])
Added(a, b) == Elementwise(a, b, [j \in DOMAIN a.elems |-> a.elems[j] + b.elems[j]])
Multiplied(a, b) == Elementwise(a, b, [j \in DOMAIN a.elems |-> a.elems[j] * b.elems[j]])

Concatenated(vectors) == {Vector(FlattenSeq([k \in DOMAIN vectors |-> vectors[k].elems]))}

\* size elements of a vector, from the one at start on.
Sliced(vector, start, size) ==
    Defined(start + size <= Len(vector.elems), Vector(SubSeq(vector.elems, start + 1, start + size)))

Reshaped(value, dims) ==
    Defined(Product(value.shape) = Product(dims), [shape |-> dims, elems |-> value.elems])

Transposed(value, permutation) == {Data([j \in DOMAIN permutation |-> value.shape[permutation[j] + 1]])}

\* The j-th dimension of the operand becomes dimension at[j] of the result.
BroadcastInDim(value, op, sizes) ==
    Defined(/\ Fits(op.dims, sizes)
            /\ \A j \in DOMAIN op.at : value.shape[j] \in {1, sizes[op.at[j] + 1]}, Data(sizes))

DynamicReshaped(value, op, sizes) ==
    Defined(Fits(op.dims, sizes) /\ Product(value.shape) = Product(sizes), Data(sizes))

Selected(values) == Defined(\A k \in DOMAIN values : values[k].shape = values[1].shape, Data(values[1].shape))

-----------------------------------------------------------------------------
\* The values that the operation behind a run can give; none if it is undefined,
\* or if the run does not pass a witness.
Outcomes(p, run) ==
    LET op == p[Len(run) + 1]
        x(k) == run[op.args[k]]
        All == [k \in DOMAIN op.args |-> x(k)]
        Shapes == {x(k).elems : k \in DOMAIN op.args}
    IN  CASE op.kind = "arg" -> {Data(s) : s \in Passed(p, run, op)}
          [] op.kind = "shape arg" ->
                IF op.form = "scalar" THEN {Number(n) : n \in Elements}
                ELSE {Vector(e) : e \in [1..op.dims[1] -> Elements]}
          [] op.kind = "opaque" -> {Data(s) : s \in Passed(p, run, op)}
          [] op.kind = "constant" ->
                {IF op.form = "scalar" THEN Number(op.at[1]) ELSE Vector(op.at)}
          [] op.kind = "shape_of" -> {Vector(x(1).shape)}
          [] op.kind = "broadcast" -> Defined(Broadcastable(Shapes), Vector(Broadcasted(Shapes)))
          [] op.kind = "num_elements" -> {Number(Product(x(1).elems))}
          [] op.kind = "dim" -> {Number(x(1).shape[j]) : j \in {x(2).elems[1] + 1} \cap DOMAIN x(1).shape}
          [] op.kind = "extract" -> {Number(x(1).elems[j]) : j \in {x(2).elems[1] + 1} \cap DOMAIN x(1).elems}
          [] op.kind = "index_cast" -> {x(1)}
          [] op.kind = "from_elements" -> {Vector([k \in DOMAIN All |-> All[k].elems[1]])}
          [] op.kind = "add" -> Added(x(1), x(2))
          [] op.kind = "multiply" -> Multiplied(x(1), x(2))
          [] op.kind = "concatenate" -> Concatenated(All)
          [] op.kind = "reshape" -> Reshaped(x(1), op.dims)
          [] op.kind = "slice" -> Sliced(x(1), op.at[1], op.dims[1])
          [] op.kind = "dynamic_broadcast_in_dim" -> BroadcastInDim(x(1), op, x(2).elems)
          [] op.kind = "dynamic_reshape" -> DynamicReshaped(x(1), op, x(2).elems)
          [] op.kind = "reduce" -> {Data(Without(x(1).shape, Range(op.at)))}
          [] op.kind = "transpose" -> Transposed(x(1), op.at)
          [] op.kind \in {"select", "elementwise"} -> Selected(All)
          [] op.kind = "compute_reshape_shape" ->
                {Vector(s) : s \in ComputedShape(x(1).elems[1], x(2).elems)}
          [] op.kind = "cstr_reshapable" -> {Truth(Reshapable(x(1).elems[1], x(2).elems))}
          [] op.kind = "cstr_broadcastable" -> {Truth(Broadcastable(Shapes))}
          [] op.kind = "enter" -> Defined(x(1) = Truth(TRUE), Truth(TRUE))
          [] op.kind = "assuming" -> {x(1)}

\* All executions of a program, each up to the operation that is undefined in it.
RECURSIVE Continued(_, _)
Continued(p, run) ==
    LET outcomes == IF Len(run) = Len(p) THEN {} ELSE Outcomes(p, run)
    IN  IF outcomes = {} THEN {run}
        ELSE UNION {Continued(p, Append(run, v)) : v \in outcomes}

Executions(p) == Continued(p, <<>>)
=============================================================================
