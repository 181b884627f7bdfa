--------------------------- MODULE MCSymbolicShapes ---------------------------
(* Programs for the shape component analysis and its patterns.                 *)
EXTENDS SymbolicShapes

MCSizes == {0, 1, 2, 3}
MCElements == {-1, 0, 2, 3}

Tensor(kind, args, dims, at) == [kind |-> kind, args |-> args, form |-> "tensor", dims |-> dims, at |-> at]
Scalar(kind, args, at) == [kind |-> kind, args |-> args, form |-> "scalar", dims |-> <<>>, at |-> at]
Witness(kind, args) == [kind |-> kind, args |-> args, form |-> "witness", dims |-> <<>>, at |-> <<>>]

\* An argument: dimensions that are static, dynamic (Dyn), or have a name (-2, -3).
\* An argument with names has an attribute that names all its dynamic dimensions.
Arg(id, tokens) ==
    Tensor("arg", <<>>, [j \in DOMAIN tokens |-> IF tokens[j] > 0 THEN tokens[j] ELSE Dyn],
           IF \E j \in DOMAIN tokens : tokens[j] < Dyn
           THEN [j \in DOMAIN tokens |-> IF tokens[j] = Dyn THEN -(10 * id + j) ELSE tokens[j]]
           ELSE <<>>)
ShapeOf(v, rank) == Tensor("shape_of", <<v>>, <<rank>>, <<>>)
Index0(n) == Scalar("constant", <<>>, <<n>>)
Trailing(from, to) == [j \in 1..from |-> to - from + j - 1]
AllDyn(rank) == [j \in 1..rank |-> Dyn]

\* Two arguments are broadcast to a common shape behind a witness, as in
\* tests/Dialect/mhlo/symbolic-shape-optimization.mlir.
BroadcastProgram(a, b) ==
    LET rank == Max({Len(a), Len(b)})
    IN  << Arg(1, a), Arg(2, b), ShapeOf(1, Len(a)), ShapeOf(2, Len(b)),
           Witness("cstr_broadcastable", <<3, 4>>),
           Witness("enter", <<5>>),
           Tensor("broadcast", <<3, 4>>, <<rank>>, <<>>),
           Tensor("dynamic_broadcast_in_dim", <<1, 7>>, AllDyn(rank), Trailing(Len(a), rank)),
           Tensor("dynamic_broadcast_in_dim", <<2, 7>>, AllDyn(rank), Trailing(Len(b), rank)),
           Tensor("elementwise", <<8, 9>>, AllDyn(rank), <<>>),
           Tensor("assuming", <<10>>, AllDyn(rank), <<>>),
           ShapeOf(11, rank),
           Tensor("broadcast", <<4, 12, 3>>, <<rank>>, <<>>) >>

Tokens == {1, 2, -1, -2, -3}
Broadcasts ==
    {BroadcastProgram(a, b) : a \in [1..2 -> {1, 2, -1, -2}], b \in [1..1 -> Tokens]}
        \cup {BroadcastProgram(a, b) : a \in [1..1 -> {2, -2}], b \in [1..2 -> {1, 2, -2}]}
        \cup {BroadcastProgram(<<1, -2>>, b) : b \in [1..2 -> Tokens]}
        \cup {BroadcastProgram(<<>>, <<-1>>), BroadcastProgram(<<>>, <<>>)}

\* A tensor of rank 2 is reshaped to a shape made of its dimensions and constants;
\* shape holds numbers of the values that the first lines define: the constants 1,
\* 2, 4 and -1 (3, 6, 10, 7), the dimensions (4, 5), their product (8), and twice
\* the first (9).
ReshapePrefix(x) ==
    << Arg(1, x), Index0(0), Index0(1), Scalar("dim", <<1, 2>>, <<>>), Scalar("dim", <<1, 3>>, <<>>),
       Index0(2), Index0(-1), Scalar("multiply", <<4, 5>>, <<>>), Scalar("multiply", <<4, 6>>, <<>>),
       Index0(4), ShapeOf(1, 2), Scalar("num_elements", <<11>>, <<>>) >>
ReshapeProgram(x, shape) ==
    LET rank == Len(shape)
    IN  ReshapePrefix(x) \o
        << Tensor("from_elements", shape, <<rank>>, <<>>),
           Witness("cstr_reshapable", <<12, 13>>),
           Witness("enter", <<14>>),
           Tensor("compute_reshape_shape", <<12, 13>>, <<rank>>, <<>>),
           Tensor("dynamic_reshape", <<1, 16>>, AllDyn(rank), <<>>),
           ShapeOf(17, rank),
           Tensor("dynamic_reshape", <<1, 13>>, AllDyn(rank), <<>>) >>

UpTo(n, s) == UNION {[1..k -> s] : k \in 1..n}
Reshapes ==
    {ReshapeProgram(<<-1, -1>>, s) : s \in UpTo(2, {3, 4, 5, 6, 7, 8, 9}) \cup [1..3 -> {3, 4, 5, 7}]}
        \cup {ReshapeProgram(<<-1, 4>>, s) : s \in UpTo(3, {3, 4, 5, 6, 7})}
        \cup {ReshapeProgram(x, s) : x \in {<<2, -1>>, <<-1, 1>>},
                                     s \in UpTo(2, {3, 4, 5, 6, 7}) \cup [1..3 -> {4, 5, 7}]}

\* A second reshape of the result: dimensions that are products.
ChainProgram(x, shape, shape2) ==
    ReshapePrefix(x) \o
    << Tensor("from_elements", shape, <<Len(shape)>>, <<>>),
       Tensor("dynamic_reshape", <<1, 13>>, AllDyn(Len(shape)), <<>>),
       Tensor("from_elements", shape2, <<Len(shape2)>>, <<>>),
       Tensor("dynamic_reshape", <<14, 15>>, AllDyn(Len(shape2)), <<>>),
       ShapeOf(16, Len(shape2)) >>
Chains ==
    {ChainProgram(<<-1, 2>>, s, t) : s \in {<<9>>, <<8, 3>>, <<3, 9>>, <<6, 4>>},
                                     t \in UpTo(3, {3, 4, 6, 9})}
        \cup {ChainProgram(<<-1, 4>>, <<8>>, t) : t \in UpTo(3, {4, 6})}
        \cup {ChainProgram(<<-1, 8>>, s, t) : s \in {<<4, 6, 10>>, <<4, 6, 6, 6>>, <<9, 10>>},
                                     t \in UpTo(3, {4, 6, 9, 10}) \cup {<<8>>}}

\* Every other operation, in the programs of tests/shape-component-analysis.mlir
\* and in some that combine them.
Others ==
    { << Arg(1, <<-1, -1>>), Arg(2, <<-1, -1>>), ShapeOf(1, 2), ShapeOf(2, 2),
         Witness("cstr_broadcastable", <<3, 4>>), Witness("enter", <<5>>),
         Tensor("assuming", <<1>>, AllDyn(2), <<>>), Tensor("assuming", <<2>>, AllDyn(2), <<>>),
         ShapeOf(7, 2), ShapeOf(8, 2),
         Tensor("index_cast", <<9>>, <<2>>, <<>>), Tensor("index_cast", <<10>>, <<2>>, <<>>),
         Tensor("add", <<11, 12>>, <<2>>, <<>>), Tensor("multiply", <<13, 12>>, <<2>>, <<>>),
         Scalar("num_elements", <<14>>, <<>>) >>,
      << Arg(1, <<-1, -1, 2>>),
         Tensor("reduce", <<1>>, <<Dyn, 2>>, <<0>>),
         Tensor("transpose", <<2>>, <<2, Dyn>>, <<1, 0>>),
         Tensor("elementwise", <<3>>, <<2, Dyn>>, <<>>),
         Tensor("reduce", <<1, 1>>, <<Dyn, 2>>, <<1>>),
         Tensor("select", <<4, 3>>, <<2, Dyn>>, <<>>),
         ShapeOf(6, 2),
         Tensor("slice", <<7>>, <<1>>, <<1>>), Tensor("slice", <<7>>, <<2>>, <<0>>),
         Tensor("reshape", <<8>>, <<>>, <<>>), Tensor("concatenate", <<8, 8>>, <<2>>, <<>>),
         ShapeOf(5, 2), Tensor("concatenate", <<12, 8>>, <<3>>, <<>>),
         Tensor("reshape", <<9>>, <<2>>, <<>>), Index0(1), Scalar("extract", <<11, 15>>, <<>>),
         Tensor("opaque", <<1>>, <<Dyn, 2>>, <<>>), ShapeOf(17, 2), Scalar("num_elements", <<18>>, <<>>),
         Tensor("from_elements", <<19, 16, 15>>, <<3>>, <<>>),
         Tensor("dynamic_reshape", <<17, 7>>, <<2, Dyn>>, <<>>), ShapeOf(21, 2) >>,
      << Scalar("shape arg", <<>>, <<>>), Tensor("shape arg", <<>>, <<2>>, <<>>), Arg(3, <<-1>>),
         Tensor("multiply", <<2, 2>>, <<2>>, <<>>), Index0(2), Scalar("add", <<5, 1>>, <<>>),
         Scalar("add", <<6, 5>>, <<>>), Scalar("add", <<7, 1>>, <<>>), Scalar("multiply", <<8, 5>>, <<>>),
         Tensor("constant", <<>>, <<2>>, <<3, 1>>), Tensor("multiply", <<10, 4>>, <<2>>, <<>>),
         Tensor("compute_reshape_shape", <<1, 11>>, <<2>>, <<>>),
         Tensor("compute_reshape_shape", <<1, 2>>, <<2>>, <<>>),
         Tensor("compute_reshape_shape", <<1, 13>>, <<2>>, <<>>) >>,
      << Arg(1, <<>>), Arg(2, <<-1, 1>>), Tensor("constant", <<>>, <<2>>, <<1, 1>>),
         Tensor("dynamic_reshape", <<1, 3>>, AllDyn(2), <<>>), ShapeOf(4, 2),
         Tensor("constant", <<>>, <<0>>, <<>>),
         Tensor("dynamic_reshape", <<2, 6>>, <<>>, <<>>) >>,
      << Arg(1, <<-2, -3, -2>>), Arg(2, <<-3, 2>>), Arg(3, <<-3, -2>>),
         ShapeOf(3, 2), ShapeOf(2, 2), ShapeOf(1, 3),
         Tensor("broadcast", <<4, 6>>, <<3>>, <<>>),
         Tensor("dynamic_broadcast_in_dim", <<3, 7>>, AllDyn(3), <<1, 2>>),
         Witness("cstr_broadcastable", <<5, 4>>), Witness("cstr_broadcastable", <<4, 6>>) >> }

SomePrograms == Broadcasts \cup Reshapes \cup Chains \cup Others

ASSUME \A p \in Others : \E run \in Executions(p) : Len(run) = Len(p)
=============================================================================
