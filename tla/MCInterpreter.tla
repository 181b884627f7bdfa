------------------------------- MODULE MCInterpreter -------------------------------
(* Programs for the interpreter: operations nested in each other in many ways. *)
EXTENDS Interpreter

Op0(kind) == [kind |-> kind, regions |-> <<>>, callee |-> 0]
OpWith(kind, regions) == [kind |-> kind, regions |-> regions, callee |-> 0]
CallOf(f) == [kind |-> "call", regions |-> <<>>, callee |-> f]
Region(ops) == Append(ops, Op0("end"))

Plain == Op0("plain")
Reduce == OpWith("reduce", <<Region(<<Plain>>)>>)
Sum(ops) == OpWith("parallel", <<Region(ops \o <<Reduce>>)>>)
Sums(ops) == OpWith("parallel", <<Region(ops \o <<Reduce, Reduce>>)>>)
Indexed(ops) == OpWith("generic", <<Region(ops \o <<Op0("index")>>)>>)
Masked == OpWith("mask", <<Region(<<Op0("transfer")>>)>>)
If(ops) == OpWith("if", <<Region(ops)>>)
IfElse(ops, others) == OpWith("if", <<Region(ops), Region(others)>>)
For(ops) == OpWith("for", <<Region(ops)>>)
While(before, after) == OpWith("while", <<Region(before), Region(after)>>)
ForAll(ops) == OpWith("forall", <<Region(ops \o <<OpWith("inParallel", <<Region(<<Plain>>)>>)>>)>>)

\* What may be nested, in the body of a loop also before the operation that asks
\* for the channel of the loop; a parallel loop is then in a region of its own.
Leaves == {<<>>, <<Plain>>, <<Op0("alloc"), Op0("dealloc")>>,
           <<Op0("global"), Op0("dealloc")>>, <<Masked, Op0("transfer")>>, <<Indexed(<<>>)>>,
           <<If(<<Sum(<<>>)>>)>>, <<For(<<Sums(<<>>)>>)>>, <<CallOf(2)>>, <<Op0("unknown")>>}
Nests(ops) == {Sum(ops), Sums(ops), Indexed(ops), If(ops), IfElse(ops, <<Op0("dealloc")>>), For(ops),
               While(<<Plain>>, ops), While(ops, <<>>), ForAll(ops)}

\* The first function calls the second one, which may call itself.
Callees == {Region(<<Plain, If(<<CallOf(2)>>)>>), Region(<<Indexed(<<>>), Sum(<<>>)>>)}
SomePrograms ==
    {<<Region(<<nest>>), callee>> : nest \in UNION {Nests(ops) : ops \in Leaves}, callee \in Callees}
    \cup {<<Region(<<Indexed(<<>>), Op0("alloc"), nest,
                    Op0("global"), Op0("dealloc"), Op0("dealloc")>>), callee>> :
            nest \in Nests(<<Indexed(<<Plain>>), CallOf(2)>>), callee \in Callees}

\* The regions of a function and those in its operations.
RECURSIVE RegionsIn(_)
RegionsIn(r) == {r} \cup UNION {UNION {RegionsIn(s) : s \in ToSet(op.regions)} : op \in ToSet(r)}
AllRegions == [p \in Programs |-> UNION {RegionsIn(f) : f \in ToSet(p)}]

ASSUME OneChannelPerScope

\* What that leaves out: two parallel loops in one block, or one before the
\* reduction of the loop around it.
SharedScopes == {<<Region(<<Sum(<<>>), Sum(<<>>)>>)>>, <<Region(<<Sum(<<Sum(<<>>)>>)>>)>>}
=============================================================================
