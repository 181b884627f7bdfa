-------------------------- MODULE MCDeallocationPipeline --------------------------
(* Families of source programs for the passes of src/deallocation.         *)
EXTENDS DeallocationPipeline

\* "strided" is the type of the shape of "f32" in another layout.
Elements == [f32 |-> 1, strided |-> 1, big |-> 2, huge |-> 9]

Alloc(v) == Op("alloc", <<>>, <<v>>, <<>>, 0)
View(v, u) == Op("view", <<u>>, <<v>>, <<>>, 0)
Select(v, u, w) == Op("select", <<u, w>>, <<v>>, <<>>, 0)
W(v) == Op("write", <<v>>, <<>>, <<>>, 0)
R(v) == Op("read", <<v>>, <<>>, <<>>, 0)
CopyOp(source, target) == Op("copy", <<source, target>>, <<>>, <<>>, 0)
Realloc(v, u) == Op("realloc", <<u>>, <<v>>, <<>>, 0)
CallOp(callee, args, res) == Op("call", args, res, <<>>, callee)
If(res, then, else) == Op("if", <<>>, res, <<then, else>>, 0)
Do(ops) == Block(<<>>, ops, <<>>)
For(args, res, body) == Op("for", args, res, <<body>>, 0)
While(args, res, before, after) == Op("while", args, res, <<before, after>>, 0)

Program(fs, restrict, ts) == [funcs |-> fs, restrict |-> restrict, types |-> ts]
Func(args, ops, yields) == Program(<<Block(args, ops, yields)>>, {}, <<>>)

\* A loop that carries two buffers; its body writes to a third one, 13, and
\* has a buffer of its own, 14, and a view of 13; or it selects one of 12 and
\* 13, or of 13, 24 and the argument 1, none of which it yields as well.
Before == Block(<<16, 17>>, <<R(17)>>, <<16, 17>>)
BeforeSwaps == Block(<<16, 17>>, <<R(17)>>, <<17, 16>>)
BeforeAllocs == Block(<<16, 17>>, <<Alloc(18), W(18), R(16)>>, <<18, 17>>)
BeforeHasTemporary == Block(<<16, 17>>, <<Alloc(19), W(19), R(19)>>, <<16, 17>>)
Body(yields) ==
    Block(<<11, 12>>, <<R(11), Alloc(13), W(13), View(15, 13), R(15), Alloc(14), W(14), R(14), R(12)>>, yields)
BodySelects(yields) ==
    Block(<<11, 12>>, <<Alloc(13), W(13), Select(15, 12, 13), R(15), Alloc(14), W(14), R(14)>>, yields)
BodySelectsAny(yields) ==
    Block(<<11, 12>>, <<Alloc(13), W(13), R(11), Alloc(24), W(24), Select(15, 13, 24), Select(20, 15, 1), R(20)>>, yields)
Bodies == {Body(yields) : yields \in {<<11, 12>>, <<12, 11>>, <<13, 12>>, <<12, 13>>, <<15, 11>>}}
            \cup {BodySelects(yields) : yields \in {<<15, 11>>, <<11, 15>>}}
            \cup {BodySelectsAny(yields) : yields \in {<<20, 12>>, <<11, 20>>}}
Loops == {For(<<2, 3>>, <<21, 22>>, body) : body \in Bodies}
            \cup {While(<<2, 3>>, <<21, 22>>, p[1], p[2]) :
                    p \in {Before, BeforeSwaps, BeforeAllocs, BeforeHasTemporary} \X Bodies}
LoopPrograms ==
    {Program(<<Block(<<1>>, <<Alloc(2), W(2), Alloc(3), W(3), p[1]>> \o p[2], p[3])>>, {}, p[4]) :
        p \in Loops \X {<<R(21), R(22)>>, <<>>} \X {<<>>, <<22>>} \X {<<>>, 14 :> "big" @@ 19 :> "big"}}

\* A loop in a loop; the inner one writes to a buffer of each iteration, and
\* the outer one may have a temporary of its own behind it.
NestedPrograms ==
    {Program(<<Block(<<1>>, <<Alloc(2), W(2),
        For(<<2>>, <<21>>, Block(<<11>>,
            <<For(<<11>>, <<12>>, Block(<<13>>, <<Alloc(14), W(14), R(13)>> \o p[1], p[2])), R(12)>> \o p[3], <<12>>)),
        R(21)>>, p[4])>>, {}, <<>>) :
        p \in {<<>>, <<Alloc(15), CopyOp(14, 15), R(15)>>} \X {<<13>>, <<14>>}
              \X {<<>>, <<Alloc(16), W(16), R(16)>>} \X {<<>>, <<21>>}}

\* Temporaries of the two branches of an if, before and behind it.
Branches == {<<>>, <<Alloc(11), W(11), R(11)>>, <<Alloc(11), W(11), Alloc(12), W(12), R(11), R(12)>>}
BranchPrograms ==
    {Program(<<Block(<<1>>, <<Alloc(2), W(2), R(2), If(<<>>, Do(p[1]), Do(p[2])), Alloc(3), W(3), R(3)>>, <<>>)>>,
             {}, p[3]) :
        p \in Branches \X {<<>>, <<Alloc(13), W(13), R(13)>>} \X
              {<<>>, 3 :> "big" @@ 12 :> "big", 2 :> "big" @@ 3 :> "big" @@ 13 :> "big", 11 :> "dynamic" @@ 3 :> "huge"}}

\* A buffer is copied to an argument or to another buffer, and not used behind it.
CopyPrograms ==
    {Program(<<Block(<<1>>, p[1] \o <<CopyOp(2, p[2])>> \o p[3], <<>>)>>, p[4], p[5]) :
        p \in {<<Alloc(2), W(2), Alloc(3)>>, <<Alloc(3), Alloc(2), W(2)>>, <<Alloc(2), Alloc(3), W(2), R(2)>>,
               <<Alloc(2), W(2), Alloc(3), W(3), R(3)>>, <<Alloc(2), W(2), Alloc(3), View(4, 3), W(4)>>,
               <<Alloc(3), W(3), Alloc(2), W(2), R(3)>>, <<W(1), Alloc(2), W(2), R(1), Alloc(3)>>,
               <<Alloc(2), W(2), Alloc(3), If(<<>>, Do(<<W(3), R(3)>>), Do(<<>>))>>}
              \X {1, 3} \X {<<R(1), R(3)>>, <<R(3), W(3), R(3)>>} \X {{}, {1}} \X {<<>>, 1 :> "strided"}}
    \cup {Program(<<Block(<<1>>, <<Alloc(2), W(2), Alloc(3), W(3), If(<<>>, Do(p), Do(<<>>)), R(3)>>, <<>>)>>, {1}, <<>>) :
            p \in {<<CopyOp(2, 3)>>, <<Alloc(4), W(4), CopyOp(4, 3)>>, <<Alloc(4), CopyOp(2, 4), R(4)>>,
                   <<Alloc(4), W(4), CopyOp(4, 1)>>}}

\* Buffers one after the other, or overlapping.
SequencePrograms ==
    {Program(<<Block(<<>>, p[1], p[2])>>, {}, p[3]) :
        p \in {<<Alloc(2), W(2), R(2), Alloc(3), W(3), R(3), Alloc(4), W(4), R(4)>>,
               <<Alloc(2), W(2), Alloc(3), W(3), R(2), Alloc(4), W(4), R(3), R(4)>>,
               <<Alloc(2), Alloc(3), W(3), R(3), If(<<>>, Do(<<Alloc(5), W(5), R(5)>>), Do(<<>>)), Alloc(4), W(4), R(4)>>}
              \X {<<>>, <<3>>, <<4>>}
              \X {<<>>, 3 :> "big", 4 :> "huge" @@ 2 :> "huge", 3 :> "dynamic", 2 :> "big" @@ 3 :> "big" @@ 4 :> "big"}}

\* A callee, and a caller that may swap what it got.
Callees == {Block(<<51>>, <<Alloc(53), W(53)>>, <<53>>), Block(<<51>>, <<W(51), R(51)>>, <<51>>),
            Block(<<51>>, <<If(<<53>>, Block(<<>>, <<>>, <<51>>), Block(<<>>, <<Alloc(54), W(54)>>, <<54>>))>>, <<53>>),
            Block(<<51>>, <<Alloc(54), W(54), CopyOp(54, 51)>>, <<51>>)}
CallPrograms ==
    {Program(<<p[1], Block(<<1>>, <<Alloc(2), W(2), CallOp(1, <<p[2]>>, <<61>>), R(61), CallOp(1, <<61>>, <<62>>), R(62)>>, p[3])>>,
             {}, <<>>) :
        p \in Callees \X {1, 2} \X {<<>>, <<62>>}}

\* A realloc, in a loop and in an if; the second one is rejected.
Realloc2 == Block(<<>>, <<Realloc(11, 2), W(11)>>, <<11>>)
ReallocPrograms ==
    {Func(<<>>, <<Alloc(1), W(1), For(<<1>>, <<31>>, Block(<<2>>, <<If(<<21>>, Realloc2, Block(<<>>, <<>>, <<2>>))>>, <<21>>)),
                  R(31)>>, <<>>),
     Func(<<1>>, <<Realloc(2, 1), R(2)>>, <<>>)}

\* A loop whose body yields the argument 1 or a buffer of its own.
SelectsUnowned ==
    {Func(<<1>>, <<Alloc(2), W(2),
                   For(<<2>>, <<21>>, Block(<<11>>, <<Alloc(13), W(13), Select(15, 1, 13), R(15)>>, <<15>>)), R(21)>>, <<>>)}

SomePrograms == LoopPrograms \cup NestedPrograms \cup BranchPrograms \cup CopyPrograms \cup SequencePrograms
                    \cup CallPrograms \cup ReallocPrograms

\* What flows into each other has the same type.
ASSUME WellTyped == \A p \in SomePrograms : \A func \in ToSet(p.funcs) :
        /\ \A e \in Edges(func) : \A k \in DOMAIN e[1] : SameType(p.types, e[1][k], e[2][k])
        /\ \A op \in OpsIn(func) : op.kind \in {"view", "select"} =>
                \A u, v \in ToSet(op.args \o op.res) : SameType(p.types, u, v)
=============================================================================
