------------------------------ MODULE MCDeallocate ------------------------------
(* Families of source programs for the pass hlo-deallocate.                *)
EXTENDS DeallocateExec

Alloc(v) == Op("alloc", <<>>, <<v>>, <<>>, 0)
View(v, u) == Op("view", <<u>>, <<v>>, <<>>, 0)
Select(v, u, w) == Op("select", <<u, w>>, <<v>>, <<>>, 0)
Use(v) == Op("use", <<v>>, <<>>, <<>>, 0)
Realloc(v, u) == Op("realloc", <<u>>, <<v>>, <<>>, 0)
Dealloc(u) == Op("dealloc", <<u>>, <<>>, <<>>, 0)
CallOp(callee, args, res) == Op("call", args, res, <<>>, callee)
If(res, then, else) == Op("if", <<>>, res, <<then, else>>, 0)
IfOnly(then) == Op("if", <<>>, <<>>, <<then>>, 0)
For(args, res, body) == Op("for", args, res, <<body>>, 0)
While(args, res, before, after) == Op("while", args, res, <<before, after>>, 0)
Parallel(body) == Op("parallel", <<>>, <<>>, <<body>>, 0)
Valid(fs) == [funcs |-> fs, error |-> "none"]
Invalid(fs, error) == [funcs |-> fs, error |-> error]

\* Loops with two iter args.  The body owns 11 and 12, allocates 13, and has
\* views of 11 and 13; 1 is an argument, 2 and 3 are allocated before.  No
\* two operands and no two yielded memrefs share a buffer.
Body(yields) == Block(<<11, 12>>, <<Use(11), Alloc(13), View(14, 11), Select(15, 12, 13), Use(15)>>, yields)
LoopYields == {<<11, 12>>, <<12, 11>>, <<13, 12>>, <<13, 11>>, <<14, 13>>, <<12, 14>>,
               <<15, 11>>, <<14, 15>>, <<3, 13>>}
Operands == {<<1, 2>>, <<2, 1>>}
Loop(kind, operands, yields) ==
    IF kind = "for" THEN For(operands, <<21, 22>>, Body(yields))
    ELSE While(operands, <<21, 22>>, Block(<<16, 17>>, <<Use(17)>>, <<16, 17>>), Body(yields))
LoopPrograms ==
    [p \in {"for", "while"} \X Operands \X LoopYields \X BOOLEAN \X {<<>>, <<21>>, <<22, 21>>} |->
        Valid(<<Block(<<1>>,
                      <<Alloc(2), Alloc(3), Loop(p[1], p[2], p[3]), Use(3), Use(22)>>
                          \o (IF p[4] THEN <<Use(2), Use(21)>> ELSE <<>>),
                      p[5])>>)]


\* The inner loop runs on what the outer one carries (loop_nested_alloc).
NestedPrograms ==
    [p \in {"nested"} \X {1, 2} \X {<<31>>, <<33>>, <<34>>, <<11>>} \X {<<>>, <<41>>} |->
        Valid(<<Block(<<1>>,
            <<Alloc(2),
              For(<<p[2]>>, <<41>>, Block(<<11>>,
                <<For(<<11>>, <<21>>, Block(<<31>>,
                    <<Alloc(32), If(<<33>>, Block(<<>>, <<Alloc(35)>>, <<35>>), Block(<<>>, <<>>, <<31>>)),
                      View(34, 33), Use(34)>>, p[3]))>>, <<21>>)),
              Use(41)>>, p[4])>>)]

\* What an if yields: the argument 1, the buffers 2 and 3 from before it,
\* views of them, its own ones.  Results may share a buffer, but no memref
\* is yielded twice.
Branch == {<<<<>>, <<1, 2>>>>, <<<<Alloc(11)>>, <<11, 3>>>>, <<<<Alloc(11), View(12, 11)>>, <<12, 11>>>>,
           <<<<Alloc(11), Use(2), Select(12, 2, 11)>>, <<12, 1>>>>, <<<<View(11, 2)>>, <<2, 11>>>>}
IfPrograms ==
    [p \in {"branches"} \X Branch \X Branch \X {<<>>, <<21>>, <<22, 21>>, <<2, 21>>, <<22, 1, 3>>} |->
        Valid(<<Block(<<1>>,
            <<Alloc(2), Alloc(3),
              If(<<21, 22>>, Block(<<>>, p[2][1], p[2][2]), Block(<<>>, p[3][1], p[3][2])),
              Use(22)>>, p[4])>>)]

\* Callees, with two arguments, and callers of them.
Callees == [alloc |-> Block(<<51, 52>>, <<Alloc(53)>>, <<53>>),
            id |-> Block(<<51, 52>>, <<Use(51)>>, <<52>>),
            pick |-> Block(<<51, 52>>, <<Alloc(54), Select(53, 51, 54)>>, <<53>>),
            mayReuse |-> Block(<<51, 52>>, <<If(<<53>>, Block(<<>>, <<>>, <<51>>),
                                                 Block(<<>>, <<Alloc(54)>>, <<54>>))>>, <<53>>),
            recursive |-> Block(<<51, 52>>, <<Alloc(55),
                If(<<53>>, Block(<<>>, <<>>, <<51>>),
                   Block(<<>>, <<CallOp(1, <<52, 55>>, <<54>>)>>, <<54>>))>>, <<53>>)]
CallPrograms ==
    [p \in {"calls"} \X (DOMAIN Callees) \X {<<1, 2>>, <<2, 1>>, <<2, 2>>, <<2, 3>>}
            \X {<<>>, <<61>>, <<62, 61>>, <<2, 62>>} |->
        Valid(<<Callees[p[2]],
                Block(<<1>>, <<Alloc(2), Alloc(3), CallOp(1, p[3], <<61>>), Use(61),
                               CallOp(1, <<61, 3>>, <<62>>), Use(2), Use(62)>>, p[4])>>)]

\* One program or several by name.
Named(name, error, func) == (<<name>> :> Invalid(<<func>>, error))
Realloc2 == Block(<<>>, <<Realloc(11, 2)>>, <<11>>)
Keep2 == Block(<<>>, <<>>, <<2>>)
CapturePrograms ==
    Named("unconditional_realloc", "none", Block(<<>>, <<Alloc(2), Use(2), Realloc(3, 2), Use(3)>>, <<>>))
    @@ Named("realloc_in_if", "none", Block(<<>>, <<Alloc(2), If(<<21>>, Realloc2, Keep2), Use(21)>>, <<>>))
    @@ Named("realloc_in_else", "none", Block(<<>>, <<Alloc(2), If(<<21>>, Keep2, Realloc2), Use(21)>>, <<21>>))
    @@ Named("realloc_in_both", "none",
             Block(<<>>, <<Alloc(2), If(<<21>>, Realloc2, Block(<<>>, <<Realloc(12, 2)>>, <<12>>)), Use(21)>>, <<>>))
    @@ Named("realloc_nested", "none",
             Block(<<>>, <<Alloc(2), If(<<22>>, Block(<<>>, <<If(<<21>>, Realloc2, Keep2)>>, <<21>>), Keep2),
                           Use(22)>>, <<22>>))
    @@ Named("realloc_in_if_strange_but_ok", "none",
             Block(<<>>, <<Alloc(2), If(<<21>>, Block(<<>>, <<Realloc(11, 2), Alloc(12)>>, <<12>>), Keep2)>>, <<>>))
    @@ Named("realloc_in_loop", "none",
             Block(<<>>, <<Alloc(1), For(<<1>>, <<31>>, Block(<<2>>, <<If(<<21>>, Realloc2, Keep2)>>, <<21>>)),
                           Use(31)>>, <<>>))
    @@ Named("dealloc", "none", Block(<<>>, <<Alloc(2), Use(2), Dealloc(2)>>, <<>>))
    @@ Named("dealloc_in_loop", "none",
             Block(<<>>, <<For(<<>>, <<>>, Block(<<>>, <<Alloc(2), Use(2), Dealloc(2)>>, <<>>))>>, <<>>))
    @@ Named("dealloc_in_both", "none",
             Block(<<>>, <<Alloc(2), If(<<>>, Block(<<>>, <<Dealloc(2)>>, <<>>),
                                              Block(<<>>, <<Use(2), Dealloc(2)>>, <<>>))>>, <<>>))
    @@ Named("if_without_else", "none",
             Block(<<1>>, <<Alloc(2), IfOnly(Block(<<>>, <<Alloc(3), Use(3), Use(2)>>, <<>>))>>, <<1>>))
    @@ Named("unknown_op", "none",
             Block(<<1>>, <<Alloc(2), Parallel(Block(<<>>, <<Alloc(3), Use(3), Use(2)>>, <<>>)), Use(1)>>, <<>>))
InvalidPrograms ==
    Named("dealloc_invalid", "can't implicitly capture across loop boundaries",
          Block(<<>>, <<Alloc(2), For(<<>>, <<>>, Block(<<>>, <<Dealloc(2)>>, <<>>))>>, <<>>))
    @@ Named("realloc_no_else", "cannot implicitly capture from an if without else",
             Block(<<>>, <<Alloc(2), IfOnly(Block(<<>>, <<Realloc(11, 2)>>, <<>>))>>, <<>>))
    @@ Named("realloc_not_yielded", "released value not yielded on other branch",
             Block(<<>>, <<Alloc(2), If(<<>>, Block(<<>>, <<Realloc(11, 2)>>, <<>>), Block(<<>>, <<>>, <<>>))>>, <<>>))
    @@ Named("realloc_arg", "unable to find ownership indicator for operand",
             Block(<<1>>, <<Realloc(2, 1)>>, <<>>))
    @@ Named("realloc_twice", "invalid realloc of memref",
             Block(<<>>, <<Alloc(2), Realloc(3, 2), Realloc(4, 2)>>, <<>>))
    @@ Named("realloc_twice_in_branch", "same value released twice",
             Block(<<>>, <<Alloc(2), If(<<21>>, Block(<<>>, <<Realloc(11, 2), Realloc(12, 2)>>, <<11>>), Keep2)>>, <<>>))
    @@ Named("realloc_twice_in_if", "invalid realloc of memref",
             Block(<<>>, <<Alloc(2), If(<<21>>, Realloc2, Keep2), If(<<22>>, Realloc2, Keep2)>>, <<>>))
    @@ Named("cross_loop_boundary", "can't implicitly capture across loop boundaries",
             Block(<<>>, <<Alloc(2), For(<<>>, <<>>, Block(<<>>, <<Realloc(11, 2)>>, <<>>))>>, <<>>))
    @@ Named("realloc_in_parallel", "block released or returned an alloc",
             Block(<<>>, <<Alloc(2), Parallel(Block(<<>>, <<Realloc(11, 2)>>, <<>>))>>, <<>>))

Regular == LoopPrograms @@ NestedPrograms @@ IfPrograms @@ CallPrograms @@ CapturePrograms @@ InvalidPrograms

\* A loop that yields the buffer it allocates twice.
YieldedTwice ==
    Named("yield_same_alloc_twice", "none",
          Block(<<1, 2>>, <<For(<<1, 2>>, <<21, 22>>,
                                Block(<<11, 12>>, <<Alloc(13)>>, <<13, 13>>)), Use(21), Use(22)>>, <<>>))

\* The function @while of the tests: three iter args are the same buffer.
SameOperands ==
    Named("while", "none",
          Block(<<>>, <<Alloc(1),
                        While(<<1, 1, 1>>, <<31, 32, 33>>, Block(<<11, 12, 13>>, <<>>, <<11, 12, 13>>),
                              Block(<<21, 22, 23>>, <<Alloc(24), Alloc(25)>>, <<25, 24, 22>>))>>,
                <<31, 32, 33>>))

\* A function whose two results are views of the same buffer.
SharedResults ==
    (<<"views">> :> Valid(<<Block(<<>>, <<Alloc(51), View(52, 51), View(53, 51)>>, <<52, 53>>),
                            Block(<<>>, <<CallOp(1, <<>>, <<61, 62>>), Use(61), Use(62)>>, <<>>)>>))
=============================================================================
