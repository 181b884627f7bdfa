-------------------------- MODULE MCUserangeAnalysis --------------------------
(* The operations on interval lists, on every pair of short lists, and the  *)
(* analysis of families of programs.                                        *)
EXTENDS UserangeAnalysis

Plain(block, uses) ==
    [block |-> block, uses |-> uses, reads |-> {}, res |-> {}, loop |-> FALSE, jumps |-> {}, views |-> {}]
AllocOp(block, v) == [Plain(block, {}) EXCEPT !.res = {v}]
ReadOp(block, v) == [Plain(block, {v}) EXCEPT !.reads = {v}]
ViewOp(block, u, v) == [Plain(block, {u}) EXCEPT !.res = {v}, !.views = {<<u, v>>}]
Jump(to) == [to |-> to, pass |-> {}]
JumpWith(to, pass) == [to |-> to, pass |-> pass]
\* What an operation passes on are its operands.
Goto(block, jumps) == [Plain(block, {e[1] : e \in UNION {jump.pass : jump \in jumps}}) EXCEPT !.jumps = jumps]
Region(block, res, jumps, loop) == [Goto(block, jumps) EXCEPT !.res = res, !.loop = loop]
BlockIn(parent, args, succs) == [parent |-> parent, args |-> args, succs |-> succs]

\* The functions of src/tests/test_userange.mlir, and what is expected there.
UseRangeGap ==
    [blocks |-> <<BlockIn(0, {}, {2, 3}), BlockIn(0, {}, {4}), BlockIn(0, {}, {4}), BlockIn(0, {}, {})>>,
     allocs |-> {1, 2},
     ops |-> <<AllocOp(1, 1), AllocOp(1, 2), Goto(1, {Jump(4), Jump(7)}),
               Plain(2, {1}), Plain(2, {2}), Goto(2, {Jump(10)}),
               Plain(3, {1}), Plain(3, {2}), Goto(3, {Jump(10)}), Plain(4, {})>>]
LoopWithNestedRegion ==
    [blocks |-> <<BlockIn(0, {}, {2}), BlockIn(0, {}, {5}), BlockIn(10, {}, {}), BlockIn(10, {}, {}),
                  BlockIn(0, {}, {2, 6}), BlockIn(0, {}, {})>>,
     allocs |-> {1, 2, 3, 4},
     ops |-> <<AllocOp(1, 1), AllocOp(1, 2), AllocOp(1, 3), AllocOp(1, 4), Goto(1, {Jump(10)}),
               Plain(3, {1}), Goto(3, {JumpWith(10, {<<3, 5>>})}),
               Plain(4, {2}), Goto(4, {JumpWith(10, {<<3, 5>>})}),
               Region(2, {5}, {Jump(6), Jump(8)}, FALSE), Goto(2, {Jump(12)}),
               Goto(5, {Jump(10), Jump(13)}), Plain(6, {3}), Plain(6, {4}), Plain(6, {})>>]
CondBranchWithAlias ==
    [blocks |-> <<BlockIn(0, {}, {2, 3}), BlockIn(0, {}, {4}), BlockIn(0, {}, {4}), BlockIn(0, {3}, {5}),
                  BlockIn(0, {6}, {})>>,
     allocs |-> {1, 2, 4, 5},
     ops |-> <<AllocOp(1, 1), Goto(1, {Jump(3), Jump(5)}),
               Plain(2, {1}), Goto(2, {JumpWith(8, {<<1, 3>>})}),
               AllocOp(3, 2), Plain(3, {2}), Goto(3, {JumpWith(8, {<<2, 3>>})}),
               AllocOp(4, 4), Plain(4, {3}), Plain(4, {4}), AllocOp(4, 5), Plain(4, {5}),
               Goto(4, {JumpWith(14, {<<1, 6>>})}), Plain(5, {6}), Plain(5, {})>>]

I(s, e) == Interval(s, e)
ASSUME AsTested ==
    /\ [v \in {1, 2} |-> RangeOf(UseRangeGap, v)] = <<<<I(7, 7), I(13, 13)>>, <<I(9, 9), I(15, 15)>>>>
    /\ [v \in {1, 2, 3, 4, 5} |-> RangeOf(LoopWithNestedRegion, v)] =
            <<<<I(11, 23)>>, <<I(11, 23)>>, <<I(11, 25)>>, <<I(27, 27)>>, <<I(19, 19)>>>>
    /\ [v \in {2, 3, 4, 5, 6} |-> RangeOf(CondBranchWithAlias, v)] =
            [v \in {2, 3, 4, 5, 6} |-> CASE v = 2 -> <<I(11, 13)>> [] v = 3 -> <<I(15, 17)>>
                 [] v = 4 -> <<I(19, 19)>> [] v = 5 -> <<I(23, 23)>> [] v = 6 -> <<I(27, 27)>>]

\* A use of the alloc 1, or of this name of it, in those slots of a program that
\* are in S; the other slots are operations without interest.
Slot(S, n, block, name) == IF n \in S THEN Plain(block, {name}) ELSE Plain(block, {})
Slots == (SUBSET (1..4)) \ {{}}

\* A loop of two blocks between an entry and an exit; the alloc is before it or in it.
BlockLoops ==
    {[blocks |-> <<BlockIn(0, {}, {2}), BlockIn(0, {}, {3, 4}), BlockIn(0, {}, {2}), BlockIn(0, {}, {})>>,
      allocs |-> {1},
      ops |-> <<AllocOp(1, 1), Slot(S, 1, 1, 1), Goto(1, {Jump(4)}),
                Plain(2, {}), Slot(S, 2, 2, 1), Goto(2, {Jump(7), Jump(10)}),
                Plain(3, {}), Slot(S, 3, 3, 1), Goto(3, {Jump(4)}),
                Plain(4, {}), Slot(S, 4, 4, 1), Plain(4, {})>>] : S \in Slots}
    \cup {[blocks |-> <<BlockIn(0, {}, {2}), BlockIn(0, {}, {3, 4}), BlockIn(0, {}, {2}), BlockIn(0, {}, {})>>,
      allocs |-> {1},
      ops |-> <<Plain(1, {}), Goto(1, {Jump(3)}), AllocOp(2, 1), Slot(S, 1, 2, 1), Plain(2, {}), Slot(S, 2, 2, 1),
                Goto(2, {Jump(8), Jump(10)}), Slot(S, 3, 3, 1), Goto(3, {Jump(3)}),
                Slot(S, 4, 4, 1), Plain(4, {})>>] : S \in Slots}

\* A loop with an if in it, and what it carries: the alloc, which the body may
\* replace by a buffer of its own.
CarriedLoops ==
    {[blocks |-> <<BlockIn(0, {}, {}), BlockIn(10, {2}, {}), BlockIn(6, {}, {}), BlockIn(6, {}, {})>>,
      allocs |-> {1, 4},
      ops |-> <<AllocOp(1, 1), Slot(S, 1, 1, 1),
                Slot(S, 2, 2, 2), Slot(S, 3, 3, 2), Goto(3, {Jump(6)}),
                Region(2, {}, {Jump(4), Jump(6)}, FALSE), AllocOp(2, 4), Plain(2, {4}),
                Goto(2, {JumpWith(3, {<<y, 2>>}), JumpWith(10, {<<y, 3>>})}),
                Region(1, {3}, {JumpWith(3, {<<1, 2>>}), JumpWith(10, {<<1, 3>>})}, TRUE),
                Plain(1, {}), Slot(S, 4, 1, 3), Plain(1, {})>>] : S \in Slots, y \in {2, 4}}

\* A loop, or an if, in a loop; the alloc is used before, in and behind it, never
\* in the inner one of two loops alone.
NestedLoops ==
    {[blocks |-> <<BlockIn(0, {}, {}), BlockIn(9, {}, {}), BlockIn(6, {}, {})>>,
      allocs |-> {1},
      ops |-> <<AllocOp(1, 1), Slot(S, 1, 1, 1),
                Slot(S, 2, 2, 1), Slot(S, 3, 3, 1), Goto(3, IF loop THEN {Jump(4), Jump(6)} ELSE {Jump(6)}),
                Region(2, {}, {Jump(4), Jump(6)}, loop), Plain(2, {}), Goto(2, {Jump(3), Jump(9)}),
                Region(1, {}, {Jump(3), Jump(9)}, TRUE), Slot(S, 4, 1, 1), Plain(1, {})>>] :
        <<S, loop>> \in Slots \X BOOLEAN \ {<<{3}, TRUE>>}}

\* Views, used in the block of the alloc, and an operation that only reads.
Views ==
    {[blocks |-> <<BlockIn(0, {}, {})>>, allocs |-> {1, 4},
      ops |-> <<AllocOp(1, 1), ViewOp(1, 1, 2), AllocOp(1, 4), Slot(S, 1, 1, 2), ReadOp(1, 4), ViewOp(1, 2, 3),
                Slot(S, 2, 1, 3), Plain(1, {}), Slot(S, 3, 1, 1), Plain(1, {}), Slot(S, 4, 1, 2)>>] : S \in Slots}

SomePrograms == {UseRangeGap, LoopWithNestedRegion, CondBranchWithAlias}
                    \cup BlockLoops \cup CarriedLoops \cup NestedLoops \cup Views

\* A view of the alloc 1 is used in an if, and the alloc 4 meanwhile: the range of
\* the alloc 1 is not Regular.
NestedUseOfView ==
    {[blocks |-> <<BlockIn(0, {}, {}), BlockIn(8, {}, {})>>, allocs |-> {1, 4},
      ops |-> <<AllocOp(1, 1), ViewOp(1, 1, 2), AllocOp(1, 4), Plain(1, {2}), Plain(1, {4}),
                Plain(2, {2}), Goto(2, {Jump(8)}), Region(1, {}, {Jump(6), Jump(8)}, FALSE), Plain(1, {})>>]}
=============================================================================
