----------------------------- MODULE DeallocateExec -----------------------------
(***************************************************************************)
(* What a program does after hlo-deallocate: the pass transforms one of    *)
(* the source programs, and the result runs, operation by operation, on a  *)
(* heap of buffers.  A memref is the buffer it points into, an ownership   *)
(* indicator is the buffer it owns or Null.  Conditions and trip counts    *)
(* are arbitrary.  Buffers are never reused, so that a dangling memref can *)
(* be told from a live one.                                                *)
(***************************************************************************)
EXTENDS Deallocate

CONSTANTS Programs,   \* the source programs by name, each [funcs, error]: its
                      \* functions, the last one to be run, and the error it deserves
          MaxTrips,   \* no loop runs its body more often
          MaxCalls    \* no deeper stack of calls: beyond it, execution is cut

VARIABLES prog,       \* the name of the program
          status,     \* "running", "returned", "cut" or the error of the pass
          stack,      \* the blocks being executed, innermost first
          live,       \* the allocated buffers
          allocated   \* the number of buffers allocated so far

vars == <<prog, status, stack, live, allocated>>

Null == 0

\* The programs after the pass.  (With @@, TLC computes the table once.)
Transformed == [p \in DOMAIN Programs |-> TransformModule(Programs[p].funcs)] @@ <<>>
Funcs == Transformed[prog].program

\* A block being executed: where it is (a function, or the region r of the
\* operation k of a block), its next operation, the values it can see, how
\* often a loop's body was entered, and what was live on entry.
Frame(path, env, trips) ==
    [path |-> path, pc |-> 1, env |-> env, trips |-> trips, entry |-> live]

RECURSIVE BlockAt(_)
BlockAt(path) ==
    LET n == Len(path)
    IN  IF n = 1 THEN Funcs[path[1]]
        ELSE BlockAt(SubSeq(path, 1, n - 2)).ops[path[n - 1]].regions[path[n]]

Bind(env, names, values) ==
    [v \in DOMAIN env \cup ToSet(names) |->
        IF v \in ToSet(names) THEN values[FirstIndex(names, v)] ELSE env[v]]

Values(env, names) == [k \in DOMAIN names |-> env[names[k]]]

Init ==
    /\ prog \in DOMAIN Programs
    /\ LET main == Funcs[Len(Funcs)]
       IN  /\ status = IF Ok(Transformed[prog]) THEN "running" ELSE Transformed[prog].error
           /\ live = DOMAIN main.args
           /\ allocated = Len(main.args)
           /\ stack = <<[path |-> <<Len(Funcs)>>, pc |-> 1,
                         env |-> Bind(<<>>, main.args, [k \in DOMAIN main.args |-> k]),
                         trips |-> 0, entry |-> DOMAIN main.args]>>

-----------------------------------------------------------------------------
Top == Head(stack)
Code(frame) == BlockAt(frame.path)
OpAt(frame) == Code(frame).ops[frame.pc]
This == OpAt(Top)
Finished == Top.pc > Len(Code(Top).ops)
\* The operation whose region or callee the innermost block is.
Parent == IF Len(stack) = 1 THEN "main" ELSE OpAt(stack[2]).kind

AtOp(kinds) == status = "running" /\ ~Finished /\ This.kind \in kinds
AtEnd(kinds) == status = "running" /\ Finished /\ Parent \in kinds

\* The frame behind its current operation, whose results are the values.
Stepped(frame, values) ==
    [frame EXCEPT !.env = Bind(@, OpAt(frame).res, values), !.pc = @ + 1]

Continue(values) == stack' = <<Stepped(Top, values)>> \o Tail(stack)
Enter(frame) == stack' = <<frame>> \o stack
\* The block is left, and the operation it belongs to has these results.
Leave(values) == stack' = <<Stepped(stack[2], values)>> \o Tail(Tail(stack))

RegionFrame(parent, r, values, trips) ==
    LET path == parent.path \o <<parent.pc, r>>
    IN  Frame(path, Bind(parent.env, BlockAt(path).args, values), trips)

Yielded == Values(Top.env, Code(Top).yields)

\* The operand is freed, the result is a new buffer.
Allocate ==
    /\ AtOp({"alloc", "realloc", "dealloc"})
    /\ LET new == {allocated + k : k \in DOMAIN This.res}
       IN  /\ live' = (live \ ToSet(Values(Top.env, This.args))) \cup new
           /\ allocated' = allocated + Cardinality(new)
           /\ Continue([k \in DOMAIN This.res |-> allocated + k])
    /\ UNCHANGED <<prog, status>>

\* The operations that neither allocate nor free return one of their
\* operands, if anything: a view or a select its memref, own the indicator.
Compute ==
    /\ AtOp({"own", "view", "select", "use"})
    /\ \/ This.res = <<>> /\ Continue(<<>>)
       \/ This.res # <<>> /\ \E u \in ToSet(This.args) : Continue(<<Top.env[u]>>)
    /\ UNCHANGED <<prog, status, live, allocated>>

MakeNull ==
    /\ AtOp({"null"})
    /\ Continue(<<Null>>)
    /\ UNCHANGED <<prog, status, live, allocated>>

\* Each memref takes the buffer it points into, if an indicator owns it and
\* no earlier memref took it; what is left is freed.
Retain ==
    /\ AtOp({"retain"})
    /\ LET owned == {Top.env[v] : v \in This.owned}
           memrefs == Values(Top.env, This.args)
           kept == [k \in DOMAIN memrefs |->
                      IF memrefs[k] \in owned /\ FirstIndex(memrefs, memrefs[k]) = k
                      THEN memrefs[k] ELSE Null]
       IN  live' = live \ (owned \ ToSet(kept)) /\ Continue(kept)
    /\ UNCHANGED <<prog, status, allocated>>

\* The condition is arbitrary; without an else region the if may do nothing.
EnterIf ==
    /\ AtOp({"if"})
    /\ \/ \E r \in DOMAIN This.regions : Enter(RegionFrame(Top, r, <<>>, 0))
       \/ Len(This.regions) = 1 /\ Continue(<<>>)
    /\ UNCHANGED <<prog, status, live, allocated>>

\* A for or a parallel op may run no iteration at all; a while op starts
\* with its condition.
EnterLoop ==
    /\ AtOp({"for", "while", "parallel"})
    /\ LET values == Values(Top.env, This.args)
       IN  \/ This.kind # "while" /\ Continue(values)
           \/ Enter(RegionFrame(Top, 1, values, IF This.kind = "while" THEN 0 ELSE 1))
    /\ UNCHANGED <<prog, status, live, allocated>>

Call ==
    /\ AtOp({"call"})
    /\ IF Cardinality({k \in DOMAIN stack : Len(stack[k].path) = 1}) =< MaxCalls
       THEN /\ Enter(Frame(<<This.callee>>,
                           Bind(<<>>, Funcs[This.callee].args, Values(Top.env, This.args)), 0))
            /\ UNCHANGED status
       ELSE status' = "cut" /\ UNCHANGED stack
    /\ UNCHANGED <<prog, live, allocated>>

LeaveBlock ==
    /\ AtEnd({"if", "call"})
    /\ Leave(Yielded)
    /\ UNCHANGED <<prog, status, live, allocated>>

\* A for or a parallel op goes on or ends behind its only region; a while op
\* does behind its condition, and goes from its body to its condition.
LeaveIteration ==
    /\ AtEnd({"for", "while", "parallel"})
    /\ LET region == Top.path[Len(Top.path)]
           next == (region % Len(OpAt(stack[2]).regions)) + 1
       IN  \/ region = 1 /\ Leave(Yielded)
           \/ /\ region = 1 => Top.trips < MaxTrips
              /\ stack' = <<RegionFrame(stack[2], next, Yielded,
                                        IF region = 1 THEN Top.trips + 1 ELSE Top.trips)>>
                          \o Tail(stack)
    /\ UNCHANGED <<prog, status, live, allocated>>

Return ==
    /\ AtEnd({"main"})
    /\ status' = "returned"
    /\ UNCHANGED <<prog, stack, live, allocated>>

Stopped == status # "running" /\ UNCHANGED vars

Next == \/ Allocate \/ Compute \/ MakeNull \/ Retain \/ EnterIf \/ EnterLoop \/ Call
        \/ LeaveBlock \/ LeaveIteration \/ Return \/ Stopped

Spec == Init /\ [][Next]_vars

-----------------------------------------------------------------------------
(* The indicators are the second half of what a block or function yields,  *)
(* and of the arguments of a loop's block.                                 *)
SecondHalf(seq) == SubSeq(seq, (Len(seq) \div 2) + 1, Len(seq))

Outgoing == Values(Top.env, SecondHalf(Code(Top).yields))
Incoming == IF Parent \in {"for", "while"}
            THEN ToSet(Values(Top.env, SecondHalf(Code(Top).args))) ELSE {}

\* No two indicators own the same buffer, and what they own is live.
Unique(indicators) ==
    \A i, j \in DOMAIN indicators : indicators[i] # Null =>
        indicators[i] \in live /\ (i # j => indicators[i] # indicators[j])

\* The pass accepts a valid program, and reports the error of an invalid one
\* (tests/Dialect/deallocation/deallocate_invalid.mlir).
Verdict ==
    LET error == Programs[prog].error
    IN  IF error = "none" THEN status \in {"running", "returned", "cut"} ELSE status = error

\* No operation that touches memory is given a memref into a freed buffer,
\* and no function returns one.
NoUseAfterFree ==
    /\ AtOp({"use", "realloc", "dealloc"}) => ToSet(Values(Top.env, This.args)) \subseteq live
    /\ AtEnd({"call", "main"}) => \A k \in 1..Len(Yielded) \div 2 : Yielded[k] \in live

\* The indicators given to a retain own different live buffers, unless they
\* are null: no buffer is freed twice.
FreesOnce == AtOp({"retain"}) => Unique(Values(Top.env, InSomeOrder(This.owned)))

\* At the end of a block every buffer that was allocated in it, and every
\* buffer whose ownership was passed to it, is freed or yielded, once.
BlocksBalance ==
    (status = "running" /\ Finished) =>
        /\ live \cap (Incoming \cup {b \in live : b \notin Top.entry}) \subseteq ToSet(Outgoing)
        /\ Unique(Outgoing)

\* No function frees a buffer that existed when it was called.
CallerKeeps == AtEnd({"call", "main"}) => Top.entry \subseteq live
=============================================================================
