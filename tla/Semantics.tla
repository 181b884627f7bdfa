-------------------------------- MODULE Semantics --------------------------------
(***************************************************************************)
(* What a program computes: an evaluator for programs before and after the *)
(* passes of src/deallocation.  Conditions, trip counts and selections are *)
(* taken from a script of booleans, FALSE (leave the loop, the else        *)
(* region) where it ends.  A buffer holds Garbage or the number of the     *)
(* last write to it; buffers are never reused.                             *)
(***************************************************************************)
EXTENDS Deallocate

Null == 0
Garbage == 0

\* A run: the values, what each buffer holds, the allocated buffers, what
\* was read, the rest of the script, the number of writes, and the faults.
Machine(args, script) ==
    [env |-> [v \in ToSet(args) |-> FirstIndex(args, v)],
     content |-> [k \in DOMAIN args |-> -k] \o <<>>, live |-> DOMAIN args, stack |-> {},
     reads |-> <<>>, script |-> script, writes |-> 0, faults |-> {}]

Bind(env, names, values) == [v \in ToSet(names) |-> values[FirstIndex(names, v)]] @@ env
Values(env, names) == [k \in DOMAIN names |-> env[names[k]]] \o <<>>

Fault(m, what) == [m EXCEPT !.faults = @ \cup {what}]
Choice(m) == m.script # <<>> /\ Head(m.script)
Chosen(m) == [m EXCEPT !.script = IF @ = <<>> THEN @ ELSE Tail(@)]

Return(m, op, values) == [m EXCEPT !.env = Bind(@, op.res, values)]

\* The buffers are touched.
Touch(m, buffers) ==
    IF buffers \subseteq m.live \cup m.stack THEN m ELSE Fault(m, "use after free")

NewBuffer(m, op) ==
    Return([m EXCEPT !.content = Append(@, Garbage),
                     !.live = IF op.kind = "alloca" THEN @ ELSE @ \cup {Len(m.content) + 1},
                     !.stack = IF op.kind = "alloca" THEN @ \cup {Len(m.content) + 1} ELSE @],
           op, <<Len(m.content) + 1>>)

FreeBuffer(m, b) ==
    IF b \in m.live THEN [m EXCEPT !.live = @ \ {b}] ELSE Fault(m, "bad free")

Write(m, b) == [m EXCEPT !.content[b] = m.writes + 1, !.writes = @ + 1]
Copy(m, source, target) == [m EXCEPT !.content[target] = m.content[source]]

\* The memrefs keep the owned buffers they point into; the others are freed.
RetainBuffers(m, op) ==
    LET memrefs == Values(m.env, op.args)
        owned == {m.env[v] : v \in op.owned}
        kept == [k \in DOMAIN memrefs |->
                    IF memrefs[k] \in owned /\ FirstIndex(memrefs, memrefs[k]) = k
                    THEN memrefs[k] ELSE Null]
    IN  Return(FoldSet(LAMBDA b, n : FreeBuffer(n, b), m, (owned \ ToSet(kept)) \ {Null}), op, kept)

RunSimple(m, op) ==
    LET used == Values(m.env, op.args)
    IN  CASE op.kind \in {"alloc", "alloca"} -> NewBuffer(m, op)
          [] op.kind = "dealloc" -> FreeBuffer(m, used[1])
          [] op.kind = "realloc" ->
                LET new == NewBuffer(Touch(m, ToSet(used)), op)
                IN  FreeBuffer(Copy(new, used[1], Len(new.content)), used[1])
          [] op.kind = "write" -> Write(Touch(m, ToSet(used)), used[1])
          [] op.kind = "read" ->
                [Touch(m, ToSet(used)) EXCEPT !.reads = Append(@, m.content[used[1]])]
          [] op.kind = "copy" -> Copy(Touch(m, ToSet(used)), used[1], used[2])
          [] op.kind \in {"view", "own"} -> Return(m, op, used)
          [] op.kind = "select" -> Return(Chosen(m), op, <<IF Choice(m) THEN used[1] ELSE used[2]>>)
          [] op.kind = "null" -> Return(m, op, [k \in DOMAIN op.res |-> Null])
          [] op.kind = "retain" -> RetainBuffers(m, op)

RECURSIVE RunOps(_, _, _, _), RunLoop(_, _, _, _)

RunBlock(m, block, funcs) == RunOps(m, block.ops, 1, funcs)
Yielded(m, block) == Values(m.env, block.yields)
Enter(m, block, values, funcs) == RunBlock([m EXCEPT !.env = Bind(@, block.args, values)], block, funcs)

\* One more iteration of a loop, or its end with these values.
RunLoop(m, op, values, funcs) ==
    IF op.kind = "while"
    THEN LET before == Enter(m, op.regions[1], values, funcs)
             passed == Yielded(before, op.regions[1])
         IN  IF ~Choice(before) THEN Return(Chosen(before), op, passed)
             ELSE LET after == Enter(Chosen(before), op.regions[2], passed, funcs)
                  IN  RunLoop(after, op, Yielded(after, op.regions[2]), funcs)
    ELSE IF ~Choice(m) THEN Return(Chosen(m), op, values)
    ELSE LET body == Enter(Chosen(m), op.regions[1], values, funcs)
         IN  RunLoop(body, op, Yielded(body, op.regions[1]), funcs)

RunIf(m, op, funcs) ==
    LET r == IF Choice(m) THEN 1 ELSE 2
    IN  IF r > Len(op.regions) THEN Chosen(m)
        ELSE LET branch == Enter(Chosen(m), op.regions[r], <<>>, funcs)
             IN  Return(branch, op, Yielded(branch, op.regions[r]))

\* The values of the caller are kept.
RunCall(m, op, funcs) ==
    LET callee == funcs[op.callee]
        done == RunBlock([m EXCEPT !.env = Bind(<<>>, callee.args, Values(@, op.args))], callee, funcs)
    IN  [done EXCEPT !.env = Bind(m.env, op.res, Yielded(done, callee))]

RunOp(m, op, funcs) ==
    CASE op.kind = "if" -> RunIf(m, op, funcs)
      [] op.kind \in {"for", "while", "parallel"} -> RunLoop(m, op, Values(m.env, op.args), funcs)
      [] op.kind = "call" -> RunCall(m, op, funcs)
      [] OTHER -> RunSimple(m, op)

\* The operations from the k-th on, one after the other.
RunOps(m, ops, k, funcs) ==
    IF k > Len(ops) THEN m ELSE RunOps(RunOp(m, ops[k], funcs), ops, k + 1, funcs)

-----------------------------------------------------------------------------
(* A run of the last function, whose arguments are buffers of the caller;  *)
(* the first `results` values it returns are memrefs, the others own.      *)
Run(funcs, script, results) ==
    LET main == funcs[Len(funcs)]
        done == RunBlock(Machine(main.args, script), main, funcs)
        returned == Yielded(done, main)
        memrefs == ToSet(SubSeq(returned, 1, results))
        owned == ToSet(SubSeq(returned, results + 1, Len(returned))) \ {Null}
        args == DOMAIN main.args
    IN  [reads |-> done.reads \o [k \in 1..results |-> done.content[returned[k]]]
                      \o [k \in args |-> done.content[k]],
         faults |-> done.faults
            \cup (IF memrefs \cup args \cup owned \subseteq done.live THEN {} ELSE {"dangling result"})
            \cup (IF done.live \subseteq args \cup owned THEN {} ELSE {"leak"})]

\* What was read is what is read there in the reference, unless that was Garbage.
ReadsAs(reads, reference) ==
    /\ Len(reads) = Len(reference)
    /\ \A k \in DOMAIN reference : reference[k] \in {Garbage, reads[k]}
=============================================================================
