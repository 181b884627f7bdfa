-------------------------------- MODULE Interpreter --------------------------------
(***************************************************************************)
(* How the interpreter runs a function (src/tools/mlir_interpreter):       *)
(* interpret of regions and operations (framework/interpreter.cc), scopes  *)
(* with their side channels (framework/interpreter.h), the handlers that   *)
(* interpret regions (dialects/scf.cc, linalg.cc, vector.cc, func.cc), and *)
(* the statistics of alloc and dealloc (dialects/memref.cc), which count a *)
(* buffer as one byte here.  Values are left out; what depends on them is  *)
(* an arbitrary choice.  A run is one with statistics; the operations of   *)
(* the deallocation dialect are in RetainInterp.                           *)
(*                                                                         *)
(* A region is the sequence of its operations, the last one its            *)
(* terminator; an operation has a kind, regions, and, if it is a call, the *)
(* number of a function.                                                   *)
(***************************************************************************)
EXTENDS Integers, SequencesExt

CONSTANTS Programs,   \* sequences of functions (regions); the first one is run
          Regions,    \* for each program, all its regions, however deep
          MaxTrips,   \* the most iterations of a loop that counts
          MaxSteps,   \* the most that InterpreterOptions::maxSteps is set to
          MaxArguments \* the most buffers that runInterpreter is given as arguments

Loops == {"for", "forall", "parallel", "generic"}
WithRegions == Loops \cup {"if", "while", "call", "mask", "inParallel", "reduce"}
Kinds == WithRegions \cup
         {"plain", "index", "transfer", "alloc", "global", "dealloc", "unknown", "end"}

\* An operation of a program whose regions are rs.
Operations(rs) == [kind : Kinds, regions : Seq(rs), callee : Nat]

\* The type of the channel that an operation asks for, and who provides it.
Asks == [reduce |-> "reductions", index |-> "indices", transfer |-> "mask"]
Provider == [reductions |-> "parallel", indices |-> "generic", mask |-> "mask"]

(* What the verifiers of the dialects make sure of: callees exist, regions *)
(* are where a handler expects them, scf.reduce and linalg.index are       *)
(* directly in the operation that they belong to, and a vector.mask has    *)
(* a single operation without regions, and its terminator.                 *)
Verified(p) ==
    /\ p # <<>> /\ p \in Seq(Regions[p])
    /\ \A f \in ToSet(p) : \A j \in DOMAIN f : f[j].kind \notin {"reduce", "index"}
    /\ \A r \in Regions[p] :
         /\ r \in Seq(Operations(Regions[p]))
         /\ \A i \in DOMAIN r :
              /\ IF r[i].kind = "call" THEN r[i].callee \in DOMAIN p
                 ELSE r[i].kind \in WithRegions => r[i].regions # <<>>
              /\ r[i].kind = "while" => Len(r[i].regions) = 2
              /\ \A s \in ToSet(r[i].regions) : \A j \in DOMAIN s :
                   /\ s[j].kind \in {"reduce", "index"} => r[i].kind = Provider[Asks[s[j].kind]]
                   /\ r[i].kind = "mask" => s[j].kind \notin WithRegions

ASSUME InterpreterAssumption ==
    /\ MaxTrips \in Nat /\ MaxSteps \in Nat /\ MaxArguments \in Nat
    /\ \A p \in Programs : Verified(p)

VARIABLES prog,       \* the program
          stack,      \* the regions that are being interpreted, the innermost last
          failed,     \* InterpreterState::failed
          remaining,  \* remainingSteps
          disableDeallocations,   \* InterpreterOptions::disableDeallocations
          live,       \* the number of buffers that are allocated and were counted
          uncounted,  \* the number of those that are allocated and were never counted
          given,      \* history: how many there have been that were never counted
          heapSize,   \* the size of the heap according to the statistics
          entered,    \* the regions the listener has seen entered and not left
          status      \* whether runInterpreter has returned

buffers == <<live, uncounted, given, heapSize>>
vars == <<prog, stack, failed, remaining, disableDeallocations, buffers, entered, status>>

\* An activation of a region is a scope.  channels are the side channels in
\* it; own those in the scope that the running handler has opened within;
\* todo are the regions that this handler will interpret.
Frame(region) ==
    [ops |-> region, at |-> 1, running |-> FALSE, todo |-> <<>>, channels |-> <<>>, own |-> <<>>]

Top == Last(stack)
Op == Top.ops[Top.at]
WithTop(frame) == Front(stack) \o <<frame>>

AtStart(kinds) == /\ status = "running" /\ ~failed
                  /\ ~Top.running /\ Top.at <= Len(Top.ops) /\ Op.kind \in kinds

-----------------------------------------------------------------------------
(* Side channels.                                                          *)
Channel(type, depth) == [type |-> type, depth |-> depth, at |-> stack[depth].at]
None == [type |-> "none"]

\* The channels of a frame in the order in which they are looked at.
ChannelsOf(frame) == frame.own \o frame.channels
Offers(frame, type) == {i \in DOMAIN ChannelsOf(frame) : ChannelsOf(frame)[i].type = type}

\* Bug variant: the outermost channel is found.
OutermostSideChannel(type) ==
    LET offering == {k \in DOMAIN stack : Offers(stack[k], type) # {}}
        frame == stack[Min(offering)]
    IN  IF offering = {} THEN None ELSE ChannelsOf(frame)[Min(Offers(frame, type))]

\* getSideChannel: the first one of this type in the innermost scope that has one.
GetSideChannel(type) ==
    LET offering == {k \in DOMAIN stack : Offers(stack[k], type) # {}}
        frame == stack[Max(offering)]
    IN  IF offering = {} THEN None ELSE ChannelsOf(frame)[Min(Offers(frame, type))]

\* A parallel loop puts its channel into the scope it is in, where it stays;
\* linalg.generic, linalg.map and vector.mask open a scope for theirs.
OuterChannels == IF Op.kind = "parallel" THEN <<Channel("reductions", Len(stack))>> ELSE <<>>
OwnChannels == IF Op.kind = "generic" THEN <<Channel("indices", Len(stack))>>
               ELSE IF Op.kind = "mask" THEN <<Channel("mask", Len(stack))>> ELSE <<>>

-----------------------------------------------------------------------------
(* Operations.                                                             *)
\* Bug variant: the terminator of a region is not counted as a step.
StepButForTerminators(fails) ==
    /\ failed' = (fails \/ remaining = 0)
    /\ remaining' = IF remaining = 0 \/ Op.kind = "end" THEN remaining ELSE remaining - 1

\* The end of an operation: InterpreterState::step.
StepCounted(fails) ==
    /\ failed' = (fails \/ remaining = 0)
    /\ remaining' = IF remaining = 0 THEN 0 ELSE remaining - 1

EndOperation(fails) ==
    /\ StepCounted(fails)
    /\ stack' = WithTop([Top EXCEPT !.at = @ + 1, !.running = FALSE, !.own = <<>>])
    /\ UNCHANGED <<prog, disableDeallocations, entered, status>>

\* An operation without regions; a terminator never fails.
Execute ==
    /\ AtStart({"plain", "index", "transfer", "end"})
    /\ \E fails \in IF Op.kind = "end" THEN {FALSE} ELSE BOOLEAN : EndOperation(fails)
    /\ UNCHANGED buffers

\* An operation that nobody has registered fails before it is a step.
Unsupported ==
    /\ AtStart({"unknown"})
    /\ failed' = TRUE
    /\ UNCHANGED <<prog, stack, remaining, disableDeallocations, buffers, entered, status>>

\* memref.alloc; bufferization.clone counts what it allocates in the same way.
Alloc ==
    /\ AtStart({"alloc"})
    /\ live' = live + 1
    /\ heapSize' = heapSize + 1
    /\ EndOperation(FALSE)
    /\ UNCHANGED <<uncounted, given>>

\* memref.get_global makes a buffer that the statistics are not told of, like a
\* constant, or bufferization.alloc_tensor and to_memref.
GetGlobal ==
    /\ AtStart({"global"})
    /\ uncounted' = uncounted + 1
    /\ given' = given + 1
    /\ EndOperation(FALSE)
    /\ UNCHANGED <<live, heapSize>>

\* Buffer::deallocate of a buffer that is allocated, wherever it comes from.
Deallocate ==
    \/ live > 0 /\ live' = live - 1 /\ UNCHANGED uncounted
    \/ uncounted > 0 /\ uncounted' = uncounted - 1 /\ UNCHANGED live

\* Bug variant: what is freed is not subtracted.
DeallocUncounted ==
    /\ AtStart({"dealloc"})
    /\ \/ UNCHANGED <<live, uncounted>> /\ EndOperation(TRUE)
       \/ disableDeallocations /\ UNCHANGED <<live, uncounted>> /\ EndOperation(FALSE)
       \/ ~disableDeallocations /\ Deallocate /\ EndOperation(FALSE)
    /\ UNCHANGED <<given, heapSize>>

\* memref.dealloc: of null; of a part of a buffer; with disableDeallocations, of
\* any buffer, also a second time; without, of a stack buffer or a freed one, or
\* of one that is allocated.  Whatever the buffer, its size is subtracted first.
Dealloc ==
    /\ AtStart({"dealloc"})
    /\ \/ UNCHANGED <<live, uncounted, heapSize>> /\ EndOperation(TRUE)
       \/ /\ heapSize' = heapSize - 1
          /\ \/ UNCHANGED <<live, uncounted>> /\ EndOperation(TRUE)
             \/ disableDeallocations /\ UNCHANGED <<live, uncounted>> /\ EndOperation(FALSE)
             \/ ~disableDeallocations /\ Deallocate /\ EndOperation(FALSE)
    /\ UNCHANGED given

-----------------------------------------------------------------------------
(* Operations with regions.                                                *)

\* What the handler will interpret, for all values that it may be given.
Plans ==
    CASE Op.kind \in Loops -> {[k \in 1..n |-> Op.regions[1]] : n \in 0..MaxTrips}
      [] Op.kind = "if" -> {<<Op.regions[1]>>, Tail(Op.regions)}
      [] Op.kind = "call" -> {<<prog[Op.callee]>>}
      [] OTHER -> {<<Op.regions[1]>>}

Begin ==
    /\ AtStart(WithRegions)
    /\ \E plan \in Plans :
        stack' = WithTop([Top EXCEPT !.running = TRUE, !.todo = plan,
                                     !.channels = @ \o OuterChannels, !.own = OwnChannels])
    /\ UNCHANGED <<prog, failed, remaining, disableDeallocations, buffers, entered, status>>

\* scf.while: its condition holds, and both regions are run again.
Repeat ==
    /\ status = "running" /\ ~failed
    /\ Top.running /\ Op.kind = "while" /\ Top.todo = <<>>
    /\ stack' = WithTop([Top EXCEPT !.todo = <<Op.regions[2], Op.regions[1]>>])
    /\ UNCHANGED <<prog, failed, remaining, disableDeallocations, buffers, entered, status>>

\* The handler is done, or gives up behind a failure.
End ==
    /\ status = "running"
    /\ Top.running /\ Top.todo = <<>>
    /\ EndOperation(failed)
    /\ UNCHANGED buffers

\* interpret of a region; after a failure it returns at once.
Enter ==
    /\ status = "running" /\ Top.running /\ Top.todo # <<>>
    /\ IF failed
          THEN /\ stack' = WithTop([Top EXCEPT !.todo = Tail(@)])
               /\ UNCHANGED entered
          ELSE /\ stack' = WithTop([Top EXCEPT !.todo = Tail(@)]) \o <<Frame(Head(Top.todo))>>
               /\ entered' = entered + 1
    /\ UNCHANGED <<prog, failed, remaining, disableDeallocations, buffers, status>>

\* interpret of a region returns; the listener hears of it unless it fails.
Leave ==
    /\ status = "running" /\ ~Top.running
    /\ failed \/ Top.at > Len(Top.ops)
    /\ entered' = IF failed THEN entered ELSE entered - 1
    /\ IF Len(stack) > 1 THEN stack' = Front(stack) /\ UNCHANGED status
                         ELSE UNCHANGED stack /\ status' = "returned"
    /\ UNCHANGED <<prog, failed, remaining, disableDeallocations, buffers>>

Returned == status = "returned" /\ UNCHANGED vars

-----------------------------------------------------------------------------
Init ==
    /\ prog \in Programs
    /\ stack = <<Frame(prog[1])>>
    /\ failed = FALSE
    /\ remaining \in 0..MaxSteps
    /\ disableDeallocations \in BOOLEAN
    /\ live = 0 /\ heapSize = 0
    /\ uncounted \in 0..MaxArguments /\ given = uncounted
    /\ entered = 1
    /\ status = "running"

Run == \/ Execute \/ Unsupported \/ Alloc \/ GetGlobal \/ Dealloc
       \/ Begin \/ Repeat \/ End \/ Enter \/ Leave

Next == Run \/ Returned

Spec == Init /\ [][Next]_vars /\ WF_vars(Run)
-----------------------------------------------------------------------------
\* "The behavior of registering two side channels of the same type in the same
\* scope is undefined" (interpreter.h:164-165): programs where two parallel loops
\* do not share a scope, nor a reduction that of a loop before it.
OneChannelPerScope ==
    \A p \in Programs : \A r \in Regions[p] : \A i, j \in DOMAIN r :
        i < j /\ r[i].kind = "parallel" => r[j].kind \notin {"parallel", "reduce"}

\* "Make the results available to reduce ops" (scf.cc:159): whatever loops and
\* calls are being interpreted around it, an operation that asks for a side channel
\* finds the one of the operation it is directly nested in, and none if that does
\* not provide one.  The programs must satisfy OneChannelPerScope.
OwnChannel ==
    AtStart(DOMAIN Asks) =>
        LET outer == Len(stack) - 1
            type == Asks[Op.kind]
            isProvided == outer > 0 /\ stack[outer].ops[stack[outer].at].kind = Provider[type]
        IN  GetSideChannel(type) = IF isProvided THEN Channel(type, outer) ELSE None

\* dealloc subtracts from the statistics before it looks at what it is given
\* (memref.cc:93-102), and whether or not an alloc has counted it.  So heapSize is
\* never more than the counted buffers that are left, also behind a failure or with
\* deallocations disabled.  Without these it misses no more than the buffers that
\* were freed and never counted: it is exact if the run frees only what it has
\* allocated.  Until something fails, the listener has seen exactly the regions that
\* are being interpreted.
Accounted ==
    /\ heapSize =< live
    /\ ~failed /\ ~disableDeallocations => live - heapSize = given - uncounted
    /\ ~failed => entered = IF status = "running" THEN Len(stack) ELSE 0

\* With a limit on the steps every run ends, also of a loop whose condition never
\* fails, or of a function that calls itself after another operation.  A step is
\* counted when its operation ends: no limit stops a function that does nothing
\* before it calls itself, and the programs of the run have none.
RunEnds == <>(status = "returned")
=============================================================================
