------------------------------ MODULE Simplification ------------------------------
(***************************************************************************)
(* The pass hlo-deallocation-simplification                                *)
(* (src/deallocation/transforms/deallocation_simplification.cc) as         *)
(* operators on the functions that hlo-deallocate leaves.  The nullability *)
(* of an indicator is the set of what it may be: {} (UNDEFINED), {"null"}  *)
(* (ALWAYS_NULL), {"buffer"} (NEVER_NULL) or both (SOMETIMES_NULL).        *)
(***************************************************************************)
EXTENDS Rewrite

\* hlo-deallocate numbers the indicators from FirstFresh on, and nothing else.
IsIndicator(v) == v >= FirstFresh

Sometimes == {"null", "buffer"}

HasFlow(op) == op.kind \in {"if", "for", "while"}   \* RegionBranchOpInterface

\* What a value is: the result of an operation, or an argument of a region
\* of one; that of a function is neither.
DefiningOps(func, v) == {op \in OpsIn(func) : v \in ToSet(op.res)}
ListsOf(func) == {op.res : op \in OpsIn(func)}
                     \cup UNION {{region.args : region \in ToSet(op.regions)} : op \in OpsIn(func)}
IsDefinedBy(func, v, kind) == \E op \in DefiningOps(func, v) : op.kind = kind

\* The lists of values that flow into each other, and what flows into v.
Edges(func) == UNION {ToSet(FlowEdges(op)) : op \in {op \in OpsIn(func) : HasFlow(op)}}
Predecessors(func, v) ==
    UNION {{e[1][k] : k \in {k \in DOMAIN e[2] : e[2][k] = v}} : e \in Edges(func)}

\* Bug variant: the memrefs before v are counted, not the indicators.
OwnedValueByPlace(func, v) ==
    LET vals == CHOOSE list \in ListsOf(func) : v \in ToSet(list)
        num == Len(SelectSeq(SubSeq(vals, 1, FirstIndex(vals, v) - 1), LAMBDA u : ~IsIndicator(u)))
        memrefs == SelectSeq(vals, LAMBDA u : ~IsIndicator(u))
    IN  memrefs[num]

\* getOwnedValue: the memref with as many memrefs before it as v has
\* indicators before it, in the list of results or arguments that v is in.
OwnedValue(func, v) ==
    LET vals == CHOOSE list \in ListsOf(func) : v \in ToSet(list)
        num == Len(SelectSeq(SubSeq(vals, 1, FirstIndex(vals, v) - 1), IsIndicator))
        memrefs == SelectSeq(vals, LAMBDA u : ~IsIndicator(u))
    IN  IF num < Len(memrefs) THEN memrefs[num + 1] ELSE NoValue

-----------------------------------------------------------------------------
(* getAllocNullabilityImpl.                                                *)
RECURSIVE Nullability(_, _, _)

\* The values are joined to acc.is, but those that are being considered; once
\* everything is possible, no more of them is looked at.
JoinAll(func, acc, values) ==
    FoldSet(LAMBDA v, a :
                IF v \in a.pending \/ a.is = Sometimes THEN a
                ELSE LET r == Nullability(func, v, a.pending \cup {v})
                     IN  [is |-> a.is \cup r.is, pending |-> r.pending],
            acc, values)

\* Bug variant: a retain is null only if one of its owned values is.
RetainNullabilityOfOwned(func, retain, pending) ==
    JoinAll(func, [is |-> {}, pending |-> pending], retain.owned)

\* A retain may always be null: its memref need not be what is owned.
RetainNullability(func, retain, pending) ==
    JoinAll(func, [is |-> {"null"}, pending |-> pending], retain.owned)

Nullability(func, v, pending) ==
    CASE IsDefinedBy(func, v, "own") -> [is |-> {"buffer"}, pending |-> pending]
      [] IsDefinedBy(func, v, "null") -> [is |-> {"null"}, pending |-> pending]
      [] IsDefinedBy(func, v, "retain") ->
            RetainNullability(func, CHOOSE op \in DefiningOps(func, v) : TRUE, pending)
      [] Predecessors(func, v) # {} ->
            JoinAll(func, [is |-> {}, pending |-> pending], Predecessors(func, v))
      [] OTHER -> [is |-> Sometimes, pending |-> pending]

NullabilityOf(func, v) == Nullability(func, v, {}).is
AllocIsNull(func, v) == NullabilityOf(func, v) = {"null"}

\* The memref that an indicator that is never null owns.
NonNullValue(func, v) ==
    IF IsDefinedBy(func, v, "own")
    THEN (CHOOSE op \in DefiningOps(func, v) : TRUE).args[1]
    ELSE OwnedValue(func, v)

-----------------------------------------------------------------------------
(* valueIsUnused: v is only passed around; "seen" are the pending checks.  *)
RECURSIVE Passed(_, _, _)

\* Every use is an operand of an operation with flow or of the terminator of
\* one of its regions.
OnlyFlows(func, v) ==
    /\ \A op \in OpsIn(func) : v \in Operands(op) => HasFlow(op)
    /\ \A op \in OpsIn(func) : \A region \in ToSet(op.regions) :
            v \in ToSet(region.yields) => HasFlow(op)
    /\ v \notin ToSet(func.yields)

\* The values that v is passed to, and so on, or NoValue where one is used.
Passed(func, v, seen) ==
    IF v \in seen \/ NoValue \in seen THEN seen
    ELSE IF ~OnlyFlows(func, v) THEN seen \cup {NoValue}
    ELSE FoldSet(LAMBDA u, s : Passed(func, u, s), seen \cup {v},
                 UNION {{e[2][k] : k \in {k \in DOMAIN e[1] : e[1][k] = v}} : e \in Edges(func)})

ValueIsUnused(func, v) == NoValue \notin Passed(func, v, {})

-----------------------------------------------------------------------------
(* The two walks.                                                          *)
RECURSIVE RetainsFrom(_, _), OwnsFrom(_, _)

\* The results of the retain at the path are null.
RetainIsNull(func, path, retain) ==
    FoldLeft(LAMBDA f, v : Renamed(f, v, retain.res[1]),
             Splice(func, path, <<[retain EXCEPT !.kind = "null", !.args = <<>>, !.owned = {},
                                                 !.res = SubSeq(@, 1, 1)]>>),
             retain.res)

\* A retain that keeps nothing and owns one buffer, known and never null.
IsDealloc(func, retain) ==
    /\ retain.args = <<>> /\ Cardinality(retain.owned) = 1
    /\ \A v \in retain.owned : /\ NullabilityOf(func, v) = {"buffer"}
                               /\ NonNullValue(func, v) # NoValue

RetainIsDealloc(func, path, retain) ==
    Splice(func, path, <<Op("dealloc", <<NonNullValue(func, CHOOSE v \in retain.owned : TRUE)>>,
                            <<>>, <<>>, 0)>>)

SimplifiedRetain(func, path) ==
    LET retain == OpAt(func, path)
    IN  IF \A v \in retain.owned : AllocIsNull(func, v) THEN RetainIsNull(func, path, retain)
        ELSE IF IsDealloc(func, retain) THEN RetainIsDealloc(func, path, retain)
        ELSE func

\* The walk over the retains from the i-th remaining one on.
RetainsFrom(func, i) ==
    LET paths == PathsOf(func, "retain")
    IN  IF i > Len(paths) THEN func
        ELSE LET next == SimplifiedRetain(func, paths[i])
             IN  RetainsFrom(next, IF next = func THEN i + 1 ELSE i)

\* An own without uses is erased; one whose result is only passed around
\* becomes null.
SimplifiedOwn(func, path) ==
    LET own == OpAt(func, path)
    IN  IF UsesOf(func, own.res[1]) = 0 THEN Splice(func, path, <<>>)
        ELSE IF ValueIsUnused(func, own.res[1]) THEN Splice(func, path, <<NullOp(own.res[1])>>)
        ELSE func

OwnsFrom(func, i) ==
    LET paths == PathsOf(func, "own")
    IN  IF i > Len(paths) THEN func
        ELSE LET next == SimplifiedOwn(func, paths[i])
             IN  OwnsFrom(next, IF next = func THEN i + 1 ELSE i)

Simplify(func) == OwnsFrom(RetainsFrom(func, 1), 1)
=============================================================================
