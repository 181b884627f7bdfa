--------------------------------- MODULE Rewrite ---------------------------------
(***************************************************************************)
(* How passes look at programs and change them: the operations, the uses   *)
(* and definitions of a value, and the edits of MLIR (replaceAllUsesWith,  *)
(* erase, moveBefore).  An operation is found by its path: its index in    *)
(* the block of a function, or the path of the operation it is nested in,  *)
(* the number of the region and its index there.                           *)
(***************************************************************************)
EXTENDS Deallocate

RECURSIVE PathsOf(_, _), OpAt(_, _), Splice(_, _, _), OpsIn(_), Renamed(_, _, _), UsesOf(_, _)

Indices(n) == Fresh(1, n)
\* The sequence itself; TLC computes its elements here, once.
Computed(seq) == seq \o <<>>
Concat(F(_), n) == FoldLeft(LAMBDA acc, k : acc \o F(k), <<>>, Indices(n))

\* walk: the paths of the operations of a kind, those of the regions of an
\* operation before the operation itself.
PathsOf(block, kind) ==
    Concat(LAMBDA k :
        Concat(LAMBDA r : LET inner == PathsOf(block.ops[k].regions[r], kind)
                          IN  [n \in DOMAIN inner |-> <<k, r>> \o inner[n]],
               Len(block.ops[k].regions))
        \o (IF block.ops[k].kind = kind THEN <<<<k>>>> ELSE <<>>),
        Len(block.ops))

\* The block that holds the operation at a path.
BlockOf(block, path) ==
    IF Len(path) = 1 THEN block
    ELSE LET parent == OpAt(block, SubSeq(path, 1, Len(path) - 2))
         IN  parent.regions[path[Len(path) - 1]]

OpAt(block, path) == BlockOf(block, path).ops[path[Len(path)]]

\* The sequence with these elements in place of the k-th.
Replaced(seq, k, new) == SubSeq(seq, 1, k - 1) \o new \o SubSeq(seq, k + 1, Len(seq))

\* The operation at the path is replaced by the operations ops.
Splice(block, path, ops) ==
    IF Len(path) = 1
    THEN [block EXCEPT !.ops = Replaced(@, path[1], ops)]
    ELSE [block EXCEPT !.ops[path[1]].regions[path[2]] = Splice(@, SubSeq(path, 3, Len(path)), ops)]

Without(ops, S) == LET kept == SelectSeq(Indices(Len(ops)), LAMBDA k : k \notin S)
                   IN  Computed([n \in DOMAIN kept |-> ops[kept[n]]])

\* The operations of a block and those nested in them.
OpsIn(block) ==
    ToSet(block.ops) \cup
        UNION {UNION {OpsIn(region) : region \in ToSet(op.regions)} : op \in ToSet(block.ops)}

Operands(op) == ToSet(op.args) \cup op.owned

\* replaceAllUsesWith in a block: every operand u becomes v.
Renamed(block, u, v) ==
    [block EXCEPT
        !.yields = Computed(ReplaceAll(@, u, v)),
        !.ops = Computed([k \in DOMAIN @ |->
            [@[k] EXCEPT !.args = Computed(ReplaceAll(@, u, v)),
                         !.owned = IF u \in @ THEN (@ \ {u}) \cup {v} ELSE @,
                         !.regions = Computed([r \in DOMAIN @ |-> Renamed(@[r], u, v)])]])]

\* The number of times a value is used in a block.
Occurrences(seq, v) == Cardinality({k \in DOMAIN seq : seq[k] = v})
UsesOf(block, v) ==
    Occurrences(block.yields, v)
    + FoldLeft(LAMBDA n, op : n + Occurrences(op.args, v) + (IF v \in op.owned THEN 1 ELSE 0)
                  + FoldLeft(LAMBDA m, region : m + UsesOf(region, v), 0, op.regions),
               0, block.ops)
=============================================================================
