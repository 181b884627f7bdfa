----------------------------- MODULE UseInterval -----------------------------
(***************************************************************************)
(* struct UseInterval (src/analysis/userange_analysis.h:28-91).            *)
(*                                                                         *)
(* A position is a doubled id: 2k or 2k + 1 for the k-th operation, even   *)
(* if the operation only reads the value.  So two intervals with a single  *)
(* position between them are contiguous.                                   *)
(***************************************************************************)
LOCAL INSTANCE Integers
LOCAL INSTANCE FiniteSetsExt

Interval(s, e) == [start |-> s, end |-> e]
Positions(s) == UNION {s[k].start..s[k].end : k \in DOMAIN s}

\* Bug variant: intervals that touch count as apart.
BeforeTouching(u, v) == u.end <= v.start

\* operator<, operator> and isContiguous
Before(u, v) == u.end < v.start
After(u, v) == u.start > v.end
Contiguous(u, v) == u.start <= v.end + 2 /\ u.end + 2 >= v.start

\* mergeWith
Merged(u, v) ==
    IF Contiguous(u, v) THEN Interval(Min({u.start, v.start}), Max({u.end, v.end})) ELSE u
=============================================================================
