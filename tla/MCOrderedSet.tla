---------------------------- MODULE MCOrderedSet ----------------------------
(* Every order of up to five values. *)
EXTENDS OrderedSet
CONSTANTS v1, v2, v3, v4, v5
MCValue == {v1, v2, v3, v4, v5}
=============================================================================
