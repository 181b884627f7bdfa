---------------------------- MODULE MCGraphCycles ----------------------------
(* Graphs of up to four nodes and any sequence of calls: small enough to   *)
(* visit every reachable graph with every order of ranks.                  *)
EXTENDS GraphCycles
=============================================================================
