----------------------------- MODULE MCProblem -----------------------------
(* Model-checking instances of Problem: one slot with several packets, one *)
(* after the other.  Any number of slots is the subject of ProblemProofs.  *)
EXTENDS Problem, TLC

CONSTANTS s1, rc5, ogr
=============================================================================
