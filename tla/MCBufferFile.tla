---------------------------- MODULE MCBufferFile ----------------------------
(* Model-checking instances of BufferFile: one client that may die, two      *)
(* clients with one file, a file system that runs full.                      *)
EXTENDS BufferFile, TLC

CONSTANTS c1, c2, r1, r2, r3

RecordSymmetry == Permutations(WorkRecord)
=============================================================================
