----------------------------- MODULE MCBuffers -----------------------------
(* Model-checking instances of Buffers: buffers on disk, with records in the *)
(* wrong files, and buffers in memory.                                       *)
EXTENDS Buffers, TLC

CONSTANTS p1, p2, rc5, ogr
=============================================================================
