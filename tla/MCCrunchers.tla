---------------------------- MODULE MCCrunchers ----------------------------
(* Model-checking instances of Crunchers: two or three crunchers. *)
EXTENDS Crunchers, TLC
=============================================================================
