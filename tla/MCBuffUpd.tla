----------------------------- MODULE MCBuffUpd -----------------------------
(* Model-checking instances of BuffUpd: two packets, thresholds of two and   *)
(* three.                                                                    *)
EXTENDS BuffUpd, TLC

CONSTANTS p1, p2, p3

PacketSymmetry == Permutations(Packet)
=============================================================================
