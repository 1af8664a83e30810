---------------------------- MODULE MCClientRun ----------------------------
(* Model-checking instances of ClientRun: two and three crunchers, a few     *)
(* packets, runs with and without a limit.                                   *)
EXTENDS ClientRun, TLC

CONSTANTS p1, p2, p3

PacketSymmetry == Permutations(Packet)

\* Values of -n: until the buffers are empty, unlimited, 1 and 2 packets.
AnyLimit    == {-1, 0, 1, 2}
=============================================================================
