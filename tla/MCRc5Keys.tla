------------------------------ MODULE MCRc5Keys ------------------------------
(* Nine bytes of one bit each: words of 16, 512 keys. *)
EXTENDS Rc5Keys

Key(h, m, l) == [hi |-> h, mid |-> m, lo |-> l]
Packet(k, h, l) == [key |-> k, iterations |-> [hi |-> h, lo |-> l]]

\* Packets that carry into the middle and the high word, one that ends at the
\* end of the key space, a test packet, the dummy packet and a corrupted one.
MCPackets == {Packet(Key(0, 14, 0), 3, 0), Packet(Key(1, 15, 0), 1, 0),
              Packet(Key(0, 15, 11), 0, 8), Packet(Key(0, 0, 0), 2, 0),
              Packet(Key(2, 3, 0), 1, 0)}
MCPartial == {k \in 0 .. SPACE - 1 : k % 7 = 3}
==============================================================================
