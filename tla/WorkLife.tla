------------------------------ MODULE WorkLife ------------------------------
(***************************************************************************)
(* The life of a work packet in a client: it arrives, is kept in the buffer *)
(* for work, is worked on, is kept in the buffer for results and is sent    *)
(* away.  It may come to nothing while it is in the client's hands, but a   *)
(* result that was saved is not worked on again, nor is one that was sent.  *)
(***************************************************************************)
CONSTANT Packet

VARIABLE life   \* per packet: "new", "in", "held", "out", "sent" or "gone"

Init == life \in [Packet -> {"new", "in", "out"}]

\* Where a packet may go from each place.
Goes == [new  |-> {"in", "held"}, in |-> {"held"}, held |-> {"in", "out", "gone"},
         out  |-> {"sent"}, sent |-> {}, gone |-> {}]

\* Several packets may move in one step (an update, a crash).
Next ==
  /\ life' \in [Packet -> DOMAIN Goes]
  /\ \A p \in Packet : life'[p] # life[p] => life'[p] \in Goes[life[p]]

Spec == Init /\ [][Next]_life
=============================================================================
