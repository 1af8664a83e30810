------------------------------ MODULE WorkSlot ------------------------------
(***************************************************************************)
(* What a problem object promises to the client, whatever its copies and    *)
(* its lock do: a slot holds at most one packet; a packet that is being     *)
(* worked on only moves forward, a finished one does not change any more,   *)
(* and what a cruncher still computes for a packet that was unloaded never  *)
(* appears in the slot again.                                               *)
(***************************************************************************)
EXTENDS Naturals

CONSTANTS Slot, Steps

VARIABLE slot   \* per slot: the packet's load number, its state, its progress

Empty(id) == [id |-> id, state |-> "EMPTY", done |-> 0]

Init == slot = [s \in Slot |-> Empty(0)]

Put(s, v) == slot' = [slot EXCEPT ![s] = v]

\* LoadState(): only into an empty slot, and always under a new number.
Load(s) ==
  /\ slot[s].state = "EMPTY"
  /\ \E d \in 0..(Steps - 1) :
       Put(s, [id |-> slot[s].id + 1, state |-> "WORKING", done |-> d])

\* Run(): some progress, perhaps up to the end of the packet.
Run(s) ==
  /\ slot[s].state = "WORKING"
  /\ \E e \in slot[s].done..Steps, r \in {"WORKING", "NOTHING", "FOUND"} :
       /\ (r = "NOTHING") => (e = Steps)
       /\ (r = "WORKING") => (e < Steps)
       /\ Put(s, [id |-> slot[s].id, state |-> r, done |-> e])

\* RetrieveState(purge)
Unload(s) ==
  /\ slot[s].state # "EMPTY"
  /\ Put(s, Empty(slot[s].id))

Next == \E s \in Slot : Load(s) \/ Run(s) \/ Unload(s)

Spec == Init /\ [][Next]_slot
=============================================================================
