----------------------------- MODULE RecordBag -----------------------------
(***************************************************************************)
(* What a buffer promises: a record that is put stays in it until it is     *)
(* handed out, once; what a client holds in memory is gone when it dies.    *)
(***************************************************************************)
EXTENDS FiniteSets

CONSTANTS Record, Client

VARIABLES stored,   \* the records in the buffer
          held      \* the records each client has in memory

Init == stored = {} /\ held \in [Client -> SUBSET Record]

Put(c, r) ==
  /\ r \in held[c]
  /\ stored' = stored \union {r}
  /\ held' = [held EXCEPT ![c] = @ \ {r}]

Get(c, r) ==
  /\ r \in stored
  /\ stored' = stored \ {r}
  /\ held' = [held EXCEPT ![c] = @ \union {r}]

Die(c) == held' = [held EXCEPT ![c] = {}] /\ UNCHANGED stored

Next ==
  \E c \in Client : Die(c) \/ \E r \in Record : Put(c, r) \/ Get(c, r)

Spec == Init /\ [][Next]_<<stored, held>>
=============================================================================
