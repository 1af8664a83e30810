--------------------------- MODULE BuffUpdProofs ---------------------------
(* The safety properties of BuffUpd, for any set of packets, any thresholds   *)
(* and any operations that may fail: an update neither doubles nor drops a    *)
(* packet, its report is true, and its delay consistent.                      *)
EXTENDS BuffUpd, FiniteSetTheorems, TLAPS

----------------------------------------------------------------------------
(* Packets *)

Holding == pc \in {"fetchput", "flushput"}

\* Every packet is somewhere.
Covered == Packet = in \cup out \cup rin \cup rout \cup net \cup lost
                      \cup (IF Holding THEN {hand} ELSE {})

\* No packet is in two places.
Apart ==
  /\ in \cap out = {} /\ in \cap rin = {} /\ in \cap rout = {} /\ in \cap net = {}
  /\ in \cap lost = {}
  /\ out \cap rin = {} /\ out \cap rout = {} /\ out \cap net = {} /\ out \cap lost = {}
  /\ rin \cap rout = {} /\ rin \cap net = {} /\ rin \cap lost = {}
  /\ rout \cap net = {} /\ rout \cap lost = {}
  /\ net \cap lost = {}

\* The hand holds something exactly between the get and the put of a transfer,
\* and that is nowhere else.
HandInv ==
  IF Holding THEN hand \in Packet /\ hand \notin in \cup out \cup rin \cup rout \cup net \cup lost
             ELSE hand = None

KeptInv == Covered /\ Apart /\ HandInv

LEMMA KeptInit == Init => KeptInv
<1> SUFFICES ASSUME Init PROVE KeptInv
  OBVIOUS
<1>1. rin \subseteq Packet \ (in \cup out)
  BY DEF Init
<1> QED
  BY <1>1 DEF Init, KeptInv, Covered, Apart, HandInv, Holding

LEMMA KeptStep == KeptInv /\ [Next]_vars => KeptInv'
<1> SUFFICES ASSUME KeptInv, [Next]_vars PROVE KeptInv'
  OBVIOUS
<1> USE DEF KeptInv, Covered, Apart, HandInv, Holding
<1>1. ASSUME NEW req, NEW interactive, BufferUpdate(req, interactive) PROVE KeptInv'
  BY <1>1 DEF BufferUpdate, buffers
<1>2. ASSUME NEW S \in SUBSET net, NEW T \in SUBSET out, BufferNetUpdate(S, T) PROVE KeptInv'
  BY <1>2 DEF BufferNetUpdate
<1>3. CASE FetchFile \/ FlushFile
  BY <1>3 DEF FetchFile, FlushFile, BeginTransfer, buffers
<1>4. ASSUME NEW p \in Packet, FetchTake(p) PROVE KeptInv'
  BY <1>4, PacketAssumption DEF FetchTake, RemoteIn
<1>5. ASSUME NEW p \in Packet, FlushTake(p) PROVE KeptInv'
  BY <1>5, PacketAssumption DEF FlushTake
<1>6. CASE FetchPut
  BY <1>6 DEF FetchPut
<1>7. CASE FetchPutFails
  BY <1>7 DEF FetchPutFails
<1>8. CASE FlushPut
  BY <1>8 DEF FlushPut
<1>9. CASE FlushPutFails
  BY <1>9 DEF FlushPutFails
<1>10. CASE FetchEnd \/ FlushEnd \/ UpdateEnd
  BY <1>10 DEF FetchEnd, FlushEnd, UpdateEnd, buffers
<1>11. ASSUME NEW p \in Packet, Work(p) PROVE KeptInv'
  BY <1>11 DEF Work
<1>12. CASE RaiseExitRequestTrigger \/ DelayElapses \/ UNCHANGED vars
  BY <1>12 DEF RaiseExitRequestTrigger, DelayElapses, vars, buffers
<1> QED
  BY <1>1, <1>2, <1>3, <1>4, <1>5, <1>6, <1>7, <1>8, <1>9, <1>10, <1>11, <1>12
  DEF Next, Update

\* To be in exactly one of the places, counted as the property counts.
LEMMA InOnePlace == KeptInv => PacketsKept
<1> SUFFICES ASSUME KeptInv, NEW p \in Packet
             PROVE  Cardinality({n \in DOMAIN <<in, out, rin, rout, net, {hand}, lost>> :
                       p \in <<in, out, rin, rout, net, {hand}, lost>>[n]}) = 1
  BY DEF PacketsKept
<1> DEFINE place == <<in, out, rin, rout, net, {hand}, lost>>
           At == {n \in DOMAIN place : p \in place[n]}
<1>1. DOMAIN place = 1 .. 7
  OBVIOUS
<1>2. /\ place[1] = in /\ place[2] = out /\ place[3] = rin /\ place[4] = rout
      /\ place[5] = net /\ place[6] = {hand} /\ place[7] = lost
  OBVIOUS
<1> HIDE DEF place
<1>3. PICK m \in 1 .. 7 : p \in place[m]
  BY <1>2 DEF KeptInv, Covered
<1>4. \A n \in 1 .. 7 : p \in place[n] => n = m
  BY <1>2, <1>3, PacketAssumption DEF KeptInv, Apart, HandInv
<1>5. At = {m}
  BY <1>1, <1>3, <1>4
<1> QED
  BY <1>5, FS_Singleton DEF place

\* An update neither duplicates nor drops a packet, whatever fails, and also if
\* the remote buffers are the client's own.
THEOREM Kept == Spec => []PacketsKept
BY KeptInit, KeptStep, InOnePlace, PTL DEF Spec

----------------------------------------------------------------------------
(* The report *)

With(f) == did \cup IF trans THEN {f} ELSE {}

\* During a transfer only what it has moved itself is not yet in the report.
ReportInv ==
  /\ trans \in BOOLEAN
  /\ pc \in {"fetchfile", "flushfile", "end"} => did = moved
  /\ pc \in {"fetch", "fetchput"} => moved = With("fetch")
  /\ pc \in {"flush", "flushput"} => moved = With("flush")

LEMMA ReportStep == ReportInv /\ [Next]_vars => ReportInv'
<1> SUFFICES ASSUME ReportInv, [Next]_vars PROVE ReportInv'
  OBVIOUS
<1> USE DEF ReportInv, With
<1>1. ASSUME NEW req, NEW interactive, BufferUpdate(req, interactive) PROVE ReportInv'
  BY <1>1 DEF BufferUpdate, transfer
<1>2. ASSUME NEW S, NEW T, BufferNetUpdate(S, T) PROVE ReportInv'
  BY <1>2 DEF BufferNetUpdate, transfer
<1>3. CASE FetchFile \/ FlushFile
  BY <1>3 DEF FetchFile, FlushFile, BeginTransfer, NoTransfer
<1>4. ASSUME NEW p \in Packet, FetchTake(p) \/ FlushTake(p) PROVE ReportInv'
  BY <1>4 DEF FetchTake, FlushTake, transfer
<1>5. CASE FetchPut
  BY <1>5 DEF FetchPut
<1>6. CASE FlushPut
  <2>1. trans'
    BY <1>6 DEF FlushPut, Shrinks
  <2> QED
    BY <1>6, <2>1 DEF FlushPut
<1>7. CASE FetchPutFails \/ FlushPutFails
  BY <1>7 DEF FetchPutFails, FlushPutFails
<1>8. CASE FetchEnd \/ FlushEnd
  BY <1>8 DEF FetchEnd, FlushEnd, Transferred, transfer
<1>9. CASE UpdateEnd
  BY <1>9 DEF UpdateEnd, NoTransfer
<1>10. ASSUME NEW p \in Packet, Work(p) PROVE ReportInv'
  BY <1>10 DEF Work, transfer
<1>11. CASE RaiseExitRequestTrigger \/ DelayElapses \/ UNCHANGED vars
  BY <1>11 DEF RaiseExitRequestTrigger, DelayElapses, vars, transfer
<1> QED
  BY <1>1, <1>2, <1>3, <1>4, <1>5, <1>6, <1>7, <1>8, <1>9, <1>10, <1>11 DEF Next, Update

\* BufferUpdate() reports a fetch (a flush) if and only if a packet came (went).
THEOREM Truthful == Spec => []ResultTruthful
<1>1. Init => ReportInv
  BY DEF Init, ReportInv
<1>2. ReportInv => ResultTruthful
  BY DEF ReportInv, ResultTruthful
<1> QED
  BY <1>1, <1>2, ReportStep, PTL DEF Spec

----------------------------------------------------------------------------
(* The delay *)

BackoffInv ==
  /\ failing \in BOOLEAN /\ waiting \in BOOLEAN /\ delay \in Nat
  /\ BackoffConsistent

LEMMA BackoffStep == BackoffInv /\ [Next]_vars => BackoffInv'
<1> SUFFICES ASSUME BackoffInv, [Next]_vars PROVE BackoffInv'
  OBVIOUS
<1> USE DEF BackoffInv, BackoffConsistent
<1>1. CASE UpdateEnd
  <2>1. NextDelay \in Nat /\ NextDelay # 0
    BY DEF NextDelay
  <2>2. CASE did = {}
    BY <1>1, <2>1, <2>2 DEF UpdateEnd
  <2>3. CASE did # {}
    <3>1. failing' = FALSE /\ waiting' = FALSE
      BY <1>1, <2>3 DEF UpdateEnd, ForgetFailures
    <3>2. delay' = 0
      BY <1>1, <2>3 DEF UpdateEnd, ForgetFailures
    <3> QED
      BY <3>1, <3>2
  <2> QED
    BY <2>2, <2>3
<1>2. CASE DelayElapses
  BY <1>2 DEF DelayElapses
<1>3. CASE UNCHANGED backoff
  BY <1>3 DEF backoff
<1>4. Next /\ ~UpdateEnd /\ ~DelayElapses => UNCHANGED backoff
  BY DEF Next, Update, BufferUpdate, BufferNetUpdate, FetchFile, FlushFile, FetchTake,
         FlushTake, FetchPut, FetchPutFails, FetchEnd, FlushPut, FlushPutFails, FlushEnd,
         Work, RaiseExitRequestTrigger
<1> QED
  BY <1>1, <1>2, <1>3, <1>4 DEF vars

\* There is a delay if and only if the last update came to nothing.
THEOREM DelayConsistent == Spec => []BackoffConsistent
<1>1. Init => BackoffInv
  <2> SUFFICES ASSUME Init PROVE BackoffInv
    OBVIOUS
  <2>1. failing = FALSE /\ waiting = FALSE
    BY DEF Init
  <2>2. delay = 0
    BY DEF Init
  <2> QED
    BY <2>1, <2>2 DEF BackoffInv, BackoffConsistent
<1>2. BackoffInv => BackoffConsistent
  BY DEF BackoffInv
<1> QED
  BY <1>1, <1>2, BackoffStep, PTL DEF Spec
=============================================================================
