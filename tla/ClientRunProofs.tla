-------------------------- MODULE ClientRunProofs --------------------------
(* Five safety properties of ClientRun, for any number of packets and          *)
(* crunchers, every packet limit, any number of runs, and whatever may go      *)
(* wrong: a packet is in one place (OnePlace), packets live as WorkLife says   *)
(* (ImplementsWorkLife), a sleeping client's checkpoint names nothing that was *)
(* saved (CheckpointFresh), a client that ends frees no packet but those its   *)
(* first fill stranded behind a hole in the problem table, and a first fill    *)
(* that nothing disturbed strands none (ExitKeepsWork), and a client never     *)
(* completes more packets than it was asked for (BlockLimit).                  *)
EXTENDS ClientRun, FiniteSetTheorems, TLAPS

\* Within the loop of LoadSaveProblems(), and while a packet is looked for.
Loading == {"limit", "load", "reload", "norecord", "loadstate"}
Filling == {"fill"} \union Loading

\* The arguments, the index and the counters of LoadSaveProblems(): the first
\* fill goes up and has loaded fewer packets than it has visited slots, a
\* resize goes down and stays above the new size.
FillInv ==
  /\ mode \in {"initial", "anychanged", "resize", "unloadall"}
  /\ arg \in Slot
  /\ mode = "initial" <=> previous = 0
  /\ mode = "initial" => arg = Crunchers /\ loaded \in 0..Crunchers
  /\ mode \in {"anychanged", "resize"} => count = arg
  /\ pc \in Filling => /\ prob_i \in Slot
                       /\ mode = "initial" => loaded < prob_i
                       /\ mode = "resize" => prob_i > arg

Control ==
  /\ pc \in Pc
  /\ previous \in 0..Crunchers /\ count \in 0..Crunchers
  /\ pc = "open" => previous = 0
  /\ pc = "start" => count \in Slot /\ previous = Crunchers
  /\ pc = "stop" => previous \in Slot
  /\ pc \in {"loop", "checkpoint", "refresh", "modereq"} =>
       count \in Slot /\ previous \in Slot
  /\ pc \in Filling \union {"fillend"} => FillInv

Types ==
  /\ in \subseteq Packet /\ out \subseteq Packet /\ sent \subseteq Packet
  /\ gone \subseteq Packet /\ abandoned \subseteq Packet /\ ckpt \subseteq Packet
  /\ prob \in [Slot -> Packet \union {None}]
  /\ finished \in [Slot -> BOOLEAN]
  /\ hand \in Packet \union {None}
  /\ changed \in BOOLEAN /\ due \in BOOLEAN /\ exiting \in BOOLEAN
  /\ disturbed \in BOOLEAN

Filed == in \union out \union sent \union gone \union abandoned

\* What OnePlace says, slot by slot; the slot that is being loaded is empty, and
\* a packet is in hand only between its get and its load.
Apart ==
  /\ in \intersect (out \union sent \union gone \union abandoned) = {}
  /\ out \intersect (sent \union gone \union abandoned) = {}
  /\ sent \intersect (gone \union abandoned) = {}
  /\ gone \intersect abandoned = {}
  /\ hand \notin Filed
  /\ \A i \in Slot : prob[i] # None => prob[i] \notin Filed \union {hand}
  /\ \A i, j \in Slot : i # j /\ prob[i] # None => prob[i] # prob[j]
  /\ hand # None <=> pc = "loadstate"
  /\ pc \in Loading => prob[prob_i] = None

\* Nothing the checkpoint names was saved or sent, or the next checkpoint is
\* due: the filler knows it by changed_flag, the loop by timeNextCheckpoint.
Clean == ckpt \intersect (in \union out \union sent) = {}

CkptInv ==
  /\ ckpt \intersect Fresh = {}
  /\ pc \in Filling \union {"fillend"} =>
       /\ mode \in {"initial", "resize"} => ckpt = {}
       /\ mode = "anychanged" => Clean \/ changed
  /\ pc \in {"start", "refresh"} => ckpt = {}
  /\ pc = "checkpoint" => Clean \/ due
  /\ pc \in {"modereq", "loop"} => Clean \/ exiting

IInv == Types /\ Control /\ Apart /\ CkptInv

LEMMA Slots == /\ Crunchers \in Nat /\ Crunchers >= 1
               /\ Slot = 1..Crunchers /\ 1 \in Slot /\ Crunchers \in Slot
BY CrunchersAssumption DEF Slot

----------------------------------------------------------------------------
(* Types *)

LEMMA TypesInit == Init => Types
BY DEF Init, EmptyTable, Types

\* BufferUpdate() moves packets of Packet only.
LEMMA TypesUpdate ==
  ASSUME Types, NEW S, NEW T, BufferUpdate(S, T)
  PROVE  in' \subseteq Packet /\ out' \subseteq Packet /\ sent' \subseteq Packet
BY DEF Types, BufferUpdate, Fresh

LEMMA TypesStep == Types /\ Control /\ Apart /\ [Next]_vars => Types'
<1> SUFFICES ASSUME Types, Control, Apart, [Next]_vars PROVE Types'
  OBVIOUS
<1> USE DEF Types
<1>1. CASE \/ FillKeep \/ FillEmpty \/ FillLimit \/ LoadDelayed \/ LoadAgainFails
           \/ LoadBreak \/ LoadNothing
  BY <1>1 DEF FillKeep, FillEmpty, FillLimit, LoadDelayed, LoadAgainFails, LoadBreak,
              LoadNothing, files, table, runVars, envVars, fillVars
<1>2. CASE FillSave
  <2>1. prob_i \in Slot
    BY <1>2 DEF FillSave, Control, FillInv, Filling
  <2>2. prob[prob_i] \in Packet
    BY <1>2, <2>1 DEF FillSave
  <2> QED
    BY <1>2, <2>1, <2>2 DEF FillSave, PurgeSaved, runVars
<1>3. ASSUME NEW p \in Packet, LoadGet(p) \/ LoadRandom(p) PROVE Types'
  BY <1>3 DEF LoadGet, LoadRandom, files, fillVars, runVars, envVars
<1>4. ASSUME NEW S \in SUBSET Fresh, NEW T \in SUBSET out,
             LoadUpdate(S, T) \/ ModeReqUpdate(S, T)
      PROVE  Types'
  BY <1>4, TypesUpdate DEF LoadUpdate, ModeReqUpdate, table, fillVars, runVars
<1>5. CASE LoadState
  <2>1. prob_i \in Slot
    BY <1>5 DEF LoadState, Control, FillInv, Filling, Loading
  <2> QED
    BY <1>5, <2>1 DEF LoadState, files, runVars, envVars
<1>6. CASE LoadStateFails
  <2>1. hand \in Packet
    BY <1>6 DEF LoadStateFails, Apart
  <2> QED
    BY <1>6, <2>1 DEF LoadStateFails, runVars
<1>7. CASE FillEndInitial \/ FillEndResize \/ FillEndLoop \/ FillEndUnload
  BY <1>7 DEF FillEndInitial, FillEndResize, FillEndLoop, Recheckpoint, FillEndUnload,
              files, table, fillVars, envVars
<1>8. CASE CheckpointOpen \/ LoopFill \/ Stop
  BY <1>8 DEF CheckpointOpen, Recovered, LoopFill, Stop, BeginFill, files, table, runVars,
              envVars
<1>9. ASSUME NEW n \in 0..Crunchers, StartThreads(n) PROVE Types'
  BY <1>9 DEF StartThreads, BeginFill, files, table, fillVars, envVars
<1>10. CASE LoopPaused \/ CheckpointZap \/ CheckpointSkip \/ ModeReqNone
  BY <1>10 DEF LoopPaused, CheckpointZap, CheckpointSkip, ModeReqNone, files, table,
               fillVars, runVars, envVars
<1>11. ASSUME NEW S \in SUBSET Packet, CheckpointPut(S) PROVE Types'
  BY <1>11 DEF CheckpointPut, table, fillVars, envVars
<1>12. CASE Close \/ Crash
  <2>1. Loaded \subseteq Packet
    BY DEF Loaded
  <2> QED
    BY <1>12, <2>1 DEF Close, Crash, fillVars, runVars, envVars
<1>13. ASSUME NEW b \in Blockcount, NEW off \in BOOLEAN, Boot(b, off) PROVE Types'
  BY <1>13 DEF Boot, files, table, fillVars
<1>14. ASSUME NEW i \in Slot, Crunch(i) PROVE Types'
  BY <1>14 DEF Crunch, files, fillVars, runVars, envVars
<1>15. CASE RaiseExitRequestTrigger \/ TogglePause \/ DelayElapses \/ UNCHANGED vars
  BY <1>15 DEF RaiseExitRequestTrigger, TogglePause, DelayElapses, vars, files, table,
               fillVars, runVars, envVars
<1> QED
  BY <1>1, <1>2, <1>3, <1>4, <1>5, <1>6, <1>7, <1>8, <1>9, <1>10, <1>11, <1>12, <1>13,
     <1>14, <1>15 DEF Next, Fill, Main

----------------------------------------------------------------------------
(* Where the main thread is *)

LEMMA ControlInit == Init => Control
BY CrunchersAssumption DEF Init, Control, Pc, Filling, Loading

\* The step to the next slot stays in the table, on the way up and down.
LEMMA AdvanceInFill ==
  ASSUME Control, pc \in Filling, Advance,
         UNCHANGED <<mode, arg, previous, count>>,
         mode = "initial" => loaded' \in 0..Crunchers /\ loaded' <= prob_i
  PROVE  Control'
<1> USE Slots DEF Control, FillInv, Filling, Loading, Pc
<1>1. CASE prob_i = LastSlot
  BY <1>1 DEF Advance, LastSlot, FillUp
<1>2. CASE prob_i # LastSlot
  <2>1. pc' = "fill" /\ prob_i' = IF FillUp THEN prob_i + 1 ELSE prob_i - 1
    BY <1>2 DEF Advance
  <2>2. CASE mode = "initial"
    BY <1>2, <2>1, <2>2 DEF LastSlot, FillUp
  <2>3. CASE mode # "initial"
    BY <1>2, <2>1, <2>3 DEF LastSlot, FillUp
  <2> QED
    BY <2>2, <2>3
<1> QED
  BY <1>1, <1>2

LEMMA ControlStep == Types /\ Control /\ [Next]_vars => Control'
<1> SUFFICES ASSUME Types, Control, [Next]_vars PROVE Control'
  OBVIOUS
<1> USE Slots
<1>a. ASSUME pc \in Filling, pc' \in Filling, UNCHANGED <<fillVars, previous, count>>
      PROVE  Control'
  BY <1>a DEF Control, FillInv, Filling, Loading, Pc, fillVars
<1>b. ASSUME pc \in Filling, Advance,
             UNCHANGED <<mode, arg, previous, count, loaded>>
      PROVE  Control'
  <2>1. mode = "initial" => loaded' \in 0..Crunchers /\ loaded' <= prob_i
    BY <1>b DEF Control, FillInv, Filling
  <2> QED
    BY <1>b, <2>1, AdvanceInFill
<1>1. CASE FillKeep \/ LoadDelayed \/ LoadBreak \/ LoadNothing
  BY <1>1, <1>b DEF FillKeep, LoadDelayed, LoadBreak, LoadNothing, Filling, Loading, runVars
<1>2. CASE FillEmpty \/ FillSave \/ FillLimit
  <2>1. CASE Advance
    BY <1>2, <2>1, <1>b DEF FillEmpty, FillSave, FillLimit, Filling, Loading, runVars
  <2>2. CASE pc' \in {"limit", "load"} /\ UNCHANGED prob_i
    <3>1. pc \in Filling /\ UNCHANGED <<mode, arg, loaded, previous, count>>
      BY <1>2 DEF FillEmpty, FillSave, FillLimit, Filling, Loading, runVars
    <3> QED
      BY <2>2, <3>1 DEF Control, FillInv, Filling, Loading, Pc
  <2> QED
    BY <1>2, <2>1, <2>2 DEF FillEmpty, FillSave, FillLimit, Refill
<1>3. ASSUME NEW p \in Packet, LoadGet(p) \/ LoadRandom(p) PROVE Control'
  BY <1>3, <1>a DEF LoadGet, LoadRandom, Filling, Loading, runVars
<1>4. ASSUME NEW S \in SUBSET Fresh, NEW T \in SUBSET out, LoadUpdate(S, T)
      PROVE  Control'
  BY <1>4, <1>a DEF LoadUpdate, Filling, Loading, runVars
<1>5. CASE LoadAgainFails
  BY <1>5, <1>a DEF LoadAgainFails, Filling, Loading, runVars
<1>6. CASE LoadState
  <2>1. mode = "initial" => loaded' \in 0..Crunchers /\ loaded' <= prob_i
    BY <1>6 DEF LoadState, Control, FillInv, Filling, Loading
  <2> QED
    BY <1>6, <2>1, AdvanceInFill DEF LoadState, runVars, Filling, Loading
<1>7. CASE LoadStateFails
  <2>1. CASE Advance
    BY <1>7, <2>1, <1>b DEF LoadStateFails, Filling, Loading, runVars
  <2>2. CASE pc' = "load" /\ UNCHANGED prob_i
    BY <1>7, <2>2, <1>a DEF LoadStateFails, Filling, Loading, runVars, fillVars
  <2> QED
    BY <1>7, <2>1, <2>2 DEF LoadStateFails
<1>8. CASE FillEndInitial \/ FillEndResize \/ FillEndLoop \/ FillEndUnload
  BY <1>8 DEF FillEndInitial, FillEndResize, FillEndLoop, FillEndUnload, fillVars,
              Control, FillInv, Filling, Loading, Pc
<1>9. CASE CheckpointOpen
  BY <1>9 DEF CheckpointOpen, BeginFill, runVars, Control, FillInv, Filling, Loading, Pc
<1>10. ASSUME NEW n \in 0..Crunchers, StartThreads(n) PROVE Control'
  BY <1>10 DEF StartThreads, BeginFill, fillVars, Control, FillInv, Filling, Loading, Pc
<1>11. CASE LoopFill \/ Stop
  BY <1>11 DEF LoopFill, Stop, BeginFill, runVars, Control, FillInv, Filling, Loading, Pc
<1>12. CASE LoopPaused \/ CheckpointZap \/ CheckpointSkip \/ ModeReqNone
  BY <1>12 DEF LoopPaused, CheckpointZap, CheckpointSkip, ModeReqNone, fillVars, runVars,
               Control, Filling, Loading, Pc
<1>13. ASSUME NEW S \in SUBSET Packet, CheckpointPut(S) PROVE Control'
  BY <1>13 DEF CheckpointPut, Control, Filling, Loading, Pc
<1>14. ASSUME NEW S \in SUBSET Fresh, NEW T \in SUBSET out, ModeReqUpdate(S, T)
       PROVE  Control'
  BY <1>14 DEF ModeReqUpdate, runVars, Control, Filling, Loading, Pc
<1>15. CASE Close \/ Crash
  BY <1>15 DEF Close, Crash, fillVars, runVars, Control, Filling, Loading, Pc
<1>16. ASSUME NEW b \in Blockcount, NEW off \in BOOLEAN, Boot(b, off) PROVE Control'
  BY <1>16 DEF Boot, Control, Filling, Loading, Pc
<1>17. CASE UNCHANGED <<pc, fillVars, previous, count>>
  BY <1>17 DEF Control, FillInv, fillVars
<1>18. ASSUME NEW i \in Slot, Crunch(i) PROVE Control'
  BY <1>18, <1>17 DEF Crunch, runVars
<1>19. CASE RaiseExitRequestTrigger \/ TogglePause \/ DelayElapses \/ UNCHANGED vars
  BY <1>17, <1>19 DEF RaiseExitRequestTrigger, TogglePause, DelayElapses, vars, runVars
<1> QED
  BY <1>1, <1>2, <1>3, <1>4, <1>5, <1>6, <1>7, <1>8, <1>9, <1>10, <1>11, <1>12, <1>13,
     <1>14, <1>15, <1>16, <1>18, <1>19 DEF Next, Fill, Main

----------------------------------------------------------------------------
(* A packet is in one place *)

LEMMA ApartInit == Init => Apart
BY NoneAssumption DEF Init, EmptyTable, Apart, Filed, Loading

\* A fresh packet is nowhere.
LEMMA FreshIsNew ==
  ASSUME NEW p \in Fresh
  PROVE  /\ p \in Packet /\ p # None /\ p \notin Filed /\ p # hand
         /\ \A i \in Slot : prob[i] # p
BY NoneAssumption DEF Fresh, Filed, Loaded

\* The transfers of an update keep packets apart.
LEMMA ApartUpdate ==
  ASSUME Types, Apart, NEW S \in SUBSET Fresh, NEW T \in SUBSET out, BufferUpdate(S, T),
         UNCHANGED <<gone, abandoned, table>>,
         pc' = "loadstate" <=> pc = "loadstate",
         pc' \in Loading => prob[prob_i'] = None
  PROVE  Apart'
<1>1. \A p \in S : p \notin Filed /\ p # hand /\ \A i \in Slot : prob[i] # p
  BY FreshIsNew
<1>2. in' = in \union S /\ out' = out \ T /\ sent' = sent \union T
  BY DEF BufferUpdate
<1> QED
  BY <1>1, <1>2 DEF Types, Apart, Filed, table

LEMMA ApartStep == Types /\ Control /\ Apart /\ [Next]_vars => Apart'
<1> SUFFICES ASSUME Types, Control, Apart, [Next]_vars PROVE Apart'
  OBVIOUS
<1>a. ASSUME UNCHANGED <<in, out, sent, gone, abandoned, prob, hand>>,
             pc' = "loadstate" <=> pc = "loadstate",
             pc' \in Loading => prob[prob_i'] = None
      PROVE  Apart'
  BY <1>a DEF Apart, Filed
<1>1. CASE FillKeep \/ FillEmpty \/ FillLimit \/ LoadDelayed \/ LoadAgainFails
           \/ LoadBreak \/ LoadNothing
  <2>1. pc # "loadstate" /\ pc' # "loadstate"
    BY <1>1 DEF FillKeep, FillEmpty, FillLimit, LoadDelayed, LoadAgainFails, LoadBreak,
                LoadNothing, Refill, Advance
  <2>2. pc' \in Loading => prob[prob_i'] = None
    BY <1>1 DEF FillKeep, FillEmpty, FillLimit, LoadDelayed, LoadAgainFails, LoadBreak,
                LoadNothing, Refill, Advance, Apart, Loading, fillVars
  <2> QED
    BY <1>1, <2>1, <2>2, <1>a DEF FillKeep, FillEmpty, FillLimit, LoadDelayed,
       LoadAgainFails, LoadBreak, LoadNothing, files, table, envVars
<1>2. CASE FillSave
  <2> DEFINE q == prob[prob_i]
  <2>1. prob_i \in Slot /\ q \in Packet /\ q # None /\ hand = None
    BY <1>2 DEF FillSave, Control, FillInv, Filling, Types, Apart
  <2>2. /\ prob' = [prob EXCEPT ![prob_i] = None]
        /\ UNCHANGED <<sent, abandoned, hand>>
    BY <1>2 DEF FillSave, PurgeSaved
  <2>3. \/ out' = out \union {q} /\ UNCHANGED <<in, gone>>
        \/ in' = in \union {q} /\ UNCHANGED <<out, gone>>
        \/ gone' = gone \union {q} /\ UNCHANGED <<in, out>>
    BY <1>2 DEF FillSave
  <2>4. pc' # "loadstate" /\ (pc' \in Loading => prob_i' = prob_i)
    BY <1>2 DEF FillSave, Refill, Advance, Loading
  <2>5. q \notin Filed /\ \A j \in Slot : j # prob_i => prob[j] # q
    BY <2>1 DEF Apart
  <2>6. /\ \A j \in Slot : prob'[j] = IF j = prob_i THEN None ELSE prob[j]
        /\ prob'[prob_i] = None
    BY <2>1, <2>2 DEF Types
  <2> HIDE DEF q
  <2> QED
    BY <2>1, <2>2, <2>3, <2>4, <2>5, <2>6 DEF Apart, Filed, Types
<1>3. ASSUME NEW p \in Packet, LoadGet(p) PROVE Apart'
  <2>1. hand = None /\ prob[prob_i] = None
    BY <1>3 DEF LoadGet, Apart, Loading
  <2> QED
    BY <1>3, <2>1, NoneAssumption DEF LoadGet, Apart, Filed, Types, fillVars, envVars, Loading
<1>4. ASSUME NEW p \in Packet, LoadRandom(p) PROVE Apart'
  <2>1. hand = None /\ prob[prob_i] = None
    BY <1>4 DEF LoadRandom, Apart, Loading
  <2>2. p # None /\ p \notin Filed /\ \A i \in Slot : prob[i] # p
    BY <1>4, FreshIsNew DEF LoadRandom
  <2> QED
    BY <1>4, <2>1, <2>2 DEF LoadRandom, Apart, Filed, files, fillVars, envVars, Loading
<1>5. ASSUME NEW S \in SUBSET Fresh, NEW T \in SUBSET out,
             LoadUpdate(S, T) \/ ModeReqUpdate(S, T)
      PROVE  Apart'
  BY <1>5, ApartUpdate DEF LoadUpdate, ModeReqUpdate, Apart, Loading, fillVars
<1>6. CASE LoadState
  <2>1. prob_i \in Slot /\ hand \in Packet /\ prob[prob_i] = None
    BY <1>6 DEF LoadState, Control, FillInv, Filling, Loading, Types, Apart
  <2>2. \A j \in Slot : prob'[j] = IF j = prob_i THEN hand ELSE prob[j]
    BY <1>6, <2>1 DEF LoadState, Types
  <2>3. hand' = None /\ pc' \notin Loading /\ UNCHANGED <<in, out, sent, gone, abandoned>>
    BY <1>6 DEF LoadState, Advance, Loading, files, envVars
  <2> QED
    BY <2>1, <2>2, <2>3, NoneAssumption DEF Apart, Filed, Types, Loading
<1>7. CASE LoadStateFails
  <2>1. /\ hand # None /\ hand' = None /\ pc' # "loadstate" /\ prob[prob_i] = None
        /\ pc' \in Loading => prob_i' = prob_i
    BY <1>7 DEF LoadStateFails, Advance, Apart, Loading
  <2>2. gone' = gone \union {hand} /\ UNCHANGED <<in, out, sent, abandoned, prob>>
    BY <1>7 DEF LoadStateFails
  <2> QED
    BY <2>1, <2>2, NoneAssumption DEF Apart, Filed, Types
<1>8. CASE FillEndInitial \/ FillEndResize \/ FillEndLoop \/ FillEndUnload
  BY <1>8, <1>a DEF FillEndInitial, FillEndResize, FillEndLoop, FillEndUnload, files,
                    table, envVars, Loading
<1>9. CASE CheckpointOpen \/ LoopFill \/ Stop
  BY <1>9, <1>a DEF CheckpointOpen, Recovered, LoopFill, Stop, BeginFill, files, table,
                    envVars, Loading
<1>10. ASSUME NEW n \in 0..Crunchers, StartThreads(n) PROVE Apart'
  BY <1>10, <1>a DEF StartThreads, BeginFill, files, table, envVars, Loading
<1>11. CASE LoopPaused \/ CheckpointZap \/ CheckpointSkip \/ ModeReqNone
  BY <1>11, <1>a DEF LoopPaused, CheckpointZap, CheckpointSkip, ModeReqNone, files, table,
                     envVars, Loading
<1>12. ASSUME NEW S \in SUBSET Packet, CheckpointPut(S) PROVE Apart'
  BY <1>12, <1>a DEF CheckpointPut, table, envVars, Loading
<1>13. CASE Close \/ Crash
  <2>1. \A p : p \in Loaded => p \in Packet /\ p \notin Filed \union {hand}
    BY DEF Loaded, Types, Apart
  <2>2. prob' = [i \in Slot |-> None] /\ hand' = None /\ pc' = "down"
    BY <1>13 DEF Close, Crash, Apart
  <2>3. \/ gone' = gone \union Loaded \union ({hand} \ {None}) /\ abandoned' = abandoned
        \/ abandoned' = abandoned \union Loaded /\ gone' = gone
    BY <1>13 DEF Close, Crash, envVars
  <2>4. UNCHANGED <<in, out, sent>>
    BY <1>13 DEF Close, Crash
  <2> QED
    BY <2>1, <2>2, <2>3, <2>4, NoneAssumption DEF Apart, Filed, Types, Loading
<1>14. ASSUME NEW b \in Blockcount, NEW off \in BOOLEAN, Boot(b, off) PROVE Apart'
  BY <1>14, <1>a DEF Boot, files, table, Loading
<1>15. ASSUME NEW i \in Slot, Crunch(i) PROVE Apart'
  BY <1>15, <1>a DEF Crunch, files, envVars, fillVars, Apart
<1>16. CASE RaiseExitRequestTrigger \/ TogglePause \/ DelayElapses \/ UNCHANGED vars
  BY <1>16, <1>a DEF RaiseExitRequestTrigger, TogglePause, DelayElapses, vars, files,
                     table, fillVars, envVars, Apart
<1> QED
  BY <1>1, <1>2, <1>3, <1>4, <1>5, <1>6, <1>7, <1>8, <1>9, <1>10, <1>11, <1>12, <1>13,
     <1>14, <1>15, <1>16 DEF Next, Fill, Main

LEMMA PlacesInv == Spec => [](Types /\ Control /\ Apart)
BY TypesInit, TypesStep, ControlInit, ControlStep, ApartInit, ApartStep, PTL DEF Spec

\* No packet is in two places, whatever is loaded, saved, fetched, flushed,
\* dropped or lost in a crash.
THEOREM Places == Spec => []OnePlace
<1>1. Types /\ Apart => OnePlace
  <2> SUFFICES ASSUME Types, Apart PROVE OnePlace
    OBVIOUS
  <2>1. \A p : p \in Loaded => p \notin Filed \union {hand}
    BY DEF Loaded, Apart
  <2> DEFINE place == <<in, out, sent, gone, abandoned, Loaded>>
  <2>2. ASSUME NEW m \in 1..6, NEW n \in 1..6, m # n
        PROVE  place[m] \intersect place[n] = {}
    BY <2>1, <2>2 DEF Apart, Filed
  <2>3. DOMAIN place = 1..6
    OBVIOUS
  <2>4. hand \notin Loaded \union Filed
    BY <2>1 DEF Apart
  <2> QED
    BY <2>2, <2>3, <2>4 DEF OnePlace, Apart, Filed
<1> QED
  BY <1>1, PlacesInv, PTL

----------------------------------------------------------------------------
(* The life of packets *)

LEMMA GoesIs ==
  /\ DOMAIN Abs!Goes = {"new", "in", "held", "out", "sent", "gone"}
  /\ Abs!Goes["new"] = {"in", "held"} /\ Abs!Goes["in"] = {"held"}
  /\ Abs!Goes["held"] = {"in", "out", "gone"} /\ Abs!Goes["out"] = {"sent"}
BY DEF Abs!Goes

Held(p) == p = hand \/ \E i \in Slot : prob[i] = p

\* What becomes of p in one step.
Moves(p) ==
  \/ Life(p)' = Life(p)
  \/ Life(p) = "new"  /\ Life(p)' \in {"in", "held"}
  \/ Life(p) = "in"   /\ Life(p)' = "held"
  \/ Life(p) = "held" /\ Life(p)' \in {"in", "out", "gone"}
  \/ Life(p) = "out"  /\ Life(p)' = "sent"

LEMMA LifeIs ==
  ASSUME NEW p \in Packet
  PROVE  Life(p) = IF p \in in THEN "in" ELSE IF p \in out THEN "out"
                   ELSE IF p \in sent THEN "sent"
                   ELSE IF p \in gone \union abandoned THEN "gone"
                   ELSE IF Held(p) THEN "held" ELSE "new"
BY NoneAssumption DEF Life, Held, Loaded

LEMMA HeldApart ==
  ASSUME Types, Apart, NEW p \in Packet, Held(p)
  PROVE  p \notin Filed
BY NoneAssumption DEF Types, Apart, Held

LEMMA MovesStep ==
  ASSUME Types, Control, Apart, Apart', [Next]_vars, NEW p \in Packet
  PROVE  Moves(p)
<1>h. /\ Life(p) = IF p \in in THEN "in" ELSE IF p \in out THEN "out"
                   ELSE IF p \in sent THEN "sent"
                   ELSE IF p \in gone \union abandoned THEN "gone"
                   ELSE IF Held(p) THEN "held" ELSE "new"
      /\ Life(p)' = IF p \in in' THEN "in" ELSE IF p \in out' THEN "out"
                    ELSE IF p \in sent' THEN "sent"
                    ELSE IF p \in gone' \union abandoned' THEN "gone"
                    ELSE IF Held(p)' THEN "held" ELSE "new"
  <2>1. Life(p)' = IF p \in in' THEN "in" ELSE IF p \in out' THEN "out"
                   ELSE IF p \in sent' THEN "sent"
                   ELSE IF p \in gone' \union abandoned' THEN "gone"
                   ELSE IF Held(p)' THEN "held" ELSE "new"
    BY NoneAssumption DEF Life, Held, Loaded
  <2> QED
    BY <2>1, LifeIs
<1>a. ASSUME UNCHANGED <<in, out, sent, gone, abandoned, prob, hand>>
      PROVE  Moves(p)
  BY <1>a DEF Moves, Life, Loaded
<1>u. ASSUME NEW S \in SUBSET Fresh, NEW T \in SUBSET out, BufferUpdate(S, T),
             UNCHANGED <<gone, abandoned, table>>
      PROVE  Moves(p)
  <2>1. in' = in \union S /\ out' = out \ T /\ sent' = sent \union T
    BY <1>u DEF BufferUpdate
  <2>2. Held(p)' <=> Held(p)
    BY <1>u DEF Held, table
  <2>3. p \in S => p \notin Filed /\ ~Held(p)
    BY FreshIsNew DEF Held
  <2> QED
    BY <1>h, <1>u, <2>1, <2>2, <2>3 DEF Moves, Filed, Apart
<1>1. CASE FillKeep \/ FillEmpty \/ FillLimit \/ LoadDelayed \/ LoadAgainFails
           \/ LoadBreak \/ LoadNothing
  BY <1>1, <1>a DEF FillKeep, FillEmpty, FillLimit, LoadDelayed, LoadAgainFails,
     LoadBreak, LoadNothing, files, table, envVars
<1>2. CASE FillSave
  <2> DEFINE q == prob[prob_i]
  <2>1. prob_i \in Slot /\ q # None /\ hand = None
    BY <1>2 DEF FillSave, Control, FillInv, Filling, Apart
  <2>2. /\ \A j \in Slot : prob'[j] = IF j = prob_i THEN None ELSE prob[j]
        /\ UNCHANGED <<sent, abandoned, hand>>
    BY <1>2, <2>1 DEF FillSave, PurgeSaved, Types
  <2>3. \/ out' = out \union {q} /\ UNCHANGED <<in, gone>>
        \/ in' = in \union {q} /\ UNCHANGED <<out, gone>>
        \/ gone' = gone \union {q} /\ UNCHANGED <<in, out>>
    BY <1>2 DEF FillSave
  <2>4. p = q => Held(p) /\ p \notin Filed
    BY <2>1, HeldApart DEF Held
  <2>5. p # q => (Held(p)' <=> Held(p))
    BY <2>1, <2>2, NoneAssumption DEF Held
  <2> HIDE DEF q
  <2> QED
    BY <1>h, <2>2, <2>3, <2>4, <2>5 DEF Moves, Filed
<1>3. ASSUME NEW q \in Packet, LoadGet(q) \/ LoadRandom(q) PROVE Moves(p)
  <2>1. /\ hand = None /\ hand' = q
        /\ UNCHANGED <<out, sent, gone, abandoned, prob>>
    BY <1>3 DEF LoadGet, LoadRandom, Apart, files, envVars
  <2>2. \/ q \in in /\ in' = in \ {q}
        \/ q \notin Filed /\ ~Held(q) /\ in' = in
    BY <1>3, FreshIsNew DEF LoadGet, LoadRandom, files, Held
  <2>3. Held(p)' <=> p = q \/ Held(p)
    BY <2>1, NoneAssumption DEF Held
  <2> QED
    BY <1>h, <2>1, <2>2, <2>3 DEF Moves, Filed, Apart
<1>4. ASSUME NEW S \in SUBSET Fresh, NEW T \in SUBSET out,
             LoadUpdate(S, T) \/ ModeReqUpdate(S, T)
      PROVE  Moves(p)
  BY <1>4, <1>u DEF LoadUpdate, ModeReqUpdate
<1>5. CASE LoadState
  <2>1. prob_i \in Slot /\ prob[prob_i] = None /\ hand' = None
    BY <1>5 DEF LoadState, Control, FillInv, Filling, Loading, Apart
  <2>2. \A j \in Slot : prob'[j] = IF j = prob_i THEN hand ELSE prob[j]
    BY <1>5, <2>1 DEF LoadState, Types
  <2>3. Held(p)' <=> Held(p)
    BY <2>1, <2>2, NoneAssumption DEF Held
  <2> QED
    BY <1>5, <1>h, <2>3 DEF Moves, LoadState, files, envVars
<1>6. CASE LoadStateFails
  <2>1. hand' = None /\ gone' = gone \union {hand} /\ UNCHANGED <<in, out, sent, abandoned, prob>>
    BY <1>6 DEF LoadStateFails
  <2>2. p = hand => Held(p) /\ p \notin Filed
    BY HeldApart DEF Held
  <2>3. p # hand => (Held(p)' <=> Held(p))
    BY <2>1, NoneAssumption DEF Held
  <2> QED
    BY <1>h, <2>1, <2>2, <2>3 DEF Moves, Filed
<1>7. CASE FillEndInitial \/ FillEndResize \/ FillEndLoop \/ FillEndUnload
  BY <1>7, <1>a DEF FillEndInitial, FillEndResize, FillEndLoop, FillEndUnload, files,
                    table, envVars
<1>8. CASE CheckpointOpen \/ LoopFill \/ Stop
  BY <1>8, <1>a DEF CheckpointOpen, Recovered, LoopFill, Stop, files, table, envVars
<1>9. ASSUME NEW n \in 0..Crunchers, StartThreads(n) PROVE Moves(p)
  BY <1>9, <1>a DEF StartThreads, files, table, envVars
<1>10. CASE LoopPaused \/ CheckpointZap \/ CheckpointSkip \/ ModeReqNone
  BY <1>10, <1>a DEF LoopPaused, CheckpointZap, CheckpointSkip, ModeReqNone, files, table,
                     envVars
<1>11. ASSUME NEW S \in SUBSET Packet, CheckpointPut(S) PROVE Moves(p)
  BY <1>11, <1>a DEF CheckpointPut, table, envVars
<1>12. CASE Close \/ Crash
  <2>1. prob' = [i \in Slot |-> None] /\ hand' = None /\ UNCHANGED <<in, out, sent>>
    BY <1>12 DEF Close, Crash, Apart
  <2>2. p \in gone' \union abandoned' <=> p \in gone \union abandoned \/ Held(p)
    BY <1>12, NoneAssumption DEF Close, Crash, envVars, Held, Loaded, Apart
  <2>3. Held(p) => p \notin Filed
    BY HeldApart
  <2>4. ~Held(p)'
    BY <2>1, NoneAssumption DEF Held
  <2> QED
    BY <1>h, <2>1, <2>2, <2>3, <2>4 DEF Moves, Filed
<1>13. ASSUME NEW b \in Blockcount, NEW off \in BOOLEAN, Boot(b, off) PROVE Moves(p)
  BY <1>13, <1>a DEF Boot, files, table
<1>14. ASSUME NEW i \in Slot, Crunch(i) PROVE Moves(p)
  BY <1>14, <1>a DEF Crunch, files, envVars
<1>15. CASE RaiseExitRequestTrigger \/ TogglePause \/ DelayElapses \/ UNCHANGED vars
  BY <1>15, <1>a DEF RaiseExitRequestTrigger, TogglePause, DelayElapses, vars, files,
                     table, envVars
<1> QED
  BY <1>1, <1>2, <1>3, <1>4, <1>5, <1>6, <1>7, <1>8, <1>9, <1>10, <1>11, <1>12, <1>13,
     <1>14, <1>15 DEF Next, Fill, Main

\* Across failures, crashes and restarts a packet lives as WorkLife says: a
\* result that was saved is not worked on again, and nothing sent comes back.
THEOREM LivesOfPackets == Spec => ImplementsWorkLife
<1> DEFINE lives == [p \in Packet |-> Life(p)]
<1>1. Init => Abs!Init
  <2> SUFFICES ASSUME Init PROVE lives \in [Packet -> {"new", "in", "out"}]
    BY DEF Abs!Init
  <2>1. ASSUME NEW p \in Packet PROVE Life(p) \in {"new", "in", "out"}
    BY NoneAssumption DEF Init, EmptyTable, Life, Loaded
  <2> QED
    BY <2>1
<1>2. ASSUME Types, Control, Apart, Apart', [Next]_vars PROVE [Abs!Next]_lives
  <2>1. \A p \in Packet : Moves(p)
    BY <1>2, MovesStep
  <2>2. \A p \in Packet : Life(p)' \in DOMAIN Abs!Goes
    BY GoesIs DEF Life
  <2>3. \A p \in Packet : lives'[p] # lives[p] => lives'[p] \in Abs!Goes[lives[p]]
    BY <2>1, GoesIs DEF Moves
  <2>4. lives' \in [Packet -> DOMAIN Abs!Goes]
    BY <2>2
  <2> QED
    BY <2>3, <2>4 DEF Abs!Next
<1> QED
  BY <1>1, <1>2, PlacesInv, PTL DEF Spec, ImplementsWorkLife, Abs!Spec

----------------------------------------------------------------------------
(* The checkpoint *)

\* Nothing becomes fresh again, so that the checkpoint never names a fresh
\* packet unless it is written with one.
LEMMA StaysOld ==
  ASSUME Types, Types', Apart, Apart', Control, [Next]_vars
  PROVE  Fresh' \subseteq Fresh
<1>1. ASSUME NEW p \in Packet PROVE p \in Fresh <=> Life(p) = "new"
  BY NoneAssumption DEF Fresh, Life
<1>2. ASSUME NEW p \in Packet PROVE p \in Fresh' <=> Life(p)' = "new"
  BY NoneAssumption DEF Fresh, Life
<1>3. ASSUME NEW p \in Packet PROVE Life(p)' = "new" => Life(p) = "new"
  BY MovesStep DEF Moves
<1> QED
  BY <1>1, <1>2, <1>3 DEF Fresh

LEMMA CkptStep ==
  ASSUME Types, Types', Apart, Apart', Control, CkptInv, [Next]_vars
  PROVE  CkptInv'
<1> USE DEF CkptInv, Filling, Loading
<1>f. Fresh' \subseteq Fresh
  BY StaysOld
<1>a. ASSUME UNCHANGED <<in, out, sent, ckpt, mode, changed, exiting>>,
             pc \in Filling, pc' \in Filling \union {"fillend"}
      PROVE  CkptInv'
  BY <1>a, <1>f DEF Clean
<1>1. CASE FillKeep \/ FillEmpty \/ FillLimit \/ LoadDelayed \/ LoadAgainFails
           \/ LoadBreak \/ LoadNothing
  <2>1. pc \in Filling /\ pc' \in Filling \union {"fillend"}
    BY <1>1 DEF FillKeep, FillEmpty, FillLimit, LoadDelayed, LoadAgainFails, LoadBreak,
                LoadNothing, Refill, Advance
  <2> QED
    BY <1>1, <2>1, <1>a DEF FillKeep, FillEmpty, FillLimit, LoadDelayed,
       LoadAgainFails, LoadBreak, LoadNothing, files, envVars, fillVars
<1>2. CASE FillSave
  <2>1. /\ pc \in Filling /\ pc' \in Filling \union {"fillend"}
        /\ UNCHANGED <<ckpt, mode, sent, exiting>>
        /\ changed' = TRUE \/ UNCHANGED <<in, out, changed>>
    BY <1>2 DEF FillSave, Refill, Advance
  <2> QED
    BY <2>1, <1>f DEF Clean
<1>3. ASSUME NEW q \in Packet, LoadGet(q) \/ LoadRandom(q) PROVE CkptInv'
  <2>1. /\ pc \in Filling /\ pc' \in Filling
        /\ UNCHANGED <<ckpt, mode, changed, out, sent>>
        /\ in' \subseteq in
    BY <1>3 DEF LoadGet, LoadRandom, files, fillVars
  <2> QED
    BY <2>1, <1>f DEF Clean
<1>u. ASSUME NEW S \in SUBSET Fresh, NEW T \in SUBSET out, BufferUpdate(S, T),
             ckpt' = ckpt, Clean
      PROVE  Clean'
  BY <1>u DEF BufferUpdate, Clean
<1>4. ASSUME NEW S \in SUBSET Fresh, NEW T \in SUBSET out, LoadUpdate(S, T)
      PROVE  CkptInv'
  BY <1>4, <1>f, <1>u DEF LoadUpdate, fillVars
<1>5. ASSUME NEW S \in SUBSET Fresh, NEW T \in SUBSET out, ModeReqUpdate(S, T)
      PROVE  CkptInv'
  BY <1>5, <1>f, <1>u DEF ModeReqUpdate
<1>6. CASE LoadState
  BY <1>6, <1>f DEF LoadState, Advance, files, Clean
<1>7. CASE LoadStateFails
  <2>1. /\ pc \in Filling /\ pc' \in Filling \union {"fillend"}
        /\ UNCHANGED <<in, out, sent, ckpt, mode, changed>>
    BY <1>7 DEF LoadStateFails, Advance
  <2> QED
    BY <2>1, <1>f DEF Clean
<1>8. CASE FillEndInitial \/ FillEndResize \/ FillEndLoop \/ FillEndUnload
  BY <1>8, <1>f DEF FillEndInitial, FillEndResize, FillEndLoop, Recheckpoint,
                    FillEndUnload, files, Clean, Types
<1>9. CASE CheckpointOpen
  BY <1>9, <1>f DEF CheckpointOpen, BeginFill, Clean
<1>10. CASE LoopFill \/ Stop
  BY <1>10, <1>f DEF LoopFill, Stop, BeginFill, files, Clean
<1>11. ASSUME NEW n \in 0..Crunchers, StartThreads(n) PROVE CkptInv'
  BY <1>11, <1>f DEF StartThreads, BeginFill, files, Clean
<1>12. CASE LoopPaused \/ CheckpointZap \/ CheckpointSkip \/ ModeReqNone
  BY <1>12, <1>f DEF LoopPaused, CheckpointZap, CheckpointSkip, ModeReqNone, files,
                     envVars, runVars, Clean, Types
<1>13. ASSUME NEW S \in SUBSET Packet, CheckpointPut(S) PROVE CkptInv'
  <2>1. /\ pc' = "modereq" /\ ckpt' = S
        /\ UNCHANGED <<in, out, sent, gone, abandoned, prob, hand>>
    BY <1>13 DEF CheckpointPut, table, envVars
  <2>2. \A p \in S : \E i \in Slot : prob[i] = p
    <3>1. count \in 0..Crunchers
      BY DEF Control
    <3>2. 1..count \subseteq Slot
      BY <3>1, Slots
    <3> QED
      BY <1>13, <3>2 DEF CheckpointPut
  <2>3. \A p \in S : p \notin Filed
    BY <2>2, NoneAssumption DEF Apart
  <2>4. S \intersect Fresh' = {}
    BY <2>1, <2>2, <1>f, FreshIsNew
  <2> QED
    BY <2>1, <2>3, <2>4 DEF Clean, Filed
<1>14. CASE Close \/ Crash
  BY <1>14, <1>f DEF Close, Crash
<1>15. ASSUME NEW b \in Blockcount, NEW off \in BOOLEAN, Boot(b, off) PROVE CkptInv'
  BY <1>15, <1>f DEF Boot, files
<1>16. ASSUME NEW i \in Slot, Crunch(i) PROVE CkptInv'
  BY <1>16, <1>f DEF Crunch, files, fillVars, runVars, envVars, Clean
<1>17. CASE RaiseExitRequestTrigger \/ TogglePause \/ DelayElapses \/ UNCHANGED vars
  BY <1>17, <1>f DEF RaiseExitRequestTrigger, TogglePause, DelayElapses, vars, files,
                     fillVars, runVars, envVars, Clean
<1> QED
  BY <1>1, <1>2, <1>3, <1>4, <1>5, <1>6, <1>7, <1>8, <1>9, <1>10, <1>11, <1>12, <1>13,
     <1>14, <1>15, <1>16, <1>17 DEF Next, Fill, Main

\* Whenever the main thread sleeps, the checkpoint names no packet that was put
\* into a buffer or sent: changed_flag and timeNextCheckpoint see to it.
THEOREM FreshCheckpoint == Spec => []CheckpointFresh
<1>1. Init => CkptInv
  BY DEF Init, CkptInv, Filling, Loading
<1>2. Control /\ Apart /\ Types /\ CkptInv => CheckpointFresh
  BY DEF CkptInv, CheckpointFresh, Clean
<1>3. Types /\ Control /\ Apart /\ CkptInv /\ [Next]_vars => CkptInv'
  BY TypesStep, ApartStep, CkptStep
<1> QED
  BY <1>1, <1>2, <1>3, PlacesInv, PTL DEF Spec

-----------------------------------------------------------------------------
(* What the loops look at, and what is out of their sight.                      *)

\* No packet is above the first n slots.
EmptyAbove(n) == \A i \in Slot : i > n => prob[i] = None

\* The packets above the first n slots are those the first fill has stranded.
Beyond(n) == stranded = {prob[i] : i \in n + 1 .. Crunchers} \ {None}

NoFetch == delayed \/ offline \/ blockcount < 0

\* Why a first fill that is not disturbed leaves no hole: whatever made it skip
\* a slot keeps it from loading the next ones, be it the packet limit, the delay
\* after an update that brought nothing, or that there is nothing to load.
Limited   == blockcount > 0 /\ blocksdone + loaded >= blockcount
Waiting   == delayed /\ ~RandomBlocks
Exhausted == in = {} /\ NoFetch /\ (~RandomPermitted \/ Fresh = {})

Smooth ==
  /\ exiting = FALSE /\ EmptyAbove(loaded)
  /\ pc = "norecord" => in = {} /\ NoFetch
  /\ pc = "reload" => in # {}
  /\ pc \in Filling => \/ loaded + 1 = prob_i
                       \/ Limited   /\ pc \in {"fill", "limit"}
                       \/ Waiting   /\ pc \in {"fill", "limit", "load"}
                       \/ Exhausted /\ pc \in {"fill", "limit", "load", "norecord"}

\* The first fill: nothing is stranded yet.
FirstFill ==
  /\ stranded = {}
  /\ loaded = 0 => EmptyAbove(0)
  /\ pc \in Filling => EmptyAbove(prob_i - 1)
  /\ ~disturbed => Smooth

\* The table, up to where the loops have emptied it from the top.
TableInv ==
  /\ pc \in {"down", "open"} => EmptyAbove(0)
  /\ pc = "open" => stranded = {} /\ (~disturbed => exiting = FALSE)
  /\ pc \in {"start", "loop", "checkpoint", "refresh", "modereq"} => Beyond(count)
  /\ pc = "stop" => Beyond(IF count = 0 THEN previous ELSE count)
  /\ pc \in Filling \union {"fillend"} =>
       /\ mode = "initial" => FirstFill
       /\ mode = "anychanged" => Beyond(arg) /\ (pc \in Filling => prob_i <= arg)
       /\ Unloading => pc \in {"fill", "fillend"}
       /\ Unloading /\ pc = "fill" => Beyond(prob_i)
       /\ pc = "fillend" => /\ mode = "resize" => Beyond(arg)
                            /\ mode = "unloadall" => Beyond(0)
  /\ pc = "close" => Beyond(0)

KeepInv ==
  /\ TableInv
  /\ ~disturbed => stranded = {}
  /\ pc = "down" /\ "crash" \notin Happens => ckpt = {}

\* The empty slots that the loop has counted; n is the last one it looked at.
Empties(n) == {i \in n..arg : prob[i] = None}

\* The loop has counted the empty slots that it has passed.
Counted ==
  mode = "anychanged" =>
    /\ pc = "fill" => empty = Cardinality(Empties(prob_i + 1))
    /\ pc \in Loading => empty = Cardinality(Empties(prob_i))

\* The packets that a cruncher works on, or may.
AtWork == Loaded \ stranded

\* "empty_problems" is exact, so that what is left of the table bounds the
\* packets at work, and a packet is taken only if the limit leaves room.
LimitInv ==
  /\ done \in Nat /\ blockcount \in Int
  /\ blockcount > 0 => done + Cardinality(AtWork) <= blockcount
  /\ pc = "start" /\ blockcount > 0 => done + Cardinality(Loaded) <= blockcount
  /\ pc \in Filling \union {"fillend"} =>
       /\ blocksdone \in Nat /\ blocksdone >= done
       /\ mode = "initial" => Cardinality(AtWork) <= loaded
       /\ Counted
       /\ pc \in Loading \ {"limit"} /\ blockcount > 0 =>
            done + Cardinality(AtWork) < blockcount

----------------------------------------------------------------------------
(* The three kinds of loops *)

\* What no step of a fill changes, and where it goes.
FillGoesOn ==
  /\ pc' \in Filling \union {"fillend"}
  /\ UNCHANGED <<mode, arg, previous, count, blockcount, offline, ckpt, stranded>>
  /\ disturbed => disturbed'

LEMMA FillFrame ==
  ASSUME Fill, pc \in Filling
  PROVE  FillGoesOn
<1> USE DEF Filling, Loading
<1>1. CASE FillKeep \/ FillEmpty \/ FillLimit \/ LoadDelayed \/ LoadBreak \/ LoadNothing
  <2>1. pc' \in Filling \union {"fillend"} /\ UNCHANGED <<mode, arg>>
    BY <1>1 DEF FillKeep, FillEmpty, FillLimit, LoadDelayed, LoadBreak, LoadNothing, Refill,
                Advance
  <2>2. UNCHANGED <<files, runVars, envVars>>
    BY <1>1 DEF FillKeep, FillEmpty, FillLimit, LoadDelayed, LoadBreak, LoadNothing
  <2> QED
    BY <2>1, <2>2 DEF FillGoesOn, files, runVars, envVars
<1>2. CASE FillSave \/ LoadState
  <2>1. pc' \in Filling \union {"fillend"}
    BY <1>2 DEF FillSave, LoadState, Refill, Advance
  <2>2. UNCHANGED <<mode, arg, runVars, ckpt, blockcount, offline, stranded, disturbed>>
    BY <1>2 DEF FillSave, LoadState, files, envVars
  <2> QED
    BY <2>1, <2>2 DEF FillGoesOn, runVars
<1>3. CASE LoadAgainFails \/ LoadStateFails
  <2>1. pc' \in Filling \union {"fillend"}
    BY <1>3 DEF LoadAgainFails, LoadStateFails, Advance
  <2>2. UNCHANGED <<mode, arg, runVars, ckpt, blockcount, offline, stranded>>
    BY <1>3 DEF LoadAgainFails, LoadStateFails, files, fillVars
  <2>3. disturbed => disturbed'
    BY <1>3 DEF LoadAgainFails, LoadStateFails
  <2> QED
    BY <2>1, <2>2, <2>3 DEF FillGoesOn, runVars
<1>4. ASSUME NEW p \in Packet, LoadGet(p) \/ LoadRandom(p)
      PROVE  FillGoesOn
  BY <1>4 DEF FillGoesOn, LoadGet, LoadRandom, files, fillVars, runVars, envVars
<1>5. ASSUME NEW S \in SUBSET Fresh, NEW T \in SUBSET out, LoadUpdate(S, T)
      PROVE  FillGoesOn
  BY <1>5 DEF FillGoesOn, LoadUpdate, fillVars, runVars
<1>6. ~(FillEndInitial \/ FillEndResize \/ FillEndLoop \/ FillEndUnload)
  BY DEF FillEndInitial, FillEndResize, FillEndLoop, FillEndUnload
<1> QED
  BY <1>1, <1>2, <1>3, <1>4, <1>5, <1>6 DEF Fill

\* One slot further down is empty.
LEMMA BeyondDown ==
  ASSUME NEW n \in Slot, Beyond(n), stranded' = stranded, prob'[n] = None,
         \A i \in Slot : i > n => prob'[i] = prob[i]
  PROVE  stranded' = {prob'[i] : i \in n .. Crunchers} \ {None}
<1>1. \A i \in n .. Crunchers : i = n \/ (i \in n + 1 .. Crunchers /\ i \in Slot /\ i > n)
  BY Slots
<1>2. \A i \in n + 1 .. Crunchers : i \in n .. Crunchers /\ i \in Slot /\ i > n
  BY Slots
<1> QED BY <1>1, <1>2 DEF Beyond

\* Nothing changes above the first n slots.
LEMMA BeyondKept ==
  ASSUME NEW n \in Nat, Beyond(n), stranded' = stranded,
         \A i \in Slot : i > n => prob'[i] = prob[i]
  PROVE  stranded' = {prob'[i] : i \in n + 1 .. Crunchers} \ {None}
<1>1. \A i \in n + 1 .. Crunchers : i \in Slot /\ i > n
  BY Slots
<1> QED BY <1>1 DEF Beyond

\* The table is emptied from the top, one slot in each step.
LEMMA Emptying ==
  ASSUME Types, Control, KeepInv, Fill, pc \in Filling, Unloading
  PROVE  KeepInv'
<1>1. pc = "fill" /\ Beyond(prob_i) /\ prob_i \in Slot /\ mode \in {"unloadall", "resize"}
  BY DEF KeepInv, TableInv, Control, FillInv, Unloading, Filling, Loading
<1>2. FillEmpty \/ FillSave
  BY <1>1 DEF Fill, FillKeep, FillLimit, LoadDelayed, LoadGet, LoadUpdate, LoadAgainFails,
              LoadBreak, LoadNothing, LoadRandom, LoadState, LoadStateFails, FillEndInitial,
              FillEndResize, FillEndLoop, FillEndUnload
<1>3. Advance
  BY <1>2 DEF FillEmpty, FillSave, Refill
<1>4. \A i \in Slot : prob'[i] = IF i = prob_i THEN None ELSE prob[i]
  BY <1>1, <1>2 DEF FillEmpty, FillSave, PurgeSaved, Types, files, table
<1>5. previous # 0 /\ arg \in Slot
  BY <1>1 DEF Control, FillInv, Filling
<1>6. stranded' = {prob'[i] : i \in prob_i .. Crunchers} \ {None}
  BY <1>1, <1>4, FillFrame, BeyondDown, Slots DEF FillGoesOn
<1>7. /\ UNCHANGED <<mode, arg, ckpt>> /\ pc' \in Filling \union {"fillend"}
      /\ ~disturbed' => stranded' = {}
  BY FillFrame DEF FillGoesOn, KeepInv
<1>8. CASE prob_i = LastSlot
  <2>1. pc' = "fillend" /\ LastSlot = IF mode = "resize" THEN arg + 1 ELSE 1
    BY <1>3, <1>5, <1>8 DEF Advance, LastSlot, FillUp
  <2>2. mode = "resize" => Beyond(arg)'
    BY <1>6, <1>7, <1>8, <2>1 DEF Beyond
  <2>3. mode = "unloadall" => Beyond(0)'
    BY <1>6, <1>7, <1>8, <2>1 DEF Beyond
  <2> QED
    BY <1>1, <1>7, <2>1, <2>2, <2>3 DEF KeepInv, TableInv, Unloading, Filling, Loading
<1>9. CASE prob_i # LastSlot
  <2>1. pc' = "fill" /\ prob_i' = prob_i - 1
    BY <1>3, <1>5, <1>9 DEF Advance, FillUp
  <2>2. prob_i' + 1 = prob_i
    BY <1>1, <2>1, Slots
  <2>3. Beyond(prob_i)'
    BY <1>6, <2>2 DEF Beyond
  <2> QED
    BY <1>1, <1>7, <2>1, <2>3 DEF KeepInv, TableInv, Unloading, Filling, Loading
<1> QED
  BY <1>8, <1>9

\* Refilling changes slots within the table only.
LEMMA Refilling ==
  ASSUME Types, Control, KeepInv, Fill, pc \in Filling, mode = "anychanged"
  PROVE  KeepInv'
<1> USE DEF Filling, Loading
<1>1. Beyond(arg) /\ prob_i \in Slot /\ prob_i <= arg /\ arg \in Slot /\ previous # 0
  BY DEF KeepInv, TableInv, Control, FillInv
<1>2. /\ prob_i' \in {prob_i, prob_i - 1}
      /\ \A i \in Slot : i # prob_i => prob'[i] = prob[i]
  <2>1. CASE FillKeep \/ FillEmpty \/ FillLimit \/ LoadDelayed \/ LoadAgainFails
             \/ LoadBreak \/ LoadNothing
    BY <1>1, <2>1 DEF FillKeep, FillEmpty, FillLimit, LoadDelayed, LoadAgainFails,
       LoadBreak, LoadNothing, Refill, Advance, FillUp, table, fillVars
  <2>2. CASE FillSave \/ LoadState \/ LoadStateFails
    BY <1>1, <2>2 DEF FillSave, PurgeSaved, LoadState, LoadStateFails, Refill, Advance,
       FillUp, Types
  <2>3. ASSUME NEW p \in Packet, LoadGet(p) \/ LoadRandom(p)
        PROVE  prob_i' = prob_i /\ prob' = prob
    BY <2>3 DEF LoadGet, LoadRandom, fillVars
  <2>4. ASSUME NEW S \in SUBSET Fresh, NEW T \in SUBSET out, LoadUpdate(S, T)
        PROVE  prob_i' = prob_i /\ prob' = prob
    BY <2>4 DEF LoadUpdate, fillVars, table
  <2>5. ~(FillEndInitial \/ FillEndResize \/ FillEndLoop \/ FillEndUnload)
    BY DEF FillEndInitial, FillEndResize, FillEndLoop, FillEndUnload
  <2> QED
    BY <2>1, <2>2, <2>3, <2>4, <2>5 DEF Fill
<1>3. Beyond(arg)' /\ prob_i' <= arg
  <2>1. arg \in Nat /\ (\A i \in Slot : i > arg => prob'[i] = prob[i]) /\ prob_i' <= arg
    BY <1>1, <1>2, Slots
  <2>2. stranded' = stranded /\ arg' = arg
    BY FillFrame DEF FillGoesOn
  <2>3. stranded' = {prob'[i] : i \in arg + 1 .. Crunchers} \ {None}
    BY <1>1, <2>1, <2>2, BeyondKept
  <2> QED
    BY <2>1, <2>2, <2>3 DEF Beyond
<1> QED
  BY <1>1, <1>3, FillFrame DEF FillGoesOn, KeepInv, TableInv, Unloading

\* If nothing disturbs it, the first fill loads one slot after the other until it
\* cannot load any more.
LEMMA SmoothStep ==
  ASSUME Types, Types', Control, Apart, Apart', Smooth, ~disturbed', Fill, [Next]_vars,
         pc \in Filling, mode = "initial"
  PROVE  Smooth'
<1> USE DEF Filling, Loading
<1>1. /\ prob_i \in Slot /\ loaded \in Nat /\ loaded < prob_i /\ prob[prob_i] = None
      /\ ~Unloading /\ previous = 0 /\ FillUp
  BY Slots DEF FillUp, Control, FillInv, Smooth, EmptyAbove, Unloading
<1>2. Fresh' \subseteq Fresh
  BY StaysOld
<1>3. CASE FillEmpty
  BY <1>1, <1>3 DEF FillEmpty, Refill, Smooth, EmptyAbove, files, table, runVars, envVars,
     Limited, Waiting, Exhausted, NoFetch, RandomPermitted, Fresh, Loaded
<1>4. CASE FillLimit
  <2>1. UNCHANGED <<in, exiting, prob, hand, loaded, blocksdone, blockcount, delayed,
                    offline, sent, gone, abandoned>>
    BY <1>4 DEF FillLimit, files, table, envVars
  <2>2. CASE LimitReached
    <3>1. Limited /\ pc' \in {"fill", "fillend"}
      BY <1>4, <2>2 DEF FillLimit, LimitReached, Limited, Advance
    <3> QED
      BY <2>1, <3>1 DEF Smooth, EmptyAbove, Limited
  <2>3. CASE ~LimitReached
    <3>1. ~Limited /\ pc' = "load" /\ prob_i' = prob_i
      BY <1>4, <2>3 DEF FillLimit, LimitReached, Limited
    <3>2. loaded + 1 = prob_i \/ Waiting \/ Exhausted
      BY <1>4, <3>1 DEF FillLimit, Smooth
    <3>3. Waiting' <=> Waiting
      BY <2>1 DEF Waiting
    <3>4. Exhausted' <=> Exhausted
      <4>1. Fresh' = Fresh
        BY <1>4 DEF FillLimit, Fresh, Loaded, files, table, envVars
      <4> QED
        BY <2>1, <4>1 DEF Exhausted, NoFetch, RandomPermitted
    <3> QED
      BY <2>1, <3>1, <3>2, <3>3, <3>4 DEF Smooth, EmptyAbove
  <2> QED
    BY <2>2, <2>3
<1>5. CASE LoadDelayed
  <2>1. Waiting /\ pc' \in {"fill", "fillend"}
    BY <1>5 DEF LoadDelayed, Waiting, Advance
  <2> QED
    BY <1>5, <2>1 DEF LoadDelayed, Smooth, EmptyAbove, Waiting, files, table, envVars
<1>6. ASSUME NEW p \in Packet, LoadGet(p) PROVE Smooth'
  <2>1. loaded + 1 = prob_i
    BY <1>6 DEF LoadGet, Smooth, Waiting, Exhausted
  <2> QED
    BY <1>6, <2>1 DEF LoadGet, Smooth, EmptyAbove, fillVars, envVars
<1>7. ASSUME NEW p \in Packet, LoadRandom(p) PROVE Smooth'
  <2>1. loaded + 1 = prob_i
    BY <1>7 DEF LoadRandom, Smooth, Exhausted
  <2> QED
    BY <1>7, <2>1 DEF LoadRandom, Smooth, EmptyAbove, files, fillVars, envVars
<1>8. ASSUME NEW S \in SUBSET Fresh, NEW T \in SUBSET out, LoadUpdate(S, T)
      PROVE  Smooth'
  <2>1. /\ in = {} /\ (S = {} => T = {}) /\ pc = "load" /\ ~Waiting
        /\ in' = S
        /\ UNCHANGED <<gone, abandoned, prob, hand, prob_i, loaded, exiting, offline, blockcount>>
    BY <1>1, <1>8 DEF LoadUpdate, BufferUpdate, Smooth, table, fillVars, Waiting
  <2>2. CASE S # {}
    <3>1. ~NoFetch
      BY <1>8, <2>2 DEF LoadUpdate, BufferUpdate, NoFetch
    <3>2. loaded + 1 = prob_i
      BY <2>1, <3>1 DEF Smooth, Exhausted
    <3> QED
      BY <1>8, <2>1, <2>2, <3>2 DEF LoadUpdate, Smooth, EmptyAbove
  <2>3. CASE S = {}
    <3>1. NoFetch'
      <4>1. BufferUpdate({}, {})
        BY <1>8, <2>1, <2>3 DEF LoadUpdate
      <4>2. delayed' \/ offline \/ blockcount < 0
        BY <4>1 DEF BufferUpdate
      <4> QED
        BY <2>1, <4>2 DEF NoFetch
    <3>2. Exhausted => Exhausted'
      BY <1>2, <2>1, <2>3, <3>1 DEF Exhausted, RandomPermitted
    <3> QED
      BY <1>8, <2>1, <2>3, <3>1, <3>2 DEF LoadUpdate, Smooth, EmptyAbove
  <2> QED
    BY <2>2, <2>3
<1>9. CASE LoadNothing
  <2>1. Exhausted /\ pc' \in {"fill", "fillend"}
    BY <1>9 DEF LoadNothing, Exhausted, Smooth, Advance
  <2> QED
    BY <1>2, <1>9, <2>1 DEF LoadNothing, Smooth, EmptyAbove, Exhausted, NoFetch,
       RandomPermitted, files, table, envVars
<1>10. CASE LoadState
  <2>1. loaded + 1 = prob_i /\ loaded' = prob_i
    BY <1>10 DEF LoadState, Smooth
  <2>2. \A i \in Slot : i > prob_i => prob'[i] = None
    BY <1>1, <1>10, Slots DEF LoadState, Types, Smooth, EmptyAbove
  <2>3. pc' = "fillend" \/ (pc' = "fill" /\ prob_i' = prob_i + 1)
    <3>1. Advance /\ FillUp
      BY <1>1, <1>10 DEF LoadState, FillUp
    <3> QED
      BY <3>1 DEF Advance
  <2> QED
    BY <1>10, <2>1, <2>2, <2>3 DEF LoadState, Smooth, EmptyAbove, files, envVars
<1>11. CASE LoadStateFails
  BY <1>1, <1>11 DEF LoadStateFails, Smooth, EmptyAbove
<1>12. ~(FillKeep \/ FillSave \/ LoadAgainFails \/ LoadBreak)
  BY <1>1 DEF FillKeep, FillSave, LoadAgainFails, LoadBreak, Smooth
<1>13. ~(FillEndInitial \/ FillEndResize \/ FillEndLoop \/ FillEndUnload)
  BY DEF FillEndInitial, FillEndResize, FillEndLoop, FillEndUnload
<1> QED
  BY <1>3, <1>4, <1>5, <1>6, <1>7, <1>8, <1>9, <1>10, <1>11, <1>12, <1>13 DEF Fill

\* In the first fill a slot is empty until the loop comes to it.
LEMMA FirstFillStep ==
  ASSUME Types, Types', Control, Apart, Apart', FirstFill, Fill, [Next]_vars,
         pc \in Filling, mode = "initial"
  PROVE  FirstFill'
<1>1. /\ prob_i \in Slot /\ loaded \in Nat /\ previous = 0 /\ FillUp /\ prob[prob_i] = None
      /\ \A i \in Slot : i > prob_i - 1 => prob[i] = None
  BY Slots DEF Control, FillInv, FirstFill, EmptyAbove, FillUp
<1>2. \/ /\ UNCHANGED <<prob, loaded>>
         /\ prob_i' \in {prob_i, prob_i + 1}
      \/ /\ loaded' = loaded + 1
         /\ \A i \in Slot : i # prob_i => prob'[i] = prob[i]
         /\ pc' = "fill" => prob_i' = prob_i + 1
         /\ pc' \in {"fill", "fillend"}
  <2>1. CASE FillEmpty \/ FillLimit \/ LoadDelayed \/ LoadAgainFails \/ LoadBreak
             \/ LoadNothing \/ LoadStateFails
    BY <1>1, <2>1 DEF FillEmpty, FillLimit, LoadDelayed, LoadAgainFails, LoadBreak,
       LoadNothing, LoadStateFails, Refill, Advance, table, fillVars
  <2>2. CASE LoadState
    BY <1>1, <2>2 DEF LoadState, Advance, Types
  <2>3. ASSUME NEW p \in Packet, LoadGet(p) \/ LoadRandom(p)
        PROVE  UNCHANGED <<prob, loaded, prob_i>>
    BY <2>3 DEF LoadGet, LoadRandom, fillVars
  <2>4. ASSUME NEW S \in SUBSET Fresh, NEW T \in SUBSET out, LoadUpdate(S, T)
        PROVE  UNCHANGED <<prob, loaded, prob_i>>
    BY <2>4 DEF LoadUpdate, fillVars, table
  <2>5. ~(FillKeep \/ FillSave)
    BY <1>1 DEF FillKeep, FillSave
  <2>6. ~(FillEndInitial \/ FillEndResize \/ FillEndLoop \/ FillEndUnload)
    BY DEF FillEndInitial, FillEndResize, FillEndLoop, FillEndUnload, Filling, Loading
  <2> QED
    BY <2>1, <2>2, <2>3, <2>4, <2>5, <2>6 DEF Fill
<1>3. stranded' = {} /\ (~disturbed' => ~disturbed)
  BY FillFrame DEF FillGoesOn, FirstFill
<1>4. loaded' = 0 => EmptyAbove(0)'
  BY <1>1, <1>2 DEF FirstFill, EmptyAbove
<1>5. pc' \in Filling => EmptyAbove(prob_i - 1)'
  BY <1>1, <1>2, Slots DEF EmptyAbove, Filling, Loading
<1>6. ~disturbed' => Smooth'
  BY <1>3, SmoothStep DEF FirstFill
<1> QED
  BY <1>3, <1>4, <1>5, <1>6 DEF FirstFill

----------------------------------------------------------------------------
(* Work is kept *)

LEMMA KeepInit == Init => KeepInv
BY DEF Init, EmptyTable, KeepInv, TableInv, EmptyAbove, Filling, Loading

\* Without a fill, and with the same count, nothing comes into or out of sight.
LEMMA KeepQuiet ==
  ASSUME KeepInv,
         pc \in {"start", "loop", "checkpoint", "refresh", "modereq"},
         pc' \in {"loop", "checkpoint", "refresh", "modereq"},
         UNCHANGED <<prob, count, stranded, disturbed>>
  PROVE  KeepInv'
BY DEF KeepInv, TableInv, Beyond, Filling, Loading

LEMMA KeepStep ==
  ASSUME Types, Types', Control, Apart, Apart', KeepInv, [Next]_vars
  PROVE  KeepInv'
<1> USE Slots
<1>1. ASSUME Fill, pc \in Filling PROVE KeepInv'
  <2>1. mode \in {"initial", "anychanged", "resize", "unloadall"}
    BY <1>1 DEF Control, FillInv
  <2>2. CASE mode = "initial"
    <3>1. FirstFill'
      BY <1>1, <2>2, FirstFillStep DEF KeepInv, TableInv
    <3>2. mode' = "initial" /\ pc' \in Filling \union {"fillend"}
      BY <1>1, <2>2, FillFrame DEF FillGoesOn
    <3> QED
      BY <3>1, <3>2 DEF KeepInv, TableInv, FirstFill, Unloading, Filling, Loading
  <2> QED
    BY <1>1, <2>1, <2>2, Emptying, Refilling DEF Unloading
<1>2. CASE FillEndInitial
  <2>1. /\ FirstFill /\ arg = Crunchers /\ loaded \in 0 .. Crunchers
        /\ stranded' = {prob[i] : i \in loaded + 1 .. Crunchers} \ {None}
        /\ pc' \in {"stop", "start"} /\ (loaded = 0 => pc' = "stop")
        /\ count' = loaded /\ previous' = arg
        /\ UNCHANGED <<prob, disturbed, ckpt>>
    BY <1>2 DEF FillEndInitial, KeepInv, TableInv, Control, FillInv, files, table
  <2>2. Beyond(count)'
    BY <2>1 DEF Beyond
  <2>3. CASE loaded = 0
    <3>1. stranded' = {}
      BY <2>1, <2>3 DEF FirstFill, EmptyAbove
    <3>2. Beyond(previous)'
      BY <2>1, <3>1 DEF Beyond
    <3> QED
      BY <2>1, <2>3, <3>1, <3>2 DEF KeepInv, TableInv, Filling, Loading
  <2>4. CASE loaded # 0
    <3>1. ~disturbed => stranded' = {}
      BY <2>1 DEF FirstFill, Smooth, EmptyAbove
    <3> QED
      BY <2>1, <2>2, <2>4, <3>1 DEF KeepInv, TableInv, Filling, Loading
  <2> QED
    BY <2>3, <2>4
<1>3. CASE FillEndResize \/ FillEndLoop
  <2>1. /\ Beyond(arg) /\ count = arg /\ pc' \in {"loop", "checkpoint"}
        /\ UNCHANGED <<prob, count, stranded, disturbed, ckpt>>
    BY <1>3 DEF FillEndResize, FillEndLoop, KeepInv, TableInv, Control, FillInv, files, table,
       envVars
  <2>2. Beyond(count)'
    BY <2>1 DEF Beyond
  <2> QED
    BY <2>1, <2>2 DEF KeepInv, TableInv, Filling, Loading
<1>4. CASE FillEndUnload
  BY <1>4 DEF FillEndUnload, KeepInv, TableInv, Beyond, Filling, Loading, table, envVars
<1>5. CASE CheckpointOpen
  <2>1. /\ EmptyAbove(0) /\ stranded' = {} /\ pc' = "fill" /\ mode' = "initial"
        /\ prob_i' = 1 /\ loaded' = 0
        /\ (~disturbed' => exiting' = FALSE) /\ UNCHANGED <<prob, exiting, disturbed>>
    BY <1>5 DEF CheckpointOpen, BeginFill, KeepInv, TableInv, Control, table, runVars, envVars
  <2>2. EmptyAbove(0)' /\ EmptyAbove(loaded)' /\ EmptyAbove(prob_i - 1)'
    BY <2>1 DEF EmptyAbove
  <2>3. FirstFill'
    BY <2>1, <2>2 DEF FirstFill, Smooth, Filling, Loading
  <2> QED
    BY <2>1, <2>3 DEF KeepInv, TableInv, Unloading, Filling, Loading
<1>6. ASSUME NEW n \in 0..Crunchers, StartThreads(n) PROVE KeepInv'
  <2>1. /\ Beyond(count) /\ previous = Crunchers /\ count \in Slot /\ n <= count
        /\ pc = "start" /\ UNCHANGED <<prob, disturbed, ckpt>>
        /\ count' = n /\ stranded' = IF n \in {0, count} THEN stranded ELSE {}
    BY <1>6 DEF StartThreads, KeepInv, TableInv, Control, files, table
  <2>2. CASE n = count
    BY <1>6, <2>1, <2>2, KeepQuiet DEF StartThreads
  <2>3. CASE n = 0
    <3>1. /\ pc' = "fill" /\ mode' = "unloadall" /\ prob_i' = count /\ stranded' = stranded
      BY <1>6, <2>1, <2>3 DEF StartThreads, BeginFill
    <3>2. Beyond(prob_i)'
      BY <2>1, <3>1 DEF Beyond
    <3> QED
      BY <2>1, <3>1, <3>2 DEF KeepInv, TableInv, Unloading, Filling, Loading
  <2>4. CASE n \notin {0, count}
    <3>1. /\ pc' = "fill" /\ mode' = "resize" /\ prob_i' = Crunchers /\ stranded' = {}
      BY <1>6, <2>1, <2>4 DEF StartThreads, BeginFill
    <3>2. Beyond(prob_i)'
      BY <2>1, <3>1 DEF Beyond
    <3> QED
      BY <2>1, <3>1, <3>2 DEF KeepInv, TableInv, Unloading, Filling, Loading
  <2> QED
    BY <2>2, <2>3, <2>4
<1>7. CASE LoopFill
  <2>1. /\ Beyond(count) /\ previous # 0 /\ pc' = "fill" /\ mode' = "anychanged"
        /\ arg' = count /\ prob_i' = count /\ count \in Slot
        /\ UNCHANGED <<prob, stranded, disturbed>>
    BY <1>7 DEF LoopFill, BeginFill, KeepInv, TableInv, Control, table, envVars
  <2>2. Beyond(arg)' /\ prob_i' <= arg'
    BY <2>1 DEF Beyond
  <2> QED
    BY <2>1, <2>2 DEF KeepInv, TableInv, Unloading, Filling, Loading
<1>8. CASE Stop
  <2>1. /\ Beyond(IF count = 0 THEN previous ELSE count) /\ previous # 0
        /\ pc' = "fill" /\ mode' = "unloadall"
        /\ prob_i' = IF count = 0 THEN previous ELSE count
        /\ UNCHANGED <<prob, stranded, disturbed>>
    BY <1>8 DEF Stop, BeginFill, KeepInv, TableInv, Control, table
  <2>2. Beyond(prob_i)'
    BY <2>1 DEF Beyond
  <2> QED
    BY <2>1, <2>2 DEF KeepInv, TableInv, Unloading, Filling, Loading
<1>9. CASE LoopPaused \/ CheckpointZap \/ CheckpointSkip \/ ModeReqNone
  BY <1>9, KeepQuiet DEF LoopPaused, CheckpointZap, CheckpointSkip, ModeReqNone, files, table,
     runVars, envVars
<1>10. ASSUME NEW S \in SUBSET Packet, CheckpointPut(S) PROVE KeepInv'
  BY <1>10, KeepQuiet DEF CheckpointPut, table, envVars
<1>11. ASSUME NEW S \in SUBSET Fresh, NEW T \in SUBSET out, ModeReqUpdate(S, T)
       PROVE  KeepInv'
  BY <1>11, KeepQuiet DEF ModeReqUpdate, table, runVars
<1>12. CASE Close
  BY <1>12 DEF Close, KeepInv, TableInv, EmptyAbove, Filling, Loading
<1>13. CASE Crash
  BY <1>13 DEF Crash, KeepInv, TableInv, EmptyAbove, Filling, Loading, envVars
<1>14. ASSUME NEW b \in Blockcount, NEW off \in BOOLEAN, Boot(b, off) PROVE KeepInv'
  BY <1>14 DEF Boot, KeepInv, TableInv, EmptyAbove, Filling, Loading, files, table
<1>15. ASSUME UNCHANGED <<in, out, sent, gone, abandoned, ckpt, prob, hand, pc, fillVars,
                          count, previous, blockcount, offline, exiting, delayed, stranded,
                          disturbed>>
       PROVE  KeepInv'
  BY <1>15 DEF KeepInv, TableInv, Beyond, FirstFill, Smooth, EmptyAbove, Unloading, Limited,
     Waiting, Exhausted, NoFetch, RandomPermitted, Fresh, Loaded, fillVars
<1>16. ASSUME NEW i \in Slot, Crunch(i) PROVE KeepInv'
  BY <1>15, <1>16 DEF Crunch, files, runVars, envVars
<1>17. CASE RaiseExitRequestTrigger
  <2>1. /\ UNCHANGED <<prob, pc, mode, arg, prob_i, loaded, count, previous, stranded, ckpt>>
        /\ disturbed => disturbed'
        /\ previous = 0 => disturbed'
    BY <1>17 DEF RaiseExitRequestTrigger, FillUp, files, table, fillVars, runVars
  <2>2. CASE previous = 0
    <3>1. TableInv'
      BY <2>1, <2>2 DEF KeepInv, TableInv, Beyond, FirstFill, EmptyAbove, Unloading
    <3> QED
      BY <2>1, <2>2, <3>1 DEF KeepInv
  <2>3. CASE previous # 0
    <3>1. pc # "open" /\ (pc \in Filling \union {"fillend"} => mode # "initial")
      BY <2>3 DEF Control, FillInv
    <3>2. TableInv'
      BY <2>1, <3>1 DEF KeepInv, TableInv, Beyond, EmptyAbove, Unloading
    <3> QED
      BY <2>1, <3>2 DEF KeepInv
  <2> QED
    BY <2>2, <2>3
<1>18. CASE TogglePause \/ DelayElapses
  BY <1>18, KeepQuiet DEF TogglePause, DelayElapses, table, runVars
<1>19. CASE UNCHANGED vars
  BY <1>19, <1>15 DEF vars, files, table, runVars, envVars
<1>20. ASSUME Fill, pc \notin Filling
       PROVE  FillEndInitial \/ FillEndResize \/ FillEndLoop \/ FillEndUnload
  BY <1>20 DEF Fill, FillKeep, FillEmpty, FillSave, FillLimit, LoadDelayed, LoadGet,
     LoadUpdate, LoadAgainFails, LoadBreak, LoadNothing, LoadRandom, LoadState,
     LoadStateFails, Filling, Loading
<1> QED
  BY <1>1, <1>2, <1>3, <1>4, <1>5, <1>6, <1>7, <1>8, <1>9, <1>10, <1>11, <1>12, <1>13,
     <1>14, <1>16, <1>17, <1>18, <1>19, <1>20 DEF Next, Main

\* A client that ends frees no packet but those its first fill has stranded, and
\* nothing is stranded by a first fill that went well, whatever happens later and
\* whatever happened in earlier runs.
THEOREM WorkIsKept == Spec => []ExitKeepsWork
<1>1. Init => KeepInv
  BY KeepInit
<1>2. Types /\ Control /\ Apart /\ KeepInv /\ [Next]_vars => KeepInv'
  BY TypesStep, ApartStep, KeepStep
<1>3. ASSUME KeepInv PROVE ExitKeepsWork
  <2>1. pc = "close" => Loaded \subseteq stranded
    BY <1>3, Slots DEF KeepInv, TableInv, Beyond, Loaded, Slot
  <2> QED
    BY <1>3, <2>1 DEF KeepInv, ExitKeepsWork
<1> QED
  BY <1>1, <1>2, <1>3, PlacesInv, PTL DEF Spec

----------------------------------------------------------------------------
(* The packet limit *)

LEMMA AtWorkFinite ==
  ASSUME Types
  PROVE  AtWork \subseteq Packet /\ IsFiniteSet(AtWork) /\ Cardinality(AtWork) \in Nat
<1>1. AtWork \subseteq Packet
  BY DEF AtWork, Loaded, Types
<1> QED
  BY <1>1, PacketAssumption, FS_Subset, FS_CardinalityType

LEMMA EmptiesFinite ==
  ASSUME NEW n \in Int, arg \in Slot
  PROVE  IsFiniteSet(Empties(n)) /\ Cardinality(Empties(n)) \in Nat
<1>1. IsFiniteSet(n..arg)
  BY Slots, FS_Interval
<1>2. Empties(n) \subseteq n..arg
  BY DEF Empties
<1> QED
  BY <1>1, <1>2, FS_Subset, FS_CardinalityType

\* One slot further down.
LEMMA OneMore ==
  ASSUME arg \in Slot, prob_i \in Slot, prob_i <= arg
  PROVE  Cardinality(Empties(prob_i)) =
           Cardinality(Empties(prob_i + 1)) + IF prob[prob_i] = None THEN 1 ELSE 0
<1>1. CASE prob[prob_i] = None
  <2>1. Empties(prob_i) = Empties(prob_i + 1) \union {prob_i} /\ prob_i \notin Empties(prob_i + 1)
    BY <1>1, Slots DEF Empties
  <2>2. IsFiniteSet(Empties(prob_i + 1)) /\ Cardinality(Empties(prob_i + 1)) \in Nat
    BY EmptiesFinite, Slots
  <2> QED
    BY <1>1, <2>1, <2>2, FS_AddElement
<1>2. CASE prob[prob_i] # None
  <2>1. Empties(prob_i) = Empties(prob_i + 1)
    BY <1>2, Slots DEF Empties
  <2>2. Cardinality(Empties(prob_i + 1)) \in Nat
    BY EmptiesFinite, Slots
  <2> QED
    BY <1>2, <2>1, <2>2
<1> QED
  BY <1>1, <1>2

\* The packets at work fit into the slots that are not known to be empty.
LEMMA RoomTaken ==
  ASSUME Types, Apart, arg \in Slot, prob_i \in Slot, Beyond(arg)
  PROVE  Cardinality(AtWork) <= arg - Cardinality(Empties(prob_i))
<1> DEFINE S == (1..arg) \ Empties(prob_i)
           T == {i \in 1..arg : prob[i] # None}
           f == [i \in T |-> prob[i]]
<1>1. IsFiniteSet(1..arg) /\ Cardinality(1..arg) = arg
  BY Slots, FS_Interval
<1>2. Empties(prob_i) \subseteq 1..arg
  BY Slots DEF Empties
<1>3. IsFiniteSet(S) /\ Cardinality(S) = arg - Cardinality(Empties(prob_i))
  <2>1. (1..arg) \intersect Empties(prob_i) = Empties(prob_i)
    BY <1>2
  <2>2. /\ IsFiniteSet((1..arg) \ Empties(prob_i))
        /\ Cardinality((1..arg) \ Empties(prob_i))
             = Cardinality(1..arg) - Cardinality((1..arg) \intersect Empties(prob_i))
    BY <1>1, FS_Difference, Zenon
  <2> QED
    BY <1>1, <2>1, <2>2
<1>4. T \subseteq S
  BY DEF Empties
<1>5. IsFiniteSet(T) /\ Cardinality(T) <= Cardinality(S)
  BY <1>3, <1>4, FS_Subset
<1>6. f \in Surjection(T, AtWork)
  <2>1. f \in [T -> AtWork]
    <3>1. ASSUME NEW i \in T PROVE prob[i] \in Loaded /\ prob[i] \notin stranded
      <4>1. i \in Slot /\ prob[i] # None /\ \A j \in arg + 1 .. Crunchers : j \in Slot /\ j # i
        BY <3>1, Slots
      <4> QED
        BY <4>1 DEF Loaded, Beyond, Apart
    <3> QED
      BY <3>1 DEF AtWork
  <2>2. ASSUME NEW p \in AtWork PROVE \E i \in T : f[i] = p
    <3>1. PICK i \in Slot : prob[i] = p /\ p # None /\ p \notin stranded
      BY <2>2 DEF AtWork, Loaded
    <3>2. i \in T
      BY <3>1, Slots DEF Beyond
    <3> QED
      BY <3>1, <3>2
  <2> QED
    BY <2>1, <2>2 DEF Surjection
<1>7. Cardinality(AtWork) <= Cardinality(T)
  BY <1>5, <1>6, FS_Surjection
<1>8. Cardinality(Empties(prob_i)) \in Nat /\ Cardinality(T) \in Nat /\ Cardinality(AtWork) \in Nat
  <2>1. Cardinality(Empties(prob_i)) \in Nat
    <3>1. prob_i \in Int
      BY Slots
    <3> QED
      BY <3>1, EmptiesFinite
  <2>2. Cardinality(T) \in Nat
    BY <1>5, FS_CardinalityType
  <2> QED
    BY <2>1, <2>2, AtWorkFinite
<1>9. arg \in Nat /\ Cardinality(S) \in Nat
  BY <1>3, FS_CardinalityType, Slots
<1> HIDE DEF S, T, f
<1> QED
  BY <1>3, <1>5, <1>7, <1>8, <1>9

\* What is at work changes by the slot of the step only.
LEMMA AtWorkStep ==
  ASSUME Types, Types', prob_i \in Slot, stranded' = stranded
  PROVE  /\ /\ prob[prob_i] # None /\ prob[prob_i] \notin stranded
            /\ \A j \in Slot : j # prob_i => prob[j] # prob[prob_i]
            /\ prob' = [prob EXCEPT ![prob_i] = None]
            => Cardinality(AtWork') = Cardinality(AtWork) - 1
         /\ /\ prob[prob_i] = None /\ hand # None /\ hand \notin Loaded \union stranded
            /\ prob' = [prob EXCEPT ![prob_i] = hand]
            => Cardinality(AtWork') = Cardinality(AtWork) + 1
<1>1. ASSUME prob[prob_i] # None, prob[prob_i] \notin stranded,
             \A j \in Slot : j # prob_i => prob[j] # prob[prob_i],
             prob' = [prob EXCEPT ![prob_i] = None]
      PROVE  Cardinality(AtWork') = Cardinality(AtWork) - 1
  <2>1. \A j \in Slot : prob'[j] = IF j = prob_i THEN None ELSE prob[j]
    BY <1>1 DEF Types
  <2>2. Loaded' = Loaded \ {prob[prob_i]} /\ prob[prob_i] \in Loaded
    BY <1>1, <2>1 DEF Loaded
  <2>3. AtWork' = AtWork \ {prob[prob_i]} /\ prob[prob_i] \in AtWork
    BY <1>1, <2>2 DEF AtWork
  <2> QED
    BY <2>3, AtWorkFinite, FS_RemoveElement
<1>2. ASSUME prob[prob_i] = None, hand # None, hand \notin Loaded \union stranded,
             prob' = [prob EXCEPT ![prob_i] = hand]
      PROVE  Cardinality(AtWork') = Cardinality(AtWork) + 1
  <2>1. \A j \in Slot : prob'[j] = IF j = prob_i THEN hand ELSE prob[j]
    BY <1>2 DEF Types
  <2>2. Loaded' = Loaded \union {hand}
    BY <1>2, <2>1 DEF Loaded
  <2>3. AtWork' = AtWork \union {hand} /\ hand \notin AtWork
    BY <1>2, <2>2 DEF AtWork
  <2> QED
    BY <2>3, AtWorkFinite, FS_AddElement
<1> QED
  BY <1>1, <1>2

LEMMA CountStep ==
  ASSUME Types, Types', Control, Apart, KeepInv, Counted, Fill, pc \in Filling,
         mode = "anychanged"
  PROVE  Counted'
<1> USE DEF Filling, Loading, Counted
<1>1. prob_i \in Slot /\ arg \in Slot /\ prob_i <= arg /\ previous # 0
  BY DEF KeepInv, TableInv, Control, FillInv
<1>2. arg' = arg /\ pc' \in Filling \union {"fillend"} /\ ~Unloading
  BY FillFrame DEF FillGoesOn, Unloading
<1>3. /\ Cardinality(Empties(prob_i)) =
           Cardinality(Empties(prob_i + 1)) + IF prob[prob_i] = None THEN 1 ELSE 0
      /\ Cardinality(Empties(prob_i)) \in Nat /\ Cardinality(Empties(prob_i + 1)) \in Nat
  BY <1>1, OneMore, EmptiesFinite, Slots
<1>4. ASSUME Advance PROVE pc' # "fill" \/ prob_i' + 1 = prob_i
  BY <1>1, <1>4, Slots DEF Advance, FillUp
<1>5. ASSUME prob' = prob PROVE \A n : Empties(n)' = Empties(n)
  BY <1>2, <1>5 DEF Empties
<1>6. ASSUME Advance, prob' = prob, empty' = Cardinality(Empties(prob_i)) PROVE Counted'
  BY <1>4, <1>5, <1>6 DEF Advance
<1>7. CASE FillKeep
  BY <1>3, <1>6, <1>7 DEF FillKeep, table
<1>8. CASE FillEmpty
  <2>1. pc' = "limit" /\ prob_i' = prob_i /\ prob' = prob /\ empty' = Cardinality(Empties(prob_i))
    BY <1>2, <1>3, <1>8 DEF FillEmpty, Refill, table
  <2> QED
    BY <1>5, <2>1
<1>9. CASE FillSave
  <2>1. /\ pc' = "limit" /\ prob_i' = prob_i /\ prob[prob_i] # None
        /\ empty' = Cardinality(Empties(prob_i + 1)) + 1
        /\ \A j \in Slot : prob'[j] = IF j = prob_i THEN None ELSE prob[j]
    BY <1>1, <1>2, <1>9 DEF FillSave, PurgeSaved, Refill, Types
  <2>2. Empties(prob_i)' = Empties(prob_i + 1) \union {prob_i} /\ prob_i \notin Empties(prob_i + 1)
    BY <1>1, <1>2, <2>1, Slots DEF Empties
  <2>3. Cardinality(Empties(prob_i)') = Cardinality(Empties(prob_i + 1)) + 1
    <3>1. IsFiniteSet(Empties(prob_i + 1))
      BY <1>1, EmptiesFinite, Slots
    <3> QED
      BY <2>2, <3>1, FS_AddElement
  <2> QED
    BY <2>1, <2>3
<1>10. CASE FillLimit \/ LoadDelayed \/ LoadAgainFails \/ LoadBreak \/ LoadNothing
  <2>1. prob' = prob /\ empty' = empty /\ pc \in Loading
    BY <1>10 DEF FillLimit, LoadDelayed, LoadAgainFails, LoadBreak, LoadNothing, table, fillVars
  <2>2. CASE Advance
    BY <1>6, <2>1, <2>2
  <2>3. CASE pc' \in Loading /\ prob_i' = prob_i
    BY <1>5, <2>1, <2>3
  <2> QED
    BY <1>10, <2>2, <2>3 DEF FillLimit, LoadDelayed, LoadAgainFails, LoadBreak, LoadNothing,
       fillVars
<1>11. ASSUME NEW p \in Packet, LoadGet(p) \/ LoadRandom(p) PROVE Counted'
  BY <1>5, <1>11 DEF LoadGet, LoadRandom, fillVars
<1>12. ASSUME NEW S \in SUBSET Fresh, NEW T \in SUBSET out, LoadUpdate(S, T)
       PROVE  Counted'
  BY <1>5, <1>12 DEF LoadUpdate, table, fillVars
<1>13. CASE LoadState
  <2>1. /\ prob[prob_i] = None /\ hand \in Packet /\ Advance
        /\ empty' = Cardinality(Empties(prob_i)) - 1
        /\ \A j \in Slot : prob'[j] = IF j = prob_i THEN hand ELSE prob[j]
    BY <1>1, <1>13 DEF LoadState, Types, Apart
  <2>2. {i \in prob_i..arg : prob'[i] = None} = Empties(prob_i + 1)
    BY <1>1, <1>2, <2>1, Slots, NoneAssumption DEF Empties
  <2>3. empty' = Cardinality(Empties(prob_i + 1))
    BY <1>3, <2>1
  <2>4. CASE pc' = "fill"
    <3>1. prob_i' + 1 = prob_i
      BY <1>4, <2>1, <2>4
    <3>2. Empties(prob_i + 1)' = {i \in prob_i..arg : prob'[i] = None}
      BY <1>2, <3>1 DEF Empties
    <3> QED
      BY <2>2, <2>3, <2>4, <3>2
  <2>5. CASE pc' # "fill"
    BY <2>1, <2>5 DEF Advance
  <2> QED
    BY <2>4, <2>5
<1>14. CASE LoadStateFails
  <2>1. prob' = prob /\ empty' = empty /\ pc \in Loading
    BY <1>14 DEF LoadStateFails
  <2> QED
    BY <1>5, <1>6, <1>14, <2>1 DEF LoadStateFails
<1>15. ~(FillEndInitial \/ FillEndResize \/ FillEndLoop \/ FillEndUnload)
  BY DEF FillEndInitial, FillEndResize, FillEndLoop, FillEndUnload
<1> QED
  BY <1>7, <1>8, <1>9, <1>10, <1>11, <1>12, <1>13, <1>14, <1>15 DEF Fill

LEMMA LimitInit == Init => LimitInv
<1> SUFFICES ASSUME Init PROVE LimitInv
  OBVIOUS
<1> QED
  BY DEF Init, LimitInv, Filling, Loading

\* A step that takes no packet and gives none away.
LEMMA LimitQuiet ==
  ASSUME LimitInv, UNCHANGED <<done, blockcount, prob, stranded>>,
         pc' \notin Filling \union {"fillend", "start"}
  PROVE  LimitInv'
BY DEF LimitInv, AtWork, Loaded

\* A fill begins with no slot counted.
LEMMA LimitBegin ==
  ASSUME Types, LimitInv, NEW m, NEW a \in Slot, BeginFill(m, a), previous \in Nat,
         UNCHANGED <<done, blockcount, prob, stranded>>,
         m = "initial" <=> previous = 0, m = "anychanged" => previous # 0,
         m = "initial" => EmptyAbove(0)
  PROVE  LimitInv'
<1> USE Slots
<1>1. /\ mode' = m /\ arg' = a /\ blocksdone' = done /\ loaded' = 0 /\ empty' = 0
      /\ pc' = "fill" /\ (m = "anychanged" => prob_i' = a)
  BY DEF BeginFill
<1>2. m = "initial" => Cardinality(AtWork) = 0
  <2>1. m = "initial" => AtWork = {}
    BY DEF EmptyAbove, AtWork, Loaded
  <2> QED
    BY <2>1, FS_EmptySet
<1>3. AtWork' = AtWork
  BY DEF AtWork, Loaded
<1>4. m = "anychanged" => Cardinality(Empties(prob_i + 1)') = 0
  <2>1. m = "anychanged" => Empties(prob_i + 1)' = {}
    BY <1>1 DEF Empties
  <2> QED
    BY <2>1, FS_EmptySet
<1> QED
  BY <1>1, <1>2, <1>3, <1>4 DEF LimitInv, Counted, Filling, Loading

LEMMA LimitFill ==
  ASSUME Types, Types', Control, Apart, KeepInv, LimitInv, Fill, pc \in Filling
  PROVE  LimitInv'
<1> DEFINE n == Cardinality(AtWork)
           k == Cardinality(AtWork')
<1>1. Counted'
  BY CountStep, FillFrame DEF LimitInv, Counted, FillGoesOn
<1>2. /\ prob_i \in Slot /\ arg \in Slot /\ n \in Nat /\ k \in Nat
      /\ mode \in {"initial", "anychanged", "resize", "unloadall"}
      /\ mode = "initial" => loaded \in Nat /\ FirstFill
      /\ mode = "anychanged" => Beyond(arg) /\ prob_i <= arg
      /\ Unloading <=> mode \in {"resize", "unloadall"}
      /\ Unloading => pc = "fill" /\ Beyond(prob_i)
      /\ stranded' = stranded
  <2>1. n \in Nat
    BY AtWorkFinite
  <2>2. k \in Nat
    <3>1. AtWork' \subseteq Packet
      BY DEF AtWork, Loaded, Types
    <3> QED
      BY <3>1, PacketAssumption, FS_Subset, FS_CardinalityType
  <2>3. stranded' = stranded
    BY FillFrame DEF FillGoesOn
  <2> QED
    BY <2>1, <2>2, <2>3 DEF Control, FillInv, KeepInv, TableInv, Unloading, Filling, Loading
<1>3. /\ mode' = mode /\ blockcount' = blockcount /\ pc' \in Filling \union {"fillend"}
      /\ done \in Nat /\ blockcount \in Int /\ blocksdone \in Nat /\ blocksdone >= done
      /\ blockcount > 0 => done + n <= blockcount
      /\ mode = "initial" => n <= loaded
      /\ pc \in Loading \ {"limit"} /\ blockcount > 0 => done + n < blockcount
  BY FillFrame DEF FillGoesOn, LimitInv
<1>4. ASSUME done' \in Nat, blocksdone' \in Nat, blocksdone' >= done',
             blockcount > 0 => done' + k <= blockcount,
             mode = "initial" => k <= loaded',
             pc' \in Loading \ {"limit"} /\ blockcount > 0 => done' + k < blockcount
      PROVE  LimitInv'
  BY <1>1, <1>3, <1>4 DEF LimitInv, Filling, Loading
<1>5. ASSUME UNCHANGED <<prob, done, blocksdone, loaded>>,
             pc' \in Loading \ {"limit"} => pc \in Loading \ {"limit"}
      PROVE  LimitInv'
  <2>1. k = n
    BY <1>2, <1>5 DEF AtWork, Loaded
  <2> HIDE DEF n, k
  <2> QED
    BY <1>3, <1>4, <1>5, <2>1
<1>6. CASE FillKeep \/ FillEmpty \/ LoadDelayed \/ LoadAgainFails \/ LoadBreak \/ LoadNothing
  BY <1>5, <1>6 DEF FillKeep, FillEmpty, LoadDelayed, LoadAgainFails, LoadBreak, LoadNothing,
     Refill, Advance, table, fillVars, envVars, Loading
<1>7. CASE FillSave
  <2>1. /\ pc = "fill" /\ prob[prob_i] # None /\ prob' = [prob EXCEPT ![prob_i] = None]
        /\ \A j \in Slot : j # prob_i => prob[j] # prob[prob_i]
    BY <1>2, <1>7 DEF FillSave, PurgeSaved, Apart
  <2>2. mode # "initial"
    BY <1>2, <2>1, Slots DEF FirstFill, EmptyAbove, Filling, Loading
  <2>3. prob[prob_i] \notin stranded
    <3>1. ASSUME NEW m \in Nat, prob_i <= m, Beyond(m) PROVE prob[prob_i] \notin stranded
      <4>1. \A i \in m + 1 .. Crunchers : i \in Slot /\ i # prob_i
        BY <1>2, <3>1, Slots
      <4> QED
        BY <2>1, <3>1, <4>1 DEF Beyond
    <3>2. prob_i \in Nat /\ arg \in Nat
      BY <1>2, Slots
    <3> QED
      BY <1>2, <2>2, <3>1, <3>2
  <2>4. k = n - 1
    BY <1>2, <2>1, <2>3, AtWorkStep
  <2>5. /\ pc' \notin Loading \ {"limit"} /\ loaded' = loaded
        /\ \/ done' \in {done, done + 1} /\ blocksdone' = blocksdone + 1
           \/ UNCHANGED <<done, blocksdone>>
    BY <1>7 DEF FillSave, Refill, Advance, Loading
  <2> HIDE DEF n, k
  <2> QED
    BY <1>2, <1>3, <1>4, <2>4, <2>5
<1>8. CASE FillLimit
  <2>1. UNCHANGED <<prob, done, blocksdone, loaded>> /\ pc = "limit"
    BY <1>8 DEF FillLimit, table, envVars
  <2>2. CASE LimitReached
    BY <1>5, <1>8, <2>1, <2>2 DEF FillLimit, Advance, Loading
  <2>3. CASE ~LimitReached
    <3>1. k = n
      BY <1>2, <2>1 DEF AtWork, Loaded
    <3>2. CASE mode = "initial"
      <4>1. blockcount > 0 => blocksdone + loaded < blockcount
        BY <1>2, <1>3, <2>3, <3>2 DEF LimitReached
      <4> HIDE DEF n, k
      <4> QED
        BY <1>2, <1>3, <1>4, <2>1, <3>1, <3>2, <4>1
    <3>3. CASE mode = "anychanged"
      <4>1. empty = Cardinality(Empties(prob_i))
        BY <2>1, <3>3 DEF LimitInv, Counted, Filling, Loading
      <4>2. n <= arg - empty /\ empty \in Nat /\ arg \in Nat
        BY <1>2, <3>3, <4>1, RoomTaken, EmptiesFinite, Slots
      <4>3. blockcount > 0 => blocksdone + arg - empty < blockcount
        BY <1>3, <2>3, <3>3, <4>2 DEF LimitReached
      <4> HIDE DEF n, k
      <4> QED
        BY <1>2, <1>3, <1>4, <2>1, <3>1, <3>3, <4>2, <4>3
    <3> QED
      BY <1>2, <2>1, <3>2, <3>3
  <2> QED
    BY <2>2, <2>3
<1>9. ASSUME NEW p \in Packet, LoadGet(p) \/ LoadRandom(p) PROVE LimitInv'
  BY <1>5, <1>9 DEF LoadGet, LoadRandom, fillVars, envVars, Loading
<1>10. ASSUME NEW S \in SUBSET Fresh, NEW T \in SUBSET out, LoadUpdate(S, T)
       PROVE  LimitInv'
  BY <1>5, <1>10 DEF LoadUpdate, table, fillVars, Loading
<1>11. CASE LoadState
  <2>1. /\ prob[prob_i] = None /\ hand # None /\ hand \notin Loaded
        /\ prob' = [prob EXCEPT ![prob_i] = hand]
    BY <1>11 DEF LoadState, Apart, Loading, Loaded
  <2>2. hand \notin stranded
    <3>1. CASE mode = "initial"
      BY <1>2, <3>1 DEF FirstFill
    <3>2. CASE mode = "anychanged"
      BY <1>2, <2>1, <3>2, Slots DEF Beyond, Loaded
    <3> QED
      BY <1>2, <1>11, <3>1, <3>2 DEF LoadState
  <2>3. k = n + 1
    BY <1>2, <2>1, <2>2, AtWorkStep
  <2>4. /\ pc = "loadstate" /\ pc' \notin Loading /\ loaded' = loaded + 1
        /\ UNCHANGED <<done, blocksdone>>
    BY <1>11 DEF LoadState, Advance, Loading, envVars
  <2>5. blockcount > 0 => done + n < blockcount
    BY <1>3, <2>4 DEF Loading
  <2> HIDE DEF n, k
  <2> QED
    BY <1>2, <1>3, <1>4, <2>3, <2>4, <2>5
<1>12. CASE LoadStateFails
  BY <1>5, <1>12 DEF LoadStateFails, Advance, Loading
<1>13. ~(FillEndInitial \/ FillEndResize \/ FillEndLoop \/ FillEndUnload)
  BY DEF FillEndInitial, FillEndResize, FillEndLoop, FillEndUnload, Filling, Loading
<1> QED
  BY <1>6, <1>7, <1>8, <1>9, <1>10, <1>11, <1>12, <1>13 DEF Fill

LEMMA LimitStep ==
  ASSUME Types, Types', Control, Apart, KeepInv, LimitInv, [Next]_vars
  PROVE  LimitInv'
<1>1. ASSUME Fill, pc \in Filling PROVE LimitInv'
  BY <1>1, LimitFill
<1>2. CASE FillEndResize \/ FillEndLoop \/ FillEndUnload
  BY <1>2, LimitQuiet DEF FillEndResize, FillEndLoop, FillEndUnload, table,
     envVars, Filling, Loading
<1>3. CASE FillEndInitial
  <2>1. /\ stranded = {} /\ pc' \in {"start", "stop"} /\ UNCHANGED <<prob, done, blockcount>>
        /\ pc = "fillend"
    BY <1>3 DEF FillEndInitial, KeepInv, TableInv, FirstFill, table
  <2>2. Loaded' = AtWork /\ AtWork' \subseteq AtWork
    BY <2>1 DEF AtWork, Loaded
  <2>3. /\ Cardinality(AtWork') \in Nat /\ Cardinality(AtWork) \in Nat
        /\ Cardinality(AtWork') <= Cardinality(AtWork)
    BY <2>2, AtWorkFinite, FS_Subset, FS_CardinalityType
  <2> QED
    BY <2>1, <2>2, <2>3 DEF LimitInv, Filling, Loading
<1>4. CASE CheckpointOpen
  <2>1. previous = 0 /\ EmptyAbove(0)
    BY <1>4 DEF CheckpointOpen, Control, KeepInv, TableInv
  <2> QED
    BY <1>4, <2>1, LimitBegin, Slots DEF CheckpointOpen, table, envVars
<1>5. ASSUME NEW n \in 0..Crunchers, StartThreads(n) PROVE LimitInv'
  <2>1. /\ previous = Crunchers /\ count \in Slot /\ UNCHANGED <<done, blockcount, prob>>
        /\ stranded' = IF n \in {0, count} THEN stranded ELSE {}
        /\ pc = "start"
    BY <1>5 DEF StartThreads, Control, table
  <2>2. CASE n = count
    BY <1>5, <2>1, <2>2, LimitQuiet DEF StartThreads, Filling, Loading
  <2>3. CASE n # count /\ n = 0
    BY <1>5, <2>1, <2>3, LimitBegin, Slots DEF StartThreads
  <2>4. CASE n # count /\ n # 0
    <3>1. /\ pc' = "fill" /\ mode' = "resize" /\ blocksdone' = done
      BY <1>5, <2>4 DEF StartThreads, BeginFill
    <3>2. AtWork' = Loaded
      BY <2>1, <2>4 DEF AtWork, Loaded
    <3> QED
      BY <2>1, <3>1, <3>2 DEF LimitInv, Counted, Filling, Loading
  <2> QED
    BY <2>2, <2>3, <2>4
<1>6. CASE LoopFill
  <2>1. previous \in Slot /\ count \in Slot
    BY <1>6 DEF LoopFill, Control
  <2> QED
    BY <1>6, <2>1, LimitBegin, Slots DEF LoopFill, table, envVars
<1>7. CASE Stop
  <2>1. previous \in Slot /\ (IF count = 0 THEN previous ELSE count) \in Slot
    BY <1>7, Slots DEF Stop, Control
  <2> QED
    BY <1>7, <2>1, LimitBegin, Slots DEF Stop, table
<1>8. CASE LoopPaused \/ CheckpointZap \/ CheckpointSkip \/ ModeReqNone
  BY <1>8, LimitQuiet DEF LoopPaused, CheckpointZap, CheckpointSkip, ModeReqNone, files, table,
     runVars, envVars, Filling, Loading
<1>9. ASSUME NEW S \in SUBSET Packet, CheckpointPut(S) PROVE LimitInv'
  BY <1>9, LimitQuiet DEF CheckpointPut, table, envVars, Filling, Loading
<1>10. ASSUME NEW S \in SUBSET Fresh, NEW T \in SUBSET out, ModeReqUpdate(S, T)
      PROVE  LimitInv'
  BY <1>10, LimitQuiet DEF ModeReqUpdate, table, runVars, Filling, Loading
<1>11. ASSUME prob' = [i \in Slot |-> None], pc' = "down", UNCHANGED <<done, blockcount>>
       PROVE  LimitInv'
  <2>1. Cardinality(AtWork') = 0
    <3>1. AtWork' = {}
      BY <1>11 DEF AtWork, Loaded
    <3> QED
      BY <3>1, FS_EmptySet
  <2>2. Cardinality(AtWork) \in Nat
    BY AtWorkFinite
  <2> QED
    BY <1>11, <2>1, <2>2 DEF LimitInv, Filling, Loading
<1>12. CASE Close \/ Crash
  BY <1>11, <1>12 DEF Close, Crash, envVars
<1>13. ASSUME NEW b \in Blockcount, NEW off \in BOOLEAN, Boot(b, off) PROVE LimitInv'
  <2>1. b \in Int
    BY BlocksAssumption
  <2>2. Cardinality(AtWork') = 0
    <3>1. AtWork' = {}
      BY <1>13 DEF Boot, table, AtWork, Loaded, KeepInv, TableInv, EmptyAbove, Slot
    <3> QED
      BY <3>1, FS_EmptySet
  <2> QED
    BY <1>13, <2>1, <2>2 DEF Boot, LimitInv, Filling, Loading
<1>14. ASSUME UNCHANGED <<prob, done, blockcount, pc, fillVars, stranded>> PROVE LimitInv'
  BY <1>14 DEF LimitInv, Counted, Empties, AtWork, Loaded, fillVars
<1>15. ASSUME NEW i \in Slot, Crunch(i) PROVE LimitInv'
  BY <1>14, <1>15 DEF Crunch, envVars
<1>16. CASE RaiseExitRequestTrigger \/ TogglePause \/ DelayElapses \/ UNCHANGED vars
  BY <1>14, <1>16 DEF RaiseExitRequestTrigger, TogglePause, DelayElapses, vars, table, envVars
<1>17. ASSUME Fill, pc \notin Filling
       PROVE  FillEndInitial \/ FillEndResize \/ FillEndLoop \/ FillEndUnload
  BY <1>17 DEF Fill, FillKeep, FillEmpty, FillSave, FillLimit, LoadDelayed, LoadGet,
     LoadUpdate, LoadAgainFails, LoadBreak, LoadNothing, LoadRandom, LoadState,
     LoadStateFails, Filling, Loading
<1> QED
  BY <1>1, <1>2, <1>3, <1>4, <1>5, <1>6, <1>7, <1>8, <1>9, <1>10, <1>12, <1>13, <1>15, <1>16,
     <1>17 DEF Next, Main

\* With a limit of n packets, no more than n are ever completed or at work, for
\* any number of crunchers, however many of them do not start, and whatever else
\* fails: failing gets, puts and loads, an early exit, crashes, any number of runs.
THEOREM LimitKept == Spec => []BlockLimit
<1>1. Init => KeepInv /\ LimitInv
  BY KeepInit, LimitInit
<1>2. Types /\ Control /\ Apart /\ KeepInv /\ LimitInv /\ [Next]_vars => KeepInv' /\ LimitInv'
  BY TypesStep, ApartStep, KeepStep, LimitStep
<1>3. LimitInv => BlockLimit
  BY DEF LimitInv, BlockLimit, AtWork
<1> QED
  BY <1>1, <1>2, <1>3, PlacesInv, PTL DEF Spec
=============================================================================
