--------------------------- MODULE ProblemProofs ---------------------------
(***************************************************************************)
(* Proofs about Problem, for any number of slots, projects, steps and       *)
(* loads.                                                                   *)
(***************************************************************************)
EXTENDS Problem, Integers, FiniteSetTheorems, TLAPS

(* Assigning a member keeps a structure well-formed. *)
LEMMA StatUpdate ==
  ASSUME NEW t \in Stat
  PROVE  /\ \A b \in BOOLEAN : [t EXCEPT !.initialized = b] \in Stat
         /\ \A b \in BOOLEAN : [t EXCEPT !.started = b] \in Stat
         /\ \A r \in Result : [t EXCEPT !.last_resultcode = r] \in Stat
BY DEF Stat

(* The same for the other half. *)
LEMMA WorkUpdate ==
  ASSUME NEW w \in Work
  PROVE  /\ \A b \in BOOLEAN : [w EXCEPT !.discard = b] \in Work
         /\ \A e \in 0..Steps : [w EXCEPT !.done = e] \in Work
         /\ \A c \in Contest, b \in BOOLEAN :
              [w EXCEPT !.contest = c, !.discard = b] \in Work
BY DEF Work

\* Types; that the counters do not become negative follows from what they
\* count, further down.
Types ==
  /\ lock \in [Slot -> {Free, "main", "cruncher"}]
  /\ mainWork \in [Slot -> Work] /\ mainStat \in [Slot -> Stat]
  /\ coreWork \in [Slot -> Work] /\ coreStat \in [Slot -> Stat]
  /\ tempWork \in Work /\ tempStat \in Stat
  /\ loaded_problems \in [Contest -> Int]
  /\ mpc \in MainPc /\ mslot \in Slot /\ caller \in Caller
  /\ got \in [work : Work, stat : Stat]
  /\ cpc \in [Slot -> CorePc] /\ result \in [Slot -> Result]
  /\ loads \in [Slot -> Nat]

\* Who holds the lock of a slot is told by where the two threads are.
LockInv ==
  \A s \in Slot :
    /\ lock[s] = "main" <=> mslot = s /\ mpc \in {"load_in", "load_out", "retrieve"}
    /\ lock[s] = "cruncher" <=> cpc[s] \in {"copy", "blast_work", "blast_stat"}

Loading(s) == mslot = s /\ mpc \in {"loaded", "load_out"}

\* MAIN holds the last packet of its slot; its halves agree, except while the
\* cruncher, under the lock, has copied only the first one.
MainInv ==
  \A s \in Slot :
    /\ loads[s] = mainStat[s].id + (IF Loading(s) THEN 1 ELSE 0)
    /\ Loading(s) => ~mainStat[s].initialized
    /\ mainStat[s].initialized => mainWork[s].id = mainStat[s].id
    /\ mainStat[s].initialized /\ cpc[s] # "blast_stat" =>
         Consistent(mainWork[s], mainStat[s])

\* TEMP: a copy of MAIN, then a fresh packet.
TempInv ==
  /\ mpc = "load" => tempStat.initialized = mainStat[mslot].initialized
  /\ mpc \in {"loaded", "load_out"} =>
       /\ tempStat.initialized /\ ~tempStat.started
       /\ tempStat.last_resultcode = "WORKING" /\ Consistent(tempWork, tempStat)
       /\ tempStat.id = loads[mslot]
  /\ mpc = "load_out" => mainWork[mslot] = tempWork

InCore == {"core", "failed", "sync", "blast_work", "blast_stat"}

\* What CORE has to do with MAIN as long as MAIN has not been replaced: the
\* same packet, at least as far, and MAIN still says WORKING when there is a
\* result to be copied.
CoreInv ==
  \A s \in Slot :
    /\ cpc[s] = "copy" => /\ mainStat[s].started
                          /\ coreWork[s].id = mainWork[s].id
                          /\ coreWork[s].contest = mainWork[s].contest
                          /\ coreWork[s].done = mainWork[s].done
    /\ cpc[s] \in {"blast_work", "blast_stat"} =>
         mainStat[s].initialized /\ mainStat[s].started
    /\ cpc[s] \in InCore /\ mainStat[s].initialized /\ mainStat[s].started =>
         /\ coreStat[s].initialized /\ coreStat[s].started
         /\ coreStat[s].id = mainStat[s].id /\ coreWork[s].id = mainStat[s].id
         /\ coreWork[s].contest = mainWork[s].contest
         /\ coreWork[s].done >= mainWork[s].done
         /\ cpc[s] = "core" =>
              coreStat[s].last_resultcode = mainStat[s].last_resultcode
         /\ cpc[s] \in {"sync", "blast_work", "blast_stat"} =>
              mainStat[s].last_resultcode = "WORKING"
    /\ cpc[s] = "sync" => /\ result[s] = "NOTHING" => coreWork[s].done = Steps
                          /\ result[s] = "WORKING" => coreWork[s].done < Steps
    /\ cpc[s] \in {"blast_work", "blast_stat"} =>
         Consistent(coreWork[s], coreStat[s])
    /\ cpc[s] = "blast_stat" => mainWork[s].done = coreWork[s].done

\* The record the main thread is about to save.
GotInv ==
  /\ mpc = "retrieve" =>
       /\ mainStat[mslot].initialized /\ cpc[mslot] # "blast_stat"
       /\ got.work.id = mainWork[mslot].id /\ got.work.done = mainWork[mslot].done
  /\ mpc \in {"decide", "purge"} =>
       /\ mainStat[mslot].initialized
       /\ Consistent(got.work, got.stat) /\ got.work.id = mainWork[mslot].id
       /\ got.stat.last_resultcode \in Finished =>
            /\ mainStat[mslot].last_resultcode = got.stat.last_resultcode
            /\ mainWork[mslot].done = got.work.done

IInv == Types /\ LockInv /\ MainInv /\ TempInv /\ CoreInv /\ GotInv

-----------------------------------------------------------------------------
(* The strengthening is inductive: one lemma per conjunct.   *)

\* Every step keeps the types.
LEMMA TypesStep ==
  ASSUME Types, [Next]_vars
  PROVE  Types'
<1> USE StepsAssumption, ContestAssumption DEF Types, MainPc, CorePc, Caller,
   Result, Finished, Free, vars, mainVars, coreVars, tempVars
<1>1. ASSUME NEW s \in Slot, LoadCopyWork(s) PROVE Types'
  BY <1>1 DEF LoadCopyWork, AssertLock
<1>2. ASSUME NEW s \in Slot, FlagsCheck(s) PROVE Types'
  BY <1>2 DEF FlagsCheck, Locked, ProblemIsInitialized
<1>3. ASSUME LoadCopyStat PROVE Types'
  BY <1>3 DEF LoadCopyStat, ReleaseLock
<1>4. ASSUME InternalLoadFails PROVE Types'
  BY <1>4 DEF InternalLoadFails
<1>5. ASSUME PublishWork PROVE Types'
  BY <1>5 DEF PublishWork, AssertLock
<1>6. ASSUME PublishStat PROVE Types'
  BY <1>6 DEF PublishStat, ReleaseLock
<1>7. ASSUME NEW c \in Contest, NEW d \in 0..(Steps - 1),
             InternalLoadState(c, d)
      PROVE  Types'
  <2>1. loads[mslot] + 1 \in Nat /\ d \in 0..Steps
    OBVIOUS
  <2>2. tempWork' \in Work /\ tempStat' \in Stat
    BY <2>1, <1>7 DEF InternalLoadState, Work, Stat
  <2>3. QED
    BY <2>2, <1>7 DEF InternalLoadState
<1>8. ASSUME NEW s \in Slot, NEW why \in Caller, RetrieveWork(s, why)
      PROVE  Types'
  BY <1>8 DEF RetrieveWork, AssertLock, ProblemIsInitialized
<1>9. ASSUME RetrieveStat PROVE Types'
  BY <1>9 DEF RetrieveStat, ReleaseLock
<1>10. ASSUME DecideKeep PROVE Types'
  BY <1>10 DEF DecideKeep, UnloadNeeded
<1>11. ASSUME DecideUnload PROVE Types'
  BY <1>11 DEF DecideUnload, UnloadNeeded
<1>12. ASSUME Purge PROVE Types'
  <2>1. [mainStat[mslot] EXCEPT !.initialized = FALSE] \in Stat
    BY StatUpdate, Zenon DEF Types
  <2>2. mainStat' \in [Slot -> Stat]
    BY <2>1, <1>12 DEF Purge
  <2>3. loaded_problems' \in [Contest -> Int]
    BY <1>12 DEF Purge, Work
  <2>4. QED
    BY <2>2, <2>3, <1>12 DEF Purge, Locked
<1>13. ASSUME FlagsWrite PROVE Types'
  <2>1. [mainWork[mslot] EXCEPT !.discard = TRUE] \in Work
    BY WorkUpdate, Zenon DEF Types
  <2>2. mainWork' \in [Slot -> Work]
    BY <2>1, <1>13 DEF FlagsWrite
  <2>3. QED
    BY <2>2, <1>13 DEF FlagsWrite
<1>14. ASSUME NEW s \in Slot, GoMtIdle(s) PROVE Types'
  BY <1>14 DEF GoMtIdle, Locked, ProblemIsInitialized
<1>15. ASSUME NEW s \in Slot, GoMt(s) PROVE Types'
  BY <1>15 DEF GoMt, Crunch, Locked, ProblemIsInitialized
<1>16. ASSUME NEW s \in Slot, RunCheck(s) PROVE Types'
  BY <1>16 DEF RunCheck, Crunch, ProblemIsInitialized
<1>17. ASSUME NEW s \in Slot, RunStart(s) PROVE Types'
  <2>1. [mainStat[s] EXCEPT !.started = TRUE] \in Stat
    BY StatUpdate, Zenon DEF Types
  <2>2. mainStat' \in [Slot -> Stat]
    BY <2>1, <1>17 DEF RunStart
  <2>3. QED
    BY <2>2, <1>17 DEF RunStart, Crunch, AssertLock
<1>18. ASSUME NEW s \in Slot, RunCopy(s) PROVE Types'
  BY <1>18 DEF RunCopy, Crunch, ReleaseLock
<1>19. ASSUME NEW s \in Slot, RunFinished(s) PROVE Types'
  BY <1>19 DEF RunFinished, Crunch
<1>20. ASSUME NEW s \in Slot, NEW e \in 0..Steps, NEW r \in Result,
             RunCore(s, e, r)
      PROVE  Types'
  <2>1. [coreWork[s] EXCEPT !.done = e] \in Work
    BY WorkUpdate, Zenon DEF Types
  <2>2. coreWork' \in [Slot -> Work]
    BY <2>1, <1>20 DEF RunCore
  <2>3. QED
    BY <2>2, <1>20 DEF RunCore, Crunch
<1>21. ASSUME NEW s \in Slot, RunError(s) PROVE Types'
  BY <1>21 DEF RunError, Crunch
<1>22. ASSUME NEW s \in Slot, RunReturn(s) PROVE Types'
  BY <1>22 DEF RunReturn, Crunch
<1>23. ASSUME NEW s \in Slot, RunDiscard(s) PROVE Types'
  BY <1>23 DEF RunDiscard, Crunch, Locked, RunStale
<1>24. ASSUME NEW s \in Slot, RunSync(s) PROVE Types'
  <2>1. mainWork[s] \in Work /\ coreWork[s] \in Work
    OBVIOUS
  <2>2. mainWork[s].contest \in Contest /\ mainWork[s].discard \in BOOLEAN
    BY <2>1 DEF Work
  <2>3. [coreWork[s] EXCEPT !.contest = mainWork[s].contest,
                            !.discard = mainWork[s].discard] \in Work
    BY <2>1, <2>2, WorkUpdate, Zenon
  <2>4. coreWork' \in [Slot -> Work]
    BY <2>3, <1>24 DEF RunSync
  <2>5. [coreStat[s] EXCEPT !.last_resultcode = result[s]] \in Stat
    BY StatUpdate, Zenon DEF Types
  <2>6. coreStat' \in [Slot -> Stat]
    BY <2>5, <1>24 DEF RunSync
  <2>7. QED
    BY <2>4, <2>6, <1>24 DEF RunSync, Crunch, AssertLock
<1>25. ASSUME NEW s \in Slot, RunBlastWork(s) PROVE Types'
  BY <1>25 DEF RunBlastWork, Crunch
<1>26. ASSUME NEW s \in Slot, RunBlastStat(s) PROVE Types'
  BY <1>26 DEF RunBlastStat, Crunch, ReleaseLock
<1>27. CASE UNCHANGED vars
  BY <1>27
<1>28. QED
  BY <1>1, <1>2, <1>3, <1>4, <1>5, <1>6, <1>7, <1>8, <1>9, <1>10, <1>11,
     <1>12, <1>13, <1>14, <1>15, <1>16, <1>17, <1>18, <1>19, <1>20, <1>21,
     <1>22, <1>23, <1>24, <1>25, <1>26, <1>27 DEF Next, MainStep,
     CruncherStep, RunCoreStep

\* The lock of a slot is where the two threads are: AssertLock() excludes.
LEMMA LockStep ==
  ASSUME Types, LockInv, [Next]_vars
  PROVE  LockInv'
<1> USE StepsAssumption, ContestAssumption DEF LockInv, Types, MainPc, CorePc,
   Free, vars, mainVars, coreVars, tempVars
<1>1. ASSUME NEW s \in Slot, LoadCopyWork(s) PROVE LockInv'
  BY <1>1 DEF LoadCopyWork, AssertLock
<1>2. ASSUME NEW s \in Slot, FlagsCheck(s) PROVE LockInv'
  BY <1>2 DEF FlagsCheck, Locked, ProblemIsInitialized
<1>3. ASSUME LoadCopyStat PROVE LockInv'
  BY <1>3 DEF LoadCopyStat, ReleaseLock
<1>4. ASSUME InternalLoadFails PROVE LockInv'
  BY <1>4 DEF InternalLoadFails
<1>5. ASSUME PublishWork PROVE LockInv'
  BY <1>5 DEF PublishWork, AssertLock
<1>6. ASSUME PublishStat PROVE LockInv'
  BY <1>6 DEF PublishStat, ReleaseLock
<1>7. ASSUME NEW c \in Contest, NEW d \in 0..(Steps - 1),
             InternalLoadState(c, d)
      PROVE  LockInv'
  BY <1>7 DEF InternalLoadState
<1>8. ASSUME NEW s \in Slot, NEW why \in Caller, RetrieveWork(s, why)
      PROVE  LockInv'
  BY <1>8 DEF RetrieveWork, AssertLock, ProblemIsInitialized
<1>9. ASSUME RetrieveStat PROVE LockInv'
  BY <1>9 DEF RetrieveStat, ReleaseLock
<1>10. ASSUME DecideKeep PROVE LockInv'
  BY <1>10 DEF DecideKeep, UnloadNeeded
<1>11. ASSUME DecideUnload PROVE LockInv'
  BY <1>11 DEF DecideUnload, UnloadNeeded
<1>12. ASSUME Purge PROVE LockInv'
  BY <1>12 DEF Purge, Locked
<1>13. ASSUME FlagsWrite PROVE LockInv'
  BY <1>13 DEF FlagsWrite
<1>14. ASSUME NEW s \in Slot, GoMtIdle(s) PROVE LockInv'
  BY <1>14 DEF GoMtIdle, Locked, ProblemIsInitialized
<1>15. ASSUME NEW s \in Slot, GoMt(s) PROVE LockInv'
  BY <1>15 DEF GoMt, Crunch, Locked, ProblemIsInitialized
<1>16. ASSUME NEW s \in Slot, RunCheck(s) PROVE LockInv'
  BY <1>16 DEF RunCheck, Crunch, ProblemIsInitialized
<1>17. ASSUME NEW s \in Slot, RunStart(s) PROVE LockInv'
  BY <1>17 DEF RunStart, Crunch, AssertLock
<1>18. ASSUME NEW s \in Slot, RunCopy(s) PROVE LockInv'
  BY <1>18 DEF RunCopy, Crunch, ReleaseLock
<1>19. ASSUME NEW s \in Slot, RunFinished(s) PROVE LockInv'
  BY <1>19 DEF RunFinished, Crunch
<1>20. ASSUME NEW s \in Slot, NEW e \in 0..Steps, NEW r \in Result,
             RunCore(s, e, r)
      PROVE  LockInv'
  BY <1>20 DEF RunCore, Crunch, RunOutcome
<1>21. ASSUME NEW s \in Slot, RunError(s) PROVE LockInv'
  BY <1>21 DEF RunError, Crunch
<1>22. ASSUME NEW s \in Slot, RunReturn(s) PROVE LockInv'
  BY <1>22 DEF RunReturn, Crunch
<1>23. ASSUME NEW s \in Slot, RunDiscard(s) PROVE LockInv'
  BY <1>23 DEF RunDiscard, Crunch, Locked, RunStale
<1>24. ASSUME NEW s \in Slot, RunSync(s) PROVE LockInv'
  BY <1>24 DEF RunSync, Crunch, AssertLock, RunStale
<1>25. ASSUME NEW s \in Slot, RunBlastWork(s) PROVE LockInv'
  BY <1>25 DEF RunBlastWork, Crunch
<1>26. ASSUME NEW s \in Slot, RunBlastStat(s) PROVE LockInv'
  BY <1>26 DEF RunBlastStat, Crunch, ReleaseLock
<1>27. CASE UNCHANGED vars
  BY <1>27
<1>28. QED
  BY <1>1, <1>2, <1>3, <1>4, <1>5, <1>6, <1>7, <1>8, <1>9, <1>10, <1>11,
     <1>12, <1>13, <1>14, <1>15, <1>16, <1>17, <1>18, <1>19, <1>20, <1>21,
     <1>22, <1>23, <1>24, <1>25, <1>26, <1>27 DEF Next, MainStep,
     CruncherStep, RunCoreStep

\* MAIN stays one packet, whichever of the two threads writes it.
LEMMA MainInvStep ==
  ASSUME Types, LockInv, MainInv, TempInv, CoreInv, GotInv, [Next]_vars
  PROVE  MainInv'
<1> USE StepsAssumption, ContestAssumption DEF Types, Work, Stat, MainInv,
   Loading, vars, mainVars, coreVars, tempVars
<1>1. ASSUME NEW s \in Slot, LoadCopyWork(s) PROVE MainInv'
  BY <1>1 DEF LoadCopyWork, AssertLock
<1>2. ASSUME NEW s \in Slot, FlagsCheck(s) PROVE MainInv'
  BY <1>2 DEF FlagsCheck, Locked, ProblemIsInitialized
<1>3. ASSUME LoadCopyStat PROVE MainInv'
  BY <1>3 DEF LoadCopyStat, ReleaseLock
<1>4. ASSUME InternalLoadFails PROVE MainInv'
  BY <1>4 DEF InternalLoadFails
<1>5. ASSUME PublishWork PROVE MainInv'
  BY <1>5 DEF PublishWork, AssertLock
<1>6. ASSUME PublishStat PROVE MainInv'
  BY <1>6 DEF PublishStat, ReleaseLock, TempInv, Consistent
<1>7. ASSUME NEW c \in Contest, NEW d \in 0..(Steps - 1),
             InternalLoadState(c, d)
      PROVE  MainInv'
  BY <1>7 DEF InternalLoadState, TempInv
<1>8. ASSUME NEW s \in Slot, NEW why \in Caller, RetrieveWork(s, why)
      PROVE  MainInv'
  BY <1>8 DEF RetrieveWork, AssertLock, ProblemIsInitialized
<1>9. ASSUME RetrieveStat PROVE MainInv'
  BY <1>9 DEF RetrieveStat, ReleaseLock
<1>10. ASSUME DecideKeep PROVE MainInv'
  BY <1>10 DEF DecideKeep, UnloadNeeded
<1>11. ASSUME DecideUnload PROVE MainInv'
  BY <1>11 DEF DecideUnload, UnloadNeeded
<1>12. ASSUME Purge PROVE MainInv'
  BY <1>12 DEF Purge, Locked
<1>13. ASSUME FlagsWrite PROVE MainInv'
  BY <1>13 DEF FlagsWrite, Consistent
<1>14. ASSUME NEW s \in Slot, GoMtIdle(s) PROVE MainInv'
  BY <1>14 DEF GoMtIdle, Locked, ProblemIsInitialized
<1>15. ASSUME NEW s \in Slot, GoMt(s) PROVE MainInv'
  BY <1>15 DEF GoMt, Crunch, Locked, ProblemIsInitialized
<1>16. ASSUME NEW s \in Slot, RunCheck(s) PROVE MainInv'
  BY <1>16 DEF RunCheck, Crunch, ProblemIsInitialized
<1>17. ASSUME NEW s \in Slot, RunStart(s) PROVE MainInv'
  BY <1>17 DEF RunStart, Crunch, AssertLock, Consistent
<1>18. ASSUME NEW s \in Slot, RunCopy(s) PROVE MainInv'
  BY <1>18 DEF RunCopy, Crunch, ReleaseLock
<1>19. ASSUME NEW s \in Slot, RunFinished(s) PROVE MainInv'
  BY <1>19 DEF RunFinished, Crunch
<1>20. ASSUME NEW s \in Slot, NEW e \in 0..Steps, NEW r \in Result,
             RunCore(s, e, r)
      PROVE  MainInv'
  BY <1>20 DEF RunCore, Crunch, RunOutcome
<1>21. ASSUME NEW s \in Slot, RunError(s) PROVE MainInv'
  BY <1>21 DEF RunError, Crunch
<1>22. ASSUME NEW s \in Slot, RunReturn(s) PROVE MainInv'
  BY <1>22 DEF RunReturn, Crunch
<1>23. ASSUME NEW s \in Slot, RunDiscard(s) PROVE MainInv'
  BY <1>23 DEF RunDiscard, Crunch, Locked, RunStale
<1>24. ASSUME NEW s \in Slot, RunSync(s) PROVE MainInv'
  BY <1>24 DEF RunSync, Crunch, AssertLock, RunStale
<1>25. ASSUME NEW s \in Slot, RunBlastWork(s) PROVE MainInv'
  BY <1>25 DEF RunBlastWork, Crunch, CoreInv, InCore
<1>26. ASSUME NEW s \in Slot, RunBlastStat(s) PROVE MainInv'
  BY <1>26 DEF RunBlastStat, Crunch, ReleaseLock, CoreInv, InCore, Consistent
<1>27. CASE UNCHANGED vars
  BY <1>27
<1>28. QED
  BY <1>1, <1>2, <1>3, <1>4, <1>5, <1>6, <1>7, <1>8, <1>9, <1>10, <1>11,
     <1>12, <1>13, <1>14, <1>15, <1>16, <1>17, <1>18, <1>19, <1>20, <1>21,
     <1>22, <1>23, <1>24, <1>25, <1>26, <1>27 DEF Next, MainStep,
     CruncherStep, RunCoreStep

\* TEMP stays what ProblemLoadState() believes it to be.
LEMMA TempStep ==
  ASSUME Types, LockInv, MainInv, TempInv, CoreInv, GotInv, [Next]_vars
  PROVE  TempInv'
<1> USE StepsAssumption, ContestAssumption DEF Types, Work, Stat, TempInv,
   Loading, vars, mainVars, coreVars, tempVars
<1>1. ASSUME NEW s \in Slot, LoadCopyWork(s)
      PROVE  TempInv'
  BY <1>1 DEF LoadCopyWork, AssertLock
<1>2. ASSUME NEW s \in Slot, FlagsCheck(s)
      PROVE  TempInv'
  BY <1>2 DEF FlagsCheck, Locked, ProblemIsInitialized
<1>3. ASSUME LoadCopyStat
      PROVE  TempInv'
  BY <1>3 DEF LoadCopyStat, ReleaseLock
<1>4. ASSUME InternalLoadFails
      PROVE  TempInv'
  BY <1>4 DEF InternalLoadFails
<1>5. ASSUME PublishWork
      PROVE  TempInv'
  BY <1>5 DEF PublishWork, AssertLock
<1>6. ASSUME PublishStat
      PROVE  TempInv'
  BY <1>6 DEF PublishStat, ReleaseLock
<1>7. ASSUME NEW c \in Contest, NEW d \in 0..(Steps - 1),
             InternalLoadState(c, d)
      PROVE  TempInv'
  BY <1>7 DEF InternalLoadState, Consistent
<1>8. ASSUME NEW s \in Slot, NEW why \in Caller, RetrieveWork(s, why)
      PROVE  TempInv'
  BY <1>8 DEF RetrieveWork, AssertLock, ProblemIsInitialized
<1>9. ASSUME RetrieveStat
      PROVE  TempInv'
  BY <1>9 DEF RetrieveStat, ReleaseLock
<1>10. ASSUME DecideKeep
      PROVE  TempInv'
  BY <1>10 DEF DecideKeep, UnloadNeeded
<1>11. ASSUME DecideUnload
      PROVE  TempInv'
  BY <1>11 DEF DecideUnload, UnloadNeeded
<1>12. ASSUME Purge
      PROVE  TempInv'
  BY <1>12 DEF Purge, Locked
<1>13. ASSUME FlagsWrite
      PROVE  TempInv'
  BY <1>13 DEF FlagsWrite
<1>14. ASSUME NEW s \in Slot, GoMtIdle(s)
      PROVE  TempInv'
  BY <1>14 DEF GoMtIdle, Locked, ProblemIsInitialized
<1>15. ASSUME NEW s \in Slot, GoMt(s)
      PROVE  TempInv'
  BY <1>15 DEF GoMt, Crunch, Locked, ProblemIsInitialized
<1>16. ASSUME NEW s \in Slot, RunCheck(s)
      PROVE  TempInv'
  BY <1>16 DEF RunCheck, Crunch, ProblemIsInitialized
<1>17. ASSUME NEW s \in Slot, RunStart(s)
      PROVE  TempInv'
  BY <1>17 DEF RunStart, Crunch, AssertLock
<1>18. ASSUME NEW s \in Slot, RunCopy(s)
      PROVE  TempInv'
  BY <1>18 DEF RunCopy, Crunch, ReleaseLock
<1>19. ASSUME NEW s \in Slot, RunFinished(s)
      PROVE  TempInv'
  BY <1>19 DEF RunFinished, Crunch
<1>20. ASSUME NEW s \in Slot, NEW e \in 0..Steps, NEW r \in Result,
             RunCore(s, e, r)
      PROVE  TempInv'
  BY <1>20 DEF RunCore, Crunch, RunOutcome
<1>21. ASSUME NEW s \in Slot, RunError(s)
      PROVE  TempInv'
  BY <1>21 DEF RunError, Crunch
<1>22. ASSUME NEW s \in Slot, RunReturn(s)
      PROVE  TempInv'
  BY <1>22 DEF RunReturn, Crunch
<1>23. ASSUME NEW s \in Slot, RunDiscard(s)
      PROVE  TempInv'
  BY <1>23 DEF RunDiscard, Crunch, Locked, RunStale
<1>24. ASSUME NEW s \in Slot, RunSync(s)
      PROVE  TempInv'
  BY <1>24 DEF RunSync, Crunch, AssertLock, RunStale
<1>25. ASSUME NEW s \in Slot, RunBlastWork(s)
      PROVE  TempInv'
  BY <1>25 DEF RunBlastWork, Crunch, MainInv, CoreInv
<1>26. ASSUME NEW s \in Slot, RunBlastStat(s)
      PROVE  TempInv'
  BY <1>26 DEF RunBlastStat, Crunch, ReleaseLock, CoreInv, InCore
<1>27. CASE UNCHANGED vars
  BY <1>27
<1>28. QED
  BY <1>1, <1>2, <1>3, <1>4, <1>5, <1>6, <1>7, <1>8, <1>9, <1>10, <1>11,
     <1>12, <1>13, <1>14, <1>15, <1>16, <1>17, <1>18, <1>19, <1>20, <1>21,
     <1>22, <1>23, <1>24, <1>25, <1>26, <1>27 DEF Next, MainStep,
     CruncherStep, RunCoreStep

\* A cruncher whose packet was purged and replaced finds "started" cleared; one
\* whose packet was not is ahead of MAIN.
LEMMA CoreStep ==
  ASSUME Types, LockInv, MainInv, TempInv, CoreInv, GotInv, [Next]_vars
  PROVE  CoreInv'
<1> USE StepsAssumption, ContestAssumption DEF Types, Work, Stat, CoreInv,
   InCore, vars, mainVars, coreVars, tempVars
<1>1. ASSUME NEW s \in Slot, LoadCopyWork(s)
      PROVE  CoreInv'
  BY <1>1 DEF LoadCopyWork, AssertLock
<1>2. ASSUME NEW s \in Slot, FlagsCheck(s)
      PROVE  CoreInv'
  BY <1>2 DEF FlagsCheck, Locked, ProblemIsInitialized
<1>3. ASSUME LoadCopyStat
      PROVE  CoreInv'
  BY <1>3 DEF LoadCopyStat, ReleaseLock
<1>4. ASSUME InternalLoadFails
      PROVE  CoreInv'
  BY <1>4 DEF InternalLoadFails
<1>5. ASSUME PublishWork
      PROVE  CoreInv'
  <2> SUFFICES ASSUME NEW t \in Slot PROVE CoreInv!(t)'
    BY DEF CoreInv
  <2>1. CASE t = mslot
    BY <2>1, <1>5 DEF PublishWork, AssertLock, LockInv, MainInv, Loading, Free
  <2>2. CASE t # mslot
    BY <2>2, <1>5 DEF PublishWork
  <2>3. QED
    BY <2>1, <2>2
<1>6. ASSUME PublishStat
      PROVE  CoreInv'
  BY <1>6 DEF PublishStat, ReleaseLock, LockInv, TempInv
<1>7. ASSUME NEW c \in Contest, NEW d \in 0..(Steps - 1),
             InternalLoadState(c, d)
      PROVE  CoreInv'
  BY <1>7 DEF InternalLoadState
<1>8. ASSUME NEW s \in Slot, NEW why \in Caller, RetrieveWork(s, why)
      PROVE  CoreInv'
  BY <1>8 DEF RetrieveWork, AssertLock, ProblemIsInitialized
<1>9. ASSUME RetrieveStat
      PROVE  CoreInv'
  BY <1>9 DEF RetrieveStat, ReleaseLock
<1>10. ASSUME DecideKeep
      PROVE  CoreInv'
  BY <1>10 DEF DecideKeep, UnloadNeeded
<1>11. ASSUME DecideUnload
      PROVE  CoreInv'
  BY <1>11 DEF DecideUnload, UnloadNeeded
<1>12. ASSUME Purge
      PROVE  CoreInv'
  <2> SUFFICES ASSUME NEW t \in Slot PROVE CoreInv!(t)'
    BY DEF CoreInv
  <2>1. CASE t = mslot
    BY <2>1, <1>12 DEF Purge, Locked, LockInv, MainInv, Loading, Free
  <2>2. CASE t # mslot
    BY <2>2, <1>12 DEF Purge
  <2>3. QED
    BY <2>1, <2>2
<1>13. ASSUME FlagsWrite
      PROVE  CoreInv'
  BY <1>13 DEF FlagsWrite
<1>14. ASSUME NEW s \in Slot, GoMtIdle(s)
      PROVE  CoreInv'
  BY <1>14 DEF GoMtIdle, Locked, ProblemIsInitialized
<1>15. ASSUME NEW s \in Slot, GoMt(s)
      PROVE  CoreInv'
  BY <1>15 DEF GoMt, Crunch, Locked, ProblemIsInitialized
<1>16. ASSUME NEW s \in Slot, RunCheck(s)
      PROVE  CoreInv'
  BY <1>16 DEF RunCheck, Crunch, ProblemIsInitialized
<1>17. ASSUME NEW s \in Slot, RunStart(s)
      PROVE  CoreInv'
  BY <1>17 DEF RunStart, Crunch, AssertLock
<1>18. ASSUME NEW s \in Slot, RunCopy(s)
      PROVE  CoreInv'
  BY <1>18 DEF RunCopy, Crunch, ReleaseLock, MainInv
<1>19. ASSUME NEW s \in Slot, RunFinished(s)
      PROVE  CoreInv'
  BY <1>19 DEF RunFinished, Crunch
<1>20. ASSUME NEW s \in Slot, NEW e \in 0..Steps, NEW r \in Result,
             RunCore(s, e, r)
      PROVE  CoreInv'
  BY <1>20, SMTT(30) DEF RunCore, Crunch, RunOutcome
<1>21. ASSUME NEW s \in Slot, RunError(s)
      PROVE  CoreInv'
  BY <1>21 DEF RunError, Crunch
<1>22. ASSUME NEW s \in Slot, RunReturn(s)
      PROVE  CoreInv'
  BY <1>22 DEF RunReturn, Crunch
<1>23. ASSUME NEW s \in Slot, RunDiscard(s)
      PROVE  CoreInv'
  BY <1>23 DEF RunDiscard, Crunch, Locked, RunStale
<1>24. ASSUME NEW s \in Slot, RunSync(s)
      PROVE  CoreInv'
  BY <1>24 DEF RunSync, Crunch, AssertLock, RunStale, Consistent
<1>25. ASSUME NEW s \in Slot, RunBlastWork(s)
      PROVE  CoreInv'
  BY <1>25 DEF RunBlastWork, Crunch
<1>26. ASSUME NEW s \in Slot, RunBlastStat(s)
      PROVE  CoreInv'
  BY <1>26 DEF RunBlastStat, Crunch, ReleaseLock
<1>27. CASE UNCHANGED vars
  BY <1>27
<1>28. QED
  BY <1>1, <1>2, <1>3, <1>4, <1>5, <1>6, <1>7, <1>8, <1>9, <1>10, <1>11,
     <1>12, <1>13, <1>14, <1>15, <1>16, <1>17, <1>18, <1>19, <1>20, <1>21,
     <1>22, <1>23, <1>24, <1>25, <1>26, <1>27 DEF Next, MainStep,
     CruncherStep, RunCoreStep

\* What was retrieved stays true of MAIN until the purge.
LEMMA GotStep ==
  ASSUME Types, LockInv, MainInv, TempInv, CoreInv, GotInv, [Next]_vars
  PROVE  GotInv'
<1> USE StepsAssumption, ContestAssumption DEF Types, Work, Stat, GotInv,
   Finished, vars, mainVars, coreVars, tempVars
<1>1. ASSUME NEW s \in Slot, LoadCopyWork(s)
      PROVE  GotInv'
  BY <1>1 DEF LoadCopyWork, AssertLock
<1>2. ASSUME NEW s \in Slot, FlagsCheck(s)
      PROVE  GotInv'
  BY <1>2 DEF FlagsCheck, Locked, ProblemIsInitialized
<1>3. ASSUME LoadCopyStat
      PROVE  GotInv'
  BY <1>3 DEF LoadCopyStat, ReleaseLock
<1>4. ASSUME InternalLoadFails
      PROVE  GotInv'
  BY <1>4 DEF InternalLoadFails
<1>5. ASSUME PublishWork
      PROVE  GotInv'
  BY <1>5 DEF PublishWork, AssertLock
<1>6. ASSUME PublishStat
      PROVE  GotInv'
  BY <1>6 DEF PublishStat, ReleaseLock
<1>7. ASSUME NEW c \in Contest, NEW d \in 0..(Steps - 1),
             InternalLoadState(c, d)
      PROVE  GotInv'
  BY <1>7 DEF InternalLoadState
<1>8. ASSUME NEW s \in Slot, NEW why \in Caller, RetrieveWork(s, why)
      PROVE  GotInv'
  <2>1. mpc' = "retrieve" /\ mslot' = s /\ got'.work = mainWork[s]
    BY <1>8 DEF RetrieveWork
  <2>2. cpc[s] # "blast_stat"
    BY <1>8 DEF RetrieveWork, AssertLock, LockInv, Free
  <2>3. QED
    BY <2>1, <2>2, <1>8 DEF RetrieveWork, ProblemIsInitialized
<1>9. ASSUME RetrieveStat
      PROVE  GotInv'
  BY <1>9 DEF RetrieveStat, ReleaseLock, MainInv, Consistent
<1>10. ASSUME DecideKeep
      PROVE  GotInv'
  BY <1>10 DEF DecideKeep, UnloadNeeded
<1>11. ASSUME DecideUnload
      PROVE  GotInv'
  BY <1>11 DEF DecideUnload, UnloadNeeded
<1>12. ASSUME Purge
      PROVE  GotInv'
  BY <1>12 DEF Purge, Locked
<1>13. ASSUME FlagsWrite
      PROVE  GotInv'
  BY <1>13 DEF FlagsWrite
<1>14. ASSUME NEW s \in Slot, GoMtIdle(s)
      PROVE  GotInv'
  BY <1>14 DEF GoMtIdle, Locked, ProblemIsInitialized
<1>15. ASSUME NEW s \in Slot, GoMt(s)
      PROVE  GotInv'
  BY <1>15 DEF GoMt, Crunch, Locked, ProblemIsInitialized
<1>16. ASSUME NEW s \in Slot, RunCheck(s)
      PROVE  GotInv'
  BY <1>16 DEF RunCheck, Crunch, ProblemIsInitialized
<1>17. ASSUME NEW s \in Slot, RunStart(s)
      PROVE  GotInv'
  BY <1>17 DEF RunStart, Crunch, AssertLock
<1>18. ASSUME NEW s \in Slot, RunCopy(s)
      PROVE  GotInv'
  BY <1>18 DEF RunCopy, Crunch, ReleaseLock
<1>19. ASSUME NEW s \in Slot, RunFinished(s)
      PROVE  GotInv'
  BY <1>19 DEF RunFinished, Crunch
<1>20. ASSUME NEW s \in Slot, NEW e \in 0..Steps, NEW r \in Result,
             RunCore(s, e, r)
      PROVE  GotInv'
  BY <1>20 DEF RunCore, Crunch, RunOutcome
<1>21. ASSUME NEW s \in Slot, RunError(s)
      PROVE  GotInv'
  BY <1>21 DEF RunError, Crunch
<1>22. ASSUME NEW s \in Slot, RunReturn(s)
      PROVE  GotInv'
  BY <1>22 DEF RunReturn, Crunch
<1>23. ASSUME NEW s \in Slot, RunDiscard(s)
      PROVE  GotInv'
  BY <1>23 DEF RunDiscard, Crunch, Locked, RunStale
<1>24. ASSUME NEW s \in Slot, RunSync(s)
      PROVE  GotInv'
  BY <1>24 DEF RunSync, Crunch, AssertLock, RunStale
<1>25. ASSUME NEW s \in Slot, RunBlastWork(s)
      PROVE  GotInv'
  BY <1>25 DEF RunBlastWork, Crunch, LockInv, MainInv, CoreInv, InCore
<1>26. ASSUME NEW s \in Slot, RunBlastStat(s)
      PROVE  GotInv'
  BY <1>26 DEF RunBlastStat, Crunch, ReleaseLock, CoreInv, InCore
<1>27. CASE UNCHANGED vars
  BY <1>27
<1>28. QED
  BY <1>1, <1>2, <1>3, <1>4, <1>5, <1>6, <1>7, <1>8, <1>9, <1>10, <1>11,
     <1>12, <1>13, <1>14, <1>15, <1>16, <1>17, <1>18, <1>19, <1>20, <1>21,
     <1>22, <1>23, <1>24, <1>25, <1>26, <1>27 DEF Next, MainStep,
     CruncherStep, RunCoreStep

\* loaded_problems[] keeps counting the initialised problems: publishing a
\* packet and purging one are the only steps that change what is counted.
LEMMA CountStep ==
  ASSUME IInv, IInv', LoadedProblemsExact, [Next]_vars
  PROVE  LoadedProblemsExact'
<1> DEFINE Pending(c) ==
      IF mpc \in {"loaded", "load_out"} /\ tempWork.contest = c THEN 1 ELSE 0
<1> USE SlotAssumption DEF IInv, Types, Work, Stat
<1>1. ASSUME NEW c \in Contest
      PROVE  IsFiniteSet(Counted(c)) /\ Cardinality(Counted(c)) \in Nat
  BY FS_Subset, FS_CardinalityType DEF Counted
<1>2. ASSUME \A c \in Contest : Counted(c)' = Counted(c) /\ Pending(c)' = Pending(c),
             loaded_problems' = loaded_problems
      PROVE  LoadedProblemsExact'
  <2> SUFFICES ASSUME NEW c \in Contest
               PROVE loaded_problems'[c] = Cardinality(Counted(c)') + Pending(c)'
    BY DEF LoadedProblemsExact
  <2>1. QED
    BY <1>2 DEF LoadedProblemsExact
<1>3. ASSUME NEW c \in Contest, NEW d \in 0..(Steps - 1), InternalLoadState(c, d)
      PROVE  LoadedProblemsExact'
  <2> SUFFICES ASSUME NEW k \in Contest
               PROVE loaded_problems'[k] = Cardinality(Counted(k)') + Pending(k)'
    BY DEF LoadedProblemsExact
  <2>1. Counted(k)' = Counted(k)
    BY <1>3 DEF InternalLoadState, Counted
  <2>2. Pending(k)' = (IF k = c THEN 1 ELSE 0) /\ Pending(k) = 0
    BY <1>3 DEF InternalLoadState
  <2>3. loaded_problems'[k] = loaded_problems[k] + (IF k = c THEN 1 ELSE 0)
    BY <1>3 DEF InternalLoadState
  <2>4. loaded_problems[k] = Cardinality(Counted(k)) + Pending(k)
    BY DEF LoadedProblemsExact
  <2>5. QED
    BY <2>1, <2>2, <2>3, <2>4, <1>1
<1>4. ASSUME PublishStat PROVE LoadedProblemsExact'
  <2> SUFFICES ASSUME NEW k \in Contest
               PROVE loaded_problems'[k] = Cardinality(Counted(k)') + Pending(k)'
    BY DEF LoadedProblemsExact
  <2>1. /\ mainWork[mslot] = tempWork /\ ~mainStat[mslot].initialized
        /\ tempStat.initialized /\ mpc = "load_out" /\ mpc' = "idle"
    BY <1>4 DEF PublishStat, TempInv, MainInv, Loading
  <2>2. CASE tempWork.contest = k
    <3>1. Counted(k)' = Counted(k) \union {mslot} /\ mslot \notin Counted(k)
      BY <1>4, <2>1, <2>2 DEF PublishStat, Counted
    <3>2. Cardinality(Counted(k) \union {mslot}) = Cardinality(Counted(k)) + 1
      BY <3>1, <1>1, FS_AddElement, Zenon
    <3>3. QED
      BY <3>1, <3>2, <2>1, <2>2, <1>1, <1>4 DEF PublishStat,
         LoadedProblemsExact
  <2>3. CASE tempWork.contest # k
    <3>1. Counted(k)' = Counted(k)
      BY <1>4, <2>1, <2>3 DEF PublishStat, Counted
    <3>2. QED
      BY <3>1, <2>1, <2>3, <1>1, <1>4 DEF PublishStat, LoadedProblemsExact
  <2>4. QED
    BY <2>2, <2>3
<1>5. ASSUME Purge PROVE LoadedProblemsExact'
  <2> SUFFICES ASSUME NEW k \in Contest
               PROVE loaded_problems'[k] = Cardinality(Counted(k)') + Pending(k)'
    BY DEF LoadedProblemsExact
  <2>1. mainStat[mslot].initialized /\ mpc = "purge" /\ mpc' = "idle"
    BY <1>5 DEF Purge, GotInv
  <2>2. Pending(k) = 0 /\ Pending(k)' = 0
    BY <2>1
  <2>3. CASE mainWork[mslot].contest = k
    <3>1. Counted(k)' = Counted(k) \ {mslot} /\ mslot \in Counted(k)
      BY <1>5, <2>1, <2>3 DEF Purge, Counted
    <3>2. Cardinality(Counted(k) \ {mslot}) = Cardinality(Counted(k)) - 1
      BY <3>1, <1>1, FS_RemoveElement, Zenon
    <3>3. loaded_problems'[k] = loaded_problems[k] - 1
      BY <1>5, <2>3 DEF Purge
    <3>4. QED
      BY <3>1, <3>2, <3>3, <2>2, <1>1 DEF LoadedProblemsExact
  <2>4. CASE mainWork[mslot].contest # k
    <3>1. Counted(k)' = Counted(k)
      BY <1>5, <2>4 DEF Purge, Counted
    <3>2. loaded_problems'[k] = loaded_problems[k]
      BY <1>5, <2>4 DEF Purge
    <3>3. QED
      BY <3>1, <3>2, <2>2, <1>1 DEF LoadedProblemsExact
  <2>5. QED
    BY <2>3, <2>4
<1>6. ASSUME PublishWork PROVE LoadedProblemsExact'
  <2>1. \A c \in Contest : Counted(c)' = Counted(c)
    BY <1>6 DEF PublishWork, Counted, MainInv, Loading
  <2>2. mpc = "loaded" /\ mpc' = "load_out" /\ tempWork' = tempWork
    BY <1>6 DEF PublishWork, tempVars
  <2>3. loaded_problems' = loaded_problems
    BY <1>6 DEF PublishWork
  <2>4. QED
    BY <1>2, <2>1, <2>2, <2>3
<1>7. ASSUME FlagsWrite PROVE LoadedProblemsExact'
  BY <1>2, <1>7 DEF FlagsWrite, Counted
<1>8. ASSUME NEW s \in Slot, RunStart(s) PROVE LoadedProblemsExact'
  <2>1. \A c \in Contest : Counted(c)' = Counted(c)
    BY <1>8 DEF RunStart, Counted
  <2>2. UNCHANGED <<mpc, tempWork, loaded_problems>>
    BY <1>8 DEF RunStart, mainVars, tempVars
  <2>3. QED
    BY <1>2, <2>1, <2>2
<1>9. ASSUME NEW s \in Slot, RunBlastWork(s) PROVE LoadedProblemsExact'
  BY <1>2, <1>9 DEF RunBlastWork, Counted, CoreInv, InCore, mainVars,
     tempVars, Crunch
<1>10. ASSUME NEW s \in Slot, RunBlastStat(s) PROVE LoadedProblemsExact'
  BY <1>2, <1>10 DEF RunBlastStat, Counted, CoreInv, InCore, mainVars,
     tempVars, Crunch
<1>11. ASSUME UNCHANGED <<mainWork, mainStat, loaded_problems>>,
              \A c \in Contest : Pending(c)' = Pending(c)
       PROVE  LoadedProblemsExact'
  BY <1>2, <1>11 DEF Counted
<1>12. CASE \/ \E s \in Slot : LoadCopyWork(s) \/ FlagsCheck(s)
            \/ LoadCopyStat \/ InternalLoadFails
            \/ \E s \in Slot, why \in Caller : RetrieveWork(s, why)
            \/ RetrieveStat \/ DecideKeep \/ DecideUnload
  BY <1>11, <1>12 DEF LoadCopyWork, FlagsCheck, LoadCopyStat,
     InternalLoadFails,
     RetrieveWork, RetrieveStat, DecideKeep, DecideUnload
<1>13. CASE \E s \in Slot :
              \/ GoMtIdle(s) \/ GoMt(s) \/ RunCheck(s) \/ RunCopy(s)
              \/ RunFinished(s) \/ RunCoreStep(s) \/ RunError(s) \/ RunReturn(s)
              \/ RunDiscard(s) \/ RunSync(s)
  BY <1>11, <1>13 DEF GoMtIdle, GoMt, RunCheck, RunCopy, RunFinished,
     RunCoreStep, RunCore, RunError, RunReturn, RunDiscard, RunSync,
     vars, mainVars, tempVars
<1>14. CASE UNCHANGED vars
  BY <1>11, <1>14 DEF vars, mainVars, tempVars
<1>15. QED
  BY <1>3, <1>4, <1>5, <1>6, <1>7, <1>8, <1>9, <1>10, <1>12, <1>13, <1>14
     DEF Next, MainStep, CruncherStep

\* What the client sees of the slots.
SlotView == [s \in Slot |-> View(s)]

\* Every step is a step of WorkSlot or leaves the view alone.
LEMMA ViewStep ==
  ASSUME IInv, IInv', [Next]_vars
  PROVE  [Abs!Next]_SlotView
<1> USE DEF IInv, Types, MainPc, CorePc
<1>1. ASSUME \A s \in Slot : View(s)' = View(s)
      PROVE  [Abs!Next]_SlotView
  BY <1>1 DEF SlotView
<1>2. ASSUME NEW s \in Slot PROVE SlotView[s] = View(s)
  BY DEF SlotView
<1>3. ASSUME PublishStat PROVE [Abs!Next]_SlotView
  <2>1. /\ mpc = "load_out" /\ ~mainStat[mslot].initialized
        /\ mainWork[mslot] = tempWork /\ tempStat.initialized
        /\ tempStat.last_resultcode = "WORKING"
        /\ tempStat.id = mainStat[mslot].id + 1 /\ tempWork.done < Steps
        /\ cpc[mslot] # "blast_stat" /\ mslot \in Slot /\ mslot' = mslot
    BY <1>3 DEF PublishStat, TempInv, MainInv, Loading, CoreInv, Consistent
  <2>2. View(mslot) = [id |-> mainStat[mslot].id, state |-> "EMPTY", done |-> 0]
    BY <2>1 DEF View
  <2>3. View(mslot)' = [id |-> mainStat[mslot].id + 1, state |-> "WORKING",
                        done |-> tempWork.done]
    BY <2>1, <1>3 DEF View, PublishStat, coreVars
  <2>4. \A t \in Slot \ {mslot} : View(t)' = View(t)
    BY <1>3 DEF View, PublishStat, coreVars
  <2>5. SlotView' = [SlotView EXCEPT ![mslot] =
           [id |-> mainStat[mslot].id + 1, state |-> "WORKING",
            done |-> tempWork.done]]
    BY <2>1, <2>3, <2>4 DEF SlotView
  <2>6. tempWork.done \in 0..(Steps - 1)
    BY <2>1, StepsAssumption DEF Work
  <2>7. Abs!Load(mslot)
    <3>1. /\ SlotView[mslot].state = "EMPTY"
          /\ SlotView[mslot].id = mainStat[mslot].id
      BY <2>1, <2>2, <1>2
    <3>2. \E d \in 0..(Steps - 1) :
            SlotView' = [SlotView EXCEPT ![mslot] =
              [id |-> SlotView[mslot].id + 1, state |-> "WORKING", done |-> d]]
      BY <3>1, <2>5, <2>6
    <3>3. QED
      BY <3>1, <3>2 DEF Abs!Load, Abs!Put, SlotView
  <2>8. QED
    BY <2>1, <2>7 DEF Abs!Next
<1>4. ASSUME Purge PROVE [Abs!Next]_SlotView
  <2>1. mainStat[mslot].initialized /\ mslot \in Slot /\ mslot' = mslot
    BY <1>4 DEF Purge, GotInv
  <2>2. /\ View(mslot).id = mainStat[mslot].id
        /\ View(mslot).state \in Result
    BY <2>1 DEF View, Stat
  <2>3. View(mslot)' = [id |-> mainStat[mslot].id, state |-> "EMPTY", done |-> 0]
    BY <2>1, <1>4 DEF View, Purge, Stat
  <2>4. \A t \in Slot \ {mslot} : View(t)' = View(t)
    BY <1>4 DEF View, Purge, coreVars
  <2>5. SlotView' = [SlotView EXCEPT ![mslot] =
           [id |-> mainStat[mslot].id, state |-> "EMPTY", done |-> 0]]
    BY <2>1, <2>3, <2>4 DEF SlotView
  <2>6. Abs!Unload(mslot)
    BY <2>1, <2>2, <2>5 DEF Abs!Unload, Abs!Put, Abs!Empty, SlotView, Result
  <2>7. QED
    BY <2>1, <2>6 DEF Abs!Next
<1>5. ASSUME NEW s \in Slot, RunBlastWork(s) PROVE [Abs!Next]_SlotView
  <2>1. /\ mainStat[s].initialized /\ mainStat[s].started
        /\ coreStat[s].id = mainStat[s].id
        /\ coreWork[s].done >= mainWork[s].done
        /\ mainStat[s].last_resultcode = "WORKING"
        /\ Consistent(coreWork[s], coreStat[s])
        /\ cpc[s] = "blast_work" /\ cpc'[s] = "blast_stat"
    BY <1>5 DEF RunBlastWork, Crunch, CoreInv, InCore
  <2>2. View(s) = [id |-> mainStat[s].id, state |-> "WORKING",
                   done |-> mainWork[s].done]
    BY <2>1 DEF View
  <2>3. View(s)' = [id |-> mainStat[s].id,
                    state |-> coreStat[s].last_resultcode,
                    done |-> coreWork[s].done]
    BY <2>1, <1>5 DEF View, RunBlastWork
  <2>4. \A t \in Slot \ {s} : View(t)' = View(t)
    BY <1>5 DEF View, RunBlastWork, Crunch
  <2>5. SlotView' = [SlotView EXCEPT ![s] =
           [id |-> mainStat[s].id, state |-> coreStat[s].last_resultcode,
            done |-> coreWork[s].done]]
    BY <2>3, <2>4 DEF SlotView
  <2>6. coreWork[s].done \in mainWork[s].done..Steps
    BY <2>1, StepsAssumption DEF Work
  <2>7. coreStat[s].last_resultcode \in {"WORKING", "NOTHING", "FOUND"}
    BY DEF Stat, Result
  <2>8. Abs!Run(s)
    <3>1. /\ SlotView[s].state = "WORKING" /\ SlotView[s].id = mainStat[s].id
          /\ SlotView[s].done = mainWork[s].done
      BY <2>2, <1>2
    <3>2. \E e \in SlotView[s].done..Steps, r \in {"WORKING", "NOTHING", "FOUND"} :
            /\ (r = "NOTHING") => (e = Steps)
            /\ (r = "WORKING") => (e < Steps)
            /\ SlotView' = [SlotView EXCEPT ![s] =
                 [id |-> SlotView[s].id, state |-> r, done |-> e]]
      BY <3>1, <2>1, <2>5, <2>6, <2>7 DEF Consistent
    <3>3. QED
      BY <3>1, <3>2 DEF Abs!Run, Abs!Put, SlotView
  <2>9. QED
    BY <2>8 DEF Abs!Next
<1>6. ASSUME NEW s \in Slot, RunBlastStat(s) PROVE [Abs!Next]_SlotView
  <2>1. /\ cpc[s] = "blast_stat" /\ cpc'[s] = "top"
        /\ mainStat[s].initialized /\ mainStat[s].started
        /\ coreStat[s].initialized /\ coreStat[s].id = mainStat[s].id
    BY <1>6 DEF RunBlastStat, Crunch, CoreInv, InCore
  <2>2. \A t \in Slot : View(t)' = View(t)
    BY <2>1, <1>6 DEF View, RunBlastStat, Crunch
  <2>3. QED
    BY <1>1, <2>2
<1>7. ASSUME NEW s \in Slot, RunStart(s) PROVE [Abs!Next]_SlotView
  <2>1. \A t \in Slot : View(t)' = View(t)
    BY <1>7 DEF View, RunStart, Crunch, Stat
  <2>2. QED
    BY <1>1, <2>1
<1>8. ASSUME PublishWork PROVE [Abs!Next]_SlotView
  <2>1. ~mainStat[mslot].initialized
    BY <1>8 DEF PublishWork, MainInv, Loading
  <2>2. \A t \in Slot : View(t)' = View(t)
    BY <2>1, <1>8 DEF View, PublishWork, coreVars
  <2>3. QED
    BY <1>1, <2>2
<1>9. ASSUME FlagsWrite PROVE [Abs!Next]_SlotView
  <2>1. \A t \in Slot : View(t)' = View(t)
    BY <1>9 DEF View, FlagsWrite, coreVars, Work
  <2>2. QED
    BY <1>1, <2>1
<1>10. ASSUME NEW s \in Slot, RunSync(s) PROVE [Abs!Next]_SlotView
  <2>1. \A t \in Slot : View(t)' = View(t)
    BY <1>10 DEF View, RunSync, Crunch
  <2>2. QED
    BY <1>1, <2>1
<1>11. CASE \/ \E s \in Slot : LoadCopyWork(s) \/ FlagsCheck(s)
            \/ LoadCopyStat \/ InternalLoadFails
            \/ \E c \in Contest, d \in 0..(Steps - 1) : InternalLoadState(c, d)
            \/ \E s \in Slot, why \in Caller : RetrieveWork(s, why)
            \/ RetrieveStat \/ DecideKeep \/ DecideUnload
  <2>1. UNCHANGED <<mainWork, mainStat, coreVars>>
    BY <1>11 DEF LoadCopyWork, FlagsCheck, LoadCopyStat, InternalLoadFails,
       InternalLoadState, RetrieveWork, RetrieveStat, DecideKeep, DecideUnload
  <2>2. QED
    BY <1>1, <2>1 DEF View, coreVars
<1>12. ASSUME NEW s \in Slot,
              \/ GoMtIdle(s) \/ GoMt(s) \/ RunCheck(s) \/ RunCopy(s)
              \/ RunFinished(s) \/ RunCoreStep(s) \/ RunError(s) \/ RunReturn(s)
              \/ RunDiscard(s)
       PROVE  [Abs!Next]_SlotView
  <2>1. /\ UNCHANGED <<mainWork, mainStat>>
        /\ \A t \in Slot : /\ (cpc'[t] = "blast_stat") <=> (cpc[t] = "blast_stat")
                           /\ cpc[t] = "blast_stat" => coreStat'[t] = coreStat[t]
    BY <1>12 DEF GoMtIdle, GoMt, RunCheck, RunCopy, RunFinished, RunCoreStep,
       RunCore, RunError, RunReturn, RunDiscard, Crunch, vars, coreVars
  <2>2. QED
    BY <1>1, <2>1 DEF View
<1>13. CASE UNCHANGED vars
  BY <1>1, <1>13 DEF View, vars, coreVars
<1>14. QED
  BY <1>3, <1>4, <1>5, <1>6, <1>7, <1>8, <1>9, <1>10, <1>11, <1>12, <1>13
     DEF Next, MainStep, CruncherStep

\* The strengthening holds of freshly allocated problems.
LEMMA InitIInv ==
  ASSUME Init
  PROVE  IInv
<1> USE DEF Init, ProblemAlloc
<1>1. NoWork \in Work /\ NoStat \in Stat
  BY ContestAssumption, StepsAssumption DEF Work, Stat, Result, NoWork, NoStat
<1>2. Types
  BY <1>1 DEF Types, MainPc, CorePc, Caller, Result, Free
<1>3. LockInv /\ MainInv /\ TempInv /\ CoreInv /\ GotInv
  BY <1>2 DEF NoWork, NoStat, Types, LockInv, MainInv, TempInv, CoreInv,
     GotInv, Free, Loading, InCore
<1>4. QED
  BY <1>2, <1>3 DEF IInv

\* No problem is loaded, none is counted.
LEMMA InitCount ==
  ASSUME Init
  PROVE  LoadedProblemsExact
<1>1. \A c \in Contest : Counted(c) = {}
  BY DEF Init, ProblemAlloc, Counted, NoStat
<1>2. Cardinality({}) = 0
  BY FS_EmptySet
<1>3. QED
  BY <1>1, <1>2 DEF LoadedProblemsExact, Init

\* Only ProblemRetrieveState() with purge takes a packet out of a slot.
LEMMA PurgeStep ==
  ASSUME IInv, [Next]_vars, NEW s \in Slot,
         mainStat[s].initialized, ~mainStat'[s].initialized
  PROVE  Purge /\ s = mslot
<1> USE DEF IInv, Types, Stat, CoreInv, InCore
<1>1. CASE MainStep
  BY <1>1 DEF MainStep, LoadCopyWork, FlagsCheck, LoadCopyStat,
     InternalLoadFails, PublishWork, PublishStat, TempInv, InternalLoadState,
     RetrieveWork, RetrieveStat, DecideKeep, DecideUnload, Purge, FlagsWrite
<1>2. ASSUME NEW t \in Slot, CruncherStep(t) PROVE FALSE
  <2>1. CASE RunStart(t)
    BY <2>1 DEF RunStart
  <2>2. CASE RunBlastStat(t)
    BY <2>2 DEF RunBlastStat, Crunch
  <2>3. CASE mainStat' = mainStat
    BY <2>3
  <2>4. QED
    BY <1>2, <2>1, <2>2, <2>3 DEF CruncherStep, GoMtIdle, GoMt, RunCheck,
       RunCopy, RunFinished, RunCoreStep, RunCore, RunError, RunReturn,
       RunDiscard, RunSync, RunBlastWork, vars
<1>3. CASE UNCHANGED vars
  BY <1>3 DEF vars
<1>4. QED
  BY <1>1, <1>2, <1>3 DEF Next

-----------------------------------------------------------------------------
(* The theorems. *)

\* The six conjuncts together.
LEMMA IInvStep ==
  ASSUME IInv, [Next]_vars
  PROVE  IInv'
BY TypesStep, LockStep, MainInvStep, TempStep, CoreStep, GotStep DEF IInv

\* The strengthening is an invariant.
THEOREM Inductive == Spec => []IInv
<1>1. Init => IInv
  BY InitIInv
<1>2. IInv /\ [Next]_vars => IInv'
  BY IInvStep
<1>3. QED
  BY <1>1, <1>2, PTL DEF Spec

\* loaded_problems[] is exact in every reachable state, for any number of
\* slots and projects.
THEOREM Exact == Spec => []LoadedProblemsExact
<1>1. Init => LoadedProblemsExact
  BY InitCount
<1>2. IInv /\ IInv' /\ LoadedProblemsExact /\ [Next]_vars => LoadedProblemsExact'
  BY CountStep
<1>3. QED
  BY <1>1, <1>2, Inductive, PTL DEF Spec

\* Types; loaded_problems[] never becomes negative, because it is exact.
THEOREM TypeCorrect == Spec => []TypeOK
<1>1. IInv /\ LoadedProblemsExact => TypeOK
  <2> SUFFICES ASSUME IInv, LoadedProblemsExact PROVE TypeOK
    OBVIOUS
  <2>1. ASSUME NEW c \in Contest PROVE Cardinality(Counted(c)) \in Nat
    BY SlotAssumption, FS_Subset, FS_CardinalityType DEF Counted
  <2>2. ASSUME NEW c \in Contest PROVE loaded_problems[c] \in Nat
    BY <2>1 DEF LoadedProblemsExact
  <2>3. loaded_problems \in [Contest -> Nat]
    BY <2>2 DEF IInv, Types
  <2>4. QED
    BY <2>3 DEF IInv, Types, TypeOK
<1>2. QED
  BY <1>1, Inductive, Exact, PTL

\* A result computed for a purged packet is never copied over its successor.
THEOREM NoStale == Spec => []NoStaleResult
<1>1. IInv => NoStaleResult
  BY DEF IInv, Types, Stat, MainInv, NoStaleResult
<1>2. QED
  BY <1>1, Inductive, PTL

\* The record that is saved is one consistent state of one packet.
THEOREM Snapshot == Spec => []SnapshotConsistent
<1>1. IInv => SnapshotConsistent
  BY DEF IInv, GotInv, SnapshotConsistent
<1>2. QED
  BY <1>1, Inductive, PTL

\* A finished problem is purged in the very state that was saved.
THEOREM PurgesSaved == Spec => PurgesWhatWasSaved
<1>1. ASSUME IInv, [Next]_vars, NEW s \in Slot,
             mainStat[s].initialized, ~mainStat'[s].initialized,
             got.stat.last_resultcode \in Finished
      PROVE  /\ got.work.id = mainWork[s].id /\ got.work.done = mainWork[s].done
             /\ got.stat.last_resultcode = mainStat[s].last_resultcode
  <2>1. Purge /\ s = mslot
    BY <1>1, PurgeStep
  <2>2. QED
    BY <1>1, <2>1 DEF Purge, IInv, GotInv
<1>2. IInv /\ [Next]_vars =>
        [ \A s \in Slot :
            (mainStat[s].initialized /\ ~mainStat'[s].initialized
              /\ got.stat.last_resultcode \in Finished)
            => /\ got.work.id = mainWork[s].id /\ got.work.done = mainWork[s].done
               /\ got.stat.last_resultcode = mainStat[s].last_resultcode ]_vars
  BY <1>1
<1>3. QED
  BY <1>2, Inductive, PTL DEF Spec, PurgesWhatWasSaved

\* The three copies, the lock and the two threads implement WorkSlot.
THEOREM Refinement == Spec => ImplementsWorkSlot
<1>1. Init => Abs!Init
  <2> SUFFICES ASSUME Init PROVE Abs!Init
    OBVIOUS
  <2>1. \A s \in Slot : View(s) = [id |-> 0, state |-> "EMPTY", done |-> 0]
    BY DEF Init, ProblemAlloc, NoStat, View
  <2>2. QED
    BY <2>1 DEF Abs!Init, Abs!Empty
<1>2. IInv /\ IInv' /\ [Next]_vars => [Abs!Next]_SlotView
  BY ViewStep
<1>3. QED
  BY <1>1, <1>2, Inductive, PTL DEF Spec, Abs!Spec, ImplementsWorkSlot,
     SlotView
=============================================================================
