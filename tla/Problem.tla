------------------------------ MODULE Problem ------------------------------
(***************************************************************************)
(* A problem object of common/problem.cpp (SuperProblem): the work packet   *)
(* of one cruncher thread, shared with the main thread.  It has three       *)
(* copies and one spin lock:                                                *)
(*                                                                          *)
(*   MAIN  what the main thread loads, inspects, retrieves and purges;      *)
(*   CORE  the cruncher's private copy while it is inside the core;         *)
(*   TEMP  the scratch copy ProblemLoadState() builds a new packet in.      *)
(*                                                                          *)
(* The cruncher of a slot runs ProblemRun() over and over (Go_mt in         *)
(* clirun.cpp); it copies MAIN to CORE, computes without the lock, and      *)
(* copies CORE back.  Meanwhile the main thread may unload the packet and   *)
(* load another one into the same slot.                                     *)
(*                                                                          *)
(* A copy is a memcpy of a structure that starts with pub_data and the work *)
(* and ends with last_resultcode, started and initialized.  Each half is    *)
(* one step here, so that a copy the lock failed to protect would be seen   *)
(* torn.  A packet is told apart by the number of its load ("id"), and its  *)
(* contents are reduced to how much of it is done.                          *)
(***************************************************************************)
EXTENDS Naturals, FiniteSets

CONSTANTS Slot,       \* the problem table (one problem and one cruncher each)
          Contest,    \* the projects (RC5-72, OGR-P2, OGR-NG)
          Steps,      \* core calls that exhaust a packet
          MaxLoads    \* bound: packets loaded into one slot

ASSUME SlotAssumption    == IsFiniteSet(Slot)
ASSUME ContestAssumption == Contest # {}
ASSUME StepsAssumption   == Steps \in Nat \ {0}
ASSUME LoadsAssumption   == MaxLoads \in Nat

Free == "free"
\* __IndividualProblemSave (unconditionally or not), the checkpoint refresh.
Caller == {"save", "unload", "checkpoint"}
Result == {"WORKING", "NOTHING", "FOUND"}
Finished == {"NOTHING", "FOUND"}

\* The first half: pub_data (contest, the PROBLDR_DISCARD loader flag), then
\* priv_data.contestwork with the core's memory.
Work == [id : Nat, contest : Contest, discard : BOOLEAN, done : 0..Steps]
\* The second half: the flags at the end of priv_data.
Stat == [id : Nat, initialized : BOOLEAN, started : BOOLEAN,
         last_resultcode : Result]

VARIABLES
  lock,              \* copy_lock of each slot: its holder
  mainWork, mainStat, \* iprobs[PICKPROB_MAIN]
  coreWork, coreStat, \* iprobs[PICKPROB_CORE]
  tempWork, tempStat, \* iprobs[PICKPROB_TEMP] of the slot being loaded (the
                     \* others are overwritten before they are read again)
  loaded_problems,   \* loaded_problems[contest]
  mpc, mslot,        \* the main thread: where it is, on which slot
  caller,            \* why the main thread retrieves a state
  got,               \* the caller's record: what RetrieveState() handed out
  cpc,               \* where each cruncher is
  result,            \* ProblemRun()'s local last_resultcode
  loads              \* history: how many packets were loaded into a slot

mainVars == <<mpc, mslot, caller, got>>
coreVars == <<coreWork, coreStat, cpc, result>>
tempVars == <<tempWork, tempStat>>
vars == <<lock, mainWork, mainStat, coreVars, tempVars, loaded_problems,
          mainVars, loads>>

NoWork == [id |-> 0, contest |-> CHOOSE c \in Contest : TRUE,
           discard |-> FALSE, done |-> 0]
NoStat == [id |-> 0, initialized |-> FALSE, started |-> FALSE,
           last_resultcode |-> "WORKING"]

\* ProblemAlloc(): the whole SuperProblem is zeroed, the lock is initialised.
ProblemAlloc ==
  /\ lock = [s \in Slot |-> Free]
  /\ mainWork = [s \in Slot |-> NoWork] /\ mainStat = [s \in Slot |-> NoStat]
  /\ coreWork = [s \in Slot |-> NoWork] /\ coreStat = [s \in Slot |-> NoStat]
  /\ tempWork = NoWork /\ tempStat = NoStat

Init ==
  /\ ProblemAlloc
  /\ loaded_problems = [c \in Contest |-> 0]
  /\ mpc = "idle" /\ mslot \in Slot /\ caller = "save"
  /\ got = [work |-> NoWork, stat |-> NoStat]
  /\ cpc = [s \in Slot |-> "top"]
  /\ result = [s \in Slot |-> "WORKING"]
  /\ loads = [s \in Slot |-> 0]

-----------------------------------------------------------------------------
(* The lock (fastlock_lock / fastlock_unlock on copy_lock). *)

\* Mutation: a lock that does not exclude.
AssertLockUnchecked(s, who) == lock' = [lock EXCEPT ![s] = who]

AssertLock(s, who) == lock[s] = Free /\ lock' = [lock EXCEPT ![s] = who]
ReleaseLock(s)     == lock' = [lock EXCEPT ![s] = Free]

\* A locked section that is a single step: taken and released.
Locked(s) == lock[s] = Free /\ UNCHANGED lock

ProblemIsInitialized(s) == mainStat[s].initialized

-----------------------------------------------------------------------------
(* The main thread.  ProblemLoadState(): MAIN to TEMP under the lock, the   *)
(* guts on TEMP without it, TEMP to MAIN under the lock.                    *)

LoadCopyWork(s) ==
  /\ mpc = "idle" /\ loads[s] < MaxLoads
  /\ AssertLock(s, "main")
  /\ mslot' = s /\ mpc' = "load_in"
  /\ tempWork' = mainWork[s]
  /\ UNCHANGED <<mainWork, mainStat, coreVars, tempStat, loaded_problems,
                 caller, got, loads>>

LoadCopyStat ==
  /\ mpc = "load_in"
  /\ tempStat' = mainStat[mslot]
  /\ ReleaseLock(mslot)
  /\ mpc' = "load"
  /\ UNCHANGED <<mainWork, mainStat, coreVars, tempWork, loaded_problems,
                 mslot, caller, got, loads>>

\* __InternalLoadState() < 0: the problem is in use ("BUG! LoadState()
\* without previous RetrieveState"), the project is not permitted, no core
\* can be selected, or the packet is bad.  MAIN has not been touched.
InternalLoadFails ==
  /\ mpc = "load"
  /\ mpc' = "idle"
  /\ UNCHANGED <<lock, mainWork, mainStat, coreVars, tempVars, loaded_problems,
                 mslot, caller, got, loads>>

\* __InternalLoadState() = 0, for a packet of contest c of which d is done.
InternalLoadState(c, d) ==
  /\ mpc = "load" /\ ~tempStat.initialized
  /\ LET n == loads[mslot] + 1
     IN  /\ tempWork' = [id |-> n, contest |-> c, discard |-> FALSE, done |-> d]
         /\ tempStat' = [id |-> n, initialized |-> TRUE, started |-> FALSE,
                         last_resultcode |-> "WORKING"]
         /\ loads' = [loads EXCEPT ![mslot] = n]
  /\ loaded_problems' = [loaded_problems EXCEPT ![c] = @ + 1]
  /\ mpc' = "loaded"
  /\ UNCHANGED <<lock, mainWork, mainStat, coreVars, mslot, caller, got>>

PublishWork ==
  /\ mpc = "loaded"
  /\ AssertLock(mslot, "main")
  /\ mainWork' = [mainWork EXCEPT ![mslot] = tempWork]
  /\ mpc' = "load_out"
  /\ UNCHANGED <<mainStat, coreVars, tempVars, loaded_problems,
                 mslot, caller, got, loads>>

PublishStat ==
  /\ mpc = "load_out"
  /\ mainStat' = [mainStat EXCEPT ![mslot] = tempStat]
  /\ ReleaseLock(mslot)
  /\ mpc' = "idle"
  /\ UNCHANGED <<mainWork, coreVars, tempVars, loaded_problems,
                 mslot, caller, got, loads>>

-----------------------------------------------------------------------------
(* ProblemRetrieveState() without purge: the work, then the result code,    *)
(* all under the lock.  Every caller asks ProblemIsInitialized() first.     *)

RetrieveWork(s, why) ==
  /\ mpc = "idle"
  /\ AssertLock(s, "main") /\ ProblemIsInitialized(s)
  /\ got' = [got EXCEPT !.work = mainWork[s]]
  /\ mslot' = s /\ caller' = why /\ mpc' = "retrieve"
  /\ UNCHANGED <<mainWork, mainStat, coreVars, tempVars, loaded_problems, loads>>

RetrieveStat ==
  /\ mpc = "retrieve"
  /\ got' = [got EXCEPT !.stat = mainStat[mslot]]
  /\ ReleaseLock(mslot)
  /\ mpc' = IF caller = "checkpoint" THEN "idle" ELSE "decide"
  /\ UNCHANGED <<mainWork, mainStat, coreVars, tempVars, loaded_problems,
                 mslot, caller, loads>>

\* __IndividualProblemSave(): does this problem have to be unloaded?  The
\* loader flags are read without the lock.
UnloadNeeded ==
  \/ got.stat.last_resultcode \in Finished
  \/ caller = "unload"
  \/ mainWork[mslot].discard

DecideKeep ==
  /\ mpc = "decide" /\ ~UnloadNeeded
  /\ mpc' = "idle"
  /\ UNCHANGED <<lock, mainWork, mainStat, coreVars, tempVars, loaded_problems,
                 mslot, caller, got, loads>>

\* The record is put into the buffer or discarded, then the object is purged
\* (RetrieveState() with dopurge).
DecideUnload ==
  /\ mpc = "decide" /\ UnloadNeeded
  /\ mpc' = "purge"
  /\ UNCHANGED <<lock, mainWork, mainStat, coreVars, tempVars, loaded_problems,
                 mslot, caller, got, loads>>

\* Mutation: the problem is still counted.
PurgeUncounted ==
  /\ mpc = "purge"
  /\ Locked(mslot)
  /\ mainStat' = [mainStat EXCEPT ![mslot].initialized = FALSE]
  /\ mpc' = "idle"
  /\ UNCHANGED <<mainWork, coreVars, tempVars, loaded_problems, mslot, caller,
                 got, loads>>

Purge ==
  /\ mpc = "purge"
  /\ Locked(mslot)
  /\ mainStat' = [mainStat EXCEPT ![mslot].initialized = FALSE]
  /\ loaded_problems' =
       [loaded_problems EXCEPT ![mainWork[mslot].contest] = @ - 1]
  /\ mpc' = "idle"
  /\ UNCHANGED <<mainWork, coreVars, tempVars, mslot, caller, got, loads>>

-----------------------------------------------------------------------------
(* SetProblemLoaderFlags(), for a project that is disabled or closed (its   *)
(* caller is the network code, which is not part of this repository).  The  *)
(* flag is written to MAIN without the lock.                                *)

FlagsCheck(s) ==
  /\ mpc = "idle" /\ Locked(s) /\ ProblemIsInitialized(s)
  /\ mslot' = s /\ mpc' = "flags"
  /\ UNCHANGED <<mainWork, mainStat, coreVars, tempVars, loaded_problems,
                 caller, got, loads>>

FlagsWrite ==
  /\ mpc = "flags"
  /\ mainWork' = [mainWork EXCEPT ![mslot].discard = TRUE]
  /\ mpc' = "idle"
  /\ UNCHANGED <<lock, mainStat, coreVars, tempVars, loaded_problems,
                 mslot, caller, got, loads>>

MainStep ==
  \/ \E s \in Slot : LoadCopyWork(s) \/ FlagsCheck(s)
  \/ LoadCopyStat \/ InternalLoadFails \/ PublishWork \/ PublishStat
  \/ \E c \in Contest, d \in 0..(Steps - 1) : InternalLoadState(c, d)
  \/ \E s \in Slot, why \in Caller : RetrieveWork(s, why)
  \/ RetrieveStat \/ DecideKeep \/ DecideUnload \/ Purge
  \/ FlagsWrite

-----------------------------------------------------------------------------
(* The cruncher of slot s: Go_mt() calls ProblemRun() for as long as the    *)
(* problem is initialised.                                                  *)

Crunch(s, from, to) == cpc[s] = from /\ cpc' = [cpc EXCEPT ![s] = to]

\* Go_mt(): ProblemIsInitialized(); an empty problem is asked again after a
\* sleep.
GoMtIdle(s) ==
  /\ cpc[s] = "top"
  /\ Locked(s) /\ ~ProblemIsInitialized(s)
  /\ UNCHANGED vars

GoMt(s) ==
  /\ Crunch(s, "top", "run")
  /\ Locked(s) /\ ProblemIsInitialized(s)
  /\ UNCHANGED <<mainWork, mainStat, coreWork, coreStat, result, tempVars,
                 loaded_problems, mainVars, loads>>

\* ProblemRun() looks at "initialized" before it takes the lock.
RunCheck(s) ==
  /\ Crunch(s, "run", IF ProblemIsInitialized(s) THEN "enter" ELSE "top")
  /\ UNCHANGED <<lock, mainWork, mainStat, coreWork, coreStat, result, tempVars,
                 loaded_problems, mainVars, loads>>

\* Mutation: MAIN is not marked as started.
RunStartUnmarked(s) ==
  /\ Crunch(s, "enter", "copy")
  /\ AssertLock(s, "cruncher")
  /\ coreWork' = [coreWork EXCEPT ![s] = mainWork[s]]
  /\ UNCHANGED <<mainWork, mainStat, coreStat, result, tempVars,
                 loaded_problems, mainVars, loads>>

RunStart(s) ==
  /\ Crunch(s, "enter", "copy")
  /\ AssertLock(s, "cruncher")
  /\ mainStat' = [mainStat EXCEPT ![s].started = TRUE]
  /\ coreWork' = [coreWork EXCEPT ![s] = mainWork[s]]
  /\ UNCHANGED <<mainWork, coreStat, result, tempVars, loaded_problems,
                 mainVars, loads>>

\* Mutation: the result code is started afresh on every call.
RunCopyRestarted(s) ==
  /\ Crunch(s, "copy", "core")
  /\ ReleaseLock(s)
  /\ coreStat' = [coreStat EXCEPT
       ![s] = [mainStat[s] EXCEPT !.last_resultcode = "WORKING"]]
  /\ UNCHANGED <<mainWork, mainStat, coreWork, result, tempVars,
                 loaded_problems, mainVars, loads>>

RunCopy(s) ==
  /\ Crunch(s, "copy", "core")
  /\ ReleaseLock(s)
  /\ coreStat' = [coreStat EXCEPT ![s] = mainStat[s]]
  /\ UNCHANGED <<mainWork, mainStat, coreWork, result, tempVars,
                 loaded_problems, mainVars, loads>>

\* The copy is already finished: nothing to run.
RunFinished(s) ==
  /\ Crunch(s, "core", "top")
  /\ coreStat[s].last_resultcode # "WORKING"
  /\ UNCHANGED <<lock, mainWork, mainStat, coreWork, coreStat, result, tempVars,
                 loaded_problems, mainVars, loads>>

\* Mutation: the end of the packet is missed by one.
RunOutcomeEarly(e) ==
  {"FOUND"} \union (IF e + 1 >= Steps THEN {"NOTHING"} ELSE {"WORKING"})

\* What Run_RC5_72(), Run_OGR_P2() and Run_OGR_NG() make of a core call that
\* brought the packet to e: found, exhausted, or more to do (an
\* asynchronous core may report no progress at all).
RunOutcome(e) ==
  {"FOUND"} \union (IF e = Steps THEN {"NOTHING"} ELSE {"WORKING"})

RunCore(s, e, r) ==
  /\ Crunch(s, "core", "sync")
  /\ coreStat[s].last_resultcode = "WORKING"
  /\ e \in {coreWork[s].done, coreWork[s].done + 1} /\ e <= Steps
  /\ r \in RunOutcome(e)
  /\ coreWork' = [coreWork EXCEPT ![s].done = e]
  /\ result' = [result EXCEPT ![s] = r]
  /\ UNCHANGED <<lock, mainWork, mainStat, coreStat, tempVars, loaded_problems,
                 mainVars, loads>>

\* Run_XXX() < 0: the error is not copied to MAIN, ProblemRun() returns.
RunError(s) ==
  /\ Crunch(s, "core", "failed")
  /\ coreStat[s].last_resultcode = "WORKING"
  /\ UNCHANGED <<lock, mainWork, mainStat, coreWork, coreStat, result, tempVars,
                 loaded_problems, mainVars, loads>>

RunReturn(s) ==
  /\ Crunch(s, "failed", "top")
  /\ UNCHANGED <<lock, mainWork, mainStat, coreWork, coreStat, result, tempVars,
                 loaded_problems, mainVars, loads>>

\* Mutation: only an empty slot is noticed, not a successor.
RunStaleEmpty(s) == ~mainStat[s].initialized

\* "whoops! RetrieveState(,,purge) [with or without a subsequent LoadState()]
\* was called while we in core."
RunStale(s) == ~mainStat[s].started \/ ~mainStat[s].initialized

RunDiscard(s) ==
  /\ Crunch(s, "sync", "top")
  /\ Locked(s) /\ RunStale(s)
  /\ UNCHANGED <<mainWork, mainStat, coreWork, coreStat, result, tempVars,
                 loaded_problems, mainVars, loads>>

\* The public area may have changed while in core: take it over, ...
RunSync(s) ==
  /\ Crunch(s, "sync", "blast_work")
  /\ AssertLock(s, "cruncher") /\ ~RunStale(s)
  /\ coreWork' = [coreWork EXCEPT ![s].contest = mainWork[s].contest,
                                  ![s].discard = mainWork[s].discard]
  /\ coreStat' = [coreStat EXCEPT ![s].last_resultcode = result[s]]
  /\ UNCHANGED <<mainWork, mainStat, result, tempVars, loaded_problems,
                 mainVars, loads>>

\* ... then blast the whole of CORE into MAIN.
RunBlastWork(s) ==
  /\ Crunch(s, "blast_work", "blast_stat")
  /\ mainWork' = [mainWork EXCEPT ![s] = coreWork[s]]
  /\ UNCHANGED <<lock, mainStat, coreWork, coreStat, result, tempVars,
                 loaded_problems, mainVars, loads>>

RunBlastStat(s) ==
  /\ Crunch(s, "blast_stat", "top")
  /\ ReleaseLock(s)
  /\ mainStat' = [mainStat EXCEPT ![s] = coreStat[s]]
  /\ UNCHANGED <<mainWork, coreWork, coreStat, result, tempVars,
                 loaded_problems, mainVars, loads>>

RunCoreStep(s) == \E e \in 0..Steps, r \in Result : RunCore(s, e, r)

CruncherStep(s) ==
  \/ GoMtIdle(s) \/ GoMt(s) \/ RunCheck(s) \/ RunStart(s) \/ RunCopy(s)
  \/ RunFinished(s)
  \/ RunCoreStep(s) \/ RunError(s) \/ RunReturn(s)
  \/ RunDiscard(s) \/ RunSync(s) \/ RunBlastWork(s) \/ RunBlastStat(s)

Next == MainStep \/ \E s \in Slot : CruncherStep(s)

Spec == Init /\ [][Next]_vars

-----------------------------------------------------------------------------
(* Fairness: every thread keeps being scheduled, a spinning fastlock_lock() *)
(* gets the lock in the end if it is free again and again (strong fairness: *)
(* the sections are a few memcpy()s long), and the main loop comes back to  *)
(* every slot.  Cores are given no fairness here: CoreFairness adds that a  *)
(* core which keeps being called makes progress again and again.            *)

CruncherFairness(s) ==
  /\ SF_vars(GoMt(s)) /\ SF_vars(RunStart(s))
  /\ SF_vars(RunSync(s) \/ RunDiscard(s))
  /\ WF_vars(CruncherStep(s))

MainFairness ==
  /\ WF_vars(LoadCopyStat \/ InternalLoadFails \/ PublishStat \/ RetrieveStat
             \/ DecideKeep \/ DecideUnload \/ FlagsWrite)
  /\ SF_vars(PublishWork) /\ SF_vars(Purge)
  /\ \A s \in Slot : SF_vars(RetrieveWork(s, "save"))

FairSpec == Spec /\ MainFairness /\ \A s \in Slot : CruncherFairness(s)

Advance(s) ==
  \E e \in 0..Steps, r \in Result : e > coreWork[s].done /\ RunCore(s, e, r)

CoreFairness == \A s \in Slot : SF_vars(Advance(s))

ProgressSpec == FairSpec /\ CoreFairness

-----------------------------------------------------------------------------
(* Properties *)

MainPc == {"idle", "load_in", "load", "loaded", "load_out", "retrieve",
           "decide", "purge", "flags"}
CorePc == {"top", "run", "enter", "copy", "core", "failed", "sync",
           "blast_work", "blast_stat"}

\* Types of all variables.
TypeOK ==
  /\ lock \in [Slot -> {Free, "main", "cruncher"}]
  /\ mainWork \in [Slot -> Work] /\ mainStat \in [Slot -> Stat]
  /\ coreWork \in [Slot -> Work] /\ coreStat \in [Slot -> Stat]
  /\ tempWork \in Work /\ tempStat \in Stat
  /\ loaded_problems \in [Contest -> Nat]
  /\ mpc \in MainPc /\ mslot \in Slot /\ caller \in Caller
  /\ got \in [work : Work, stat : Stat]
  /\ cpc \in [Slot -> CorePc] /\ result \in [Slot -> Result]
  /\ loads \in [Slot -> Nat]

\* The result code and the work agree: nothing found means the packet is
\* exhausted, still working means it is not.
Consistent(w, t) ==
  /\ w.id = t.id
  /\ t.last_resultcode = "NOTHING" => w.done = Steps
  /\ t.last_resultcode = "WORKING" => w.done < Steps

\* A loaded problem holds the packet that was loaded last into its slot, work
\* and status: what ProblemRun() computed for a packet that was purged while
\* it was in the core is never copied over its successor.
NoStaleResult ==
  \A s \in Slot : mainStat[s].initialized =>
    mainWork[s].id = loads[s] /\ mainStat[s].id = loads[s]

\* What ProblemRetrieveState() hands to __IndividualProblemSave() is one
\* consistent state of one packet, although ProblemRun() copies its result
\* into the same memory at any time.
SnapshotConsistent ==
  mpc \in {"decide", "purge"} => Consistent(got.work, got.stat)

\* loaded_problems[] counts the initialised problems of each project (the
\* main thread counts a packet just before it publishes it): the retrieve
\* that purges a problem takes it off the count of the same project.
Counted(c) == {s \in Slot : mainStat[s].initialized /\ mainWork[s].contest = c}

LoadedProblemsExact ==
  \A c \in Contest :
    loaded_problems[c] =
      Cardinality(Counted(c)) +
      (IF mpc \in {"loaded", "load_out"} /\ tempWork.contest = c THEN 1 ELSE 0)

\* A problem that is purged because it had finished is purged in the very
\* state that was saved before: the cruncher cannot add to it or take back
\* the result between the two calls of ProblemRetrieveState().
PurgesWhatWasSaved ==
  [][ \A s \in Slot :
        (mainStat[s].initialized /\ ~mainStat'[s].initialized
          /\ got.stat.last_resultcode \in Finished)
        => /\ got.work.id = mainWork[s].id /\ got.work.done = mainWork[s].done
           /\ got.stat.last_resultcode = mainStat[s].last_resultcode ]_vars

\* What the client sees of a slot: the packet in MAIN, which changes at the
\* first half of the copy from CORE.
View(s) ==
  IF ~mainStat[s].initialized
  THEN [id |-> mainStat[s].id, state |-> "EMPTY", done |-> 0]
  ELSE [id |-> mainStat[s].id,
        state |-> IF cpc[s] = "blast_stat" THEN coreStat[s].last_resultcode
                                           ELSE mainStat[s].last_resultcode,
        done |-> mainWork[s].done]

Abs == INSTANCE WorkSlot WITH slot <- [s \in Slot |-> View(s)]

\* The three copies and the lock implement a slot whose packet only moves
\* forward (module WorkSlot).
ImplementsWorkSlot == Abs!Spec

\* Under ProgressSpec, a loaded packet is finished (or unloaded) in the end:
\* ProblemRun() never waits for the lock for ever, and what it computes does
\* reach MAIN.
PacketsFinish ==
  \A s \in Slot :
    mainStat[s].initialized ~>
      (~mainStat[s].initialized \/ mainStat[s].last_resultcode \in Finished)

\* SetProblemLoaderFlags(): once a loaded problem is marked for discarding it
\* stays marked until it is unloaded ("update the core's copy of the public
\* area. It might have changed while we in core").
DiscardFlagKept ==
  [][ \A s \in Slot :
        (mainStat[s].initialized /\ mainWork[s].discard
          /\ mainStat'[s].initialized) => mainWork'[s].discard ]_vars

\* Run_OGR_P2() and Run_OGR_NG(): "*resultcode = -1; /* this will cause the
\* problem to be discarded */".
CoreErrorDiscards ==
  \A s \in Slot, n \in 1..MaxLoads :
    (cpc[s] = "failed" /\ mainStat[s].initialized /\ mainStat[s].id = n) ~>
      ~(mainStat[s].initialized /\ mainStat[s].id = n)
=============================================================================
