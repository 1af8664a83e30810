-------------------------- MODULE ClientMainProofs --------------------------
(* That no polled cruncher works in a paused client (PauseTakesEffect), and    *)
(* that none is lost or doubled (PolledOnce) or left on hold (HeldInPause),    *)
(* for any number of crunchers, any restarts, modes and requests.              *)
EXTENDS ClientMain, FiniteSetTheorems, WellFoundedInduction, TLAPS

----------------------------------------------------------------------------
(* The inductive invariant *)

Checking == pc \in {"checkexit", "iniraise", "latch"}

\* Where the main thread is: in the loop, in mode requests, or before and after.
AtRun ==
  \/ pc \in {"loop", "sleep", "loop.checked", "pausecheck", "release", "pausereturn",
             "maybemodes", "quit"}
  \/ Checking /\ caller \in {"loop", "pause"}

AtModes ==
  pc \in {"wait", "modes", "modeloop", "mode", "modesend", "moderaise", "modesdone"}

Outside ==
  \/ pc \in {"boot", "boot.checked", "clientrun", "start", "decide.checked", "deinit", "ended"}
  \/ Checking /\ caller \in {"boot", "decide"}

TypesNeeded ==
  /\ exittrig \in [trigger : SUBSET TRIGSETBY, laststate : BOOLEAN]
  /\ pausetrig \in [trigger : SUBSET TRIGSETBY, laststate : SUBSET TRIGSETBY]
  /\ doingmodes \in BOOLEAN /\ do_suspend \in BOOLEAN
  /\ wasPaused \in BOOLEAN /\ didSuspend \in BOOLEAN
  /\ AtRun \/ AtModes \/ Outside

\* A client that was started for modes does not get into the loop.
NoModesInLoop == AtRun \/ pc \in {"wait", "clientrun", "start"} => ~doingmodes

\* Who suspended the crunchers: nobody before and after the loop, in the loop
\* the pause alone, in modes the pause or else the loop on their behalf.
WhoSuspends ==
  /\ Outside => ~do_suspend /\ ~wasPaused
  /\ AtRun => (do_suspend <=> wasPaused)
  /\ AtModes /\ doingmodes => ~do_suspend /\ ~wasPaused
  /\ AtModes /\ ~doingmodes => /\ do_suspend <=> wasPaused \/ didSuspend
                               /\ ~(wasPaused /\ didSuspend)

\* The loop and the last check agree on whether the client is paused, unless it
\* is to exit: then the check returns no pause, and keeps its state.  While the
\* check returns, what it tested is what it reports, unless a signal comes late.
Returning == pc \in {"release", "pausereturn"}

Agree ==
  ~LateSignals =>
    /\ Returning => pausetrig.laststate = pausetrig.trigger
    /\ (~Exiting /\ ~Returning) \/ pc = "sleep" => (wasPaused <=> pausetrig.laststate # {})

SuspendInv == TypesNeeded /\ NoModesInLoop /\ WhoSuspends /\ Agree

----------------------------------------------------------------------------
(* What the steps of the triggers do to it *)

USE DEF TRIGSETBY

\* An exit once asked for stays asked for, whatever the check finds.
LEMMA PollExitKeeps ==
  ASSUME TypesNeeded, PollExit
  PROVE  /\ exittrig' \in [trigger : SUBSET TRIGSETBY, laststate : BOOLEAN]
         /\ pausetrig' = pausetrig /\ doingmodes' = doingmodes
         /\ Exiting => Exiting'
<1>1. Found \in SUBSET TRIGSETBY /\ (Exiting => Found # {})
  BY DEF TypesNeeded, Found, Exiting
<1>2. IniRaises => Found = {}
  BY DEF IniRaises, LooksAtIni
<1> QED
  BY <1>1, <1>2 DEF TypesNeeded, PollExit, Exiting

\* A raised exit request stays raised.
LEMMA RaiseExitKeeps ==
  ASSUME TypesNeeded, RaiseExit
  PROVE  /\ exittrig' \in [trigger : SUBSET TRIGSETBY, laststate : BOOLEAN]
         /\ Exiting'
BY DEF TypesNeeded, RaiseExit, Exiting

LEMMA LatchExitKeeps ==
  ASSUME TypesNeeded, LatchExit
  PROVE  /\ exittrig' \in [trigger : SUBSET TRIGSETBY, laststate : BOOLEAN]
         /\ Exiting' = Exiting
BY DEF TypesNeeded, LatchExit, Exiting

\* After the triggers are cleared there is neither a pause nor an exit.
LEMMA ClearKeeps ==
  ASSUME Clear
  PROVE  /\ exittrig' \in [trigger : SUBSET TRIGSETBY, laststate : BOOLEAN]
         /\ pausetrig' \in [trigger : SUBSET TRIGSETBY, laststate : SUBSET TRIGSETBY]
         /\ pausetrig'.laststate = {}
BY DEF Clear, NotExiting, NotPaused

\* The check leaves the state it has tested behind, unless the client exits.
LEMMA CheckPauseKeeps ==
  ASSUME TypesNeeded, CheckPause, ~doingmodes
  PROVE  /\ exittrig' = exittrig /\ doingmodes' = doingmodes
         /\ pausetrig' \in [trigger : SUBSET TRIGSETBY, laststate : SUBSET TRIGSETBY]
         /\ ~ChecksPause => Exiting' /\ pausetrig' = pausetrig
         /\ ChecksPause => pausetrig'.laststate = pausetrig'.trigger
<1>1. PauseTrigger \in SUBSET TRIGSETBY
  BY DEF TypesNeeded, PauseTrigger
<1> QED
  BY <1>1 DEF TypesNeeded, CheckPause, ChecksPause, Exiting

\* What arrives from outside changes neither what the last check saw nor the
\* loop, and takes back no exit.
LEMMA ArrivesKeeps ==
  ASSUME TypesNeeded, Arrives
  PROVE  /\ exittrig' \in [trigger : SUBSET TRIGSETBY, laststate : BOOLEAN]
         /\ pausetrig' \in [trigger : SUBSET TRIGSETBY, laststate : SUBSET TRIGSETBY]
         /\ pausetrig'.laststate = pausetrig.laststate /\ doingmodes' = doingmodes
         /\ Exiting => Exiting'
         /\ Returning /\ ~LateSignals => UNCHANGED pausetrig
         /\ UNCHANGED <<pc, caller, do_suspend, wasPaused, didSuspend>>
<1>1. /\ UNCHANGED <<pc, caller, do_suspend, wasPaused, didSuspend>>
      /\ Returning /\ ~LateSignals => UNCHANGED pausetrig
  BY DEF Arrives, Returning, runvars, modevars
<1>2. CASE Interrupt
  BY <1>1, <1>2 DEF TypesNeeded, Interrupt, RaiseExit, Exiting
<1>3. CASE PauseSignal("TSTP", pausetrig.trigger \cup {"signal"})
  BY <1>1, <1>3 DEF TypesNeeded, PauseSignal, Exiting
<1>4. CASE PauseSignal("CONT", pausetrig.trigger \ {"signal"})
  BY <1>1, <1>4 DEF TypesNeeded, PauseSignal, Exiting
<1>5. CASE Hangup
  BY <1>1, <1>5 DEF TypesNeeded, Hangup, RaiseExit, Exiting
<1>6. CASE FlagFile \/ IniFile
  BY <1>1, <1>6 DEF TypesNeeded, FlagFile, IniFile, trigstatics, Exiting
<1> QED
  BY <1>2, <1>3, <1>4, <1>5, <1>6 DEF Arrives, Signal

----------------------------------------------------------------------------
(* SuspendInv is inductive *)

\* Nobody is suspended at the start.
LEMMA SuspendInit == Init => SuspendInv
<1> SUFFICES ASSUME Init PROVE SuspendInv
  OBVIOUS
<1>1. /\ exittrig = NotExiting /\ pausetrig = NotPaused /\ doingmodes = FALSE
      /\ do_suspend = FALSE /\ wasPaused = FALSE /\ didSuspend = FALSE /\ pc = "boot"
  BY DEF Init, TriggersInit
<1>2. Outside /\ ~AtRun /\ ~AtModes
  BY <1>1 DEF Outside, AtRun, AtModes, Checking
<1>3. TypesNeeded
  BY <1>1, <1>2 DEF TypesNeeded, NotExiting, NotPaused
<1> QED
  BY <1>1, <1>2, <1>3 DEF SuspendInv, NoModesInLoop, WhoSuspends, Agree, Returning, NotPaused

\* No step suspends or releases the crunchers without the loop knowing why.
LEMMA SuspendStep == SuspendInv /\ [Next]_vars => SuspendInv'
<1> SUFFICES ASSUME SuspendInv, [Next]_vars PROVE SuspendInv'
  OBVIOUS
<1> USE DEF SuspendInv, NoModesInLoop, WhoSuspends, Agree, AtRun, AtModes, Outside, Checking,
            Returning, Goto, CheckExitThen
<1>1. CASE Boot
  BY <1>1, ClearKeeps DEF Boot, InitializeTriggers, TypesNeeded, runvars, Exiting
<1>2. CASE BootChecked
  BY <1>2 DEF BootChecked, TypesNeeded, trigvars, trigstatics, runvars, modevars, Exiting,
              ExitReported
<1>3. CASE ClientRun \/ StartThread \/ AllStarted
  BY <1>3 DEF ClientRun, StartThread, AllStarted, TypesNeeded, trigvars, trigstatics, runvars,
             modevars, Exiting
<1>4. CASE Quit
  BY <1>4, RaiseExitKeeps DEF Quit, TypesNeeded, modevars
<1>5. CASE Decide
  BY <1>5 DEF Decide, TypesNeeded, trigvars, trigstatics, runvars, modevars, Exiting
<1>6. CASE Deinit
  BY <1>6, ClearKeeps DEF Deinit, DeinitializeTriggers, TypesNeeded, runvars, modevars, Exiting
<1>7. CASE CheckExit
  BY <1>7, PollExitKeeps DEF CheckExit, TypesNeeded, runvars, modevars
<1>8. CASE IniRaise
  BY <1>8 DEF IniRaise, TypesNeeded, runvars, modevars, Exiting
<1>9. CASE Latch
  BY <1>9, LatchExitKeeps DEF Latch, TypesNeeded, runvars, modevars
<1>10. CASE Loop
  BY <1>10 DEF Loop, TypesNeeded, trigvars, trigstatics, modevars, Exiting
<1>11. CASE WakeUp
  BY <1>11 DEF WakeUp, TypesNeeded, trigvars, trigstatics, modevars, Exiting
<1>12. CASE LoopChecked
  BY <1>12 DEF LoopChecked, TypesNeeded, trigvars, trigstatics, runvars, modevars, Exiting
<1>13. CASE Limit
  BY <1>13 DEF Limit, TypesNeeded, trigvars, trigstatics, runvars, modevars, Exiting
<1>14. CASE PauseChecked
  <2>1. TypesNeeded /\ ~doingmodes /\ AtRun
    BY <1>14 DEF PauseChecked
  <2>2. CASE ChecksPause
    BY <1>14, <2>1, <2>2, CheckPauseKeeps DEF PauseChecked, TypesNeeded, modevars, Exiting
  <2>3. CASE ~ChecksPause
    <3>1. do_suspend \in BOOLEAN /\ wasPaused \in BOOLEAN /\ (do_suspend <=> wasPaused)
      BY <2>1 DEF TypesNeeded
    <3>2. do_suspend' = FALSE /\ wasPaused' = FALSE /\ pc' = "maybemodes"
      BY <1>14, <2>3, <3>1 DEF PauseChecked, FollowPause
    <3>3. CheckPause /\ didSuspend' = didSuspend
      BY <1>14 DEF PauseChecked, modevars
    <3>4. /\ exittrig' = exittrig /\ pausetrig' = pausetrig /\ doingmodes' = FALSE
          /\ Exiting'
      BY <2>1, <2>3, <3>3, CheckPauseKeeps DEF TypesNeeded
    <3> QED
      BY <2>1, <3>2, <3>3, <3>4 DEF TypesNeeded
  <2> QED BY <2>2, <2>3
<1>15. CASE Release \/ AllReleased
  BY <1>15 DEF Release, AllReleased, TypesNeeded, trigvars, trigstatics, runvars, modevars, Exiting
<1>16. CASE PauseReturned
  BY <1>16 DEF PauseReturned, FollowPause, PauseReported, TypesNeeded, trigvars, trigstatics,
              modevars, Exiting
<1>17. CASE MaybeModes
  BY <1>17 DEF MaybeModes, TypesNeeded, trigvars, trigstatics, Exiting
<1>18. CASE AllSuspended
  BY <1>18 DEF AllSuspended, TypesNeeded, trigvars, trigstatics, runvars, modevars, Exiting
<1>19. CASE ModeReqRun
  BY <1>19 DEF ModeReqRun, TypesNeeded, trigvars, trigstatics, runvars, Exiting
<1>20. CASE ModeLoop
  BY <1>20 DEF ModeLoop, TypesNeeded, trigvars, trigstatics, runvars, Exiting
<1>21. CASE Mode
  BY <1>21 DEF Mode, TypesNeeded, trigvars, trigstatics, runvars, Exiting
<1>22. CASE ModesPass
  BY <1>22 DEF ModesPass, TypesNeeded, trigvars, trigstatics, runvars, Exiting
<1>23. CASE ModesEnd
  BY <1>23, RaiseExitKeeps DEF ModesEnd, TypesNeeded, runvars, modevars, Exiting
<1>24. CASE ModeRaise
  BY <1>24 DEF ModeRaise, TypesNeeded, runvars, modevars, Exiting
<1>25. CASE ModesDone
  BY <1>25 DEF ModesDone, Unsuspend, TypesNeeded, trigvars, trigstatics, Exiting
<1>26. CASE PollStep
  BY <1>26 DEF PollStep, TypesNeeded, trigvars, trigstatics, modevars, Exiting
<1>27. CASE Connect
  BY <1>27 DEF Connect, TypesNeeded, trigvars, trigstatics, Exiting
<1>28. CASE Request
  BY <1>28 DEF Request, TypesNeeded, trigvars, trigstatics, runvars, Exiting
<1>29. CASE Arrives
  BY <1>29, ArrivesKeeps DEF TypesNeeded
<1>30. CASE UNCHANGED vars
  BY <1>30 DEF vars, TypesNeeded, trigvars, trigstatics, runvars, modevars, Exiting
<1> QED
  BY <1>1, <1>2, <1>3, <1>4, <1>5, <1>6, <1>7, <1>8, <1>9, <1>10, <1>11, <1>12, <1>13,
     <1>14, <1>15, <1>16, <1>17, <1>18, <1>19, <1>20, <1>21, <1>22, <1>23, <1>24,
     <1>25, <1>26, <1>27, <1>28, <1>29, <1>30
  DEF Next, MainThread

\* Who suspends the crunchers, in every reachable state.
THEOREM Suspension == Spec => []SuspendInv
<1> QED
  BY SuspendInit, SuspendStep, PTL DEF Spec

----------------------------------------------------------------------------
(* The property *)

\* A call of a cruncher that works is a step of a sleep, in which the crunchers
\* are not suspended.
LEMMA WorksUnpaused ==
  ASSUME ~LateSignals, SuspendInv, Next, ran' # None
  PROVE  pausetrig.laststate = {}
<1>1. PollStep
  BY DEF Next, MainThread, Quiet, Boot, BootChecked, ClientRun, StartThread, AllStarted, Quit,
         Decide, Deinit, CheckExit, IniRaise, Latch, Loop, WakeUp, LoopChecked, Limit,
         PauseChecked, Release, AllReleased, PauseReturned, MaybeModes, AllSuspended,
         ModeReqRun, ModeLoop, Mode, ModesPass, ModesEnd, ModeRaise, ModesDone,
         Connect, Request, Arrives
<1>2. pc = "sleep" /\ ~do_suspend
  BY <1>1 DEF PollStep, SuspendInv, TypesNeeded
<1> QED
  BY <1>2 DEF SuspendInv, TypesNeeded, WhoSuspends, AtRun, Agree

\* While the last check found the client paused no cruncher works: the run of
\* clirun.cpp's loop, for every number of crunchers and requests, if no pause is
\* signalled while a check returns.
THEOREM NoWorkInPause ==
  ASSUME ~LateSignals PROVE Spec => PauseTakesEffect
<1>1. SuspendInv /\ [Next]_vars => [ran' # None => pausetrig.laststate = {}]_vars
  BY WorksUnpaused
<1> QED
  BY <1>1, Suspension, PTL DEF Spec, PauseTakesEffect

----------------------------------------------------------------------------
(* What the operations of PollSys do to the places of procedures *)

\* The data once the list is allocated, and the procedures that are somewhere.
Lists == [runlist : [Entries -> Procs \cup {None}], regcount : Nat,
          nextrun : 0 .. ENTRIES, paused : Seq(Procs)]

Present(p) ==
  {c \in Procs : (\E e \in Entries : p.runlist[e] = c) \/ (\E i \in DOMAIN p.paused : p.paused[i] = c)}

\* No procedure is in two places.
Distinct(p) ==
  /\ \A e, f \in Entries : p.runlist[e] = p.runlist[f] /\ p.runlist[e] # None => e = f
  /\ \A i, j \in DOMAIN p.paused : p.paused[i] = p.paused[j] => i = j
  /\ \A e \in Entries, i \in DOMAIN p.paused : p.runlist[e] # p.paused[i]

Enough(p) == p.regcount >= Cardinality(InUse(p))

Good(p) == p \in Lists /\ Distinct(p) /\ Enough(p)

\* A set of numbers that is not empty has a least one.
LEMMA LeastNumber ==
  ASSUME NEW S \in SUBSET Nat, S # {}
  PROVE  \E x \in S : \A y \in S : x <= y
<1>1. PICK x \in S : \A y \in S : <<y, x>> \notin OpToRel(<, Nat)
  BY Zenon, NatLessThanWellFounded, WFMin
<1>2. \A y \in S : ~(y < x)
  BY <1>1, Zenon DEF OpToRel
<1> QED BY <1>2

\* Entries can be counted.
LEMMA EntriesFinite ==
  ASSUME NEW S \in SUBSET Entries
  PROVE  IsFiniteSet(S) /\ Cardinality(S) \in Nat
<1>1. IsFiniteSet(Entries)
  BY PollSysAssumption, FS_Interval DEF Entries
<1> QED
  BY <1>1, FS_Subset, FS_CardinalityType

\* An allocated list is not an empty one.
LEMMA Allocation ==
  ASSUME NEW r \in [Entries -> Procs \cup {None, initchk}]
  PROVE  r # <<>>
<1>1. 1 \in DOMAIN r
  BY PollSysAssumption DEF Entries
<1>2. DOMAIN <<>> = {}
  OBVIOUS
<1> QED BY <1>1, <1>2

\* The list has an entry for each procedure that is not in it.
LEMMA FreeEntry ==
  ASSUME NEW p, Good(p), NEW c \in Procs, c \notin Present(p)
  PROVE  FirstFree(p) \in Entries /\ p.runlist[FirstFree(p)] = None
<1>1. Free(p) # {}
  <2> SUFFICES ASSUME Free(p) = {} PROVE FALSE
    OBVIOUS
  <2>1. p.runlist \in [Entries -> Procs \ {c}]
    <3>1. \A e \in Entries : p.runlist[e] \in Procs \ {c}
      BY DEF Good, Lists, Free, Present
    <3> QED BY <3>1 DEF Good, Lists
  <2>2. IsFiniteSet(Entries) /\ Cardinality(Entries) = ENTRIES
    BY PollSysAssumption, FS_Interval DEF Entries
  <2>3. IsFiniteSet(Procs \ {c}) /\ Cardinality(Procs \ {c}) = Cardinality(Procs) - 1
    BY PollSysAssumption, FS_RemoveElement
  <2>4. Cardinality(Procs \ {c}) < Cardinality(Entries)
    BY <2>2, <2>3, PollSysAssumption, FS_CardinalityType
  <2>5. \E e, f \in Entries : e # f /\ p.runlist[e] = p.runlist[f]
    BY <2>1, <2>2, <2>3, <2>4, FS_PigeonHole
  <2> QED
    BY <2>5 DEF Good, Distinct, Free
<1>2. Free(p) \in SUBSET Nat
  BY PollSysAssumption DEF Free, Entries
<1>3. \E e \in Free(p) : \A f \in Free(p) : e <= f
  BY <1>1, <1>2, LeastNumber
<1> QED
  BY <1>3 DEF FirstFree, Free

\* The polling loop finds an entry in use if there is one.
LEMMA TurnFound ==
  ASSUME NEW p \in Lists, InUse(p) # {}
  PROVE  Turn(p) \in Entries /\ p.runlist[Turn(p)] \in Procs
<1> DEFINE S == {After(p, e) : e \in InUse(p)}
<1>1. \A e \in InUse(p) : After(p, e) \in Nat
  <2> SUFFICES ASSUME NEW e \in Entries PROVE After(p, e) \in Nat
    BY DEF InUse
  <2> DEFINE k == IF p.nextrun = 0 THEN 1 ELSE p.nextrun
  <2>1. k \in 1 .. ENTRIES /\ e \in 1 .. ENTRIES /\ ENTRIES \in Nat \ {0}
    BY PollSysAssumption DEF Lists, Entries
  <2>2. (e + ENTRIES) - k \in Nat
    BY <2>1
  <2> HIDE DEF k
  <2>3. ((e + ENTRIES) - k) % ENTRIES \in Nat
    BY <2>1, <2>2
  <2> QED BY <2>3 DEF After, k
<1>2. S \in SUBSET Nat /\ S # {}
  BY <1>1
<1>3. PICK x \in S : \A y \in S : x <= y
  BY <1>2, LeastNumber
<1>4. \E e \in InUse(p) : \A f \in InUse(p) : After(p, e) <= After(p, f)
  BY <1>3
<1>5. Turn(p) \in InUse(p)
  BY <1>4 DEF Turn
<1> QED
  BY <1>5 DEF InUse, Lists

\* A procedure that was nowhere is in the list, once.
LEMMA Registered ==
  ASSUME NEW p, Good(p), NEW c \in Procs, c \notin Present(p)
  PROVE  LET q == RegPolledProcedure(p, c)
         IN /\ Good(q) /\ Present(q) = Present(p) \cup {c}
            /\ q.paused = p.paused
<1> DEFINE e == FirstFree(p)
           q == [p EXCEPT !.runlist[e] = c, !.regcount = @ + 1]
<1>1. e \in Entries /\ p.runlist[e] = None
  BY FreeEntry
<1> HIDE DEF e
<1>2. RegPolledProcedure(p, c) = q
  BY Allocation DEF RegPolledProcedure, Allocated, Good, Lists, e
<1>3. p.regcount \in Nat /\ p.regcount + 1 \in Nat
  BY DEF Good, Lists
<1>4. /\ q \in Lists /\ q.paused = p.paused /\ q.regcount = p.regcount + 1
      /\ \A f \in Entries : q.runlist[f] = IF f = e THEN c ELSE p.runlist[f]
  BY <1>1, <1>3 DEF Good, Lists
<1> HIDE DEF q
<1>5. Distinct(q)
  <2>1. \A f \in Entries : p.runlist[f] # c
    BY DEF Present
  <2>2. \A i \in DOMAIN p.paused : p.paused[i] # c
    BY DEF Present
  <2> QED BY <1>1, <1>4, <2>1, <2>2 DEF Good, Distinct
<1>6. Present(q) = Present(p) \cup {c}
  <2>1. c \in Present(q)
    BY <1>1, <1>4 DEF Present
  <2>2. ASSUME NEW d \in Procs, d # c PROVE d \in Present(q) <=> d \in Present(p)
    BY <1>1, <1>4, <2>2, PollSysAssumption DEF Present
  <2> QED BY <2>1, <2>2 DEF Present
<1>7. Enough(q)
  <2>1. InUse(q) = InUse(p) \cup {e} /\ e \notin InUse(p)
    BY <1>1, <1>4, PollSysAssumption DEF InUse
  <2>2. IsFiniteSet(InUse(p)) /\ Cardinality(InUse(p)) \in Nat
    BY EntriesFinite DEF InUse
  <2>3. Cardinality(InUse(q)) = Cardinality(InUse(p)) + 1
    BY <2>1, <2>2, FS_AddElement
  <2> QED BY <1>3, <1>4, <2>2, <2>3 DEF Good, Enough, Lists
<1> QED BY <1>2, <1>4, <1>5, <1>6, <1>7 DEF Good

\* A procedure that is taken from the list is nowhere.
LEMMA Taken ==
  ASSUME NEW p, Good(p), NEW e \in Entries, p.runlist[e] \in Procs
  PROVE  LET q == TakenFor(p, e)
         IN /\ Good(q) /\ Present(q) = Present(p) \ {p.runlist[e]}
            /\ p.runlist[e] \in Present(p)
            /\ q.paused = p.paused
<1> DEFINE q == TakenFor(p, e)
           c == p.runlist[e]
<1>0. ENTRIES \in Nat \ {0} /\ e \in 1 .. ENTRIES
  BY PollSysAssumption DEF Entries
<1>1. InUse(q) = InUse(p) \ {e} /\ e \in InUse(p)
  BY PollSysAssumption DEF TakenFor, InUse, Good, Lists
<1>2. IsFiniteSet(InUse(p)) /\ Cardinality(InUse(p)) \in Nat
  BY EntriesFinite DEF InUse
<1>3. Cardinality(InUse(q)) = Cardinality(InUse(p)) - 1 /\ Cardinality(InUse(p)) # 0
  BY <1>1, <1>2, FS_RemoveElement, FS_EmptySet
<1>4. p.regcount \in Nat /\ p.regcount - 1 \in Nat /\ p.regcount - 1 >= Cardinality(InUse(q))
  BY <1>2, <1>3 DEF Good, Enough, Lists
<1>5. (e % ENTRIES) + 1 \in 0 .. ENTRIES
  BY <1>0
<1>6. /\ q \in Lists /\ q.paused = p.paused /\ q.regcount = p.regcount - 1
      /\ \A f \in Entries : q.runlist[f] = IF f = e THEN None ELSE p.runlist[f]
  BY <1>4, <1>5 DEF Good, Lists, TakenFor
<1> HIDE DEF q
<1>7. Distinct(q)
  <2>1. \A i \in DOMAIN p.paused : p.paused[i] # None
    BY PollSysAssumption DEF Good, Lists
  <2> QED BY <1>6, <2>1 DEF Good, Distinct
<1>8. Present(q) = Present(p) \ {c} /\ c \in Present(p)
  <2>1. c \in Procs /\ c # None /\ c \in Present(p)
    BY PollSysAssumption DEF Present
  <2>2. c \notin Present(q)
    BY <1>6, <2>1 DEF Present, Good, Distinct
  <2>3. ASSUME NEW d \in Procs, d # c PROVE d \in Present(q) <=> d \in Present(p)
    BY <1>6, <2>1, <2>3, PollSysAssumption DEF Present
  <2> QED BY <2>1, <2>2, <2>3 DEF Present
<1> QED BY <1>3, <1>4, <1>6, <1>7, <1>8 DEF Good, Enough, q

\* A procedure that was nowhere is on hold, once.
LEMMA Enqueued ==
  ASSUME NEW p, Good(p), NEW c \in Procs, c \notin Present(p)
  PROVE  LET q == EnqueuePolledProcedure(p, c)
         IN Good(q) /\ Present(q) = Present(p) \cup {c}
<1> DEFINE q == EnqueuePolledProcedure(p, c)
<1>1. p.paused \in Seq(Procs) /\ q.paused = <<c>> \o p.paused /\ q.paused \in Seq(Procs)
  BY DEF EnqueuePolledProcedure, Good, Lists
<1>2. /\ q \in Lists /\ q.runlist = p.runlist /\ q.regcount = p.regcount
  BY <1>1 DEF EnqueuePolledProcedure, Good, Lists
<1> HIDE DEF q
<1>3. /\ Len(q.paused) = Len(p.paused) + 1 /\ q.paused[1] = c /\ Len(p.paused) \in Nat
      /\ DOMAIN q.paused = 1 .. Len(p.paused) + 1 /\ DOMAIN p.paused = 1 .. Len(p.paused)
      /\ \A i \in DOMAIN p.paused : q.paused[i + 1] = p.paused[i]
  BY <1>1
<1>4. \A i \in DOMAIN q.paused : i = 1 \/ (i - 1 \in DOMAIN p.paused /\ q.paused[i] = p.paused[i - 1])
  BY <1>3
<1>5. /\ \A f \in Entries : p.runlist[f] # c
      /\ \A i \in DOMAIN p.paused : p.paused[i] # c
  BY DEF Present
<1>6. Distinct(q)
  <2>1. ASSUME NEW i \in DOMAIN q.paused, NEW j \in DOMAIN q.paused, q.paused[i] = q.paused[j]
        PROVE  i = j
    <3>0. ASSUME NEW k \in DOMAIN q.paused, q.paused[k] = c PROVE k = 1
      BY <1>4, <1>5, <3>0
    <3>1. CASE i = 1 \/ j = 1
      <4>1. q.paused[i] = c /\ q.paused[j] = c
        BY <1>3, <2>1, <3>1
      <4> QED BY <3>0, <4>1
    <3>2. CASE i # 1 /\ j # 1
      <4>1. i - 1 = j - 1
        BY <1>4, <2>1, <3>2 DEF Good, Distinct
      <4> QED BY <4>1, <1>3
    <3> QED BY <3>1, <3>2
  <2>2. ASSUME NEW f \in Entries, NEW i \in DOMAIN q.paused PROVE q.runlist[f] # q.paused[i]
    BY <1>2, <1>3, <1>4, <1>5 DEF Good, Distinct
  <2> QED BY <1>2, <2>1, <2>2 DEF Good, Distinct
<1>7. Present(q) = Present(p) \cup {c}
  <2>1. c \in Present(q)
    BY <1>3 DEF Present
  <2>2. ASSUME NEW d \in Procs, d # c PROVE d \in Present(q) <=> d \in Present(p)
    <3>1. (\E i \in DOMAIN q.paused : q.paused[i] = d) <=> (\E i \in DOMAIN p.paused : p.paused[i] = d)
      <4>1. ASSUME NEW i \in DOMAIN q.paused, q.paused[i] = d
            PROVE  \E j \in DOMAIN p.paused : p.paused[j] = d
        BY <1>3, <1>4, <2>2, <4>1
      <4>2. ASSUME NEW i \in DOMAIN p.paused, p.paused[i] = d
            PROVE  \E j \in DOMAIN q.paused : q.paused[j] = d
        <5>1. i + 1 \in DOMAIN q.paused
          BY <1>3
        <5> QED BY <1>3, <4>2, <5>1
      <4> QED BY <4>1, <4>2
    <3> QED BY <1>2, <3>1 DEF Present
  <2> QED BY <2>1, <2>2 DEF Present
<1>8. Enough(q)
  BY <1>2 DEF Good, Enough, InUse
<1> QED BY <1>2, <1>6, <1>7, <1>8 DEF Good, q

\* What is taken from the head of the queue is on hold no longer.
LEMMA Unheld ==
  ASSUME NEW p, Good(p), p.paused # <<>>
  PROVE  LET q == [p EXCEPT !.paused = Tail(@)]
         IN /\ Good(q) /\ Present(q) = Present(p) \ {Head(p.paused)}
            /\ Head(p.paused) \in Present(p)
<1> DEFINE q == [p EXCEPT !.paused = Tail(@)]
           c == Head(p.paused)
<1>1. p.paused \in Seq(Procs) /\ q.paused = Tail(p.paused) /\ q.paused \in Seq(Procs)
  BY DEF Good, Lists
<1>2. /\ q \in Lists /\ q.runlist = p.runlist /\ q.regcount = p.regcount
  BY <1>1 DEF Good, Lists
<1> HIDE DEF q
<1>3. /\ Len(p.paused) \in Nat \ {0} /\ p.paused[1] = c
      /\ DOMAIN q.paused = 1 .. Len(p.paused) - 1 /\ DOMAIN p.paused = 1 .. Len(p.paused)
      /\ \A i \in DOMAIN q.paused : q.paused[i] = p.paused[i + 1]
  BY <1>1
<1>4. \A i \in DOMAIN q.paused : i + 1 \in DOMAIN p.paused /\ i + 1 # 1
  BY <1>3
<1>5. c \in Procs /\ 1 \in DOMAIN p.paused
  BY <1>1, <1>3
<1>6. Distinct(q)
  <2>1. ASSUME NEW i \in DOMAIN q.paused, NEW j \in DOMAIN q.paused, q.paused[i] = q.paused[j]
        PROVE  i = j
    <3>1. i + 1 = j + 1
      BY <1>3, <1>4, <2>1 DEF Good, Distinct
    <3> QED BY <3>1, <1>3
  <2> QED BY <1>2, <1>3, <1>4, <2>1 DEF Good, Distinct
<1>7. Present(q) = Present(p) \ {c} /\ c \in Present(p)
  <2>1. c \in Present(p)
    BY <1>3, <1>5 DEF Present
  <2>2. c \notin Present(q)
    <3>1. \A f \in Entries : q.runlist[f] # c
      BY <1>2, <1>3, <1>5 DEF Good, Distinct
    <3>2. ASSUME NEW i \in DOMAIN q.paused, q.paused[i] = c PROVE FALSE
      <4>1. i + 1 \in DOMAIN p.paused /\ i + 1 # 1
        BY <1>4
      <4>2. p.paused[i + 1] = p.paused[1]
        BY <1>3, <3>2
      <4> QED BY <1>5, <4>1, <4>2 DEF Good, Distinct
    <3> QED BY <3>1, <3>2 DEF Present
  <2>3. ASSUME NEW d \in Procs, d # c PROVE d \in Present(q) <=> d \in Present(p)
    <3>1. ASSUME NEW i \in DOMAIN p.paused, p.paused[i] = d
          PROVE  \E j \in DOMAIN q.paused : q.paused[j] = d
      <4>1. i - 1 \in DOMAIN q.paused /\ (i - 1) + 1 = i
        BY <1>3, <2>3, <3>1
      <4> QED BY <1>3, <3>1, <4>1
    <3>2. ASSUME NEW i \in DOMAIN q.paused, q.paused[i] = d
          PROVE  \E j \in DOMAIN p.paused : p.paused[j] = d
      BY <1>3, <1>4, <3>2
    <3> QED BY <1>2, <3>1, <3>2 DEF Present
  <2> QED BY <2>1, <2>2, <2>3 DEF Present
<1>8. Enough(q)
  BY <1>2 DEF Good, Enough, InUse
<1> QED BY <1>2, <1>6, <1>7, <1>8 DEF Good, q

\* The list InitializePolling() leaves is free.
LEMMA Initialized ==
  ASSUME NEW p, p \in [runlist : {<<>>}, regcount : Nat, nextrun : 0 .. ENTRIES, paused : {<<>>}]
  PROVE  LET q == InitializePolling(p)
         IN Good(q) /\ Present(q) = {} /\ q.paused = <<>>
<1> DEFINE a == [p EXCEPT !.runlist = [e \in Entries |-> None], !.nextrun = 0]
           b == [a EXCEPT !.runlist[1] = initchk, !.regcount = @ + 1]
           q == [b EXCEPT !.runlist[1] = None, !.regcount = @ - 1]
<1>1. 1 \in Entries
  BY PollSysAssumption DEF Entries
<1>2. a.runlist = [e \in Entries |-> None] /\ FirstFree(a) = 1
  <2>1. a.runlist = [e \in Entries |-> None]
    OBVIOUS
  <2>2. Free(a) = Entries
    BY <2>1 DEF Free
  <2>3. \A e \in Entries : 1 <= e
    BY PollSysAssumption DEF Entries
  <2> QED BY <1>1, <2>1, <2>2, <2>3, PollSysAssumption DEF FirstFree, Entries
<1>3. RegPolledProcedure(p, initchk) = b
  BY <1>2 DEF RegPolledProcedure, Allocated
<1>4. b.runlist # <<>>
  <2>1. b.runlist \in [Entries -> Procs \cup {None, initchk}]
    BY <1>1
  <2> QED BY <2>1, Allocation
<1>5. InitializePolling(p) = q
  BY <1>3, <1>4 DEF InitializePolling, UnregPolledProcedure
<1>6. q \in Lists /\ q.paused = <<>> /\ \A e \in Entries : q.runlist[e] = None
  <2> DEFINE All == [runlist : [Entries -> Procs \cup {None, initchk}], regcount : Nat,
                     nextrun : 0 .. ENTRIES, paused : Seq(Procs)]
  <2>1. /\ p.regcount \in Nat /\ p.regcount + 1 \in Nat
        /\ p.paused = <<>> /\ <<>> \in Seq(Procs) /\ 0 \in 0 .. ENTRIES
    BY PollSysAssumption
  <2>2. /\ a \in All /\ a.regcount = p.regcount /\ a.paused = <<>>
        /\ \A e \in Entries : a.runlist[e] = None
    BY <2>1
  <2> HIDE DEF a
  <2>3. /\ b \in All /\ b.regcount = p.regcount + 1 /\ b.paused = <<>>
        /\ \A e \in Entries : b.runlist[e] = IF e = 1 THEN initchk ELSE None
    <3>1. a.runlist \in [Entries -> Procs \cup {None, initchk}]
      BY <2>2
    <3> QED BY <1>1, <2>1, <2>2, <3>1
  <2> HIDE DEF b
  <2>4. (p.regcount + 1) - 1 \in Nat
    BY <2>1
  <2>5. /\ q \in All /\ q.paused = <<>> /\ \A e \in Entries : q.runlist[e] = None
    BY <1>1, <2>1, <2>3, <2>4
  <2> HIDE DEF q
  <2> QED BY <2>5 DEF Lists
<1> HIDE DEF q
<1>7. Present(q) = {} /\ Distinct(q) /\ InUse(q) = {}
  BY <1>6, PollSysAssumption DEF Present, Distinct, InUse
<1>8. Enough(q)
  BY <1>6, <1>7, FS_EmptySet DEF Enough, Lists
<1> QED BY <1>5, <1>6, <1>7, <1>8 DEF Good

----------------------------------------------------------------------------
(* Each started cruncher is in one place *)

\* The data before the list is allocated and after it is freed.
Unlisted == [runlist : {<<>>}, regcount : Nat, nextrun : 0 .. ENTRIES, paused : {<<>>}]

StartedOnes == {Order[n] : n \in 1 .. started}

\* The list exists in a run only, and holds those that were started.
PollInv ==
  /\ started \in 0 .. Len(Order)
  /\ \/ poll \in Unlisted /\ started = 0
     \/ Good(poll) /\ Present(poll) = StartedOnes
  /\ pc = "start" => InRun
  /\ (Outside /\ pc # "start") \/ (AtModes /\ doingmodes) => ~InRun

\* Those on hold are so in a pause that a check has seen, and will see end.
HoldInv ==
  ~LateSignals => (poll.paused # <<>> /\ pc # "release" => pausetrig.laststate # {})

\* No cruncher is started twice.
LEMMA OrderDistinct ==
  /\ Len(Order) \in Nat /\ \A n \in 1 .. Len(Order) : Order[n] \in Procs
  /\ \A n, m \in 1 .. Len(Order) : Order[n] = Order[m] => n = m
<1>1. Len(Order) \in Nat /\ \A n \in 1 .. Len(Order) : Order[n] \in Procs
  BY ClientMainAssumption
<1>2. ASSUME NEW n \in 1 .. Len(Order), NEW m \in 1 .. Len(Order), Order[n] = Order[m]
      PROVE  n = m
  <2>1. PICK k \in 1 .. Len(Order) : \A i \in 1 .. Len(Order) : Order[i] = Order[n] <=> i = k
    BY <1>1, ClientMainAssumption
  <2> QED BY <1>2, <2>1
<1> QED BY <1>1, <1>2

\* Whether the list exists shows in the data as a whole.
LEMMA InRunListed ==
  ASSUME PollInv
  PROVE  /\ InRun => Good(poll) /\ Present(poll) = StartedOnes
         /\ ~InRun => poll \in Unlisted /\ started = 0
         /\ poll.paused # <<>> => InRun
         /\ Good(poll) => InRun
<1>1. Good(poll) => InRun
  BY Allocation DEF Good, Lists, InRun
<1>2. poll \in Unlisted => ~InRun /\ poll.paused = <<>>
  BY DEF Unlisted, InRun
<1> QED BY <1>1, <1>2 DEF PollInv

\* Nothing is registered before the first run.
LEMMA PollInit == Init => PollInv /\ HoldInv
<1> SUFFICES ASSUME Init PROVE PollInv /\ HoldInv
  OBVIOUS
<1>1. poll = NoPolling /\ started = 0 /\ pc = "boot"
  BY DEF Init
<1>2. poll \in Unlisted /\ ~InRun
  BY <1>1, PollSysAssumption DEF NoPolling, Unlisted, InRun
<1>3. poll.paused = <<>>
  BY <1>1 DEF NoPolling
<1> QED BY <1>1, <1>2, <1>3, OrderDistinct DEF PollInv, HoldInv, AtModes

\* The crunchers are registered one after the other, each for the first time.
LEMMA StartSteps ==
  ASSUME SuspendInv, PollInv, ClientRun \/ StartThread
  PROVE  PollInv' /\ poll'.paused = poll.paused
<1>1. CASE ClientRun
  <2>1. poll \in Unlisted /\ started = 0 /\ poll.paused = <<>>
    BY <1>1, InRunListed DEF ClientRun, PollInv, Outside, Unlisted
  <2>2. poll' = InitializePolling(poll) /\ started' = started /\ pc' = "start"
    BY <1>1 DEF ClientRun, Goto, mainvars
  <2>3. Good(poll') /\ Present(poll') = {} /\ poll'.paused = <<>>
    BY <2>1, <2>2, Initialized DEF Unlisted
  <2>4. StartedOnes' = {}
    BY <2>1, <2>2 DEF StartedOnes
  <2>5. InRun'
    BY <2>3, Allocation DEF Good, Lists, InRun
  <2> QED BY <2>1, <2>2, <2>3, <2>4, <2>5, OrderDistinct DEF PollInv, AtModes
<1>2. CASE StartThread
  <2> DEFINE c == Order[started + 1]
  <2>1. /\ pc = "start" /\ started \in Nat /\ started + 1 \in 1 .. Len(Order)
        /\ started' = started + 1 /\ pc' = pc /\ poll' = RegPolledProcedure(poll, c)
    BY <1>2, OrderDistinct DEF StartThread, PollInv
  <2>2. Good(poll) /\ Present(poll) = StartedOnes
    BY <2>1, InRunListed DEF PollInv
  <2>3. c \in Procs /\ c \notin StartedOnes
    BY <2>1, OrderDistinct DEF StartedOnes
  <2>4. /\ Good(poll') /\ Present(poll') = StartedOnes \cup {c} /\ poll'.paused = poll.paused
    BY <2>1, <2>2, <2>3, Registered
  <2>5. StartedOnes' = StartedOnes \cup {c}
    BY <2>1 DEF StartedOnes
  <2>6. InRun'
    BY <2>4, Allocation DEF Good, Lists, InRun
  <2> QED BY <2>1, <2>4, <2>5, <2>6 DEF PollInv, AtModes
<1> QED BY <1>1, <1>2

\* A cruncher that is called is back in the list, or on hold, when it returns.
LEMMA PollStepKeeps ==
  ASSUME SuspendInv, PollInv, PollStep
  PROVE  /\ PollInv'
         /\ ~do_suspend => poll'.paused = poll.paused
<1>1. /\ pc = "sleep" /\ pc' = pc /\ started' = started
      /\ Polls(poll) /\ InUse(poll) # {}
  BY DEF PollStep, mainvars
<1>2. Good(poll) /\ Present(poll) = StartedOnes
  BY <1>1, InRunListed DEF Polls, InRun
<1> DEFINE e == Turn(poll)
           c == poll.runlist[e]
           p == TakenFor(poll, e)
<1>3. e \in Entries /\ c \in Procs
  BY <1>1, <1>2, TurnFound DEF Good
<1> HIDE DEF e
<1>4. /\ Good(p) /\ Present(p) = StartedOnes \ {c} /\ c \in StartedOnes /\ p.paused = poll.paused
  BY <1>2, <1>3, Taken
<1>5. poll' = IF do_suspend THEN EnqueuePolledProcedure(p, c) ELSE RegPolledProcedure(p, c)
  BY DEF PollStep, e
<1> HIDE DEF c, p
<1>6. CASE do_suspend
  <2>1. Good(poll') /\ Present(poll') = (StartedOnes \ {c}) \cup {c}
    BY <1>3, <1>4, <1>5, <1>6, Enqueued
  <2> QED BY <1>1, <1>4, <1>6, <2>1 DEF PollInv, StartedOnes, Outside, AtModes, Checking
<1>7. CASE ~do_suspend
  <2>1. /\ Good(poll') /\ Present(poll') = (StartedOnes \ {c}) \cup {c}
        /\ poll'.paused = poll.paused
    BY <1>3, <1>4, <1>5, <1>7, Registered
  <2> QED BY <1>1, <1>4, <2>1 DEF PollInv, StartedOnes, Outside, AtModes, Checking
<1> QED BY <1>6, <1>7

\* A cruncher on hold that is released is in the list.
LEMMA ReleaseKeeps ==
  ASSUME PollInv, Release
  PROVE  PollInv'
<1>1. /\ pc = "release" /\ pc' = pc /\ started' = started /\ poll.paused # <<>>
      /\ poll' = RegQueuedPolledProcedures(poll)
  BY DEF Release, mainvars
<1>2. Good(poll) /\ Present(poll) = StartedOnes
  BY <1>1, InRunListed
<1> DEFINE c == Head(poll.paused)
           p == [poll EXCEPT !.paused = Tail(@)]
<1>3. /\ Good(p) /\ Present(p) = StartedOnes \ {c} /\ c \in StartedOnes
  BY <1>1, <1>2, Unheld
<1>4. c \in Procs
  BY <1>2, <1>3 DEF Present
<1>5. poll' = RegPolledProcedure(p, c)
  BY <1>1 DEF RegQueuedPolledProcedures
<1> HIDE DEF c, p
<1>6. Good(poll') /\ Present(poll') = (StartedOnes \ {c}) \cup {c}
  BY <1>3, <1>4, <1>5, Registered
<1> QED BY <1>1, <1>3, <1>6 DEF PollInv, StartedOnes, Outside, AtModes, Checking

\* With the list and the queue all places are freed.
LEMMA QuitKeeps ==
  ASSUME PollInv, Quit
  PROVE  PollInv' /\ poll'.paused = <<>>
<1>1. /\ poll' = DeinitializePolling(poll) /\ started' = 0 /\ pc' = "checkexit"
  BY DEF Quit, CheckExitThen
<1>2. poll.regcount \in Nat /\ poll.nextrun \in 0 .. ENTRIES
      /\ poll' = [poll EXCEPT !.runlist = <<>>, !.paused = <<>>]
  BY <1>1 DEF PollInv, Good, Lists, Unlisted, DeinitializePolling
<1>3. poll' \in Unlisted
  BY <1>2 DEF PollInv, Good, Lists, Unlisted
<1>4. ~InRun' /\ poll'.paused = <<>>
  BY <1>3 DEF Unlisted, InRun
<1> QED BY <1>1, <1>3, <1>4, OrderDistinct DEF PollInv, Outside, AtModes

\* A step that leaves the polling system alone.
LEMMA PollUnchanged ==
  ASSUME PollInv, poll' = poll, started' = started,
         pc' = "start" => pc = "start",
         (Outside /\ pc # "start") \/ (AtModes /\ doingmodes)
           \/ ~((Outside' /\ pc' # "start") \/ (AtModes' /\ doingmodes'))
  PROVE  PollInv'
BY DEF PollInv, StartedOnes, InRun, Good, Lists

\* No step loses or doubles a cruncher.
LEMMA PollKept == SuspendInv /\ PollInv /\ [Next]_vars => PollInv'
<1> SUFFICES ASSUME SuspendInv, PollInv, [Next]_vars PROVE PollInv'
  OBVIOUS
<1> USE DEF Outside, AtModes, Checking, Goto, CheckExitThen
<1>1. TypesNeeded /\ NoModesInLoop
  BY DEF SuspendInv
<1>2. CASE ClientRun \/ StartThread
  BY <1>2, StartSteps
<1>3. CASE PollStep \/ Release \/ Quit
  BY <1>3, PollStepKeeps, ReleaseKeeps, QuitKeeps
<1>4. CASE Boot \/ BootChecked \/ Decide \/ Deinit
  BY <1>4, PollUnchanged DEF Boot, BootChecked, Decide, Deinit, mainvars
<1>5. CASE AllStarted
  BY <1>5, PollUnchanged DEF AllStarted, mainvars
<1>6. CASE CheckExit \/ IniRaise
  BY <1>6, PollUnchanged DEF CheckExit, IniRaise, PollExit, mainvars
<1>7. CASE Latch
  BY <1>1, <1>7, PollUnchanged DEF Latch, TypesNeeded, AtRun, mainvars
<1>8. CASE Loop \/ WakeUp \/ LoopChecked \/ Limit \/ Connect \/ Request
  BY <1>8, PollUnchanged DEF Loop, WakeUp, LoopChecked, Limit, Connect, Request, mainvars
<1>9. CASE PauseChecked \/ AllReleased \/ PauseReturned
  BY <1>9, PollUnchanged DEF PauseChecked, AllReleased, PauseReturned, FollowPause, mainvars
<1>10. CASE MaybeModes \/ AllSuspended
  BY <1>1, <1>10, PollUnchanged
  DEF MaybeModes, AllSuspended, NoModesInLoop, AtRun, trigvars, trigstatics, mainvars
<1>11. CASE ModeReqRun \/ ModeLoop \/ Mode \/ ModesPass
  BY <1>11, PollUnchanged
  DEF ModeReqRun, ModeLoop, Mode, ModesPass, trigvars, trigstatics, mainvars
<1>12. CASE ModesEnd \/ ModeRaise \/ ModesDone
  BY <1>12, PollUnchanged DEF ModesEnd, ModeRaise, ModesDone, trigvars, trigstatics, mainvars
<1>13. CASE Arrives
  BY <1>1, <1>13, ArrivesKeeps, PollUnchanged DEF Arrives, mainvars
<1>14. CASE UNCHANGED vars
  BY <1>14, PollUnchanged DEF vars, trigvars, trigstatics, mainvars
<1> QED
  BY <1>2, <1>3, <1>4, <1>5, <1>6, <1>7, <1>8, <1>9, <1>10, <1>11, <1>12, <1>13, <1>14
  DEF Next, MainThread

\* A cruncher goes on hold in a pause, and a check that ends the pause releases it.
LEMMA HoldKept == SuspendInv /\ PollInv /\ HoldInv /\ [Next]_vars => HoldInv'
<1> SUFFICES ASSUME SuspendInv, PollInv, HoldInv, [Next]_vars, ~LateSignals,
                    poll'.paused # <<>>, pc' # "release"
             PROVE  pausetrig'.laststate # {}
  BY DEF HoldInv
<1> USE DEF Goto, CheckExitThen
<1>1. CASE ClientRun \/ StartThread
  <2>1. poll'.paused = poll.paused /\ pc # "release" /\ pausetrig' = pausetrig
    BY <1>1, StartSteps DEF ClientRun, StartThread, trigvars, trigstatics
  <2> QED BY <2>1 DEF HoldInv
<1>2. CASE PollStep
  <2>1. pc = "sleep" /\ pausetrig' = pausetrig
    BY <1>2 DEF PollStep, trigvars, trigstatics
  <2>2. CASE do_suspend
    BY <2>1, <2>2 DEF SuspendInv, TypesNeeded, WhoSuspends, AtRun, Agree
  <2>3. CASE ~do_suspend
    BY <1>2, <2>1, <2>3, PollStepKeeps DEF HoldInv
  <2> QED BY <2>2, <2>3
<1>3. CASE Quit
  BY <1>3, QuitKeeps
<1>4. CASE Boot \/ Deinit
  <2>1. poll' = poll /\ ~InRun
    BY <1>4 DEF Boot, Deinit, PollInv, Outside
  <2> QED BY <2>1, InRunListed
<1>5. CASE PauseChecked
  <2>1. poll' = poll /\ pc = "pausecheck" /\ CheckPause /\ (ChecksPause => ~PauseEnds)
    BY <1>5 DEF PauseChecked
  <2>2. pausetrig.laststate # {}
    BY <2>1 DEF HoldInv
  <2>3. CASE ChecksPause
    BY <2>1, <2>2, <2>3 DEF CheckPause, PauseEnds
  <2>4. CASE ~ChecksPause
    BY <2>1, <2>2, <2>4 DEF CheckPause
  <2> QED BY <2>3, <2>4
<1>6. CASE Release \/ AllReleased
  BY <1>6 DEF Release, AllReleased
<1>7. CASE Arrives
  <2>1. poll' = poll /\ pc' = pc /\ pausetrig'.laststate = pausetrig.laststate
    BY <1>7, ArrivesKeeps DEF Arrives, SuspendInv
  <2> QED BY <2>1 DEF HoldInv
<1>8. CASE \/ BootChecked \/ AllStarted \/ Decide \/ CheckExit \/ IniRaise \/ Latch
           \/ Loop \/ WakeUp \/ LoopChecked \/ Limit \/ Connect \/ Request \/ PauseReturned
  <2>1. poll' = poll /\ pc # "release" /\ pausetrig' = pausetrig
    BY <1>8 DEF BootChecked, AllStarted, Decide, CheckExit, PollExit, IniRaise, Latch, Loop, WakeUp,
                LoopChecked, Limit, Connect, Request, PauseReturned, trigvars, trigstatics
  <2> QED BY <2>1 DEF HoldInv
<1>9. CASE \/ MaybeModes \/ AllSuspended \/ ModeReqRun \/ ModeLoop \/ Mode \/ ModesPass
           \/ ModesEnd \/ ModeRaise \/ ModesDone
  <2>1. poll' = poll /\ pc # "release" /\ pausetrig' = pausetrig
    BY <1>9 DEF MaybeModes, AllSuspended, ModeReqRun, ModeLoop, Mode, ModesPass, ModesEnd,
                ModeRaise, ModesDone, trigvars, trigstatics
  <2> QED BY <2>1 DEF HoldInv
<1>10. CASE UNCHANGED vars
  BY <1>10 DEF HoldInv, vars, trigvars, trigstatics
<1> QED
  BY <1>1, <1>2, <1>3, <1>4, <1>5, <1>6, <1>7, <1>8, <1>9, <1>10 DEF Next, MainThread

\* What is in one place is counted once.
LEMMA PlacesCounted ==
  ASSUME NEW p, Good(p), NEW c \in Procs
  PROVE  Cardinality(InList(p, c)) + Cardinality(OnHold(p, c)) = IF c \in Present(p) THEN 1 ELSE 0
<1>0. Cardinality({}) = 0 /\ \A x : Cardinality({x}) = 1
  BY FS_EmptySet, FS_Singleton
<1>1. ASSUME NEW e \in Entries, p.runlist[e] = c
      PROVE  InList(p, c) = {e} /\ OnHold(p, c) = {} /\ c \in Present(p)
  BY <1>1, PollSysAssumption DEF InList, OnHold, Present, Good, Distinct
<1>2. ASSUME NEW i \in DOMAIN p.paused, p.paused[i] = c
      PROVE  InList(p, c) = {} /\ OnHold(p, c) = {i} /\ c \in Present(p)
  BY <1>2 DEF InList, OnHold, Present, Good, Distinct
<1>3. CASE c \notin Present(p)
  <2>1. InList(p, c) = {} /\ OnHold(p, c) = {}
    BY <1>3 DEF InList, OnHold, Present
  <2> QED BY <1>0, <1>3, <2>1
<1>4. CASE c \in Present(p)
  <2>1. (\E e \in Entries : p.runlist[e] = c) \/ (\E i \in DOMAIN p.paused : p.paused[i] = c)
    BY <1>4 DEF Present
  <2>2. CASE \E e \in Entries : p.runlist[e] = c
    <3>1. PICK e \in Entries : p.runlist[e] = c
      BY <2>2
    <3>2. InList(p, c) = {e} /\ OnHold(p, c) = {}
      BY <1>1, <3>1
    <3>3. Cardinality(InList(p, c)) = 1 /\ Cardinality(OnHold(p, c)) = 0
      BY <1>0, <3>2
    <3> QED BY <1>4, <3>3
  <2>3. CASE \E i \in DOMAIN p.paused : p.paused[i] = c
    <3>1. PICK i \in DOMAIN p.paused : p.paused[i] = c
      BY <2>3
    <3>2. InList(p, c) = {} /\ OnHold(p, c) = {i}
      BY <1>2, <3>1
    <3>3. Cardinality(InList(p, c)) = 0 /\ Cardinality(OnHold(p, c)) = 1
      BY <1>0, <3>2
    <3> QED BY <1>4, <3>3
  <2> QED BY <2>1, <2>2, <2>3
<1> QED BY <1>3, <1>4

\* The invariant says of places what the property says of their number.
LEMMA PollInvMeans == PollInv => PolledOnce
<1> SUFFICES ASSUME PollInv, InRun PROVE PolledOnce
  BY DEF PolledOnce
<1>1. Good(poll) /\ Present(poll) = StartedOnes /\ started \in 0 .. Len(Order)
  BY InRunListed DEF PollInv
<1>2. ASSUME NEW n \in 1 .. Len(Order)
      PROVE  Cardinality(InList(poll, Order[n])) + Cardinality(OnHold(poll, Order[n]))
               = IF n <= started THEN 1 ELSE 0
  <2>1. Order[n] \in Procs
    BY OrderDistinct
  <2>2. Order[n] \in Present(poll) <=> n <= started
    BY <1>1, OrderDistinct DEF StartedOnes
  <2> QED BY <1>1, <2>1, <2>2, PlacesCounted
<1> QED BY <1>1, <1>2 DEF PolledOnce, Good, Enough

\* Each polled cruncher that was started is registered or on hold, once: the work
\* of EnqueuePolledProcedure() and RegQueuedPolledProcedures(), for any number of
\* crunchers, restarts, modes and pauses, and signals at any time.
THEOREM Polled == Spec => []PolledOnce
<1>1. Init => PollInv
  BY PollInit
<1>2. SuspendInv /\ PollInv /\ [Next]_vars => PollInv'
  BY PollKept
<1>3. PollInv => PolledOnce
  BY PollInvMeans
<1> QED BY <1>1, <1>2, <1>3, Suspension, PTL DEF Spec

\* Procedures on hold are so in a pause that the last check has seen, and that a
\* later one will therefore see end.
THEOREM Held ==
  ASSUME ~LateSignals PROVE Spec => []HeldInPause
<1>1. Init => PollInv /\ HoldInv
  BY PollInit
<1>2. SuspendInv /\ PollInv /\ HoldInv /\ [Next]_vars => PollInv' /\ HoldInv'
  BY PollKept, HoldKept
<1>3. HoldInv => HeldInPause
  BY DEF HoldInv, HeldInPause
<1> QED BY <1>1, <1>2, <1>3, Suspension, PTL DEF Spec
==============================================================================
