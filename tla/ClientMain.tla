----------------------------- MODULE ClientMain -----------------------------
(* The life of the client: start and restart (client.cpp), the main loop       *)
(* (clirun.cpp) as it follows the triggers, mode requests (modereq.cpp), and   *)
(* crunchers that are not threads but procedures the main thread calls when it *)
(* sleeps (pollsys.cpp).  Loading, saving and checkpoints are in ClientRun,    *)
(* crunchers that are threads in Crunchers, a buffer update in BuffUpd.        *)
(* Everything is done by the main thread, in steps; a signal may arrive        *)
(* between any two.                                                            *)
EXTENDS Triggers, PollSys

CONSTANTS
  Order,          \* the crunchers, in the order they are started
  CmdLine,        \* sets of modes the client may be started for
  Requests,       \* sets of modes the user may ask for while the client runs
  EarlyRequests,  \* whether they may come before every cruncher was called once
  LateSignals,    \* whether a pause or its end may be signalled between the test
                  \* and the return of CheckPauseRequestTrigger()
  MaxRestarts     \* bound: number of restarts

Modes == {"BENCHMARK", "CONFIG", "CONFRESTART", "FETCH", "FLUSH"}

ASSUME ClientMainAssumption ==
  /\ Order \in Seq(Procs)
  /\ \A c \in Procs : \E n \in 1 .. Len(Order) : \A m \in 1 .. Len(Order) : Order[m] = c <=> m = n
  /\ CmdLine \subseteq SUBSET Modes /\ Requests \subseteq SUBSET Modes
  /\ EarlyRequests \in BOOLEAN /\ LateSignals \in BOOLEAN /\ MaxRestarts \in Nat

VARIABLES
  pc,          \* where the main thread is
  caller,      \* where it returns to from CheckExitRequestTrigger()
  poll,        \* the data of the polling system
  do_suspend,  \* thrparams->do_suspend, the same for all crunchers
  suspended,   \* crunchers with is_suspended set
  wasPaused, dontSleep,  \* locals of ClientRun()
  slept,       \* whether the loop has slept since it last handled mode requests
  reqbits,     \* modereq.reqbits
  bits, modeRestart,     \* locals of ModeReqRun(): bits and restart
  didSuspend,  \* local of ClientRun(): did_suspend
  restart,     \* local of realmain()
  restarts,    \* number of restarts so far
  started,     \* local of ClientRun(): the crunchers started, load_problem_count
  ran          \* the cruncher that was called and worked in the last step, or None

modevars == <<reqbits, bits, modeRestart, didSuspend>>
runvars == <<do_suspend, suspended, wasPaused, dontSleep, slept>>
mainvars == <<restart, restarts, started>>
vars == <<trigvars, pc, caller, poll, runvars, modevars, mainvars, ran>>

Quiet == ran' = None

Init ==
  /\ TriggersInit /\ pc = "boot" /\ caller = "boot"
  /\ poll = NoPolling
  /\ do_suspend = FALSE /\ suspended = {} /\ wasPaused = FALSE
  /\ dontSleep = TRUE /\ slept = FALSE
  /\ reqbits = {} /\ bits = {} /\ modeRestart = FALSE /\ didSuspend = FALSE
  /\ restart = FALSE /\ restarts = 0 /\ started = 0 /\ ran = None

Goto(place) == pc' = place /\ UNCHANGED caller
CheckExitThen(place) == pc' = "checkexit" /\ caller' = place

----------------------------------------------------------------------------
(* realmain(): start, restart and end *)

\* A restarted client takes no modes from its command line.
Boot ==
  /\ pc = "boot"
  /\ IF restart THEN reqbits' = {} ELSE reqbits' \in CmdLine
  /\ restart' = FALSE
  /\ InitializeTriggers(reqbits' # {})
  /\ CheckExitThen("boot") /\ Quiet
  /\ UNCHANGED <<poll, runvars, bits, modeRestart, didSuspend, restarts, started>>

BootChecked ==
  /\ pc = "boot.checked"
  /\ Goto(IF ExitReported THEN "deinit" ELSE IF doingmodes THEN "modes" ELSE "clientrun")
  /\ Quiet /\ UNCHANGED <<trigvars, poll, runvars, modevars, mainvars>>

\* ClientRun() up to its loop: the crunchers are registered one by one.
ClientRun ==
  /\ pc = "clientrun"
  /\ poll' = InitializePolling(poll)
  /\ Goto("start") /\ Quiet
  /\ UNCHANGED <<trigvars, runvars, modevars, mainvars>>

StartThread ==
  /\ pc = "start" /\ started < Len(Order)
  /\ started' = started + 1
  /\ poll' = RegPolledProcedure(poll, Order[started'])
  /\ Quiet
  /\ UNCHANGED <<trigvars, pc, caller, runvars, modevars, restart, restarts>>

AllStarted ==
  /\ pc = "start" /\ started = Len(Order)
  /\ slept' = TRUE
  /\ Goto("loop") /\ Quiet
  /\ UNCHANGED <<trigvars, poll, do_suspend, suspended, wasPaused, dontSleep, modevars, mainvars>>

\* After the loop: the crunchers are told to exit, and their data is freed; the
\* variables of the run are as they will be at the start of the next one.
Quit ==
  /\ pc = "quit"
  /\ RaiseExit /\ poll' = DeinitializePolling(poll)
  /\ do_suspend' = FALSE /\ suspended' = {} /\ wasPaused' = FALSE
  /\ dontSleep' = TRUE /\ slept' = FALSE /\ started' = 0
  /\ CheckExitThen("decide") /\ Quiet
  /\ UNCHANGED <<pausetrig, huptrig, doingmodes, inistate, sigint, environment>>
  /\ UNCHANGED <<modevars, restart, restarts>>

Decide ==
  /\ pc = "decide.checked"
  /\ restart' = huptrig
  /\ Goto("deinit") /\ Quiet
  /\ UNCHANGED <<trigvars, poll, runvars, modevars, restarts, started>>

Deinit ==
  /\ pc = "deinit"
  /\ DeinitializeTriggers
  /\ Goto(IF restart THEN "boot" ELSE "ended")
  /\ restarts' = restarts + (IF restart THEN 1 ELSE 0)
  /\ Quiet /\ UNCHANGED <<poll, runvars, modevars, restart, started>>

----------------------------------------------------------------------------
(* CheckExitRequestTrigger() *)

CheckExit ==
  /\ pc = "checkexit"
  /\ PollExit
  /\ Goto(IF IniRaises THEN "iniraise" ELSE "latch") /\ Quiet
  /\ UNCHANGED <<poll, runvars, modevars, mainvars>>

IniRaise ==
  /\ pc = "iniraise"
  /\ RaiseHup /\ Goto("latch") /\ Quiet
  /\ UNCHANGED <<exittrig, pausetrig, doingmodes, inistate, sigint, environment>>
  /\ UNCHANGED <<poll, runvars, modevars, mainvars>>

Latch ==
  /\ pc = "latch"
  /\ LatchExit
  /\ pc' = CASE caller = "boot" -> "boot.checked" [] caller = "decide" -> "decide.checked"
             [] caller = "loop" -> "loop.checked" [] caller = "pause" -> "pausecheck"
  /\ Quiet
  /\ UNCHANGED <<pausetrig, huptrig, doingmodes, inistate, sigint, environment>>
  /\ UNCHANGED <<caller, poll, runvars, modevars, mainvars>>

----------------------------------------------------------------------------
(* The main loop *)

\* The head of the loop: to sleep, unless there is something to do.
Loop ==
  /\ pc = "loop"
  /\ dontSleep' = FALSE
  /\ IF dontSleep \/ Exiting \/ reqbits # {} THEN CheckExitThen("loop") ELSE Goto("sleep")
  /\ Quiet
  /\ UNCHANGED <<trigvars, poll, do_suspend, suspended, wasPaused, slept, modevars, mainvars>>

\* PolledSleep() calls the cruncher whose turn it is, in Go_mt(): it works unless
\* it is to be suspended, and registers itself again.
PollStep ==
  /\ pc = "sleep" /\ Polls(poll) /\ InUse(poll) # {}
  /\ LET e == Turn(poll)
         c == poll.runlist[e]
     IN IF do_suspend
        THEN poll' = EnqueuePolledProcedure(TakenFor(poll, e), c) /\ ran' = None
             /\ suspended' = suspended \cup {c}
        ELSE poll' = RegPolledProcedure(TakenFor(poll, e), c) /\ ran' = c
             /\ suspended' = suspended \cup {c}
  /\ UNCHANGED <<trigvars, pc, caller, do_suspend, wasPaused, dontSleep, slept>>
  /\ UNCHANGED <<modevars, mainvars>>

\* The user asks for modes in a window, whose messages are read in a sleep.
Request ==
  /\ "user" \in arrivals /\ pc = "sleep" /\ (EarlyRequests \/ suspended = Procs)
  /\ \E modes \in Requests :
       /\ "CONFRESTART" \in modes => restarts < MaxRestarts
       /\ reqbits' = reqbits \cup modes
  /\ Quiet
  /\ UNCHANGED <<trigvars, pc, caller, poll, runvars, bits, modeRestart, didSuspend, mainvars>>

WakeUp ==
  /\ pc = "sleep"
  /\ slept' = TRUE /\ CheckExitThen("loop") /\ Quiet
  /\ UNCHANGED <<trigvars, poll, do_suspend, suspended, wasPaused, dontSleep>>
  /\ UNCHANGED <<modevars, mainvars>>

LoopChecked ==
  /\ pc = "loop.checked"
  /\ IF ExitReported THEN Goto("quit") ELSE CheckExitThen("pause")
  /\ Quiet /\ UNCHANGED <<trigvars, poll, runvars, modevars, mainvars>>

\* The time limit is reached, or -runbuffers has run out of work.
Limit ==
  /\ pc = "loop.checked"
  /\ Goto("quit") /\ Quiet
  /\ UNCHANGED <<trigvars, poll, runvars, modevars, mainvars>>

\* What the loop does about the pause that CheckPauseRequestTrigger() reports.
FollowPause(isPaused) ==
  /\ do_suspend' = IF isPaused = wasPaused THEN do_suspend ELSE isPaused
  /\ wasPaused' = isPaused
  /\ Goto("maybemodes")

\* The rest of CheckPauseRequestTrigger(): at the end of a pause it releases what
\* is on hold, one by one, and then it returns what holds the trigger raised now.
PauseChecked ==
  /\ pc = "pausecheck"
  /\ CheckPause
  /\ IF ChecksPause
     THEN /\ Goto(IF PauseEnds THEN "release" ELSE "pausereturn")
          /\ UNCHANGED <<do_suspend, wasPaused>>
     ELSE FollowPause(FALSE)
  /\ Quiet /\ UNCHANGED <<poll, suspended, dontSleep, slept, modevars, mainvars>>

Release ==
  /\ pc = "release" /\ poll.paused # <<>>
  /\ poll' = RegQueuedPolledProcedures(poll)
  /\ Quiet /\ UNCHANGED <<trigvars, pc, caller, runvars, modevars, mainvars>>

AllReleased ==
  /\ pc = "release" /\ poll.paused = <<>>
  /\ Goto("pausereturn") /\ Quiet
  /\ UNCHANGED <<trigvars, poll, runvars, modevars, mainvars>>

PauseReturned ==
  /\ pc = "pausereturn"
  /\ FollowPause(PauseReported)
  /\ Quiet /\ UNCHANGED <<trigvars, poll, suspended, dontSleep, slept, modevars, mainvars>>

\* Connect-often and a load or save may ask for an update, once in a while; for
\* a flush also if the client is about to exit.
Connect ==
  /\ pc = "maybemodes"
  /\ slept /\ reqbits \cap {"FETCH", "FLUSH"} = {}
  /\ reqbits' = reqbits \cup {"FLUSH"} \cup (IF Exiting THEN {} ELSE {"FETCH"})
  /\ slept' = FALSE /\ Quiet
  /\ UNCHANGED <<trigvars, pc, caller, poll, do_suspend, suspended, wasPaused, dontSleep>>
  /\ UNCHANGED <<bits, modeRestart, didSuspend, mainvars>>

\* The end of the loop's pass: for some modes the crunchers are suspended.
MaybeModes ==
  /\ pc = "maybemodes"
  /\ slept' = FALSE
  /\ IF reqbits = {} THEN Goto("loop") /\ UNCHANGED <<do_suspend, didSuspend>>
     ELSE LET suspends == reqbits \cap {"BENCHMARK", "CONFIG"} # {}
          IN /\ didSuspend' = (suspends /\ ~wasPaused)
             /\ do_suspend' = (do_suspend \/ didSuspend')
             /\ Goto(IF suspends THEN "wait" ELSE "modes")
  /\ Quiet
  /\ UNCHANGED <<trigvars, poll, suspended, wasPaused, dontSleep>>
  /\ UNCHANGED <<reqbits, bits, modeRestart, mainvars>>

\* The wait until every cruncher is seen suspended.  It does not poll.
AllSuspended ==
  /\ pc = "wait" /\ suspended = Procs
  /\ Goto("modes") /\ Quiet
  /\ UNCHANGED <<trigvars, poll, runvars, modevars, mainvars>>

----------------------------------------------------------------------------
(* ModeReqRun() *)

\* No source of the client asks for MODEREQ_RESTART, so restart begins as 0.
ModeReqRun ==
  /\ pc = "modes"
  /\ modeRestart' = FALSE
  /\ Goto("modeloop") /\ Quiet
  /\ UNCHANGED <<trigvars, poll, runvars, reqbits, bits, didSuspend, mainvars>>

ModeLoop ==
  /\ pc = "modeloop"
  /\ bits' = reqbits
  /\ Goto(IF reqbits = {} THEN "modesend" ELSE "mode") /\ Quiet
  /\ UNCHANGED <<trigvars, poll, runvars, reqbits, modeRestart, didSuspend, mainvars>>

ModeGroups == <<{"BENCHMARK"}, {"CONFIG", "CONFRESTART"}, {"FETCH", "FLUSH"}>>

\* The first group asked for is done; all its requests are taken back with it.
Mode ==
  /\ pc = "mode" /\ bits # {}
  /\ \E i \in DOMAIN ModeGroups :
       /\ bits \cap ModeGroups[i] # {}
       /\ \A j \in 1 .. (i - 1) : bits \cap ModeGroups[j] = {}
       /\ reqbits' = reqbits \ ModeGroups[i] /\ bits' = bits \ ModeGroups[i]
  /\ modeRestart' = (modeRestart \/ ("CONFRESTART" \in bits \ bits'))
  /\ Quiet
  /\ UNCHANGED <<trigvars, pc, caller, poll, runvars, didSuspend, mainvars>>

\* An exit ends the loop over the modes, and takes back a restart.
ModesPass ==
  /\ pc = "mode" /\ bits = {}
  /\ modeRestart' = (modeRestart /\ ~Exiting)
  /\ Goto(IF Exiting THEN "modesend" ELSE "modeloop") /\ Quiet
  /\ UNCHANGED <<trigvars, poll, runvars, reqbits, bits, didSuspend, mainvars>>

ModesEnd ==
  /\ pc = "modesend"
  /\ IF modeRestart THEN RaiseExit /\ Goto("moderaise")
                    ELSE UNCHANGED exittrig /\ Goto("modesdone")
  /\ Quiet
  /\ UNCHANGED <<pausetrig, huptrig, doingmodes, inistate, sigint, environment>>
  /\ UNCHANGED <<poll, runvars, modevars, mainvars>>

ModeRaise ==
  /\ pc = "moderaise"
  /\ RaiseHup /\ Goto("modesdone") /\ Quiet
  /\ UNCHANGED <<exittrig, pausetrig, doingmodes, inistate, sigint, environment>>
  /\ UNCHANGED <<poll, runvars, modevars, mainvars>>

\* Mutation: the crunchers are told to go on whether or not this suspended them.
UnsuspendAlways == do_suspend' = FALSE

\* Whoever suspended the crunchers for the modes lets them go on.
Unsuspend == do_suspend' = (do_suspend /\ ~didSuspend)

ModesDone ==
  /\ pc = "modesdone"
  /\ IF doingmodes
     THEN restart' = FALSE /\ Goto("deinit") /\ UNCHANGED <<do_suspend, dontSleep>>
     ELSE Unsuspend /\ dontSleep' = TRUE /\ Goto("loop") /\ UNCHANGED restart
  /\ modeRestart' = FALSE /\ didSuspend' = FALSE /\ Quiet
  /\ UNCHANGED <<trigvars, poll, suspended, wasPaused, slept, reqbits, bits>>
  /\ UNCHANGED <<restarts, started>>

----------------------------------------------------------------------------
\* A signal is handled, or the user touches a file, between two steps.
Arrives ==
  /\ pc # "ended" /\ Quiet
  /\ Signal \/ FlagFile \/ (restarts < MaxRestarts /\ (Hangup \/ IniFile))
  /\ pc \in {"release", "pausereturn"} /\ ~LateSignals => UNCHANGED pausetrig
  /\ UNCHANGED <<pc, caller, poll, runvars, modevars, mainvars>>

MainThread ==
  \/ Boot \/ BootChecked \/ ClientRun \/ StartThread \/ AllStarted
  \/ Quit \/ Decide \/ Deinit
  \/ CheckExit \/ IniRaise \/ Latch
  \/ Loop \/ WakeUp \/ LoopChecked \/ Limit \/ MaybeModes \/ AllSuspended
  \/ PauseChecked \/ Release \/ AllReleased \/ PauseReturned
  \/ ModeReqRun \/ ModeLoop \/ Mode \/ ModesPass \/ ModesEnd \/ ModeRaise \/ ModesDone

Next == MainThread \/ PollStep \/ Connect \/ Request \/ Arrives

Spec == Init /\ [][Next]_vars

\* The main thread goes on.  A sleep that finds crunchers registered calls at
\* least one of them, so that PollStep is not passed over for ever.
FairSpec == Spec /\ WF_vars(MainThread) /\ SF_vars(PollStep)

----------------------------------------------------------------------------
(* Properties *)

Places ==
  {"boot", "boot.checked", "clientrun", "start", "quit", "decide.checked", "deinit", "ended",
   "checkexit", "iniraise", "latch", "loop", "sleep", "loop.checked", "pausecheck",
   "release", "pausereturn",
   "maybemodes", "wait", "modes", "modeloop", "mode", "modesend", "moderaise", "modesdone"}

TypeOK ==
  /\ TriggersTypeOK /\ poll \in PollData
  /\ pc \in Places /\ caller \in {"boot", "loop", "pause", "decide"}
  /\ do_suspend \in BOOLEAN /\ suspended \subseteq Procs
  /\ wasPaused \in BOOLEAN /\ dontSleep \in BOOLEAN /\ slept \in BOOLEAN
  /\ reqbits \subseteq Modes /\ bits \subseteq Modes
  /\ modeRestart \in BOOLEAN /\ didSuspend \in BOOLEAN
  /\ restart \in BOOLEAN /\ restarts \in Nat /\ started \in 0 .. Len(Order) /\ ran \in Procs \cup {None}

InRun == poll.runlist # <<>>

\* The places a cruncher is in: entries of the run list, and on hold.
InList(p, c) == {e \in Entries : p.runlist[e] = c}
OnHold(p, c) == {i \in DOMAIN p.paused : p.paused[i] = c}

\* Through calls, pauses, modes and restarts, a polled cruncher that was started
\* is registered once or on hold once, never both, lost or doubled (its data
\* would be used by two entries, and after its end by one of them), and one that
\* was not started is neither; and the polling loop, which looks at a count, does
\* not overlook one that is registered.
PolledOnce ==
  InRun =>
    /\ \A n \in 1 .. Len(Order) :
         Cardinality(InList(poll, Order[n])) + Cardinality(OnHold(poll, Order[n]))
           = IF n <= started THEN 1 ELSE 0
    /\ poll.regcount >= Cardinality(InUse(poll))

\* Only the check that finds the pause ended releases those on hold: none is on
\* hold in a sleep in which the last check saw no pause, so that no later check
\* would find one to end.
HeldInPause == pc = "sleep" /\ poll.paused # <<>> => pausetrig.laststate # {}

\* While the last check found the client paused no cruncher works, whatever
\* modes with their own suspension come and go.
PauseTakesEffect == [][ran' # None => pausetrig.laststate = {}]_vars

\* A client that runs and is not paused for ever calls every cruncher again and
\* again, also after pauses, modes and restarts.
NoneForgotten ==
  \A c \in Procs :
    []<>(ran = c \/ "signal" \in pausetrig.trigger \/ pausefile
           \/ Exiting \/ doingmodes \/ pc = "ended")

\* An exit asked for while the client runs ends the run: no check on the way
\* forgets it, no mode or pause keeps it waiting.
RunEnds == (InRun /\ Exiting) ~> ~InRun

----------------------------------------------------------------------------
(* Claims the code does not keep *)

\* Who waits for the crunchers' suspension has threads to wait for
\* (clirun.cpp:2055): polled crunchers are all suspended already.
WaitsForThreads == pc = "wait" => suspended = Procs

\* A sleep of a client whose crunchers are all on hold does not poll.
PausedIsIdle == pc = "sleep" /\ InUse(poll) = {} => ~Polls(poll)

\* "no longer paused, release all polled procedures that have been on hold"
\* (triggers.cpp:1093): in a client that nothing holds paused none is on hold.
\* A signal between the test and the return of the check pauses the loop and not
\* the trigger; if the pause is taken back before the next check, it is no change.
ReleasedAfterPause == pc = "sleep" /\ ~wasPaused /\ pausetrig = NotPaused => poll.paused = <<>>

\* A client that was interrupted does not start again.
InterruptEnds == [][sigint = "ignored" => sigint' # "handled"]_vars
==============================================================================
