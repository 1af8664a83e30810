------------------------------ MODULE Triggers ------------------------------
(* The triggers of the client (triggers.cpp): requests to exit, to restart and *)
(* to pause, raised by signals, by flag files and by a change of the ini file, *)
(* and checked by the main thread.  A signal handler runs between two steps of *)
(* the main thread.  A trigger is [trigger, laststate]: what holds it raised,  *)
(* and what the last check saw of it.                                          *)
EXTENDS Naturals

CONSTANT Arrivals   \* bound: the sets of things of which some happen in a behaviour

Happenings == {"INT", "HUP", "TSTP", "CONT", "exitfile", "pausefile", "inifile", "user"}

ASSUME TriggersAssumption == Arrivals \subseteq SUBSET Happenings

VARIABLES
  exittrig,    \* trigstatics.exittrig, laststate a Boolean
  pausetrig,   \* trigstatics.pausetrig
  huptrig,     \* trigstatics.huptrig.trigger
  doingmodes,  \* trigstatics.doingmodes
  inistate,    \* currinifiletime: "unknown" (0), "known" or "changed" (1)
  sigint,      \* what SIGINT does: "default", "handled" or "ignored"
  exitfile,    \* environment: the exit flag file exists
  pausefile,   \* environment: the pause flag file exists
  inifile,     \* environment: the ini file is newer than the client knows
  arrivals     \* environment: the signals that come, the files that are touched

trigstatics == <<exittrig, pausetrig, huptrig, doingmodes, inistate>>
environment == <<exitfile, pausefile, inifile, arrivals>>
trigvars == <<trigstatics, sigint, environment>>

TRIGSETBY == {"signal", "flagfile"}
NotExiting == [trigger |-> {}, laststate |-> FALSE]
NotPaused == [trigger |-> {}, laststate |-> {}]

TriggersInit ==
  /\ exittrig = NotExiting /\ pausetrig = NotPaused
  /\ huptrig = FALSE /\ doingmodes = FALSE /\ inistate = "unknown"
  /\ sigint = "default"
  /\ exitfile = FALSE /\ pausefile = FALSE /\ inifile = FALSE
  /\ arrivals \in Arrivals

\* InitializeTriggers() and DeinitializeTriggers() clear everything.
Clear ==
  /\ exittrig' = NotExiting /\ pausetrig' = NotPaused
  /\ huptrig' = FALSE /\ inistate' = "unknown"

InitializeTriggers(modes) ==
  Clear /\ doingmodes' = modes /\ sigint' = "handled" /\ UNCHANGED environment

DeinitializeTriggers ==
  Clear /\ doingmodes' = FALSE /\ UNCHANGED <<sigint, environment>>

----------------------------------------------------------------------------
(* Raising *)

\* The restart trigger is raised in two steps: RaiseExitRequestTrigger(), then
\* the trigger itself.
RaiseExit == exittrig' = [exittrig EXCEPT !.trigger = @ \cup {"signal"}]
RaiseHup == huptrig' = TRUE

\* CliSignalHandler().  An interrupt takes back a restart, and is ignored from
\* then on.
Interrupt ==
  /\ "INT" \in arrivals /\ sigint = "handled"
  /\ RaiseExit /\ huptrig' = FALSE /\ sigint' = "ignored"
  /\ UNCHANGED <<pausetrig, doingmodes, inistate, environment>>

Hangup ==
  /\ "HUP" \in arrivals /\ sigint # "default"
  /\ RaiseExit /\ RaiseHup
  /\ UNCHANGED <<pausetrig, doingmodes, inistate, sigint, environment>>

PauseSignal(sig, trigger) ==
  /\ sig \in arrivals /\ sigint # "default" /\ ~doingmodes
  /\ pausetrig' = [pausetrig EXCEPT !.trigger = trigger]
  /\ UNCHANGED <<exittrig, huptrig, doingmodes, inistate, sigint, environment>>

Signal ==
  \/ Interrupt
  \/ PauseSignal("TSTP", pausetrig.trigger \cup {"signal"})
  \/ PauseSignal("CONT", pausetrig.trigger \ {"signal"})

\* The user makes and removes flag files, and edits the ini file.
FlagFile ==
  /\ \/ "exitfile" \in arrivals /\ exitfile' = TRUE /\ UNCHANGED pausefile
     \/ "pausefile" \in arrivals /\ pausefile' = ~pausefile /\ UNCHANGED exitfile
  /\ UNCHANGED <<trigstatics, sigint, inifile, arrivals>>

IniFile ==
  /\ "inifile" \in arrivals /\ inifile' = TRUE
  /\ UNCHANGED <<trigstatics, sigint, exitfile, pausefile, arrivals>>

----------------------------------------------------------------------------
(* CheckExitRequestTrigger(), in steps between which a signal may arrive *)

\* The flag file is looked for until the trigger is raised once; with modes to
\* do there is none.
Found ==
  IF exittrig.trigger = {} /\ ~exittrig.laststate /\ ~doingmodes /\ exitfile
  THEN {"flagfile"} ELSE exittrig.trigger

LooksAtIni == Found = {} /\ ~exittrig.laststate /\ ~doingmodes
IniRaises == LooksAtIni /\ inistate = "changed"

\* A change of the ini file is noted first and acted upon by a later check.
PollExit ==
  /\ exittrig' = [exittrig EXCEPT !.trigger = IF IniRaises THEN {"signal"} ELSE Found]
  /\ IF ~LooksAtIni THEN UNCHANGED <<inistate, inifile>>
     ELSE /\ inistate' = CASE inistate = "unknown" -> "known"
                           [] inistate = "known" -> IF inifile THEN "changed" ELSE "known"
                           [] inistate = "changed" -> "unknown"
          /\ inifile' = (inistate = "known" /\ inifile)
  /\ UNCHANGED <<pausetrig, huptrig, doingmodes, sigint, exitfile, pausefile, arrivals>>

Exiting == exittrig.trigger # {}

\* Mutation: a check that has seen the request once does not report it again.
ExitReportedOnce == Exiting /\ ~exittrig.laststate

\* What the check returns.
ExitReported == Exiting

LatchExit == exittrig' = [exittrig EXCEPT !.laststate = @ \/ Exiting]

----------------------------------------------------------------------------
(* CheckPauseRequestTrigger(), after its check for an exit *)

PauseTrigger == (pausetrig.trigger \ {"flagfile"}) \cup IF pausefile THEN {"flagfile"} ELSE {}
ChecksPause == ~Exiting /\ ~doingmodes

\* Mutation: procedures on hold are released if nothing held the client paused
\* at the last check.
PauseEndsLate == ChecksPause /\ PauseTrigger # pausetrig.laststate /\ pausetrig.laststate = {}

\* Whether the check ends a pause, and releases the procedures on hold.
PauseEnds == ChecksPause /\ PauseTrigger # pausetrig.laststate /\ PauseTrigger = {}

\* What it returns: whether something holds the trigger raised by then.
PauseReported == pausetrig.trigger # {}

CheckPause ==
  /\ pausetrig' = IF ChecksPause THEN [trigger |-> PauseTrigger, laststate |-> PauseTrigger]
                  ELSE pausetrig
  /\ UNCHANGED <<exittrig, huptrig, doingmodes, inistate, sigint, environment>>

TriggersTypeOK ==
  /\ exittrig \in [trigger : SUBSET TRIGSETBY, laststate : BOOLEAN]
  /\ pausetrig \in [trigger : SUBSET TRIGSETBY, laststate : SUBSET TRIGSETBY]
  /\ huptrig \in BOOLEAN /\ doingmodes \in BOOLEAN
  /\ inistate \in {"unknown", "known", "changed"}
  /\ sigint \in {"default", "handled", "ignored"}
  /\ exitfile \in BOOLEAN /\ pausefile \in BOOLEAN /\ inifile \in BOOLEAN
  /\ arrivals \in Arrivals
==============================================================================
