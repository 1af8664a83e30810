----------------------------- MODULE Crunchers -----------------------------
(***************************************************************************)
(* The crunchers of common/clirun.cpp (Go_mt(), real threads) and the flags *)
(* of struct thread_param_block by which the main thread stops, suspends    *)
(* and wakes them and is woken by them.  No flag is protected by a lock:    *)
(* every read and every write of one is a step of its own, but where the    *)
(* main thread sets the flags of all crunchers, since each cruncher reads   *)
(* only its own.  A problem is one of "empty", "work" and "done" (module    *)
(* Problem has the rest).                                                   *)
(***************************************************************************)
EXTENDS Integers

CONSTANTS Crunchers,  \* the number of crunchers
          SlowStart,  \* may a cruncher begin only after the main loop has?
          User        \* bound: what the user may do, of UserAction

UserAction == {"benchmark", "pause", "exit"}

ASSUME CrunchersAssumption == Crunchers \in Nat \ {0}
ASSUME SlowStartAssumption == SlowStart \in BOOLEAN
ASSUME UserAssumption      == User \subseteq UserAction

Thread == 1..Crunchers

VARIABLES
  tpc,                                  \* where a cruncher is
  run,        \* what its ProblemRun() returned, until it has reported that
  hasexited, do_exit, do_suspend, is_suspended, refillneeded, \* its block
  freed,                                \* was the block freed?
  prob,                                 \* the problem table
  mpc, i,                               \* where the main thread is, its loops
  request,                              \* MODEREQ_BENCHMARK or _TEST
  did_suspend, wasPaused,
  paused, exiting,                      \* the triggers
  extra   \* history: the passes that began since do_suspend was set

block   == <<hasexited, do_exit, do_suspend, is_suspended, refillneeded, freed>>
mainVars == <<mpc, i, did_suspend, wasPaused>>
envVars  == <<request, paused, exiting>>
vars == <<tpc, run, block, prob, mainVars, envVars, extra>>

All(b) == [t \in Thread |-> b]

\* __StartThread(): "not running yet".
Init ==
  /\ tpc = All("created") /\ run = All("working")
  /\ hasexited = All(TRUE) /\ do_exit = All(FALSE) /\ do_suspend = All(FALSE)
  /\ is_suspended = All(FALSE) /\ refillneeded = All(FALSE) /\ freed = All(FALSE)
  /\ prob = All("work")
  /\ mpc = "start" /\ i = 1 /\ did_suspend = FALSE /\ wasPaused = FALSE
  /\ request = FALSE /\ paused = FALSE /\ exiting = FALSE
  /\ extra = All(0)

-----------------------------------------------------------------------------
(* Go_mt().                                                                 *)

Goes(t, from, to) ==
  /\ tpc[t] = from /\ ~freed[t]
  /\ tpc' = [tpc EXCEPT ![t] = to]

Begin(t) ==
  /\ Goes(t, "created", "top")
  /\ hasexited' = [hasexited EXCEPT ![t] = FALSE]
  /\ is_suspended' = [is_suspended EXCEPT ![t] = TRUE]
  /\ UNCHANGED <<run, do_exit, do_suspend, refillneeded, freed, prob, mainVars,
                 envVars, extra>>

\* while (!thrparams->do_exit)
Top(t) ==
  /\ IF do_exit[t]
     THEN Goes(t, "top", "exited") /\ hasexited' = [hasexited EXCEPT ![t] = TRUE]
     ELSE Goes(t, "top", "look") /\ UNCHANGED hasexited
  /\ UNCHANGED <<run, do_exit, do_suspend, is_suspended, refillneeded, freed,
                 prob, mainVars, envVars, extra>>

\* Mutation: do_suspend is not looked at.
LookStubborn(t) ==
  /\ Goes(t, "look", "probe")
  /\ UNCHANGED <<run, block, prob, mainVars, envVars, extra>>

\* A suspended cruncher sleeps for a second and starts again.
Look(t) ==
  /\ Goes(t, "look", IF do_suspend[t] THEN "top" ELSE "probe")
  /\ UNCHANGED <<run, block, prob, mainVars, envVars, extra>>

\* No work: sleep for a second.
Probe(t) ==
  /\ Goes(t, "probe", IF prob[t] = "empty" THEN "top" ELSE "enter")
  /\ refillneeded' = [refillneeded EXCEPT ![t] = @ \/ prob[t] = "empty"]
  /\ UNCHANGED <<run, hasexited, do_exit, do_suspend, is_suspended, freed, prob,
                 mainVars, envVars, extra>>

Enter(t) ==
  /\ Goes(t, "enter", "run")
  /\ is_suspended' = [is_suspended EXCEPT ![t] = FALSE]
  /\ extra' = [extra EXCEPT ![t] = IF do_suspend[t] THEN @ + 1 ELSE 0]
  /\ UNCHANGED <<run, hasexited, do_exit, do_suspend, refillneeded, freed, prob,
                 mainVars, envVars>>

\* One ProblemRun(): a finished problem returns its result again, one that was
\* unloaded meanwhile -1.
Run(t) ==
  /\ Goes(t, "run", "leave")
  /\ \/ prob[t] = "work" /\ UNCHANGED prob
     \/ prob[t] # "empty" /\ prob' = [prob EXCEPT ![t] = "done"]
     \/ prob[t] = "empty" /\ UNCHANGED prob
  /\ run' = [run EXCEPT ![t] = IF prob'[t] = "work" THEN "working" ELSE "other"]
  /\ UNCHANGED <<block, mainVars, envVars, extra>>

Leave(t) ==
  /\ Goes(t, "leave", "report")
  /\ is_suspended' = [is_suspended EXCEPT ![t] = TRUE]
  /\ UNCHANGED <<run, hasexited, do_exit, do_suspend, refillneeded, freed, prob,
                 mainVars, envVars, extra>>

\* Mutation: only the pass that finishes a problem asks for another one.
ReportOnce(t) ==
  /\ Goes(t, "report", IF run[t] = "working" THEN "top" ELSE "told")
  /\ refillneeded' = [refillneeded EXCEPT ![t] = @ \/ run[t] # "working"]
  /\ run' = [run EXCEPT ![t] = "working"]
  /\ UNCHANGED <<hasexited, do_exit, do_suspend, is_suspended, freed, prob,
                 mainVars, envVars, extra>>

Report(t) ==
  /\ Goes(t, "report", "top")
  /\ refillneeded' = [refillneeded EXCEPT ![t] = @ \/ run[t] # "working"]
  /\ run' = [run EXCEPT ![t] = "working"]
  /\ UNCHANGED <<hasexited, do_exit, do_suspend, is_suspended, freed, prob,
                 mainVars, envVars, extra>>

Cruncher(t) == \/ Begin(t) \/ Top(t) \/ Look(t) \/ Probe(t) \/ Enter(t)
               \/ Run(t) \/ Leave(t) \/ Report(t)

-----------------------------------------------------------------------------
(* The main thread: ClientRun() from the start of the crunchers on.         *)

\* "let the thread start": the main thread sleeps a little, no more.
Started ==
  /\ mpc = "start"
  /\ SlowStart \/ \A t \in Thread : tpc[t] # "created"
  /\ mpc' = "check"
  /\ UNCHANGED <<tpc, run, block, prob, i, did_suspend, wasPaused, envVars, extra>>

\* The sleep of five seconds ends early when there is something to do.
Wake ==
  /\ mpc = "sleep"
  /\ exiting \/ request \/ \E t \in Thread : refillneeded[t]
  /\ mpc' = "check"
  /\ UNCHANGED <<tpc, run, block, prob, i, did_suspend, wasPaused, envVars, extra>>

Timeout ==
  /\ mpc = "sleep" /\ mpc' = "check"
  /\ UNCHANGED <<tpc, run, block, prob, i, did_suspend, wasPaused, envVars, extra>>

\* __gsc_flag_allthreads(0) and ('s').
Suspend(b) == do_suspend' = All(b) /\ extra' = All(0)

\* The end of the main loop, the pause trigger, or LoadSaveProblems().
Check ==
  /\ mpc = "check" /\ ~exiting
  /\ IF paused = wasPaused THEN UNCHANGED <<do_suspend, extra>> ELSE Suspend(paused)
  /\ wasPaused' = paused
  /\ IF paused THEN mpc' = "modereq" /\ UNCHANGED i
               ELSE mpc' = "fill" /\ i' = Crunchers
  /\ UNCHANGED <<tpc, run, hasexited, do_exit, is_suspended, refillneeded, freed,
                 prob, did_suspend, envVars>>

\* The next problem of the table.
Advance == IF i > 1 THEN i' = i - 1 /\ mpc' = "fill" ELSE mpc' = "clear" /\ UNCHANGED i

\* A problem is saved, if it is finished, and the next one loaded, if there is
\* one.
Fill ==
  /\ mpc = "fill"
  /\ IF prob[i] = "work" THEN Advance /\ UNCHANGED prob
     ELSE /\ prob' = [prob EXCEPT ![i] = "empty"]
          /\ mpc' = "load" /\ UNCHANGED i
  /\ UNCHANGED <<tpc, run, block, did_suspend, wasPaused, envVars, extra>>

Load ==
  /\ mpc = "load"
  /\ \/ prob' = [prob EXCEPT ![i] = "work"]
     \/ UNCHANGED prob
  /\ Advance
  /\ UNCHANGED <<tpc, run, block, did_suspend, wasPaused, envVars, extra>>

\* __CheckClearIfRefillNeeded(.., 1), after the problems were looked at.
Clear ==
  /\ mpc = "clear" /\ mpc' = "modereq" /\ refillneeded' = All(FALSE)
  /\ UNCHANGED <<tpc, run, hasexited, do_exit, do_suspend, is_suspended, freed,
                 prob, i, did_suspend, wasPaused, envVars, extra>>

NoRequest ==
  /\ mpc = "modereq" /\ ~request /\ mpc' = "sleep"
  /\ UNCHANGED <<tpc, run, block, prob, i, did_suspend, wasPaused, envVars, extra>>

\* "suspend 'em"
SuspendAll ==
  /\ mpc = "modereq" /\ request
  /\ IF wasPaused THEN did_suspend' = FALSE /\ UNCHANGED <<do_suspend, extra>>
                  ELSE did_suspend' = TRUE /\ Suspend(TRUE)
  /\ mpc' = "wait" /\ i' = 1
  /\ UNCHANGED <<tpc, run, hasexited, do_exit, is_suspended, refillneeded, freed,
                 prob, wasPaused, envVars>>

\* while (__gsc_flag_allthreads('c')) sleep: the crunchers are asked in turn.
AwaitSuspended ==
  /\ mpc = "wait"
  /\ IF ~is_suspended[i] THEN i' = 1 /\ UNCHANGED mpc
     ELSE IF i < Crunchers THEN i' = i + 1 /\ UNCHANGED mpc
     ELSE mpc' = "bench" /\ i' = 1
  /\ UNCHANGED <<tpc, run, block, prob, did_suspend, wasPaused, envVars, extra>>

\* ModeReqRun() is over.
Benchmarked ==
  /\ mpc = "bench"
  /\ request' = FALSE
  /\ IF did_suspend THEN Suspend(FALSE) ELSE UNCHANGED <<do_suspend, extra>>
  /\ did_suspend' = FALSE /\ mpc' = "check"
  /\ UNCHANGED <<tpc, run, hasexited, do_exit, is_suspended, refillneeded, freed,
                 prob, i, wasPaused, paused, exiting>>

\* Mutation: the crunchers are only suspended.
ExitAllSuspend ==
  /\ mpc = "check" /\ exiting
  /\ Suspend(TRUE)
  /\ mpc' = "stop" /\ i' = 1
  /\ UNCHANGED <<tpc, run, hasexited, do_exit, is_suspended, refillneeded, freed,
                 prob, did_suspend, wasPaused, envVars>>

\* "exit'ify them"
ExitAll ==
  /\ mpc = "check" /\ exiting
  /\ do_exit' = All(TRUE) /\ Suspend(FALSE)
  /\ mpc' = "stop" /\ i' = 1
  /\ UNCHANGED <<tpc, run, hasexited, is_suspended, refillneeded, freed, prob,
                 did_suspend, wasPaused, envVars>>

\* Mutation: the cruncher is not waited for.
StopThreadAtOnce ==
  /\ mpc = "stop"
  /\ freed' = [freed EXCEPT ![i] = TRUE]
  /\ IF i < Crunchers THEN i' = i + 1 /\ UNCHANGED mpc
                      ELSE mpc' = "unload" /\ i' = 1
  /\ UNCHANGED <<tpc, run, hasexited, do_exit, do_suspend, is_suspended,
                 refillneeded, prob, did_suspend, wasPaused, envVars, extra>>

\* __StopThread(): wait until the cruncher has exited, free its block.  The
\* join ends when the thread has, the flag is looked at before.
StopThread ==
  /\ mpc = "stop"
  /\ hasexited[i]
  /\ freed' = [freed EXCEPT ![i] = TRUE]
  /\ IF i < Crunchers THEN i' = i + 1 /\ UNCHANGED mpc
                      ELSE mpc' = "unload" /\ i' = 1
  /\ UNCHANGED <<tpc, run, hasexited, do_exit, do_suspend, is_suspended,
                 refillneeded, prob, did_suspend, wasPaused, envVars, extra>>

\* LoadSaveProblems(PROBFILL_UNLOADALL)
UnloadAll ==
  /\ mpc = "unload" /\ mpc' = "stopped" /\ prob' = All("empty")
  /\ UNCHANGED <<tpc, run, block, i, did_suspend, wasPaused, envVars, extra>>

\* The main thread without the end of its sleep.
Main ==
  \/ Started \/ Wake \/ Check \/ Fill \/ Load \/ Clear \/ NoRequest
  \/ SuspendAll \/ AwaitSuspended \/ Benchmarked \/ ExitAll \/ StopThread
  \/ UnloadAll

-----------------------------------------------------------------------------
(* The user.                                                                *)

RequestBenchmark ==
  /\ "benchmark" \in User /\ ~request /\ ~exiting /\ request' = TRUE
  /\ UNCHANGED <<tpc, run, block, prob, mainVars, paused, exiting, extra>>

TogglePause ==
  /\ "pause" \in User /\ ~exiting /\ paused' = ~paused
  /\ UNCHANGED <<tpc, run, block, prob, mainVars, request, exiting, extra>>

RaiseExitRequestTrigger ==
  /\ "exit" \in User /\ ~exiting /\ exiting' = TRUE
  /\ UNCHANGED <<tpc, run, block, prob, mainVars, request, paused, extra>>

Next ==
  \/ \E t \in Thread : Cruncher(t)
  \/ Main \/ Timeout
  \/ RequestBenchmark \/ TogglePause \/ RaiseExitRequestTrigger

Spec == Init /\ [][Next]_vars

\* Every thread goes on.  Nothing is assumed of the user, or of the end of the
\* main thread's sleep.
FairSpec ==
  /\ Spec
  /\ WF_vars(Main)
  /\ \A t \in Thread : WF_vars(Cruncher(t))

-----------------------------------------------------------------------------
(* Properties *)

\* Types of all variables.
TypeOK ==
  /\ tpc \in [Thread -> {"created", "top", "look", "probe", "enter", "run",
                         "leave", "report", "exited"}]
  /\ run \in [Thread -> {"working", "other"}]
  /\ \A f \in {hasexited, do_exit, do_suspend, is_suspended, refillneeded, freed} :
       f \in [Thread -> BOOLEAN]
  /\ prob \in [Thread -> {"empty", "work", "done"}]
  /\ mpc \in {"start", "sleep", "check", "fill", "load", "clear", "modereq",
              "wait", "bench", "stop", "unload", "stopped"}
  /\ i \in Thread
  /\ {request, did_suspend, wasPaused, paused, exiting} \subseteq BOOLEAN
  /\ extra \in [Thread -> Nat]

\* A cruncher that was told to suspend begins at most one more pass over its
\* problem, whatever it had read of its flags before.
SuspendedSoon ==
  \A t \in Thread : do_suspend[t] => extra[t] <= 1

\* No block is freed, and no problem unloaded for the last time, under a
\* cruncher that is still alive ("Waiting for crunchers to stop...").
StoppedBeforeFree ==
  \A t \in Thread : freed[t] => tpc[t] = "exited"

\* While a benchmark runs no cruncher does: "benchmarks are going to return
\* wrong results.  The messy way around that is to suspend the threads."
BenchmarkAlone ==
  mpc = "bench" => \A t \in Thread : tpc[t] # "run"

\* A finished problem is taken off its cruncher without the main thread having
\* to wait for the end of its sleep: the main thread may clear a flag that was
\* set after it had looked at the problem, but the flag comes again.
RefillNoticed ==
  \A t \in Thread :
    prob[t] = "done" ~> (prob[t] # "done" \/ wasPaused \/ exiting)

\* The main thread does not wait for ever for the crunchers to be suspended,
\* nor for them to stop.
WaitsEnd ==
  /\ mpc = "wait" ~> mpc = "bench"
  /\ exiting ~> mpc = "stopped"
=============================================================================
