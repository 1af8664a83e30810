--------------------------- MODULE CruncherProofs ---------------------------
(* Two safety properties of Crunchers, for any number of crunchers: told to    *)
(* suspend, a cruncher begins at most one more pass (SuspendedSoon), and no    *)
(* block is freed under a cruncher that is alive (StoppedBeforeFree).          *)
EXTENDS Crunchers, TLAPS

\* What both proofs need to know of types.
Types ==
  /\ tpc \in [Thread -> {"created", "top", "look", "probe", "enter", "run",
                         "leave", "report", "exited"}]
  /\ hasexited \in [Thread -> BOOLEAN] /\ freed \in [Thread -> BOOLEAN]
  /\ do_suspend \in [Thread -> BOOLEAN] /\ extra \in [Thread -> Nat]
  /\ i \in Thread /\ paused \in BOOLEAN

LEMMA ThreadNumbers == 1 \in Thread /\ Crunchers \in Thread
BY CrunchersAssumption DEF Thread

LEMMA TypesInit == Init => Types
<1> SUFFICES ASSUME Init PROVE Types
  OBVIOUS
<1>1. /\ hasexited \in [Thread -> BOOLEAN] /\ freed \in [Thread -> BOOLEAN]
      /\ do_suspend \in [Thread -> BOOLEAN]
  BY DEF Init, All
<1>2. extra \in [Thread -> Nat]
  BY DEF Init, All
<1>3. paused \in BOOLEAN
  BY DEF Init
<1> QED
  BY <1>1, <1>2, <1>3, ThreadNumbers DEF Init, Types, All

\* A cruncher's step changes the place of that cruncher only.
LEMMA TypesStep == Types /\ [Next]_vars => Types'
<1> SUFFICES ASSUME Types, [Next]_vars PROVE Types'
  OBVIOUS
<1> USE ThreadNumbers DEF Types
<1>1. ASSUME NEW t \in Thread, Cruncher(t) PROVE Types'
  <2>1. CASE Begin(t)
    BY <2>1 DEF Begin, Goes, mainVars, envVars
  <2>2. CASE Top(t)
    BY <2>2 DEF Top, Goes, mainVars, envVars
  <2>3. CASE Look(t)
    BY <2>3 DEF Look, Goes, mainVars, envVars, block
  <2>4. CASE Probe(t)
    BY <2>4 DEF Probe, Goes, mainVars, envVars
  <2>5. CASE Enter(t)
    BY <2>5 DEF Enter, Goes, mainVars, envVars
  <2>6. CASE Run(t)
    BY <2>6 DEF Run, Goes, mainVars, envVars, block
  <2>7. CASE Leave(t)
    BY <2>7 DEF Leave, Goes, mainVars, envVars
  <2>8. CASE Report(t)
    BY <2>8 DEF Report, Goes, mainVars, envVars
  <2> QED
    BY <1>1, <2>1, <2>2, <2>3, <2>4, <2>5, <2>6, <2>7, <2>8 DEF Cruncher
<1>2. CASE Check
  BY <1>2 DEF Check, Suspend, All, envVars
<1>3. CASE Fill \/ Load
  BY <1>3, CrunchersAssumption DEF Fill, Load, Advance, Thread, block, envVars
<1>4. CASE SuspendAll \/ Benchmarked \/ ExitAll
  <2>1. CASE UNCHANGED <<do_suspend, extra>>
    BY <1>4, <2>1 DEF SuspendAll, Benchmarked, ExitAll, envVars
  <2>2. CASE Suspend(TRUE) \/ Suspend(FALSE)
    <3>1. do_suspend' \in [Thread -> BOOLEAN]
      <4>1. do_suspend' = All(TRUE) \/ do_suspend' = All(FALSE)
        BY <2>2 DEF Suspend
      <4> QED
        BY <4>1, Zenon DEF All
    <3>2. extra' \in [Thread -> Nat]
      BY <2>2 DEF Suspend, All
    <3> QED
      BY <1>4, <3>1, <3>2 DEF SuspendAll, Benchmarked, ExitAll, envVars
  <2> QED
    BY <1>4, <2>1, <2>2 DEF SuspendAll, Benchmarked, ExitAll
<1>5. CASE AwaitSuspended
  BY <1>5, CrunchersAssumption DEF AwaitSuspended, Thread, block, envVars
<1>6. CASE StopThread
  BY <1>6, CrunchersAssumption DEF StopThread, Thread, envVars
<1>7. CASE Started \/ Wake \/ Timeout \/ Clear \/ NoRequest \/ UnloadAll
  BY <1>7 DEF Started, Wake, Timeout, Clear, NoRequest, UnloadAll, block, envVars
<1>8. CASE RequestBenchmark \/ TogglePause \/ RaiseExitRequestTrigger \/ UNCHANGED vars
  BY <1>8 DEF RequestBenchmark, TogglePause, RaiseExitRequestTrigger, vars, block, mainVars, envVars
<1> QED
  BY <1>1, <1>2, <1>3, <1>4, <1>5, <1>6, <1>7, <1>8 DEF Next, Main

THEOREM TypesHold == Spec => []Types
BY TypesInit, TypesStep, PTL DEF Spec

----------------------------------------------------------------------------
(* Suspending *)

\* Why at most one: after the pass it was about to begin, a suspended cruncher
\* has to look at its flag before it gets to the next.
SuspendInv ==
  \A t \in Thread :
    do_suspend[t] => \/ extra[t] = 0
                     \/ extra[t] = 1 /\ tpc[t] \notin {"probe", "enter"}

LEMMA SuspendStep == Types /\ SuspendInv /\ [Next]_vars => SuspendInv'
<1> SUFFICES ASSUME Types, SuspendInv, [Next]_vars PROVE SuspendInv'
  OBVIOUS
<1> USE DEF Types, SuspendInv
<1>1. ASSUME NEW t \in Thread, Cruncher(t) PROVE SuspendInv'
  <2>1. CASE Begin(t)
    BY <2>1 DEF Begin, Goes
  <2>2. CASE Top(t)
    BY <2>2 DEF Top, Goes
  <2>3. CASE Look(t)
    BY <2>3 DEF Look, Goes, block
  <2>4. CASE Probe(t)
    BY <2>4 DEF Probe, Goes
  <2>5. CASE Enter(t)
    BY <2>5 DEF Enter, Goes
  <2>6. CASE Run(t)
    BY <2>6 DEF Run, Goes, block
  <2>7. CASE Leave(t)
    BY <2>7 DEF Leave, Goes
  <2>8. CASE Report(t)
    BY <2>8 DEF Report, Goes
  <2> QED
    BY <1>1, <2>1, <2>2, <2>3, <2>4, <2>5, <2>6, <2>7, <2>8 DEF Cruncher
<1>2. CASE Check
  BY <1>2 DEF Check, Suspend, All
<1>3. CASE SuspendAll \/ Benchmarked \/ ExitAll
  BY <1>3 DEF SuspendAll, Benchmarked, ExitAll, Suspend, All
<1>4. CASE \/ Started \/ Wake \/ Timeout \/ Fill \/ Load \/ Clear \/ NoRequest
           \/ AwaitSuspended \/ StopThread \/ UnloadAll
  BY <1>4 DEF Started, Wake, Timeout, Fill, Load, Clear, NoRequest, AwaitSuspended,
              StopThread, UnloadAll, block
<1>5. CASE RequestBenchmark \/ TogglePause \/ RaiseExitRequestTrigger \/ UNCHANGED vars
  BY <1>5 DEF RequestBenchmark, TogglePause, RaiseExitRequestTrigger, vars, block
<1> QED
  BY <1>1, <1>2, <1>3, <1>4, <1>5 DEF Next, Main

\* A cruncher that was told to suspend begins at most one more pass, although
\* it reads its flag and acts on it in two steps (Go_mt()).
THEOREM SoonSuspended == Spec => []SuspendedSoon
<1>1. Init => SuspendInv
  BY DEF Init, SuspendInv, All
<1>2. Types /\ SuspendInv => SuspendedSoon
  BY DEF Types, SuspendInv, SuspendedSoon
<1> QED
  BY <1>1, <1>2, TypesHold, SuspendStep, PTL DEF Spec

----------------------------------------------------------------------------
(* Stopping *)

\* "Not running yet" and "has exited" are one value of a flag; once all have
\* begun it only means the latter.
StopInv ==
  /\ mpc # "start" => \A t \in Thread : tpc[t] # "created"
  /\ \A t \in Thread : tpc[t] # "created" => (hasexited[t] <=> tpc[t] = "exited")
  /\ \A t \in Thread : freed[t] => tpc[t] = "exited"

LEMMA StopStep ==
  ASSUME ~SlowStart, Types, StopInv, [Next]_vars
  PROVE  StopInv'
<1> USE DEF Types, StopInv
<1>1. ASSUME NEW t \in Thread, Cruncher(t) PROVE StopInv'
  <2>1. CASE Begin(t)
    BY <2>1 DEF Begin, Goes, mainVars
  <2>2. CASE Top(t)
    BY <2>2 DEF Top, Goes, mainVars
  <2>3. CASE Look(t)
    BY <2>3 DEF Look, Goes, mainVars, block
  <2>4. CASE Probe(t)
    BY <2>4 DEF Probe, Goes, mainVars
  <2>5. CASE Enter(t)
    BY <2>5 DEF Enter, Goes, mainVars
  <2>6. CASE Run(t)
    BY <2>6 DEF Run, Goes, mainVars, block
  <2>7. CASE Leave(t)
    BY <2>7 DEF Leave, Goes, mainVars
  <2>8. CASE Report(t)
    BY <2>8 DEF Report, Goes, mainVars
  <2> QED
    BY <1>1, <2>1, <2>2, <2>3, <2>4, <2>5, <2>6, <2>7, <2>8 DEF Cruncher
<1>2. CASE Started
  BY <1>2 DEF Started, block
<1>3. CASE StopThread
  BY <1>3 DEF StopThread
<1>4. CASE Check \/ SuspendAll \/ Benchmarked \/ ExitAll
  BY <1>4 DEF Check, SuspendAll, Benchmarked, ExitAll
<1>5. CASE \/ Wake \/ Timeout \/ Fill \/ Load \/ Clear \/ NoRequest
           \/ AwaitSuspended \/ UnloadAll
  BY <1>5 DEF Wake, Timeout, Fill, Load, Advance, Clear, NoRequest, AwaitSuspended,
              UnloadAll, block
<1>6. CASE RequestBenchmark \/ TogglePause \/ RaiseExitRequestTrigger \/ UNCHANGED vars
  BY <1>6 DEF RequestBenchmark, TogglePause, RaiseExitRequestTrigger, vars, block, mainVars
<1> QED
  BY <1>1, <1>2, <1>3, <1>4, <1>5, <1>6 DEF Next, Main

\* If every thread begins before the main loop does, __StopThread() frees no
\* block that its cruncher may still use.
THEOREM FreedWhenStopped ==
  ASSUME ~SlowStart
  PROVE  Spec => []StoppedBeforeFree
<1>1. Init => StopInv
  BY DEF Init, StopInv, All
<1>2. Types /\ StopInv /\ [Next]_vars => StopInv'
  BY StopStep
<1>3. StopInv => StoppedBeforeFree
  BY DEF StopInv, StoppedBeforeFree
<1> QED
  BY <1>1, <1>2, <1>3, TypesHold, PTL DEF Spec
=============================================================================
