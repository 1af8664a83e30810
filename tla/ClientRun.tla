----------------------------- MODULE ClientRun -----------------------------
(***************************************************************************)
(* The main thread of a client: ClientRun() of common/clirun.cpp, the       *)
(* filling and emptying of the problem table by LoadSaveProblems()          *)
(* (common/probfill.cpp), and the checkpoint file (common/checkpt.cpp), for *)
(* buffers on disk.  Problems are atomic here (module Problem), so are the  *)
(* operations on a buffer (modules BufferFile, Buffers); the process may    *)
(* die between any two steps.                                               *)
(*                                                                          *)
(* A packet is a model value.  It is in the in-buffer as long as it is to   *)
(* be worked on, in the out-buffer when it is finished.                     *)
(***************************************************************************)
EXTENDS Integers, FiniteSets

CONSTANTS Packet,       \* bound: the packets of all runs
          Crunchers,    \* the number of crunchers that is asked for
          Blockcount,   \* values of client->blockcount: -1 run until the
                        \* buffers are empty, 0 no limit, n complete n packets
          RandomBlocks, \* may random work be generated (RC5-72)?
          MaxRuns,      \* bound: how often the client is started
          None,         \* no packet
          Happens       \* what may go wrong, of Event

Event == {"get",    \* GetBufferRecord() returns -1 although there is a record
          "put",    \* PutBufferRecord() returns -1, a checkpoint is not written
          "load",   \* ProblemLoadState() returns -1
          "abort",  \* ProblemLoadState() returns -2
          "thread", \* a cruncher cannot be started
          "pause",  \* the pause trigger
          "early",  \* an exit request before the first fill is over
          "crash"}  \* the process dies

ASSUME PacketAssumption    == IsFiniteSet(Packet)
ASSUME NoneAssumption      == None \notin Packet
ASSUME CrunchersAssumption == Crunchers \in Nat \ {0}
ASSUME BlocksAssumption    == Blockcount \subseteq Nat \union {-1}
ASSUME RandomAssumption    == RandomBlocks \in BOOLEAN
ASSUME EventAssumption     == Happens \subseteq Event
ASSUME RunsAssumption      == MaxRuns \in Nat

Slot == 1..Crunchers

VARIABLES
  in, out,    \* the buffers for work and for results
  ckpt,       \* the checkpoint file
  sent,       \* what was flushed to the servers
  gone,       \* what was discarded with a message, or died with the process
  abandoned,  \* history: what DeinitializeProblemManager() freed
  stranded,   \* history: this run's packets in slots that no loop looks at
  disturbed,  \* history: did anything go wrong in this run's first fill?
  prob,       \* the problem table
  finished,   \* is the problem's result code no longer RESULT_WORKING?
  hand,       \* wrdata of __IndividualProblemLoad()
  pc,         \* where the main thread is
  mode, arg,  \* the arguments of LoadSaveProblems() ("arg": load_problem_count)
  prob_i,     \* its loop index
  blocksdone, \* totalBlocksDone
  loaded,     \* total_problems_loaded
  empty,      \* empty_problems
  changed,    \* changed_flag
  previous,   \* previous_load_problem_count
  count,      \* ClientRun()'s load_problem_count
  threads,    \* the number of running crunchers
  due,        \* timeNextCheckpoint = 0
  paused, suspended, \* the pause trigger; wasPaused and the crunchers' flags
  exiting,    \* the exit request trigger
  delayed,    \* last_buffupd_failed_time # 0 and the delay has not elapsed
  blockcount, offline, \* client->blockcount, client->offlinemode
  done,       \* the packets of CliGetContestInfoSummaryData()
  runs        \* how often the client was started

files    == <<in, out, ckpt, sent, gone>>
table    == <<prob, finished, hand>>
fillVars == <<mode, arg, prob_i, blocksdone, loaded, empty, changed>>
runVars  == <<previous, count, threads, due, suspended>>
envVars  == <<paused, exiting, delayed, blockcount, offline, done, runs,
              abandoned, stranded, disturbed>>
vars == <<files, table, pc, fillVars, runVars, envVars>>

Loaded == {prob[i] : i \in Slot} \ {None}
Fresh  == Packet \ (in \union out \union sent \union gone \union abandoned
                    \union Loaded \union {hand})

EmptyTable ==
  /\ prob = [i \in Slot |-> None] /\ finished = [i \in Slot |-> FALSE]
  /\ hand = None

Init ==
  /\ in \in SUBSET Packet /\ out \in SUBSET (Packet \ in)
  /\ ckpt = {} /\ sent = {} /\ gone = {}
  /\ abandoned = {} /\ stranded = {} /\ disturbed = FALSE /\ EmptyTable
  /\ pc = "down"
  /\ mode = "initial" /\ arg = 0 /\ prob_i = 0 /\ blocksdone = 0
  /\ loaded = 0 /\ empty = 0 /\ changed = FALSE
  /\ previous = 0 /\ count = 0 /\ threads = 0 /\ due = FALSE
  /\ paused = FALSE /\ suspended = FALSE /\ exiting = FALSE /\ delayed = FALSE
  /\ blockcount = 0 /\ offline = FALSE /\ done = 0 /\ runs = 0

-----------------------------------------------------------------------------
(* LoadSaveProblems().                                                      *)

\* The entry: the initial load goes up the table, everything else down.
BeginFill(m, a) ==
  /\ mode' = m /\ arg' = a
  /\ prob_i' = IF previous = 0 THEN 1 ELSE IF m = "resize" THEN previous ELSE a
  /\ blocksdone' = done /\ loaded' = 0 /\ empty' = 0
  /\ changed' = (previous = 0)
  /\ pc' = "fill"

FillUp   == previous = 0
LastSlot == IF FillUp THEN arg ELSE IF mode = "resize" THEN arg + 1 ELSE 1

\* The next problem of the table, or the end of the loop.
Advance ==
  IF prob_i = LastSlot THEN pc' = "fillend" /\ UNCHANGED prob_i
  ELSE pc' = "fill" /\ prob_i' = IF FillUp THEN prob_i + 1 ELSE prob_i - 1

Unloading == mode \in {"unloadall", "resize"}

\* __IndividualProblemSave(): nothing to unload.
FillKeep ==
  /\ pc = "fill" /\ prob[prob_i] # None /\ ~finished[prob_i] /\ ~Unloading
  /\ Advance
  /\ UNCHANGED <<files, table, mode, arg, blocksdone, loaded, empty, changed,
                 runVars, envVars>>

\* An empty problem is loaded, unless the table is being emptied.
Refill == IF Unloading THEN Advance ELSE pc' = "limit" /\ UNCHANGED prob_i

FillEmpty ==
  /\ pc = "fill" /\ prob[prob_i] = None
  /\ empty' = empty + 1
  /\ Refill
  /\ UNCHANGED <<files, table, mode, arg, blocksdone, loaded, changed, runVars,
                 envVars>>

\* Mutation: the problem is not purged after it was saved.
PurgeSavedForgotten(i) == UNCHANGED <<prob, finished>>

PurgeSaved(i) ==
  /\ prob' = [prob EXCEPT ![i] = None]
  /\ finished' = [finished EXCEPT ![i] = FALSE]

\* PutBufferRecord() puts a result into the out-buffer and anything else into
\* the in-buffer; if it fails the packet is discarded.
FillSave ==
  /\ pc = "fill" /\ prob[prob_i] # None /\ (finished[prob_i] \/ Unloading)
  /\ \/ /\ IF finished[prob_i]
           THEN out' = out \union {prob[prob_i]} /\ done' = done + 1 /\ UNCHANGED in
           ELSE in' = in \union {prob[prob_i]} /\ UNCHANGED <<out, done>>
        /\ blocksdone' = blocksdone + 1 /\ changed' = TRUE
        /\ UNCHANGED gone
     \/ /\ "put" \in Happens
        /\ gone' = gone \union {prob[prob_i]}
        /\ UNCHANGED <<in, out, done, blocksdone, changed>>
  /\ PurgeSaved(prob_i)
  /\ empty' = empty + 1
  /\ Refill
  /\ UNCHANGED <<ckpt, sent, hand, mode, arg, loaded, runVars, paused, exiting,
                 delayed, blockcount, offline, runs, abandoned, stranded, disturbed>>

\* Mutation: the problems still at work are not counted (bug #3672).
LimitReachedActive ==
  /\ blockcount > 0
  /\ IF mode = "initial" THEN blocksdone + loaded >= blockcount
                         ELSE blocksdone >= blockcount

\* Would one more packet exceed the number that was asked for?  On the
\* initial load those loaded so far are counted, later all problems that are
\* not known to be empty.
LimitReached ==
  /\ blockcount > 0
  /\ IF mode = "initial" THEN blocksdone + loaded >= blockcount
                         ELSE blocksdone + arg - empty >= blockcount

FillLimit ==
  /\ pc = "limit"
  /\ IF LimitReached THEN Advance ELSE pc' = "load" /\ UNCHANGED prob_i
  /\ UNCHANGED <<files, table, mode, arg, blocksdone, loaded, empty, changed,
                 runVars, envVars>>

-----------------------------------------------------------------------------
(* __IndividualProblemLoad(), __loadapacket() for one project.              *)

NoRecord == in = {} \/ "get" \in Happens

LoadDelayed ==
  /\ pc = "load" /\ delayed /\ ~RandomBlocks
  /\ Advance
  /\ UNCHANGED <<files, table, mode, arg, blocksdone, loaded, empty, changed,
                 runVars, envVars>>

LoadGet(p) ==
  /\ \/ pc = "load" /\ ~(delayed /\ ~RandomBlocks)
     \/ pc = "reload"
  /\ p \in in
  /\ in' = in \ {p} /\ hand' = p
  /\ pc' = "loadstate"
  /\ UNCHANGED <<out, ckpt, sent, gone, prob, finished, fillVars, runVars,
                 envVars>>

\* BufferUpdate() brings some packets and takes some results away; when it
\* transfers nothing the next update is delayed.  It does nothing while it is
\* delayed (0), or if it is not permitted (-1): offline, or with "runbuffers",
\* where at most the delay is started (for remote buffers).
BufferUpdate(fetched, flushed) ==
  /\ fetched \subseteq Fresh /\ flushed \subseteq out
  /\ offline \/ blockcount < 0 \/ delayed => fetched \union flushed = {}
  /\ in' = in \union fetched
  /\ out' = out \ flushed /\ sent' = sent \union flushed
  /\ \/ ~offline /\ delayed' = (fetched \union flushed = {})
     \/ (offline \/ blockcount < 0) /\ UNCHANGED delayed

LoadUpdate(fetched, flushed) ==
  /\ pc = "load" /\ ~(delayed /\ ~RandomBlocks)
  /\ NoRecord /\ ~exiting
  /\ BufferUpdate(fetched, flushed)
  /\ pc' = IF fetched # {} THEN "reload" ELSE "norecord"
  /\ disturbed' = (disturbed \/ (FillUp /\ (in # {} \/ (fetched = {} /\ flushed # {}))))
  /\ UNCHANGED <<ckpt, gone, table, fillVars, runVars, paused, exiting,
                 blockcount, offline, done, runs, abandoned, stranded>>

LoadAgainFails ==
  /\ pc = "reload" /\ NoRecord
  /\ pc' = "norecord"
  /\ disturbed' = (disturbed \/ FillUp)
  /\ UNCHANGED <<files, table, fillVars, runVars, paused, exiting, delayed,
                 blockcount, offline, done, runs, abandoned, stranded>>

\* CheckExitRequestTriggerNoIO(), before and after the update.
LoadBreak ==
  /\ exiting
  /\ (pc = "load" /\ NoRecord) \/ pc \in {"reload", "norecord"}
  /\ Advance
  /\ UNCHANGED <<files, table, mode, arg, blocksdone, loaded, empty, changed,
                 runVars, envVars>>

RandomPermitted == RandomBlocks /\ blockcount >= 0

LoadNothing ==
  /\ pc = "norecord" /\ (~RandomPermitted \/ Fresh = {})
  /\ Advance
  /\ UNCHANGED <<files, table, mode, arg, blocksdone, loaded, empty, changed,
                 runVars, envVars>>

LoadRandom(p) ==
  /\ pc = "norecord" /\ RandomPermitted /\ p \in Fresh
  /\ hand' = p /\ pc' = "loadstate"
  /\ UNCHANGED <<files, prob, finished, fillVars, runVars, envVars>>

LoadState ==
  /\ pc = "loadstate"
  /\ prob' = [prob EXCEPT ![prob_i] = hand]
  /\ finished' = [finished EXCEPT ![prob_i] = FALSE]
  /\ hand' = None
  /\ loaded' = loaded + 1 /\ empty' = empty - 1 /\ changed' = TRUE
  /\ Advance
  /\ UNCHANGED <<files, mode, arg, blocksdone, runVars, envVars>>

\* -1: the packet is dropped and another one tried; -2: "should never happen",
\* the client exits.
LoadStateFails ==
  /\ pc = "loadstate"
  /\ gone' = gone \union {hand} /\ hand' = None
  /\ \/ "load" \in Happens /\ pc' = "load" /\ UNCHANGED <<exiting, prob_i, disturbed>>
     \/ /\ "abort" \in Happens /\ exiting' = TRUE /\ Advance
        /\ disturbed' = (disturbed \/ FillUp)
  /\ UNCHANGED <<in, out, ckpt, sent, prob, finished, mode, arg, blocksdone,
                 loaded, empty, changed, runVars, paused, delayed, blockcount,
                 offline, done, runs, abandoned, stranded>>

-----------------------------------------------------------------------------
(* The end of LoadSaveProblems(), and what ClientRun() does with it.        *)

\* Mutation: one packet more.
LimitExceededByOne ==
  /\ mode # "resize"
  /\ blockcount < 0 \/ (blockcount > 0 /\ blocksdone > blockcount)
  /\ empty >= arg

\* "Shutdown - packet limit exceeded."
LimitExceeded ==
  /\ mode # "resize"
  /\ blockcount < 0 \/ (blockcount > 0 /\ blocksdone >= blockcount)
  /\ empty >= arg

\* ClientRun() takes the number of loaded problems for the number of slots to
\* look at from now on: what was loaded further up, behind a hole, is stranded.
FillEndInitial ==
  /\ pc = "fillend" /\ mode = "initial"
  /\ previous' = arg
  /\ exiting' = (exiting \/ LimitExceeded)
  /\ count' = loaded
  /\ stranded' = {prob[i] : i \in loaded + 1 .. Crunchers} \ {None}
  /\ pc' = IF exiting' \/ loaded = 0 THEN "stop" ELSE "start"
  /\ UNCHANGED <<files, table, fillVars, threads, due, suspended, paused,
                 delayed, blockcount, offline, done, runs, abandoned, disturbed>>

FillEndResize ==
  /\ pc = "fillend" /\ mode = "resize"
  /\ previous' = arg
  /\ pc' = "loop"
  /\ UNCHANGED <<files, table, fillVars, count, threads, due, suspended, envVars>>

\* Mutation: the checkpoint waits for its time.
RecheckpointLater(anychanged) == UNCHANGED due

\* "re-checkpoint right away"
Recheckpoint(anychanged) == due' = (due \/ anychanged)

FillEndLoop ==
  /\ pc = "fillend" /\ mode = "anychanged"
  /\ previous' = arg
  /\ exiting' = (exiting \/ LimitExceeded)
  /\ Recheckpoint(changed)
  /\ pc' = "checkpoint"
  /\ UNCHANGED <<files, table, fillVars, count, threads, suspended, paused,
                 delayed, blockcount, offline, done, runs, abandoned, stranded, disturbed>>

\* "close checkpoint file immediately after saving the problems to disk"
FillEndUnload ==
  /\ pc = "fillend" /\ mode = "unloadall"
  /\ previous' = 0 /\ ckpt' = {}
  /\ pc' = "close"
  /\ UNCHANGED <<in, out, sent, gone, table, fillVars, count, threads, due,
                 suspended, envVars>>

-----------------------------------------------------------------------------
(* ClientRun().                                                             *)

\* The process starts.
Boot(b, off) ==
  /\ pc = "down" /\ runs < MaxRuns
  /\ runs' = runs + 1 /\ blockcount' = b /\ offline' = off
  /\ exiting' = FALSE /\ paused' = FALSE /\ delayed' = FALSE /\ done' = 0
  /\ previous' = 0 /\ count' = 0 /\ threads' = 0 /\ due' = TRUE
  /\ suspended' = FALSE /\ stranded' = {} /\ disturbed' = FALSE
  /\ pc' = "open"
  /\ UNCHANGED <<files, table, fillVars, abandoned>>

\* BufferImportFileRecords() reads the checkpoint as a remote buffer, which
\* BufferOpenFile() refuses: nothing is recovered.
Recovered == {}

\* CheckpointAction(CHECKPOINT_OPEN): recover, then truncate; the initial load.
CheckpointOpen ==
  /\ pc = "open"
  /\ in' = in \union Recovered /\ ckpt' = {}
  /\ BeginFill("initial", Crunchers)
  /\ UNCHANGED <<out, sent, gone, table, runVars, envVars>>

\* Mutation: the table is not resized when a cruncher could not be started.
StartThreadsUnresized(n) ==
  /\ pc = "start" /\ n <= count
  /\ n < count => "thread" \in Happens
  /\ count' = n /\ threads' = n
  /\ IF n > 0 THEN pc' = "loop" /\ UNCHANGED fillVars
     ELSE BeginFill("unloadall", count)
  /\ UNCHANGED <<files, table, previous, due, suspended, envVars>>

\* n crunchers are started; what was loaded for others is unloaded, from the last
\* slot of the table on, so that nothing stays stranded.
StartThreads(n) ==
  /\ pc = "start" /\ n <= count
  /\ n < count => "thread" \in Happens
  /\ count' = n /\ threads' = n
  /\ IF n = count THEN pc' = "loop" /\ UNCHANGED fillVars
     ELSE IF n = 0 THEN BeginFill("unloadall", count)
     ELSE BeginFill("resize", n)
  /\ stranded' = IF n \in {0, count} THEN stranded ELSE {}
  /\ UNCHANGED <<files, table, previous, due, suspended, paused, exiting, delayed,
                 blockcount, offline, done, runs, abandoned, disturbed>>

LoopFill ==
  /\ pc = "loop" /\ ~exiting /\ ~paused
  /\ suspended' = FALSE
  /\ BeginFill("anychanged", count)
  /\ UNCHANGED <<files, table, previous, count, threads, due, envVars>>

\* "write checkpoint file now"
LoopPaused ==
  /\ pc = "loop" /\ ~exiting /\ paused
  /\ suspended' = TRUE /\ due' = (due \/ ~suspended)
  /\ pc' = "checkpoint"
  /\ UNCHANGED <<files, table, fillVars, previous, count, threads, envVars>>

\* CheckpointAction(CHECKPOINT_REFRESH) every ten minutes or when it is due:
\* truncate, then write all loaded problems.
CheckpointZap ==
  /\ pc = "checkpoint" /\ ~exiting /\ (due \/ ~paused)
  /\ ckpt' = {} /\ pc' = "refresh"
  /\ UNCHANGED <<in, out, sent, gone, table, fillVars, runVars, envVars>>

CheckpointPut(S) ==
  /\ pc = "refresh"
  /\ LET all == {prob[i] : i \in 1..count} \ {None}
     IN  S \subseteq all /\ (S # all => "put" \in Happens)
  /\ ckpt' = S /\ due' = FALSE /\ pc' = "modereq"
  /\ UNCHANGED <<in, out, sent, gone, table, fillVars, previous, count, threads,
                 suspended, envVars>>

CheckpointSkip ==
  /\ pc = "checkpoint" /\ (exiting \/ ~due)
  /\ pc' = "modereq"
  /\ UNCHANGED <<files, table, fillVars, runVars, envVars>>

\* ModeReqRun(): an update that a threshold or connect-often asked for.
ModeReqUpdate(fetched, flushed) ==
  /\ pc = "modereq"
  /\ BufferUpdate(fetched, flushed)
  /\ pc' = "loop"
  /\ UNCHANGED <<ckpt, gone, table, fillVars, runVars, paused, exiting,
                 blockcount, offline, done, runs, abandoned, stranded, disturbed>>

ModeReqNone ==
  /\ pc = "modereq" /\ pc' = "loop"
  /\ UNCHANGED <<files, table, fillVars, runVars, envVars>>

\* Out of the main loop: the crunchers are joined, the problems unloaded.  If
\* nothing was loaded the previous count is used, unless all is unloaded.
Stop ==
  /\ pc = "stop" \/ (pc = "loop" /\ exiting)
  /\ exiting' = TRUE /\ threads' = 0
  /\ BeginFill("unloadall", IF count = 0 THEN previous ELSE count)
  /\ UNCHANGED <<files, table, previous, count, due, suspended, paused, delayed,
                 blockcount, offline, done, runs, abandoned, stranded, disturbed>>

\* CheckpointAction(CHECKPOINT_CLOSE), DeinitializeProblemManager().
Close ==
  /\ pc = "close" /\ pc' = "down"
  /\ ckpt' = {} /\ abandoned' = abandoned \union Loaded
  /\ prob' = [i \in Slot |-> None] /\ finished' = [i \in Slot |-> FALSE]
  /\ UNCHANGED <<in, out, sent, gone, hand, fillVars, runVars, paused, exiting,
                 delayed, blockcount, offline, done, runs, stranded, disturbed>>

-----------------------------------------------------------------------------
(* The crunchers, the user, time, and the end of the process.               *)

Crunch(i) ==
  /\ i <= threads /\ ~suspended
  /\ prob[i] # None /\ ~finished[i]
  /\ finished' = [finished EXCEPT ![i] = TRUE]
  /\ UNCHANGED <<files, prob, hand, pc, fillVars, runVars, envVars>>

RaiseExitRequestTrigger ==
  /\ pc # "down" /\ (previous # 0 \/ "early" \in Happens)
  /\ ~exiting /\ exiting' = TRUE
  /\ disturbed' = (disturbed \/ FillUp)
  /\ UNCHANGED <<files, table, pc, fillVars, runVars, paused, delayed,
                 blockcount, offline, done, runs, abandoned, stranded>>

TogglePause ==
  /\ "pause" \in Happens /\ pc = "loop" /\ paused' = ~paused
  /\ UNCHANGED <<files, table, pc, fillVars, runVars, exiting, delayed,
                 blockcount, offline, done, runs, abandoned, stranded, disturbed>>

DelayElapses ==
  /\ pc = "loop" /\ delayed /\ delayed' = FALSE
  /\ UNCHANGED <<files, table, pc, fillVars, runVars, exiting, paused,
                 blockcount, offline, done, runs, abandoned, stranded, disturbed>>

Crash ==
  /\ "crash" \in Happens /\ pc # "down"
  /\ pc' = "down"
  /\ gone' = gone \union Loaded \union ({hand} \ {None})
  /\ prob' = [i \in Slot |-> None] /\ finished' = [i \in Slot |-> FALSE]
  /\ hand' = None
  /\ UNCHANGED <<in, out, ckpt, sent, fillVars, runVars, envVars>>

Fill ==
  \/ FillKeep \/ FillEmpty \/ FillSave \/ FillLimit \/ LoadDelayed
  \/ \E p \in Packet : LoadGet(p) \/ LoadRandom(p)
  \/ \E S \in SUBSET Fresh, T \in SUBSET out : LoadUpdate(S, T)
  \/ LoadAgainFails \/ LoadBreak \/ LoadNothing \/ LoadState \/ LoadStateFails
  \/ FillEndInitial \/ FillEndResize \/ FillEndLoop \/ FillEndUnload

Main ==
  \/ CheckpointOpen \/ \E n \in 0..Crunchers : StartThreads(n)
  \/ LoopFill \/ LoopPaused
  \/ CheckpointZap \/ CheckpointSkip
  \/ \E S \in SUBSET Packet : CheckpointPut(S)
  \/ \E S \in SUBSET Fresh, T \in SUBSET out : ModeReqUpdate(S, T)
  \/ ModeReqNone \/ Stop \/ Close

Next ==
  \/ Fill \/ Main
  \/ \E b \in Blockcount, off \in BOOLEAN : Boot(b, off)
  \/ \E i \in Slot : Crunch(i)
  \/ RaiseExitRequestTrigger \/ TogglePause \/ DelayElapses \/ Crash

Spec == Init /\ [][Next]_vars

\* The main thread goes on, and so does every cruncher with work.
FairSpec ==
  /\ Spec
  /\ WF_vars(Fill \/ Main)
  /\ \A i \in Slot : WF_vars(Crunch(i))

-----------------------------------------------------------------------------
(* Properties *)

Pc == {"down", "open", "fill", "limit", "load", "reload", "norecord",
       "loadstate", "fillend", "start", "loop", "checkpoint", "refresh",
       "modereq", "stop", "close"}

\* Types of all variables; empty_problems and the loop index stay within the
\* table.
TypeOK ==
  /\ in \subseteq Packet /\ out \subseteq Packet /\ ckpt \subseteq Packet
  /\ sent \subseteq Packet /\ gone \subseteq Packet /\ abandoned \subseteq Packet
  /\ prob \in [Slot -> Packet \union {None}] /\ finished \in [Slot -> BOOLEAN]
  /\ hand \in Packet \union {None} /\ pc \in Pc
  /\ mode \in {"initial", "anychanged", "resize", "unloadall"}
  /\ arg \in 0..Crunchers /\ prob_i \in 0..Crunchers /\ empty \in 0..Crunchers
  /\ blocksdone \in 0..Cardinality(Packet) /\ loaded \in 0..Crunchers
  /\ done \in 0..Cardinality(Packet) /\ runs \in 0..MaxRuns
  /\ previous \in 0..Crunchers /\ count \in 0..Crunchers /\ threads \in 0..count
  /\ {changed, due, paused, suspended, exiting, delayed, offline, disturbed} \subseteq BOOLEAN
  /\ stranded \subseteq Packet
  /\ blockcount \in Blockcount \union {0}

\* A packet is worked on by one cruncher, and it is in no buffer meanwhile:
\* whatever is loaded, saved, dropped, fetched and flushed in between, no
\* packet is in two places.
OnePlace ==
  /\ \A i, j \in Slot : i # j /\ prob[i] # None => prob[i] # prob[j]
  /\ hand \notin Loaded \union in \union out \union sent \union gone \union abandoned
  /\ LET place == <<in, out, sent, gone, abandoned, Loaded>>
     IN  \A m, n \in DOMAIN place : m # n => place[m] \intersect place[n] = {}

\* "packets to complete": with a limit of n a client never completes more
\* than n packets, and never has more in work than it may still complete,
\* with any number of crunchers (bugs #3672, #4018), whatever happens.  A packet
\* that is stranded is worked on by nobody.
BlockLimit ==
  blockcount > 0 => done + Cardinality(Loaded \ stranded) <= blockcount

\* While the main thread sleeps the checkpoint names no packet that is in a
\* buffer as well, or was sent: a packet that was saved is taken off at once.
CheckpointFresh ==
  pc = "loop" /\ ~exiting => ckpt \intersect (in \union out \union sent) = {}

\* What a client that comes to its end has not put back into the buffers when it
\* frees the problems was stranded by the first fill, and nothing else; nothing
\* was if in this run's first fill no record was unreadable, no exit was asked for,
\* no load aborted, and no update flushed results without fetching work.  The
\* checkpoint of such a client is empty.
ExitKeepsWork ==
  /\ pc = "close" => Loaded \subseteq stranded
  /\ ~disturbed => stranded = {}
  /\ pc = "down" /\ "crash" \notin Happens => ckpt = {}

\* No problem is ever freed with a packet in it.
NoneAbandoned == abandoned = {}

\* "-n -1 forces exit when buffer is empty", "Shutdown - packet limit
\* exceeded": under FairSpec a client with a limit ends by itself.
LimitedRunsEnd ==
  (pc # "down" /\ blockcount # 0 /\ (blockcount < 0 \/ done >= blockcount))
    ~> pc = "down"

\* What becomes of every packet (module WorkLife).
Life(p) == IF p \in in THEN "in" ELSE IF p \in out THEN "out"
           ELSE IF p \in sent THEN "sent"
           ELSE IF p \in gone \union abandoned THEN "gone"
           ELSE IF p \in Loaded \/ p = hand THEN "held" ELSE "new"

Abs == INSTANCE WorkLife WITH life <- [p \in Packet |-> Life(p)]

ImplementsWorkLife == Abs!Spec

\* "Recover blocks from checkpoint files before anything else": what the
\* checkpoint holds when the client starts goes back into the in-buffer.
CheckpointRecovered ==
  [][pc = "open" /\ pc' = "fill" => ckpt \subseteq in']_vars
=============================================================================
