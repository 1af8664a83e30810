# A TLA+ model of the distributed.net client

This directory models the core logic of the client in this repository: how a
packet of work gets from a buffer into a cruncher and back, through threads,
files, limits, failures and crashes; how the client starts, pauses, restarts
and ends; and how the two kinds of packets the public sources can work on
(OGR-NG and RC5-72) are searched. The modules are TLA+, checked with TLC; the
safety of the problem object, the buffers, the run loop, the crunchers, the
pauses, the buffer update and both searches is also proved with TLAPS.

Contents: 1 the system · 2 the modules · 3 how the modules map to the code ·
4 the runs · 5 fairness · 6 the proofs · 7 where code and documents disagree ·
8 what is left out · 9 the plan.

## 1. The system

A client takes *packets* of work for some *projects* (contests) from its
in-buffer, works on them with a number of *crunchers* (threads), and puts the
results into its out-buffer. Buffers are exchanged with servers or with files
in another directory.

| component | state | operations | interacts with |
|---|---|---|---|
| problem object (`problem.cpp`) | three copies (main, core, temp) of work and status, one lock, `loaded_problems[]` | `ProblemLoadState`, `ProblemRetrieveState`, `ProblemRun`, `ProblemIsInitialized` | filler and checkpoint (main thread), cruncher |
| problem manager (`probman.cpp`) | the problem table | initialise, free, index | filler, run loop |
| filler (`probfill.cpp`) | loop counters, previous table size, packet counts | `LoadSaveProblems` in four modes, save and load of one problem, `SetProblemLoaderFlags` | buffers, buffer update, problem objects, checkpoint, triggers |
| buffer files (`buffpub.cpp`) | fixed-size slots, some of them blank | put, get, count, zap, open, close | other clients through shared files |
| buffers (`buffbase.cpp`) | two buffers per project, on disk or in memory | put, get with cross-saving, thresholds, import | filler, update |
| buffer update (`buffbase.cpp`) | time of the last failure, retry delay | `BufferUpdate`, fetch and flush from/to remote buffers, `BufferCheckIfUpdateNeeded` | network, remote files, triggers |
| run loop (`clirun.cpp`) | thread blocks, next checkpoint, pause, limits | `ClientRun`, `Go_mt`, start/stop/suspend threads | everything above |
| checkpoint (`checkpt.cpp`) | one file | open, refresh, close | run loop, buffers |
| triggers (`triggers.cpp`) | exit, pause and restart flags | raise, clear, poll | everyone |
| mode requests (`modereq.cpp`) | a mask of requests | set, clear, run | run loop, user interfaces |
| polling (`pollsys.cpp`) | callback queue | register, run | crunchers without threads |
| network (`netconn.cpp`, `netbase.cpp`) | connection, retries | open, read, write, fall back | protocol code that is not in the public sources |
| start and restart (`client.cpp`) | restart flag | `realmain` | triggers, mode requests, run loop |
| cores (`ogr/`, `rc5-72/`) | a search tree; a range of keys | create, cycle, save; search a slice | problem object |
| others | – | configuration, core selection, benchmarks, statistics, log, mail, platform glue | – |

What makes this hard, and the property that would notice it going wrong:

- A cruncher works for seconds on its *copy* of a problem, while the main
  thread may save it, purge it and load another packet into the same object:
  `NoStaleResult`, `SnapshotConsistent`, `PurgesWhatWasSaved`.
- The flags between main thread and crunchers are plain variables, read and
  written without a lock: `SuspendedSoon`, `StoppedBeforeFree`,
  `RefillNoticed`, `WaitsEnd`.
- Buffers are files of slots that are overwritten in place, can be cut short,
  merged by the user, and read while the process dies: `ImplementsRecordBag`,
  `OnePlace`, `NoneVanishes`.
- The packet limit counts finished packets, loaded ones and empty slots in one
  loop that runs up or down the table: `BlockLimit`, `LimitedRunsEnd`.
- Some of several steps fail (a file, a thread, a packet that cannot be
  loaded): `ExitKeepsWork`, `PacketsKept`, `ResultTruthful`.
- The process may die anywhere: `ImplementsWorkLife`.
- Signals set flags between any two steps of the check that reads and resets
  them: `RunEnds`.
- Pauses and modes (a benchmark, a configuration) suspend the same crunchers by
  the same flag, and polled crunchers move between two queues meanwhile:
  `PauseTakesEffect`, `PolledOnce`,
  `HeldInPause`, `NoneForgotten`.
- A search leaves out what limits and symmetries rule out, stops after any
  slice, and begins again from a short record: `NothingMissed`, `BitmapsExact`,
  `StubRestored`, `SavedStateLoads`.
- Keys are counted in words and bytes of two orders, with carries that a test
  would wait for a long time: `KeysExact`, `NoKeySkipped`, `CheckExact`,
  `FoundIsKey`, `ServerPacketsEnd`.

`PROJECT.json` lists every hazard at its line, and every component, also those
that are not modelled.

## 2. The modules

| module | models | abstract specification |
|---|---|---|
| `Problem` | problem objects, main thread and cruncher at the grain of one copy or one locked access | `WorkSlot` |
| `BufferSlots` | what one slot operation does to a buffer file (operators) | – |
| `BufferFile` | put and get on a file, one step per file operation, several clients, crashes; uses `BufferSlots` | `RecordBag` |
| `Buffers` | all buffers of a client, on disk or in memory, `GetBufferRecord` one iteration per step; uses `BufferSlots` | – |
| `BuffUpd` | `BufferUpdate` and its two file transfers, and the delay | – |
| `ClientRun` | main loop, filler, problem manager and checkpoint, with problems and buffer operations atomic | `WorkLife` |
| `Crunchers` | crunchers and main thread, one flag access per step | – |
| `Triggers` | the exit, restart and pause triggers (actions, without a `Next`) | – |
| `PollSys` | the queues of polled procedures (operators) | – |
| `ClientMain` | start and restart, the main loop as it follows triggers and mode requests, polled crunchers; extends `Triggers`, `PollSys` | – |
| `OgrSearch` | the OGR-NG core and how `problem.cpp` loads, runs and saves it | – |
| `Rc5Keys` | the keys and counters of an RC5-72 packet | – |
| `ProblemProofs`, `CruncherProofs`, `BuffUpdProofs`, `ClientRunProofs`, `ClientMainProofs`, `OgrSearchProofs`, `Rc5KeysProofs` | proofs about the module of that name | – |
| `BufferProofs` | proofs about `BufferSlots`, `BufferFile` and `Buffers` | – |
| `MC*` | constants for TLC | – |

The layers: `BufferFile` justifies that `Buffers` may treat a file operation as
one step (for one client per file). `Buffers` and `Problem` justify that
`ClientRun` may treat buffers as sets of packets and problems as single values.
`Crunchers` and `Problem` are the two views of the same threads: `Crunchers`
has the flags, `Problem` has the data and the lock. `ClientMain` is the frame
around `ClientRun`: there the reasons to pause, to handle a mode and to end are
in full and the packets are left out, while `ClientRun` has them the other way
round. `OgrSearch` and `Rc5Keys` are what `Problem` calls `RunCore`.

## 3. Model and code

`PROJECT.json` maps every definition to lines; this section says what the
correspondence is and what was simplified. `Happens`, `Fails`, `User` and
similar constants switch on failures and user actions; every `Max...` constant
and the sets `Packet`, `WorkRecord` are bounds of the model.

**Problem.** A problem is a pair of *work* (packet, project, discard flag, steps
done) and *status* (initialized, started, last_resultcode). Both are tagged with
the packet they belong to, so that a torn copy shows; the tag is a history
variable. Each copy of `__copy_internal_problem()` is two steps (work, then
status) under the lock: `LoadCopyWork`/`LoadCopyStat`,
`PublishWork`/`PublishStat`, `RetrieveWork`/`RetrieveStat`,
`RunBlastWork`/`RunBlastStat`. `ProblemRun()` is `RunCheck` (unlocked
test of `initialized`), `RunStart`, `RunCopy`, `RunFinished`, `RunCore` (any
progress and any result a core may produce), `RunError`, and then either
`RunDiscard` (the problem was purged or reloaded meanwhile) or `RunSync` and the
blast back. The main thread chooses any slot and any operation at any time;
that is more than `LoadSaveProblems` does, which is modelled in `ClientRun`.

**BufferSlots, BufferFile.** A file is a sequence of records or `Blank`. A put
scans for a blank slot if asked to count, else from the end; a get takes the
first record and, when all others were blank, truncates the file. `Step` and the
`Put*`/`Get*` actions are the file operations in order; `Fail` is an I/O error,
`Crash` the death of one client in the middle. With `CloseFails` the last write
may be lost on `fclose()`; the history variable `lost` holds the records this
happened to, and the mapping to `RecordBag` counts them as stored for ever.
The names of `BufferFile` that `Buffers` has too carry its name (`FileSpec`,
`FileNext`, `WorkRecord`), so that one module can prove about both.

**Buffers.** A record has a project and a state that may be unknown to this
client, because users merge files (`UserMerge`). `GetTake` is one iteration,
followed by `GetOk`, `GetDiscard` or `GetCrossSave` and the loop condition in
`GetMore`; local variables are reset on return. `FlushBack` is the flush to a
remote buffer, whose open always fails in the public sources, so that the
record is put back. If both base names are equal and not empty (`identical`; empty
ones stand for the two default names) every call is refused and
nothing changes, which TLC would call a deadlock: the check is off there.

**BuffUpd.** One project, a packet is one stats unit. `BufferUpdate` decides
what to do, `BufferNetUpdate` transfers any part of it or fails (external: a
stub here), then come the fetch and the flush between files, one packet per
iteration. The remote directory may be the client's own (`looped`). Remote file
operations always fail in the public sources (`BufferOpenFile`); the model
allows them to succeed too, as in the full client, whose behaviours include
these. Suspended and closed projects, dial-up detection and news are left out.
After the return the local variables are reset.

**ClientRun.** A packet is a model value that is in a buffer, in the table, in
`hand` (the record between get and load), sent or gone. `BeginFill` and the
`Fill*`, `Load*` actions are `LoadSaveProblems()` in the order of the code,
problem by problem; `Boot`, `CheckpointOpen`, `StartThreads`, the loop actions,
`Stop` and `Close` are `ClientRun()`. The checkpoint file is written as in
`CheckpointAction`; `Recovered` is what an import finds in it: nothing,
since `BufferOpenFile()` refuses the import. A pause acts at the top of the loop.
Two history variables follow the first fill of a run: `stranded` holds the
packets it loaded into slots beyond the number that `ClientRun()` looks at from
then on; `disturbed` says whether an unreadable record, an exit request, an
aborted load, or an update that flushed results and fetched nothing met it.
Fatal core errors and loader flags are in `Problem` only; `nodiskbuffers` only
in `Buffers`.

**Crunchers.** Real threads only; polled crunchers, which never run while the
main thread does something else, are in `ClientMain`. Each read or write of a flag is one step; setting the flags of
all crunchers is one step because each cruncher reads only its own. A problem
is `empty`, `work` or `done`. `SlowStart` lets a thread begin after the main
loop has; without it the start sleep of `__StartThread` is taken to suffice.
The case "more threads than problems" cannot occur, as the table is resized.
A freed block is not accessed in the model: the property is violated before.

**Triggers, PollSys, ClientMain.** The main thread goes through `realmain()`,
`ClientRun()`, `CheckExitRequestTrigger()`, `CheckPauseRequestTrigger()` and
`ModeReqRun()` in steps, named in `pc`; a signal handler (`Signal`, `Hangup`) or
the user (`FlagFile`, `IniFile`) comes between any two. Raising a restart is two
steps, as in the code. The environment variables say that a flag file *is seen*:
the code looks for it once in an interval, and as the file may appear at any
time, an interval is a later appearance. `arrivals` says which things happen in
a behaviour. Crunchers are registered one by one (`StartThread`) and released one by one
(`Release`). `CheckPauseRequestTrigger()` reads the trigger twice: what it keeps is
of the first reading (`PauseChecked`), what it returns of the second
(`PauseReturned`). `LateSignals` lets pause signals come between the two; the run and
two theorems leave them out, and section 7 says what they do.
The main loop calls polled crunchers in `PollStep`, one at a time, in the
order of the run list; levels and times of the list are left out, since all
procedures of the client have priority 0 and are due at once. `Connect` stands
for the two places that ask for an update by themselves, at most once for each
sleep, as updates are 30 seconds or more apart. Of the modes there are the
benchmark, the configuration with or without a restart, fetch and flush; the
others are handled like these. Nothing in the sources asks for
`MODEREQ_RESTART`. Of the reasons to pause there are the signal and the flag
file; processes, battery and temperature set further bits in the same way.

**OgrSearch.** A ruler is a growing list of marks. The three bitmaps of a level
are sets of bit numbers, in machine words of `SCALAR_BITS`. The shifts go word
by word as in `COMP_LEFT_LIST_RIGHT`: each bit comes from its own word or is
carried over from the neighbour (`FromLeft`, `FromRight`); the tests for a
blank and a full word and the skip of a full one see a word, too. `Load` to `Created` is `ogr_create()` with
the replay of the stub, `Cycle` one step of `ogr_cycle_256()`, `Run` the client's
call for a slice, `Retrieve` the saving, and `LoadReset` a load by another core, which begins anew. The limits come from `choose_dat`, the table of least lengths,
a constant here, whose entries are 16-bit numbers (`OGR[n] < 65536`); the
instance takes them from the first rows of `ogrng_dat.cpp`. The table ends at
`CHOOSE_MARKS`, and a ruler has at most twice as many marks. The constant
`Rulers` stands for what there is to find; only `NothingMissed` speaks of it.

**Rc5Keys.** Keys and counts are words of four bytes with the byte order of
client and core; a byte has `BYTE` values, and the sums wrap at `WORD`, also the
rounding of a slice (`RoundedUp`). The cipher is a key nobody knows
(`secret`) and a set of keys whose first word matches by chance (`Partial`). A
slice is clamped and rounded as in the code; the core answers it in full, not
at all yet (an asynchronous core), or has tested only a part of it, which
the reference key shows (`Mismatch`). A packet is saved and loaded at any time, by the
same core or by another, which begins anew.

## 4. The runs

Sizes are TLC's distinct states.

| run | states | bounds | what it shows |
|---|---|---|---|
| `problem` | 1.1 M | 1 slot, 2 projects, 2 steps, 3 packets one after the other | the safety of the problem object and its refinement of `WorkSlot` |
| `problem_live` | 31 k | 1 slot, 1 project, 1 step, 2 packets | stale passes do not starve a packet |
| `buffer_file` | 7.8 k | 1 client, 3 records, closes may fail | the file is a bag of records, also across crashes |
| `buffers` | 153 k | 2 packets, 2 projects, disk and memory, memory table of 1 | nothing is lost or doubled by sorting, and the loop ends |
| `client_run` | 1.0 M | 3 crunchers, 3 packets, limits -1, 0, 1, 2; runs that start with results to flush, every failure but the crash, exits at any time, pauses | one place per packet, the limit, the checkpoint, the exit |
| `client_run_crash` | 191 k | 2 crunchers, 2 packets, 2 runs of the client, every failure and crash, random packets | the life of packets, and that limited runs end |
| `crunchers` | 283 k | 2 crunchers, pauses, benchmarks, exit | the unlocked flags |
| `buff_upd` | 1.1 M | 2 packets, thresholds 2 and 3, all failures, remote buffers separate or the client's own | the transfers and the delay |
| `client_main` | 211 k | 2 polled crunchers, a list of 3, one restart, every two arrivals together | pauses, modes, restarts and exits do not get in each other's way |
| `ogr` | 207 k | 5 to 7 marks, bitmaps of 8 bits in words of 4, slices of 1 and 2, one reset | the search is exact, loses nothing by being cut, and ends |
| `rc5_keys` | 14 k | 512 keys, slices 0, 5, 8, three loads | every key is searched once and reported right |
| `problem_error` | – | violation | see section 7 |

Why the bounds suffice. *problem*: a stale result needs a packet, its
successor in the same object, and a third to tell "reloaded once" from
"reloaded again"; two steps give a state between fresh and finished; slots
share only `loaded_problems[]`, and the proofs of section 6 hold for any number
of slots. *buffer_file*: three records give a file with a blank in front of,
between and behind records. *buffers*: cross-saving needs a record, a second
one behind it and a second project; a table of one is full and must grow with
one packet each. *client_run*: the limit is interesting when it is smaller than
the number of crunchers (1 and 2 against 3). *client_run_crash*: one crash and
one restart. *crunchers*: two, so that one can go on while the main thread asks
the other. *buff_upd*: a threshold within and one beyond the number of packets,
so that the fetch ends by itself or by the loop check, which lets three
warnings pass. *client_main*: two crunchers can be in different queues; the
third entry of the list is the one `InitializePolling` takes and gives back.
One restart brings every variable that survives it back into the loop; a user's request
comes after each cruncher was called once (`EarlyRequests`, see section
7). *ogr*: the shortest rulers with a middle segment of one and of two
marks, lengths that cross a word of a bitmap and reach its end, and a
level that is pushed and popped; the stubs include wrong ones. For 7 marks the
table says 27, as if the best ruler, of length 25, were not yet known: there are
rulers of 25 to 27 to find, and stubs that hold many, one and none of them.
*rc5_keys*: packets that carry into the middle and into the high word, one at
the end of the key space, the dummy packet and a test packet.

`client_run` has one run, which may start with results of an earlier one in the
out-buffer, and every failure but the crash; `client_run_crash` has two runs and
the crash. What the first fill may strand when something disturbs it (section
7) is in both, and `BlockLimit` and `ExitKeepsWork` hold all the same: they say
of stranded packets what the code does with them.
The type invariants of all modules are defined and were checked with TLC; the
runs leave them out in favour of others, and the inductive invariants of
section 6 contain them.

In `client_main` no pause is signalled between the test and the return of the
check for one (`LateSignals = FALSE`): section 7 says what happens otherwise.

The limit is checked with the counting of the code: the loop comments on bugs
3672 and 4018 are the history of `LimitReached`.

Every property of a passing run has a mutant in `PROJECT.json`: a changed
definition, kept in the module beside the original with a comment that begins
"Mutation:", under which TLC finds the property violated. `Next` never uses one.

## 5. Fairness

- `Problem!FairSpec`: each thread goes on, as the operating system schedules
  both: weak fairness of its steps, strong fairness of those that need the lock
  (it is released after a bounded number of steps, and a thread that tries again
  and again between two yields finds it free some time). `ProgressSpec` adds that a core that is run
  again and again makes progress (strong fairness): cores advance by
  at least one iteration per call.
- `Buffers!FairSpec`, `BuffUpd!FairSpec`: a call that has begun goes on. Users
  and networks are not fair.
- `ClientRun!FairSpec`: the main thread and each cruncher with work go on.
  Nothing is assumed of exit requests, crashes or pauses; `LimitedRunsEnd` is
  checked without the pause trigger (a paused client does not end).
- `Crunchers!FairSpec`: each thread goes on. The end of the main thread's sleep
  (`Timeout`) is not assumed, so that `RefillNoticed` rests on the wake-up flag.
- `ClientMain!FairSpec`: the main thread goes on. Strong fairness of `PollStep`,
  because a sleep that finds crunchers registered calls at least one: the loop
  of `__RunPollingLoop` tests its time at the end. Nothing is assumed of
  signals, files and users: `NoneForgotten` says that a cruncher is called
  again, or the client is paused or about to end.
- `OgrSearch!Spec`: a stub is loaded, `ogr_create()` and a cycle return (weak
  fairness), and the client runs a loaded stub again and again, though it may
  also save it in between (strong fairness of `Run`).

## 6. The proofs

Each proof module proves about the module it is named after, for every value of
its constants that the module's named assumptions allow: any number of slots,
crunchers, packets, projects, loads and runs.

| module | theorem | statement |
|---|---|---|
| `ProblemProofs` | `Inductive` | `Spec => []IInv` |
| | `TypeCorrect` | `Spec => []TypeOK` |
| | `Exact` | `Spec => []LoadedProblemsExact` |
| | `NoStale` | `Spec => []NoStaleResult` |
| | `Snapshot` | `Spec => []SnapshotConsistent` |
| | `PurgesSaved` | `Spec => PurgesWhatWasSaved` |
| | `Refinement` | `Spec => ImplementsWorkSlot` |
| `BufferProofs` | `FileIsBag` | `FileSpec => ImplementsRecordBag`, if `Alone` |
| | `CountsRight` | `FileSpec => []CountExact`, if `Alone` |
| | `EachOnce` | `Spec => []OnePlace` |
| | `NoneLost` | `Spec => NoneVanishes` |
| `BuffUpdProofs` | `Kept` | `Spec => []PacketsKept` |
| | `Truthful` | `Spec => []ResultTruthful` |
| | `DelayConsistent` | `Spec => []BackoffConsistent` |
| `ClientRunProofs` | `Places` | `Spec => []OnePlace` |
| | `LivesOfPackets` | `Spec => ImplementsWorkLife` |
| | `FreshCheckpoint` | `Spec => []CheckpointFresh` |
| | `WorkIsKept` | `Spec => []ExitKeepsWork` |
| | `LimitKept` | `Spec => []BlockLimit` |
| `CruncherProofs` | `SoonSuspended` | `Spec => []SuspendedSoon` |
| | `FreedWhenStopped` | `Spec => []StoppedBeforeFree`, if `~SlowStart` |
| `ClientMainProofs` | `Suspension` | `Spec => []SuspendInv` |
| | `NoWorkInPause` | `Spec => PauseTakesEffect`, if `~LateSignals` |
| | `Polled` | `Spec => []PolledOnce` |
| | `Held` | `Spec => []HeldInPause`, if `~LateSignals` |
| `Rc5KeysProofs` | `RC5Safety` | `RC5Spec => []RC5Inv` |
| | `RC5Types` | `RC5Spec => []RC5TypeOK` |
| | `KeysStayExact` | `RC5Spec => []KeysExact` |
| | `ChecksStayExact` | `RC5Spec => []CheckExact` |
| | `NothingSkipped` | `RC5Spec => []NoKeySkipped` |
| | `FoundKeyRight` | `RC5Spec => []FoundIsKey` |
| | `PacketsEnd` | `RC5Spec => []ServerPacketsEnd` |
| `OgrSearchProofs` | `OgrSafety` | `Spec => []OgrInv` |
| | `OgrType` | `Spec => []TypeOK` |
| | `OgrBitmaps` | `Spec => []BitmapsExact` |
| | `OgrFound` | `Spec => []FoundIsGolomb` |
| | `OgrRestored` | `Spec => []StubRestored` |
| | `OgrLoads` | `Spec => []SavedStateLoads` |
| | `OgrComplete` | `Spec => []NothingMissed` |

Some theorems need more than the assumptions on constants, and section 7 shows
that the code does not have the property without it:

- `Alone`: one client per buffer file. No call locks a file.
- `~SlowStart`: a created thread begins before the main loop does.
- `~LateSignals`: no signal asks for a pause between the two reads of the trigger
  in `CheckPauseRequestTrigger()`.

**Problem.** None of the properties is inductive. `NoStaleResult` speaks of
what the main copy shows; why it holds is that a cruncher writes back only what
it copied, from the packet that is still there. `IInv` says this:

- `Types`: the type of every variable but the counter.
- `LockInv`: the lock of a slot is held exactly by the thread whose program
  counter is inside a locked section of that slot.
- `MainInv`: work and status of the main copy are of the same packet, and the
  packet number is that of the last load, except while a publishing thread is
  between its two halves.
- `TempInv`: what is about to be published is newer than anything in the slot.
- `CoreInv`: a cruncher between `RunCopy` and its return has a copy of a
  packet that is not newer than the slot's; if the slot still is `started`
  and `initialized`, it is the same packet and not finished. This is the
  heart: it is preserved by purges (they clear `initialized`) and loads (they clear
  `started`), and it is what the test in `RunDiscard` relies on.
- `GotInv`: what was retrieved is consistent, and a finished problem
  stays as retrieved until it is purged, because a cruncher that finds it
  finished (`RunFinished`) does not write back.

There is one lemma for each action of `Next`, or group of actions, under it a
step for each part of `IInv` that the action can disturb. `LoadedProblemsExact` adds
a lemma on the cardinality of the set of counted slots. `Refinement` maps each
action to a step of `WorkSlot` or a stutter, under `IInv`.

**Buffer files.** What one client has read of a file stays true of it until the
client writes, since it is `Alone`: `Known(c)` says so for each place in put
and get. With it, the slot a put has found is free and the one a get has found
is used, so that a write adds one record and a blanking removes one;
this is proved once for all files. A record taken is in the file
or in the hand, never both (`Apart`). `CountInv` follows the count of a
put through its scan.

**Buffers.** `PlaceInv`: each packet is in one slot of one buffer at most
(`Single`), and what is in slots, in the caller's hands and discarded is
disjoint (`Apart`). Every step adds at most one record to `InBuffers`, the one
it removes from elsewhere, or the other way round; that no packet vanishes is
that the set `Kept` never shrinks.

**Buffer update.** `KeptInv` (all packets are covered, the places are disjoint,
and the packet in hand is in none of them), `ReportInv` (what the local variables
say was done is what was done, also in the middle of a transfer) and `BackoffInv`.

**Run loop.** `Types`, `Control` (mode, arguments and counters for each place in
the loop), `Apart` and `CkptInv` (what is in the checkpoint has not been saved
or finished without the flag that makes it rewritten) give the first three
theorems. `ExitKeepsWork` says that what a client frees was stranded by its
first fill, and that a fill which was not disturbed strands nothing. It needs
`KeepInv`: above the slots that the loops look at the table holds exactly the
stranded packets (`Beyond`), also while an unload or a resize empties it from the
top, so that at the end nothing else is left; and an undisturbed first fill
leaves no hole (`Smooth`), because whatever made it skip a slot, be it the limit,
the delay or that there is nothing to load, still holds for the next ones.
`LimitInv` adds the counting: during a fill `empty_problems` is exactly the
number of empty slots visited so far, so that the finished packets and those at
work (`AtWork`: loaded and not stranded) never exceed the limit. The same
holds of all loaded packets before the crunchers start, since a resize empties
the slots in question and strands nothing.

**Crunchers.** `SuspendInv`: a suspended cruncher begins at most the one pass it
was about to begin. `StopInv`: a cruncher's exit flag and its end agree, and a
block is freed only after it.

**Client.** `SuspendInv` of `ClientMainProofs`: in a run there are no modes from
the command line; the crunchers are told to suspend exactly if the loop has
seen a pause or modes suspended them; and what the loop has seen agrees with
the trigger's last check, except between the check and the loop's answer to it,
and after a late signal. No step between calls a cruncher.
`PollInv` is about the two lists: outside a run they are not set up; in a run
no procedure is in two places (`Distinct`), the count is at least the number of
entries in use (`Enough`), and those on a list are the crunchers that were
started (`Present`). Registering finds a free entry by the pigeonhole
principle, as there are no more procedures than entries. `HoldInv`: what is on
hold is so in a pause that a check has seen, since only a check that sees the
pause end leaves `laststate` empty, and it releases them all.

**RC5-72.** `RC5Inv`: a record in progress (`Progress`), saved or in memory,
has the packet's first key and length; its check is the number and the last of the
matches among the keys done; the key searched for is not among these. In
memory the core's key stands, in the core's byte order, at the first key plus
the keys done (`KeysExact`). The lemmas do the arithmetic: switching the byte
order twice changes nothing; adding to three words with carries adds to the
number they stand for; a slice clamped to what is left, rounded up, passes the
end by less than the rounding; the matches of two neighbouring stretches of keys are
those of both together. The constants are any widths of byte and word and any
set of matches.

**OGR-NG.** `OgrInv`, in `LevelsExact`: on each level, the list, the distances,
the forbidden places and the limit are functions of the marks placed so far
(`ListOf`, `MeasuredIn`, `CompOf`, `LimitIn`), whatever was shifted, pushed and
popped; that the carries from word to word make a shift of the whole bitmap is a
lemma (`ShiftsWhole`). `COMP` says where a mark would measure a distance a second time: a
mark is only placed where it does not, so that a ruler that is complete
measures no distance twice, and distances longer than the bitmaps cannot be
measured twice within the length. `Stands` and `Bounded` place the mark that is being moved;
`StubKept` and `StubPlaced` say that the marks of the stub stay where they are;
`Reloadable` and `Replaying` say that the differences of a record that was written back are those
of a ruler the search may come to (`Ruler`), so that `ogr_create()` meets no
obstacle when it places them again. An induction over the levels is
written with a least counterexample, from `WFMin`.

That nothing is missed needs a second invariant, `MissInv`: every ruler sought
in the stub is still ahead of the search. It begins with the marks of the
record that is stored or being replayed (`Follows`), or the first mark in which
it differs from the marks placed lies further on (`Later`), or it is the one
just found. A step passes the places up to the next free one, a word of
forbidden places, or all places beyond the limit. `SoughtFits` says that a
ruler sought has its next mark in none of these: a forbidden place would
measure a distance twice, and no limit cuts it off, be it that of the
remaining length, of the middle segment, or of the choose data. This rests on
two assumptions about constants. `RulerAssumption` says what `Rulers[n]` are:
Golomb rulers of `n` marks within `OGR[n]`. `LeastLengths` says what the tables
`OGR` and `choose_dat` are taken to mean: no proper part of such a ruler, which
has fewer marks, is shorter than the table says. It says nothing of the whole
ruler: those shorter than the best one known, which the search is for, are among
the rulers sought. Both hold for the tables of the instance and all rulers of
5 to 7 marks (`MCRulers`), which TLC evaluates; that the 65,000 lines of
`ogrng_dat.cpp` have this meaning is the claim of the project that computed
them, and is not checked here.

Only model-checked: the liveness properties (`PacketsFinish`, `GetReturns`,
`LimitedRunsEnd`, `RefillNoticed`, `WaitsEnd`, `UpdateEnds`, `SearchEnds`,
`NoneForgotten`, `RunEnds`), as fairness and `ENABLED` are out of the prover's
reach.

## 7. Where code and documents disagree

One disagreement is a run, with its finding in `PROJECT.json`: `problem_error`.
An OGR core that cannot load its stub sets the result code -1, "this will cause
the problem to be discarded" (`problem.cpp:1170`); `ProblemRun()` drops it
because the return value is negative too. The cruncher tries again for ever.

The other counterexamples are configurations beside the runs. TLC finds each
property violated:

| configuration | property | what it shows |
|---|---|---|
| `MCProblemFlags.cfg` | `DiscardFlagKept` | a loader flag set without the lock is overwritten by a cruncher that returns, although "it might have changed while we in core" (`problem.cpp:1705`) |
| `MCBufferFileShared.cfg` | `HandedOutOnce` | buffer files may be shared between clients (`docs/dnetc.txt:125`), and no call locks a file between reading a record and blanking it: two clients get the same record |
| `MCBufferFileFull.cfg` | `PutMeansStored` | a put succeeds and the record is not in the file, as the result of `fclose()` is ignored |
| `MCBuffersFind.cfg` | `GetFindsRequested` | a call comes back empty-handed though a requested record is in the file ("loop if we have more in buff", `buffbase.cpp:439`) |
| `MCBuffUpdDelay.cfg` | `DelayAfterFailure` | the exponential delay also begins after an update that had nothing to do (`docs/CHANGES.txt:319` speaks of connections) |
| `MCClientRunRecover.cfg` | `CheckpointRecovered` | a checkpoint is never recovered: the import asks for a remote buffer, which these sources refuse to open (`buffpub.cpp:88`) |
| `MCClientRunAbandon.cfg` | `NoneAbandoned` | an exit request during the buffer update of the first fill leaves the first slot empty; the number of loaded problems is then taken for the number of slots to unload, and the packet in the last one is freed unsaved. A get that fails has the same effect |
| `MCClientRunHole.cfg` | `NoneAbandoned` | the same without any failure, in a run that starts with results of an earlier one: an update that flushes old results and fetches nothing counts as a success, so that the slot is passed over; the update for the next slot fetches |
| `MCCrunchersBench.cfg` | `BenchmarkAlone` | a cruncher that read `do_suspend` before it was set runs a pass during a benchmark (`clirun.cpp:2061`) |
| `MCCrunchersStart.cfg` | `StoppedBeforeFree` | a thread that begins late ("not running yet") loses its block at once on exit |
| `MCClientMainWait.cfg` | `WaitsForThreads` | a benchmark asked for before each polled cruncher was called once waits for their suspension without calling them (`clirun.cpp:2055`), and for ever |
| `MCClientMainLate.cfg` | `ReleasedAfterPause` | the check for a pause compares the trigger with its last state, and then reads it again to return it (`triggers.cpp:993`, `:1099`). A pause signalled in between pauses the loop, and crunchers go on hold; if it is taken back before the next check, that one sees no change and does not "release all polled procedures that have been on hold" (`triggers.cpp:1093`): they wait until another pause has come and gone |
| `MCClientMainRestart.cfg` | `PausedIsIdle` | the count of registered procedures is not reset with the list, so that after a restart in a pause the next pause polls without end |
| `MCClientMainRestart.cfg` | `InterruptEnds` | an interrupt that comes while a restart is under way is lost with the triggers |
| `MCOgrSearchFound.cfg` | `SuccessIsReported` | the stub saved after a success is not the ruler found (`ogr-interface.h:92`) |

`NoExtraKeys` of `Rc5Keys` (no slice reaches past the end of a packet by more
than the rounding) holds for packets whose number of keys is a multiple of a
word, which `ServerPacketsEnd` states, and not for test packets that begin in
the middle.

## 8. What is left out, and why

- Rates, time slices, formatting, logs, mail, statistics, menus, options: no
  state that the properties tell apart.
- OGR-P2, and the assembler, vector and GPU versions of the cores: other
  implementations of the functions that are modelled. Core selection depends
  on tables of processors.
- The tables `ogrng_dat.cpp` and `ogr_dat.cpp` (69,000 lines, more than a third
  of the sources): data, of which the instance of `OgrSearch` takes a few rows.
- The network: `BufferNetUpdate` is a stub in the public sources, so that
  nothing calls `netconn.cpp` with a protocol; what an update may bring is in
  `BuffUpd`.
- Platform glue (consoles, screen savers, services): operating-system calls. Together
  with the cores and tables above this is most of the repository's lines; the
  share of it that is modelled stays small, although the client's common code
  for packets, buffers, threads and triggers is covered.
- `LoadSaveProblems(NULL, 0, PROBFILL_UNLOADALL)` from a console handler in
  another thread: needs a finer `ClientRun`.
- Time limits by the clock (`Limit` of `ClientMain` ends the loop at any
  time instead), coordinated updates, summaries: without effect on packets.
- Random packets are only generated for one project, as in the code.

## 9. The plan

Done: `Problem`, `BufferSlots`, `BufferFile`, `Buffers`, `BuffUpd`, `ClientRun`,
`Crunchers`, `Triggers`, `PollSys`, `ClientMain`, `OgrSearch`, `Rc5Keys`; the
abstract specifications `WorkSlot`, `RecordBag`, `WorkLife` and the proofs that
they are implemented; the safety proofs of section 6.

Left, in order:

1. The abortive unload from another thread, in a finer `ClientRun`.
2. `NetConn`: connecting with retries and fall-back, and the dial-up states.
3. Pure algorithms: base64 and the in-memory file against reference
   definitions; the dynamic time slice with 32-bit arithmetic; thresholds.
4. OGR-P2 as a second implementation of what `OgrSearch` states.
5. Proofs: that `ClientRun`'s problems are `WorkSlot`s.
