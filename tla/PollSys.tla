------------------------------- MODULE PollSys -------------------------------
(* The polling system (pollsys.cpp): procedures that are called by a sleeping  *)
(* main thread.  Its data is a record:                                         *)
(*   runlist   what each entry of the run list is registered for, or None;     *)
(*             <<>> before the list is allocated                               *)
(*   regcount  the count of registered procedures                              *)
(*   nextrun   the entry the next search begins at, 0 for the first            *)
(*   paused    procedures on hold, last one first                              *)
(* All procedures of the client have priority 0 and are due at once, so that   *)
(* the levels and the times of the code are left out.                          *)
EXTENDS Naturals, Sequences, FiniteSets

CONSTANTS
  Procs,      \* procedures with their arguments: the polled crunchers
  ENTRIES     \* entries of the run list, enough for all of them

None == "none"
initchk == "initchk"      \* the procedure InitializePolling() registers for a moment

ASSUME PollSysAssumption ==
  /\ ENTRIES \in Nat \ {0}
  /\ IsFiniteSet(Procs) /\ Cardinality(Procs) <= ENTRIES
  /\ None \notin Procs /\ initchk \notin Procs

Entries == 1 .. ENTRIES
PollData == [runlist : {<<>>} \cup [Entries -> Procs \cup {None, initchk}],
             regcount : Nat, nextrun : 0 .. ENTRIES, paused : Seq(Procs)]

NoPolling == [runlist |-> <<>>, regcount |-> 0, nextrun |-> 0, paused |-> <<>>]

Free(p) == {e \in Entries : p.runlist[e] = None}

\* The list is allocated when it is needed first.
Allocated(p) ==
  IF p.runlist # <<>> THEN p
  ELSE [p EXCEPT !.runlist = [e \in Entries |-> None], !.nextrun = 0]

FirstFree(p) == CHOOSE e \in Free(p) : \A f \in Free(p) : e <= f

RegPolledProcedure(p, proc) ==
  LET q == Allocated(p)
  IN [q EXCEPT !.runlist[FirstFree(q)] = proc, !.regcount = @ + 1]

UnregPolledProcedure(p, fd) ==
  IF p.runlist = <<>> THEN p
  ELSE [p EXCEPT !.runlist[fd] = None, !.regcount = @ - 1]

InitializePolling(p) ==
  IF p.runlist # <<>> THEN p
  ELSE UnregPolledProcedure(RegPolledProcedure(p, initchk), 1)

\* The lists are freed; the count is not touched.
DeinitializePolling(p) == [p EXCEPT !.runlist = <<>>, !.paused = <<>>]

EnqueuePolledProcedure(p, proc) == [p EXCEPT !.paused = <<proc>> \o @]

\* Mutation: what was on hold stays in the queue when it is registered.
RegQueuedKept(p) == RegPolledProcedure(p, Head(p.paused))

\* One turn of the loop that registers everything on hold, if there is something.
RegQueuedPolledProcedures(p) ==
  RegPolledProcedure([p EXCEPT !.paused = Tail(@)], Head(p.paused))

\* The polling loop runs at all only if something seems to be registered.
Polls(p) == p.runlist # <<>> /\ p.regcount # 0

\* The entry whose turn it is: the first one in use from nextrun on, cyclically.
InUse(p) == {e \in Entries : p.runlist[e] # None}
After(p, e) == ((e + ENTRIES) - (IF p.nextrun = 0 THEN 1 ELSE p.nextrun)) % ENTRIES
Turn(p) == CHOOSE e \in InUse(p) : \A f \in InUse(p) : After(p, e) <= After(p, f)

\* The procedure is unregistered before it is called.
TakenFor(p, e) ==
  [p EXCEPT !.runlist[e] = None, !.regcount = @ - 1, !.nextrun = (e % ENTRIES) + 1]
==============================================================================
