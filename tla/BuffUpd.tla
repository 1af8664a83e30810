------------------------------ MODULE BuffUpd ------------------------------
(***************************************************************************)
(* The update of the buffers: BufferUpdate(), BufferCheckIfUpdateNeeded(),  *)
(* BufferFetchFile() and BufferFlushFile() of common/buffbase.cpp, with the *)
(* delay that grows from one update to the next, for one project.  A packet *)
(* is one stats unit.  Remote buffers are files in another directory; by a  *)
(* mistake of the user it may be the client's own.  What the network brings *)
(* is not part of these sources.                                            *)
(***************************************************************************)
EXTENDS Integers, FiniteSets

CONSTANTS Packet,     \* bound: the packets there are
          None,       \* no packet
          Threshold,  \* values of the fetch threshold
          Looped,     \* values of looped: may the user make that mistake?
          Fails       \* which operations may fail, of Operation

Operation == {"get",       \* reading a remote buffer
              "put",       \* writing the buffer that a packet goes to
              "putback",   \* writing the buffer that it came from
              "net"}       \* the network

ASSUME PacketAssumption    == IsFiniteSet(Packet) /\ None \notin Packet
ASSUME ThresholdAssumption == Threshold \subseteq Nat \ {0}
ASSUME LoopedAssumption    == Looped \subseteq BOOLEAN
ASSUME FailsAssumption     == Fails \subseteq Operation

MAX_REMOTE_BUFFER_WARNINGS == 3

VARIABLES
  in, out,            \* the client's buffers
  rin, rout,          \* the remote buffers
  net,                \* what the servers have
  hand,               \* wrdata
  lost,               \* history: packets that could not be put back
  remote, offline, runbuffers, topoff, \* the configuration
  threshold,          \* the fetch threshold
  looped,             \* is the remote directory the client's own?
  exiting,            \* the exit request trigger
  pc,
  flags, modes, need, break_pending, \* req_flags, updatemodeflags; dofetch
                                     \* and doflush
  fail, did,          \* updatefailflags; didfetch and didflush
  errors, trans, last, warnings, left, \* the variables of a transfer
  failing,            \* last_buffupd_failed_time # 0
  waiting,            \* buffupd_retry_delay has not elapsed since then
  delay,              \* buffupd_retry_delay
  moved               \* history: what the update moved

buffers == <<in, out, rin, rout, net, hand, lost>>
config  == <<remote, offline, runbuffers, topoff, threshold, looped>>
request == <<flags, modes, need, break_pending>>
transfer == <<errors, trans, last, warnings, left>>
backoff == <<failing, waiting, delay>>
vars == <<buffers, config, exiting, pc, request, fail, did, transfer, backoff,
          moved>>

Init ==
  /\ in \in SUBSET Packet /\ out \in SUBSET (Packet \ in)
  /\ threshold \in Threshold /\ looped \in Looped
  /\ rin \in IF looped THEN {{}} ELSE SUBSET (Packet \ (in \union out))
  /\ rout = {} /\ net = Packet \ (in \union out \union rin)
  /\ hand = None /\ lost = {}
  /\ remote \in BOOLEAN /\ offline \in BOOLEAN
  /\ runbuffers \in BOOLEAN /\ topoff \in BOOLEAN
  /\ exiting = FALSE /\ pc = "idle"
  /\ flags = {} /\ modes = {} /\ need = {} /\ break_pending = FALSE /\ fail = {} /\ did = {}
  /\ errors = FALSE /\ trans = FALSE /\ last = -1 /\ warnings = 0 /\ left = TRUE
  /\ failing = FALSE /\ waiting = FALSE /\ delay = 0
  /\ moved = {}

-----------------------------------------------------------------------------
(* BufferUpdate(), up to the transfers.                                     *)

Flag == {"fetch", "flush"}

\* BufferCheckIfUpdateNeeded() for an open project: the buffer for work counts
\* as full at some hundreds of packets, which is beyond the bound here.
Needed(req, fill) ==
  {f \in req : \/ f = "flush" /\ out # {}
               \/ f = "fetch" /\ in = {}
               \/ f = "fetch" /\ fill /\ Cardinality(in) < threshold}

Modes(interactive) ==
  (IF remote THEN {"file"} ELSE {}) \union
  (IF interactive THEN IF remote THEN {} ELSE {"net"}
   ELSE IF runbuffers \/ offline THEN {} ELSE {"net"})

\* Nothing is done while the delay has not elapsed (0) or without a way to
\* update (-1).
BufferUpdate(req, interactive) ==
  /\ pc = "idle" /\ ~waiting /\ Modes(interactive) # {}
  /\ flags' = IF runbuffers /\ ~interactive THEN {} ELSE req
  /\ modes' = Modes(interactive) /\ break_pending' = exiting
  /\ need' = Needed(flags', topoff \/ interactive)
  /\ fail' = {} /\ did' = {} /\ moved' = {}
  /\ pc' = IF need' = {} THEN "end"
           ELSE IF "net" \in modes' THEN "net" ELSE "fetchfile"
  /\ UNCHANGED <<buffers, config, exiting, transfer, backoff>>

\* BufferNetUpdate(): any part of what was needed is transferred, an error may
\* stop it at any point.
BufferNetUpdate(fetched, flushed) ==
  /\ pc = "net"
  /\ fetched \subseteq net /\ (fetched # {} => "fetch" \in need)
  /\ flushed \subseteq out /\ (flushed # {} => "flush" \in need)
  /\ in' = in \union fetched /\ out' = out \ flushed
  /\ net' = (net \ fetched) \union flushed
  /\ moved' = {f \in Flag : (IF f = "fetch" THEN fetched ELSE flushed) # {}}
  /\ did' = moved'
  /\ fail' \in {{}} \union (IF "net" \in Fails THEN {{"net"}} ELSE {})
  /\ pc' = IF "file" \in modes THEN "fetchfile" ELSE "end"
  /\ UNCHANGED <<rin, rout, hand, lost, config, exiting, request, transfer,
                 backoff>>

NoTransfer ==
  /\ errors' = FALSE /\ trans' = FALSE /\ last' = -1 /\ warnings' = 0 /\ left' = TRUE

\* A transfer is begun, if it was asked for: not only if it is needed.
BeginTransfer(f, loop, otherwise) ==
  /\ NoTransfer
  /\ pc' = IF f \in flags THEN loop ELSE otherwise

FetchFile ==
  /\ pc = "fetchfile"
  /\ BeginTransfer("fetch", "fetch", "flushfile")
  /\ UNCHANGED <<buffers, config, exiting, request, fail, did, backoff, moved>>

FlushFile ==
  /\ pc = "flushfile"
  /\ BeginTransfer("flush", "flush", "end")
  /\ UNCHANGED <<buffers, config, exiting, request, fail, did, backoff, moved>>

Broken == ~break_pending /\ exiting

-----------------------------------------------------------------------------
(* BufferFetchFile(): from the remote buffer into the client's.             *)

RemoteIn == IF looped THEN in ELSE rin

\* The loop goes on until enough was fetched, a record cannot be read, or
\* there is none.
FetchGo == left /\ ~Broken /\ Cardinality(in) < threshold

FetchTake(p) ==
  /\ pc = "fetch" /\ FetchGo /\ p \in RemoteIn
  /\ hand' = p
  /\ IF looped THEN in' = in \ {p} /\ UNCHANGED rin
               ELSE rin' = rin \ {p} /\ UNCHANGED in
  /\ pc' = "fetchput"
  /\ UNCHANGED <<out, rout, net, lost, config, exiting, request, fail, did,
                 transfer, backoff, moved>>

\* Mutation: the client does not notice that its buffer is not getting bigger.
GrowsUnchecked(n) ==
  /\ left' = (RemoteIn # {})
  /\ last' = n
  /\ UNCHANGED warnings

\* "FetchFile error: The dest file isn't getting bigger. Check for a loop":
\* three times are let pass.  If no more is available, all was done.
Grows(n) ==
  IF trans /\ last >= n /\ warnings = MAX_REMOTE_BUFFER_WARNINGS
  THEN left' = FALSE /\ UNCHANGED <<last, warnings>>
  ELSE /\ left' = (RemoteIn # {})
       /\ last' = n
       /\ warnings' = IF trans /\ last >= n THEN warnings + 1 ELSE warnings

FetchPut ==
  /\ pc = "fetchput"
  /\ in' = in \union {hand} /\ hand' = None
  /\ Grows(Cardinality(in'))
  /\ trans' = TRUE
  /\ moved' = moved \union {"fetch"}
  /\ pc' = "fetch"
  /\ UNCHANGED <<out, rin, rout, net, lost, config, exiting, request, fail, did,
                 errors, backoff>>

\* Mutation: the packet is not put back.
FetchPutFailsGone ==
  /\ pc = "fetchput" /\ "put" \in Fails
  /\ hand' = None /\ errors' = TRUE /\ left' = FALSE
  /\ pc' = "fetch"
  /\ UNCHANGED <<in, rin, out, rout, net, lost, config, exiting, request, fail,
                 did, trans, last, warnings, backoff, moved>>

\* "can't save here? then put it back there"
FetchPutFails ==
  /\ pc = "fetchput" /\ "put" \in Fails
  /\ \/ /\ IF looped THEN in' = in \union {hand} /\ UNCHANGED rin
                     ELSE rin' = rin \union {hand} /\ UNCHANGED in
        /\ UNCHANGED lost
     \/ "putback" \in Fails /\ lost' = lost \union {hand} /\ UNCHANGED <<in, rin>>
  /\ hand' = None /\ errors' = TRUE /\ left' = FALSE
  /\ pc' = "fetch"
  /\ UNCHANGED <<out, rout, net, config, exiting, request, fail, did, trans, last,
                 warnings, backoff, moved>>

\* Mutation: a transfer with an error counts as one that brought something.
TransferredAny(f) == did' = IF trans \/ errors' THEN did \union {f} ELSE did

\* A transfer returns the number of packets n, or -(n+1) after an error.
Transferred(f) == did' = IF trans THEN did \union {f} ELSE did

\* The end of the fetch: an error also spares the flush.
FetchEnd ==
  /\ pc = "fetch"
  /\ \/ (~FetchGo \/ RemoteIn = {}) /\ UNCHANGED errors
     \/ FetchGo /\ "get" \in Fails /\ errors' = TRUE
  /\ Transferred("fetch")
  /\ fail' = IF errors' THEN fail \union {"file"} ELSE fail
  /\ pc' = IF errors' THEN "end" ELSE "flushfile"
  /\ UNCHANGED <<buffers, config, exiting, request, trans, last, warnings, left,
                 backoff, moved>>

-----------------------------------------------------------------------------
(* BufferFlushFile(): from the client's buffer into the remote one.         *)

FlushGo == left /\ ~Broken /\ out # {}

FlushTake(p) ==
  /\ pc = "flush" /\ FlushGo /\ p \in out
  /\ hand' = p /\ out' = out \ {p}
  /\ pc' = "flushput"
  /\ UNCHANGED <<in, rin, rout, net, lost, config, exiting, request, fail, did,
                 transfer, backoff, moved>>

\* "FlushFile error: The source file isn't getting smaller."  The last packet
\* is not counted then.
Shrinks ==
  LET rest == Cardinality(out)
      same == trans /\ last <= rest
  IN  IF same /\ warnings = MAX_REMOTE_BUFFER_WARNINGS
      THEN left' = FALSE /\ UNCHANGED <<last, warnings, trans>>
      ELSE /\ left' = (rest > 0) /\ last' = rest
           /\ warnings' = IF same THEN warnings + 1 ELSE warnings
           /\ trans' = TRUE

FlushPut ==
  /\ pc = "flushput"
  /\ IF looped THEN out' = out \union {hand} /\ UNCHANGED rout
               ELSE rout' = rout \union {hand} /\ UNCHANGED out
  /\ hand' = None
  /\ Shrinks
  /\ moved' = moved \union {"flush"}
  /\ pc' = "flush"
  /\ UNCHANGED <<in, rin, net, lost, config, exiting, request, fail, did, errors,
                 backoff>>

FlushPutFails ==
  /\ pc = "flushput" /\ "put" \in Fails
  /\ \/ out' = out \union {hand} /\ UNCHANGED lost
     \/ "putback" \in Fails /\ lost' = lost \union {hand} /\ UNCHANGED out
  /\ hand' = None /\ errors' = TRUE /\ left' = FALSE
  /\ pc' = "flush"
  /\ UNCHANGED <<in, rin, rout, net, config, exiting, request, fail, did, trans,
                 last, warnings, backoff, moved>>

FlushEnd ==
  /\ pc = "flush"
  /\ \/ ~FlushGo
     \/ FlushGo /\ "get" \in Fails
  /\ Transferred("flush")
  /\ fail' = IF errors THEN fail \union {"file"} ELSE fail
  /\ pc' = "end"
  /\ UNCHANGED <<buffers, config, exiting, request, transfer, backoff, moved>>

-----------------------------------------------------------------------------
(* The end of BufferUpdate().                                               *)

\* "exponential backoff": from half a minute to an hour.
NextDelay == IF delay < 30 THEN 30 ELSE IF delay <= 1800 THEN 2 * delay ELSE 3600

\* Mutation: only the time of the failure is forgotten.
ForgetFailuresHalf == failing' = FALSE /\ waiting' = FALSE /\ UNCHANGED delay

\* "forget previous failures"
ForgetFailures == failing' = FALSE /\ waiting' = FALSE /\ delay' = 0

\* The local variables are gone with the return.
UpdateEnd ==
  /\ pc = "end"
  /\ IF did # {} THEN ForgetFailures
     ELSE failing' = TRUE /\ waiting' = TRUE /\ delay' = NextDelay
  /\ flags' = {} /\ modes' = {} /\ need' = {} /\ break_pending' = FALSE
  /\ fail' = {} /\ did' = {} /\ moved' = {} /\ NoTransfer
  /\ pc' = "idle"
  /\ UNCHANGED <<buffers, config, exiting>>

Update ==
  \/ \E S \in SUBSET net, T \in SUBSET out : BufferNetUpdate(S, T)
  \/ FetchFile \/ FlushFile
  \/ \E p \in Packet : FetchTake(p) \/ FlushTake(p)
  \/ FetchPut \/ FetchPutFails \/ FetchEnd
  \/ FlushPut \/ FlushPutFails \/ FlushEnd
  \/ UpdateEnd

-----------------------------------------------------------------------------
(* The rest of the client, the user, and time.                              *)

\* A packet is worked on and finished between two updates.
Work(p) ==
  /\ pc = "idle" /\ p \in in
  /\ in' = in \ {p} /\ out' = out \union {p}
  /\ UNCHANGED <<rin, rout, net, hand, lost, config, exiting, pc, request, fail,
                 did, transfer, backoff, moved>>

RaiseExitRequestTrigger ==
  /\ ~exiting /\ exiting' = TRUE
  /\ UNCHANGED <<buffers, config, pc, request, fail, did, transfer, backoff, moved>>

DelayElapses ==
  /\ pc = "idle" /\ waiting /\ waiting' = FALSE
  /\ UNCHANGED <<buffers, config, exiting, pc, request, fail, did, transfer,
                 failing, delay, moved>>

Next ==
  \/ Update
  \/ \E req \in SUBSET Flag \ {{}}, interactive \in BOOLEAN : BufferUpdate(req, interactive)
  \/ \E p \in Packet : Work(p)
  \/ RaiseExitRequestTrigger \/ DelayElapses

Spec == Init /\ [][Next]_vars

\* An update that has begun goes on.
FairSpec == Spec /\ WF_vars(Update)

-----------------------------------------------------------------------------
(* Properties *)

Delays == {0, 30, 60, 120, 240, 480, 960, 1920, 3600}

\* Types of all variables; the delay is on the schedule of bug #3648.
TypeOK ==
  /\ \A S \in {in, out, rin, rout, net, lost} : S \subseteq Packet
  /\ hand \in Packet \union {None}
  /\ {remote, offline, runbuffers, topoff, looped, exiting, break_pending, errors, trans,
      left, failing, waiting} \subseteq BOOLEAN
  /\ pc \in {"idle", "net", "fetchfile", "fetch", "fetchput", "flushfile",
             "flush", "flushput", "end"}
  /\ \A S \in {flags, need, did, moved} : S \subseteq Flag
  /\ modes \subseteq {"net", "file"} /\ fail \subseteq modes
  /\ last \in -1..Cardinality(Packet) /\ warnings \in 0..MAX_REMOTE_BUFFER_WARNINGS
  /\ threshold \in Threshold /\ delay \in Delays

\* An update never duplicates a packet, and drops none: at every step each
\* packet is in one buffer or in the client's hand, or it could be written
\* neither where it was to go nor back to where it came from.
PacketsKept ==
  LET place == <<in, out, rin, rout, net, {hand}, lost>>
  IN  \A p \in Packet : Cardinality({n \in DOMAIN place : p \in place[n]}) = 1

\* What BufferUpdate() says of itself is true, whatever failed in between: it
\* fetched (flushed) if and only if at least one packet came (went).
ResultTruthful == pc = "end" => did = moved

\* There is a delay if and only if the last update came to nothing: a success
\* forgets all failures, and no delay is left over.
BackoffConsistent == (failing <=> delay # 0) /\ (waiting => failing)

\* "Check for a loop in your (remote) buffer settings!": an update ends, even
\* if the remote buffers are the client's own.
UpdateEnds == pc # "idle" ~> pc = "idle"

\* "Added an exponential backoff of the retry timer for server connections/
\* remote buffers": the delay begins when a connection or a remote buffer was
\* tried in vain, not when nothing had to be transferred.
DelayAfterFailure ==
  [][pc = "end" /\ pc' = "idle" /\ waiting' => need # {}]_vars
=============================================================================
