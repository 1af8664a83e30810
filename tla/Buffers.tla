------------------------------ MODULE Buffers ------------------------------
(***************************************************************************)
(* The buffers of a client (common/buffbase.cpp): for every project one for *)
(* work to be done ("in") and one for results ("out"), on disk or, with     *)
(* nodiskbuffers, in memory.  PutBufferRecord() sorts a record into its     *)
(* buffer; GetBufferRecord() takes one out, and sorts records it finds in   *)
(* the wrong buffer into the right one on the way.  A file operation is one *)
(* step (module BufferFile opens it up).  Users merge and rename buffer     *)
(* files, so that any record may turn up in any file.                       *)
(***************************************************************************)
EXTENDS BufferSlots

CONSTANTS Contest,      \* the projects
          Packet,       \* bound: the packets that enter the buffers
          Disk,         \* values of disk: buffers on disk, in memory
          MembuffSteps, \* MEMBUFF_STEPS
          MembuffMax,   \* MEMBUFF_COUNT_MAX
          CountFails    \* may counting what is left in a file fail?

ASSUME ContestAssumption == IsFiniteSet(Contest) /\ Contest # {}
ASSUME PacketAssumption  == IsFiniteSet(Packet)
ASSUME MembuffAssumption ==
  /\ Disk \subseteq BOOLEAN /\ CountFails \in BOOLEAN
  /\ MembuffSteps \in Nat \ {0} /\ MembuffMax \in Nat
  /\ MembuffMax % MembuffSteps = 0

Unknown == "unknown"   \* a contest or a workstate this client does not know
State   == {"WORKING", "FINISHED"}   \* RESULT_WORKING; RESULT_NOTHING, _FOUND
Record  == [packet : Packet, contest : Contest \union {Unknown},
            state : State \union {Unknown}]
ASSUME BlankAssumption == Blank \notin Record

Dir     == {"in", "out"}
Buffer  == Contest \X Dir

VARIABLES
  buf,        \* the slots of each file, or the stack of each membuffstruct
  maxcount,   \* membuff->maxcount
  disk,       \* client->nodiskbuffers == 0
  identical,  \* in_buffer_basename = out_buffer_basename, a name: an empty one
              \* stands for buff-in or buff-out, so that two of them differ
  exiting,    \* the exit request trigger
  hands,      \* records in the hands of the callers (loaded or fetched)
  discarded,  \* records that were thrown away
  pc,         \* where GetBufferRecord() (or BufferFlushFile()) is
  call,       \* its arguments: the buffer asked for, for flushing or not
  break_pending, \* was the exit requested before the call?
  data,       \* the record it took out
  count       \* how many it found left

getVars == <<pc, call, break_pending, data, count>>
vars == <<buf, maxcount, disk, identical, exiting, hands, discarded, getVars>>

NoCall == [contest |-> CHOOSE c \in Contest : TRUE, dir |-> "in", flush |-> FALSE]
NoData == CHOOSE r \in Record : r.contest = Unknown /\ r.state = Unknown

Init ==
  /\ buf = [b \in Buffer |-> <<>>] /\ maxcount = [b \in Buffer |-> 0]
  /\ disk \in Disk /\ identical \in BOOLEAN /\ exiting = FALSE
  /\ hands = {} /\ discarded = {}
  /\ pc = "idle" /\ call = NoCall /\ break_pending = FALSE
  /\ data = NoData /\ count = 0

\* BufferGetDefaultFilename(): the base name and the project's extension.
File(b) == IF disk /\ identical THEN <<b[1], "in">> ELSE b

Known(r) == r.contest \in Contest /\ r.state \in State

\* Where a record belongs: results in the out-buffer.
Home(r) == <<r.contest, IF r.state = "WORKING" THEN "in" ELSE "out">>

Asked == <<call.contest, call.dir>>

\* Mutation: the base names are not compared.
CheckBuffLimitsNever == TRUE

CheckBuffLimits == ~(disk /\ identical)

-----------------------------------------------------------------------------
(* Storing one record. *)

\* BufferPutMemRecord(): the table grows in steps, if realloc() succeeds.
Grown(b) ==
  IF Len(buf[b]) = maxcount[b] /\ maxcount[b] < MembuffMax
  THEN {maxcount[b], maxcount[b] + MembuffSteps} ELSE {maxcount[b]}

MemFits(b, m) == Len(buf[b]) < m

Store(r, want) ==
  LET b == File(Home(r))
  IN  \/ /\ disk
         /\ buf' = [buf EXCEPT ![b] = PutSlot(@, r, want)]
         /\ UNCHANGED maxcount
      \/ /\ ~disk
         /\ \E m \in Grown(b) :
              /\ MemFits(b, m)
              /\ maxcount' = [maxcount EXCEPT ![b] = m]
         /\ buf' = [buf EXCEPT ![b] = Append(@, r)]

\* Mutation: the loss is not noticed.
StoreFailsSilently(r) == UNCHANGED <<buf, maxcount, discarded>>

\* An I/O error, or no memory: "Block discarded."
StoreFails(r) ==
  /\ UNCHANGED buf
  /\ IF disk THEN UNCHANGED maxcount
     ELSE \E m \in Grown(Home(r)) : maxcount' = [maxcount EXCEPT ![Home(r)] = m]
  /\ discarded' = discarded \union {r}

\* Mutation: the caller keeps the record as well.
PutBufferRecordKept(r) == Store(r, TRUE) /\ UNCHANGED <<hands, discarded>>

\* The caller throws the record away when this fails (< 0).
PutBufferRecord(r) ==
  /\ hands' = hands \ {r}
  /\ \/ Known(r) /\ CheckBuffLimits /\ Store(r, TRUE) /\ UNCHANGED discarded
     \/ StoreFails(r)

-----------------------------------------------------------------------------
(* The surroundings of the buffers. *)

Packets(S) == {r.packet : r \in S}
InBuffers == UNION {Stored(buf[b]) : b \in Buffer}
Fresh == Packet \ (Packets(hands) \union Packets(discarded)
                   \union Packets(InBuffers))

\* Work arrives from the network (closed code).
Receive(p, c) ==
  /\ pc = "idle" /\ p \in Fresh
  /\ hands' = hands \union {[packet |-> p, contest |-> c, state |-> "WORKING"]}
  /\ UNCHANGED <<buf, maxcount, disk, identical, exiting, discarded, getVars>>

\* The user merges a record into a file.
UserMerge(r, b) ==
  /\ disk /\ pc = "idle" /\ r.packet \in Fresh
  /\ buf' = [buf EXCEPT ![File(b)] = PutSlot(@, r, FALSE)]
  /\ UNCHANGED <<maxcount, disk, identical, exiting, hands, discarded, getVars>>

\* A cruncher finishes a packet in hand.
Finish(r) ==
  /\ pc = "idle" /\ r \in hands /\ r.state = "WORKING"
  /\ hands' = (hands \ {r}) \union {[r EXCEPT !.state = "FINISHED"]}
  /\ UNCHANGED <<buf, maxcount, disk, identical, exiting, discarded, getVars>>

Put(r) ==
  /\ pc = "idle" /\ r \in hands
  /\ PutBufferRecord(r)
  /\ UNCHANGED <<disk, identical, exiting, getVars>>

RaiseExitRequestTrigger ==
  /\ ~exiting /\ exiting' = TRUE
  /\ UNCHANGED <<buf, maxcount, disk, identical, hands, discarded, getVars>>

-----------------------------------------------------------------------------
(* GetBufferRecord(), one iteration after the other. *)

\* The local variables are gone with the return.
Return ==
  /\ pc' = "idle" /\ call' = NoCall /\ break_pending' = FALSE
  /\ data' = NoData /\ count' = 0

Get(b, flush) ==
  /\ pc = "idle" /\ CheckBuffLimits
  /\ pc' = "get" /\ break_pending' = exiting
  /\ call' = [contest |-> b[1], dir |-> b[2], flush |-> flush]
  /\ UNCHANGED <<buf, maxcount, disk, identical, exiting, hands, discarded,
                 data, count>>

\* Nothing but blanks left: the file is truncated.
GetNothing ==
  /\ pc = "get" /\ Used(buf[File(Asked)]) = {}
  /\ buf' = [buf EXCEPT ![File(Asked)] = <<>>]
  /\ Return
  /\ UNCHANGED <<maxcount, disk, identical, exiting, hands, discarded>>

\* "Buffer seek/read error."
GetError ==
  /\ pc = "get" /\ disk
  /\ Return
  /\ UNCHANGED <<buf, maxcount, disk, identical, exiting, hands, discarded>>

\* What is left: of the contest of the record taken out, on disk (0 if that
\* cannot be read); the size of the stack, in memory.
Left(f, r) ==
  IF disk THEN {Cardinality({i \in Used(f) : f[i].contest = r.contest})}
               \union (IF CountFails THEN {0} ELSE {})
  ELSE {Len(f)}

\* A record is taken out: the first of a file, the last of a stack.
GetTake ==
  /\ pc = "get"
  /\ LET f == buf[File(Asked)]
         r == IF disk THEN f[FirstSlot(f)] ELSE f[Len(f)]
         g == IF disk THEN GetSlot(f) ELSE SubSeq(f, 1, Len(f) - 1)
     IN  /\ Used(f) # {}
         /\ data' = r /\ buf' = [buf EXCEPT ![File(Asked)] = g]
         /\ count' \in Left(g, r)
  /\ pc' = "taken"
  /\ UNCHANGED <<maxcount, disk, identical, exiting, hands, discarded, call,
                 break_pending>>

\* "all is well, data is a valid entry"
GetOk ==
  /\ pc = "taken" /\ Known(data) /\ Home(data) = Asked
  /\ hands' = hands \union {data}
  /\ IF call.flush THEN pc' = "flush" /\ UNCHANGED <<call, break_pending, data, count>>
                   ELSE Return
  /\ UNCHANGED <<buf, maxcount, disk, identical, exiting, discarded>>

\* "Discarded packet from unknown contest", "with unrecognized workstate"
GetDiscard ==
  /\ pc = "taken" /\ ~Known(data)
  /\ discarded' = discarded \union {data}
  /\ pc' = "more"
  /\ UNCHANGED <<buf, maxcount, disk, identical, exiting, hands, call,
                 break_pending, data, count>>

\* "Cross-saving packet of another type/contest."
GetCrossSave ==
  /\ pc = "taken" /\ Known(data) /\ Home(data) # Asked
  /\ \/ Store(data, FALSE) /\ UNCHANGED discarded
     \/ StoreFails(data)
  /\ pc' = "more"
  /\ UNCHANGED <<disk, identical, exiting, hands, call, break_pending, data, count>>

\* "bad packet, but loop if we have more in buff"
GetMore ==
  /\ pc = "more"
  /\ IF count # 0 /\ (break_pending \/ ~exiting)
     THEN pc' = "get" /\ UNCHANGED <<call, break_pending, data, count>>
     ELSE Return
  /\ UNCHANGED <<buf, maxcount, disk, identical, exiting, hands, discarded>>

\* BufferFlushFile(): the remote file cannot be opened (BufferOpenFile() with
\* BUFFER_FLAGS_REMOTEBUF), the record is put back and the flush given up.
FlushBack ==
  /\ pc = "flush"
  /\ PutBufferRecord(data)
  /\ Return
  /\ UNCHANGED <<disk, identical, exiting>>

GetStep ==
  \/ GetNothing \/ GetError \/ GetTake \/ GetOk \/ GetDiscard
  \/ GetCrossSave \/ GetMore \/ FlushBack

Next ==
  \/ \E p \in Packet, c \in Contest : Receive(p, c)
  \/ \E r \in Record, b \in Buffer : UserMerge(r, b)
  \/ \E r \in hands : Finish(r) \/ Put(r)
  \/ RaiseExitRequestTrigger
  \/ \E b \in Buffer : Get(b, FALSE)
  \/ \E c \in Contest : Get(<<c, "out">>, TRUE)
  \/ GetStep

Spec == Init /\ [][Next]_vars

\* A call that has begun goes on.
FairSpec == Spec /\ WF_vars(GetStep)

-----------------------------------------------------------------------------
(* Properties *)

\* Types of all variables; a table never outgrows its limit, its unused part
\* is never read, and a file grows no longer than there are packets, as blank
\* slots are used again.
TypeOK ==
  /\ buf \in [Buffer -> Seq(Record \union {Blank})]
  /\ maxcount \in [Buffer -> 0..MembuffMax]
  /\ \A b \in Buffer :
       IF disk THEN Len(buf[b]) <= Cardinality(Packet)
       ELSE Len(buf[b]) <= maxcount[b] /\ Blanks(buf[b]) = {}
  /\ {disk, identical, exiting} \subseteq BOOLEAN
  /\ hands \subseteq Record /\ discarded \subseteq Record
  /\ pc \in {"idle", "get", "taken", "more", "flush"}
  /\ call \in [contest : Contest, dir : Dir, flush : BOOLEAN]
  /\ break_pending \in BOOLEAN /\ data \in Record /\ count \in Nat

\* Every packet is in one place: in one slot of one buffer, in hand, being
\* sorted, or thrown away with a message.  Neither the sorting nor a flush
\* that fails loses or doubles one.
Places(p) ==
  (UNION {{b} \X {i \in Used(buf[b]) : buf[b][i].packet = p} : b \in Buffer})
  \union (IF p \in Packets(hands) THEN {"hands"} ELSE {})
  \union (IF p \in Packets(discarded) THEN {"discarded"} ELSE {})
  \union (IF pc = "taken" /\ data.packet = p THEN {"data"} ELSE {})

OnePlace == \A p \in Packet : Cardinality(Places(p)) <= 1

NoneVanishes ==
  [][ \A p \in Packet : Places(p) # {} => Places(p)' # {} ]_vars

\* Under FairSpec: GetBufferRecord() returns, however the records are mixed;
\* sorting does not feed the buffer it reads from.
GetReturns == (pc # "idle") ~> (pc = "idle")

\* "bad packet, but loop if we have more in buff": GetBufferRecord() does not
\* come back empty-handed from a file in which a requested record is left.
GetFindsRequested ==
  [][ (pc = "more" /\ pc' = "idle" /\ ~exiting)
      => \A r \in Stored(buf[File(Asked)]) : Known(r) => Home(r) # Asked ]_vars
=============================================================================
