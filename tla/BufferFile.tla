----------------------------- MODULE BufferFile -----------------------------
(***************************************************************************)
(* A buffer file (common/buffpub.cpp): records of fixed size, a slot that   *)
(* was handed out is overwritten with a blank record, and the file is       *)
(* truncated when only blanks are left.  Every operation opens the file,    *)
(* measures it, reads it, writes one record and closes it; these are the    *)
(* steps here, since the process may die between two of them and another    *)
(* client may use the same file.  The file is read in one step: the first   *)
(* fread() fills the stream's buffer.                                       *)
(***************************************************************************)
EXTENDS BufferSlots

CONSTANTS Client,      \* the processes that use the file
          WorkRecord,      \* work records of one contest
          CloseFails   \* does the file system run full when a file is closed?

ASSUME RecordAssumption == IsFiniteSet(WorkRecord)
ASSUME CloseAssumption  == CloseFails \in BOOLEAN

ASSUME NoBlankRecord  == Blank \notin WorkRecord

VARIABLES
  file,      \* the slots on disk; a file that does not exist is empty
  at,        \* where each client is
  rec,       \* the record it is putting
  counted,   \* did its caller ask for the count (countP)?
  reccount,  \* the number of slots it found when it opened the file
  recno,     \* the slot it will write, 0: none
  result,    \* what its last call gave: the number of records in the file, 0
             \* when they were not counted, -1: it failed
  held,      \* the records it has in memory
  lost       \* history: the records that a close failed to write

local    == <<at, rec, counted, reccount, recno, result>>
filevars == <<file, local, held, lost>>

FileInit ==
  /\ file = <<>> /\ lost = {}
  /\ at = [c \in Client |-> "idle"]
  /\ rec = [c \in Client |-> Blank] /\ counted = [c \in Client |-> FALSE]
  /\ reccount = [c \in Client |-> 0] /\ recno = [c \in Client |-> 0]
  /\ result = [c \in Client |-> 0]
  /\ held \in [Client -> SUBSET WorkRecord]
  /\ \A r \in WorkRecord : \E c \in Client : r \in held[c]
  /\ \A c, d \in Client : c # d => held[c] \intersect held[d] = {}

Step(c, from, to) == at[c] = from /\ at' = [at EXCEPT ![c] = to]

\* Any stdio call but fclose() may fail: -1, nothing was written.
Fail(c) ==
  /\ at[c] \in {"put_read", "put_write", "get_read", "get_write"}
  /\ at' = [at EXCEPT ![c] = "idle"]
  /\ result' = [result EXCEPT ![c] = -1]
  /\ UNCHANGED <<file, rec, counted, reccount, recno, held, lost>>

-----------------------------------------------------------------------------
(* BufferPutFileRecord() *)

PutOpen(c, r, want) ==
  /\ Step(c, "idle", "put_read")
  /\ r \in held[c]
  /\ rec' = [rec EXCEPT ![c] = r] /\ counted' = [counted EXCEPT ![c] = want]
  /\ reccount' = [reccount EXCEPT ![c] = Len(file)]
  /\ UNCHANGED <<file, recno, result, held, lost>>

\* The scan runs into the end of a file that was truncated meanwhile, unless
\* it stops at a blank before: fread() fails.
PutRead(c) ==
  /\ Step(c, "put_read", "put_write")
  /\ Len(file) >= reccount[c] \/ (~counted[c] /\ Blanks(file) # {})
  /\ recno' = [recno EXCEPT ![c] = SlotFor(file, reccount[c], counted[c])]
  /\ result' = [result EXCEPT ![c] =
       IF counted[c] THEN RecordsSeen(file, reccount[c]) ELSE 0]
  /\ UNCHANGED <<file, rec, counted, reccount, held, lost>>

PutReturn(c) ==
  /\ Step(c, "put_write", "idle")
  /\ result' = [result EXCEPT ![c] = IF counted[c] THEN @ + 1 ELSE 0]
  /\ held' = [held EXCEPT ![c] = @ \ {rec[c]}]
  /\ UNCHANGED <<rec, counted, reccount, recno>>

PutWrite(c) ==
  /\ PutReturn(c)
  /\ file' = WriteAt(file, recno[c], rec[c])
  /\ UNCHANGED lost

\* fwrite() only filled the stream's buffer; that fclose() could not write it
\* is ignored (BufferCloseFile()).
PutWriteLost(c) ==
  /\ CloseFails /\ recno[c] > Len(file)
  /\ PutReturn(c)
  /\ lost' = lost \union {rec[c]}
  /\ UNCHANGED file

-----------------------------------------------------------------------------
(* BufferGetFileRecord() with BufferCountFileRecords() *)

GetOpen(c, want) ==
  /\ Step(c, "idle", "get_read")
  /\ counted' = [counted EXCEPT ![c] = want]
  /\ reccount' = [reccount EXCEPT ![c] = Len(file)]
  /\ UNCHANGED <<file, rec, recno, result, held, lost>>

\* The first record that is not blank.
GetRead(c) ==
  /\ Step(c, "get_read", "get_write")
  /\ \E i \in Used(file) :
       /\ i <= reccount[c] /\ i = Least(Used(file))
       /\ recno' = [recno EXCEPT ![c] = i]
       /\ rec' = [rec EXCEPT ![c] = file[i]]
  /\ UNCHANGED <<file, counted, reccount, result, held, lost>>

\* There is none (> 0 if norecs); a file of blanks is truncated.
GetNone(c) ==
  /\ Step(c, "get_read", "get_zap")
  /\ Len(file) >= reccount[c]
  /\ \A i \in Used(file) : i > reccount[c]
  /\ recno' = [recno EXCEPT ![c] = reccount[c]]
  /\ rec' = [rec EXCEPT ![c] = Blank]
  /\ UNCHANGED <<file, counted, reccount, result, held, lost>>

GetWrite(c) ==
  /\ Step(c, "get_write", "get_zap")
  /\ file' = WriteAt(file, recno[c], Blank)
  /\ held' = [held EXCEPT ![c] = @ \union {rec[c]}]
  /\ UNCHANGED <<rec, counted, reccount, recno, result, lost>>

\* BufferZapFileRecords(): truncated, not removed.
GetZap(c) ==
  /\ Step(c, "get_zap", "get_count")
  /\ file' = IF AllBlank(reccount[c], recno[c]) THEN <<>> ELSE file
  /\ UNCHANGED <<rec, counted, reccount, recno, result, held, lost>>

\* The records left are counted, if countP was given and there was a record;
\* an error there makes the count 0.
GetReturn(c) ==
  /\ Step(c, "get_count", "idle")
  /\ \E n \in {0, Cardinality(Used(file))} :
       /\ n > 0 => counted[c] /\ rec[c] # Blank
       /\ result' = [result EXCEPT ![c] = n]
  /\ UNCHANGED <<file, rec, counted, reccount, recno, held, lost>>

\* The client dies (and is started again): what it had in memory is gone.
Crash(c) ==
  /\ at' = [at EXCEPT ![c] = "idle"]
  /\ result' = [result EXCEPT ![c] = -1]
  /\ held' = [held EXCEPT ![c] = {}]
  /\ UNCHANGED <<file, rec, counted, reccount, recno, lost>>

FileNext ==
  \E c \in Client :
    \/ \E r \in WorkRecord, want \in BOOLEAN : PutOpen(c, r, want)
    \/ \E want \in BOOLEAN : GetOpen(c, want)
    \/ PutRead(c) \/ PutWrite(c) \/ PutWriteLost(c)
    \/ GetRead(c) \/ GetNone(c) \/ GetWrite(c) \/ GetZap(c) \/ GetReturn(c)
    \/ Fail(c) \/ Crash(c)

FileSpec == FileInit /\ [][FileNext]_filevars

-----------------------------------------------------------------------------
(* Properties *)

\* Types of all variables; as long as blank slots are used again, one client's
\* file never has more slots than there are records.
FileTypeOK ==
  /\ file \in Seq(WorkRecord \union {Blank}) /\ Len(file) <= Cardinality(WorkRecord)
  /\ at \in [Client -> {"idle", "put_read", "put_write", "get_read",
                        "get_write", "get_zap", "get_count"}]
  /\ rec \in [Client -> WorkRecord \union {Blank}]
  /\ counted \in [Client -> BOOLEAN]
  /\ reccount \in [Client -> 0..Cardinality(WorkRecord)]
  /\ recno \in [Client -> 0..Cardinality(WorkRecord)]
  /\ result \in [Client -> -1..Cardinality(WorkRecord)]
  /\ held \in [Client -> SUBSET WorkRecord]
  /\ lost \subseteq WorkRecord

Bag == INSTANCE RecordBag WITH Record <- WorkRecord, stored <- Stored(file) \union lost

\* One client: the file with its blanks, its truncation and its reused slots
\* is a bag that repeats and invents no record, and loses none but those that
\* a close failed to write, wherever the client dies between two steps
\* (RecordBag, where the lost records stay in the bag and are never taken).
ImplementsRecordBag == Bag!Spec

\* One client: the count that GetBufferRecord()'s and the fetch and flush
\* loops go on with is the number of records in the file (or 0), as long as
\* every close wrote what it had to.
CountExact ==
  lost = {} => \A c \in Client :
    at[c] = "idle" => result[c] \in {-1, 0, Cardinality(Stored(file))}

\* "In addition, it can share buffers with another client": no record is
\* handed out to two clients.
HandedOutOnce ==
  \A c, d \in Client : c # d => held[c] \intersect held[d] = {}

\* "..Put() returns <0 on ioerr, else 0 on success": a record that was put
\* without an error is in the file.
PutMeansStored ==
  [][ \A c \in Client :
        (at[c] = "put_write" /\ at'[c] = "idle" /\ result'[c] >= 0)
        => rec[c] \in Stored(file') ]_filevars
=============================================================================
