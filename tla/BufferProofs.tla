---------------------------- MODULE BufferProofs ----------------------------
(* Any set of records, any number of projects and packets.                    *)
(*                                                                            *)
(* One client: the buffer file implements a bag of records                    *)
(* (ImplementsRecordBag), and the counts it reports are exact (CountExact),   *)
(* although slots are reused, blanked and truncated, the client may die       *)
(* between any two file operations, and closes may lose what was put.         *)
(*                                                                            *)
(* Buffers on disk or in memory, records merged into any file: the buffers    *)
(* lose no packet (NoneVanishes), and have none twice (OnePlace), though      *)
(* records move between them while a third one is looked for, and stores and  *)
(* flushes fail.                                                              *)
EXTENDS BufferFile, Buffers, FiniteSetTheorems, FunctionTheorems,
        WellFoundedInduction, TLAPS

-----------------------------------------------------------------------------
(* What the operators of BufferSlots return, for a file with any number of    *)
(* slots and records of any set R.                                            *)

Slots(R) == Seq(R \union {Blank})

\* The slots in use are slots of the file, and hold records.
LEMMA UsedSlots ==
  ASSUME NEW R, NEW f \in Slots(R)
  PROVE  /\ Len(f) \in Nat /\ DOMAIN f = 1..Len(f) /\ Used(f) \subseteq 1..Len(f)
         /\ \A i \in Used(f) : f[i] \in R
BY DEF Slots, Used

\* A set of slots that is not empty has a first and a last one.
LEMMA EndsExist ==
  ASSUME NEW n \in Nat, NEW S, S \subseteq 1..n, S # {}
  PROVE  /\ Least(S) \in S /\ \A j \in S : Least(S) <= j
         /\ Greatest(S) \in S /\ \A j \in S : Greatest(S) >= j
<1>1. ASSUME NEW T \in SUBSET Nat, T # {}
      PROVE  \E x \in T : \A y \in T : x <= y
  <2>1. PICK x \in T : \A y \in T : ~(<<y, x>> \in OpToRel(<, Nat))
    BY <1>1, NatLessThanWellFounded, WFMin
  <2>2. \A y \in T : ~(y < x)
    BY <2>1, Zenon DEF OpToRel
  <2> QED BY <2>2
<1>2. \E x \in S : \A y \in S : x <= y
  BY <1>1, S \in SUBSET Nat
<1>3. \E x \in S : \A y \in S : x >= y
  <2> DEFINE T == {k \in Nat : n - k \in S}
  <2>1. PICK s \in S : TRUE
    OBVIOUS
  <2>2. n - s \in T
    OBVIOUS
  <2>3. PICK x \in T : \A y \in T : x <= y
    BY <1>1, <2>2
  <2>4. n - x \in S
    BY <2>3
  <2>5. ASSUME NEW y \in S PROVE n - x >= y
    <3>1. n - y \in T
      OBVIOUS
    <3> QED BY <3>1, <2>3
  <2> QED BY <2>4, <2>5
<1> QED BY <1>2, <1>3 DEF Least, Greatest

\* What one write makes of a file.
Writes(R, f, i, r) ==
  /\ WriteAt(f, i, r) \in Slots(R)
  /\ Used(WriteAt(f, i, r)) = IF r = Blank THEN Used(f) \ {i} ELSE Used(f) \union {i}
  /\ WriteAt(f, i, r)[i] = r /\ \A j \in Used(f) \ {i} : WriteAt(f, i, r)[j] = f[j]
  /\ Len(WriteAt(f, i, r)) = IF i > Len(f) THEN i ELSE Len(f)

LEMMA Written ==
  ASSUME NEW R, NEW f \in Slots(R), NEW i \in Nat \ {0}, NEW r \in R \union {Blank}
  PROVE  Writes(R, f, i, r)
<1> DEFINE n == IF i > Len(f) THEN i ELSE Len(f)
<1>1. Len(f) \in Nat /\ DOMAIN f = 1..Len(f) /\ \A j \in 1..Len(f) : f[j] \in R \union {Blank}
  BY DEF Slots
<1>2. n \in Nat /\ Len(f) <= n /\ i <= n
  BY <1>1
<1>3. WriteAt(f, i, r) = [j \in 1..n |-> IF j = i THEN r ELSE IF j <= Len(f) THEN f[j] ELSE Blank]
  BY DEF WriteAt
<1>4. \A j \in 1..n : WriteAt(f, i, r)[j] \in R \union {Blank}
  BY <1>1, <1>2, <1>3
<1>5. WriteAt(f, i, r) \in [1..n -> R \union {Blank}]
  BY <1>3, <1>4
<1>6. WriteAt(f, i, r) \in Slots(R) /\ Len(WriteAt(f, i, r)) = n
  BY <1>2, <1>5 DEF Slots
<1>7. DOMAIN WriteAt(f, i, r) = 1..n
  BY <1>5
<1> HIDE DEF n
<1>8. \A j : j \in Used(WriteAt(f, i, r)) <=>
             j \in 1..n /\ (IF j = i THEN r ELSE IF j <= Len(f) THEN f[j] ELSE Blank) # Blank
  BY <1>3, <1>7 DEF Used
<1>9. \A j : j \in Used(f) <=> j \in 1..Len(f) /\ f[j] # Blank
  BY <1>1 DEF Used
<1>10. Used(WriteAt(f, i, r)) = IF r = Blank THEN Used(f) \ {i} ELSE Used(f) \union {i}
  BY <1>1, <1>2, <1>8, <1>9
<1>11. WriteAt(f, i, r)[i] = r /\ \A j \in Used(f) \ {i} : WriteAt(f, i, r)[j] = f[j]
  BY <1>1, <1>2, <1>3, <1>9
<1> QED BY <1>6, <1>10, <1>11 DEF n, Writes

\* A record is put into a slot that is not in use.
LEMMA FreeSlot ==
  ASSUME NEW R, NEW f \in Slots(R), NEW want
  PROVE  SlotFor(f, Len(f), want) \in (Nat \ {0}) \ Used(f)
<1> DEFINE blanks == {i \in Blanks(f) : i <= Len(f)}
<1>1. /\ Len(f) \in Nat /\ Used(f) \subseteq 1..Len(f)
      /\ blanks \subseteq 1..Len(f) /\ blanks \intersect Used(f) = {}
  BY UsedSlots DEF Blanks
<1>2. CASE blanks = {}
  BY <1>1, <1>2 DEF SlotFor
<1>3. CASE blanks # {}
  <2>1. Least(blanks) \in blanks /\ Greatest(blanks) \in blanks
    BY <1>1, <1>3, EndsExist
  <2>2. SlotFor(f, Len(f), want) \in blanks
    BY <1>3, <2>1 DEF SlotFor
  <2> QED BY <1>1, <2>2
<1> QED BY <1>2, <1>3

\* A put adds its record and leaves the others where they are.
LEMMA PutSlotAdds ==
  ASSUME NEW R, Blank \notin R, NEW f \in Slots(R), NEW r \in R, NEW want
  PROVE  /\ PutSlot(f, r, want) \in Slots(R)
         /\ \E k \in Nat \ Used(f) :
              /\ Used(PutSlot(f, r, want)) = Used(f) \union {k}
              /\ PutSlot(f, r, want)[k] = r
              /\ \A j \in Used(f) : PutSlot(f, r, want)[j] = f[j]
<1>1. PICK k \in Nat \ {0} : k \notin Used(f) /\ PutSlot(f, r, want) = WriteAt(f, k, r)
  BY FreeSlot DEF PutSlot
<1>2. r # Blank /\ r \in R \union {Blank}
  OBVIOUS
<1>3. Writes(R, f, k, r)
  BY <1>2, Written
<1> QED BY <1>1, <1>2, <1>3 DEF Writes

\* A get removes the first record, also when it truncates the file.
LEMMA GetSlotRemoves ==
  ASSUME NEW R, NEW f \in Slots(R), Used(f) # {}
  PROVE  /\ FirstSlot(f) \in Used(f)
         /\ GetSlot(f) \in Slots(R) /\ Used(GetSlot(f)) = Used(f) \ {FirstSlot(f)}
         /\ \A j \in Used(GetSlot(f)) : GetSlot(f)[j] = f[j]
<1> DEFINE i == FirstSlot(f)
<1>1. Len(f) \in Nat /\ Used(f) \subseteq 1..Len(f)
  BY UsedSlots
<1>2. i \in Used(f) /\ \A j \in Used(f) : i <= j
  BY <1>1, EndsExist DEF FirstSlot
<1> HIDE DEF i
<1>3. CASE AllBlank(Len(f), i)
  <2>1. GetSlot(f) = <<>> /\ i = Len(f)
    BY <1>3 DEF GetSlot, AllBlank, i
  <2>2. Used(f) = {i}
    BY <1>1, <1>2, <2>1
  <2>3. <<>> \in Slots(R) /\ Used(<<>>) = {}
    BY DEF Slots, Used
  <2> QED BY <1>2, <2>1, <2>2, <2>3 DEF i
<1>4. CASE ~AllBlank(Len(f), i)
  <2>1. GetSlot(f) = WriteAt(f, i, Blank)
    BY <1>4 DEF GetSlot, i
  <2>2. i \in Nat \ {0} /\ Blank \in R \union {Blank}
    BY <1>1, <1>2
  <2>3. Writes(R, f, i, Blank)
    BY <2>2, Written
  <2> QED BY <1>2, <2>1, <2>3 DEF i, Writes
<1> QED BY <1>3, <1>4

-----------------------------------------------------------------------------
(* BufferFile: one file and one client. *)

\* Nobody else uses the file.
Alone == \A c, d \in Client : c = d

\* No record is in two slots.
Distinct(f) == \A i, j \in Used(f) : f[i] = f[j] => i = j

FileTypes ==
  /\ file \in Slots(WorkRecord)
  /\ at \in [Client -> {"idle", "put_read", "put_write", "get_read",
                        "get_write", "get_zap", "get_count"}]
  /\ rec \in [Client -> WorkRecord \union {Blank}]
  /\ counted \in [Client -> BOOLEAN]
  /\ reccount \in [Client -> Nat] /\ recno \in [Client -> Nat]
  /\ result \in [Client -> Int]
  /\ held \in [Client -> SUBSET WorkRecord]
  /\ lost \subseteq WorkRecord

\* A record is in one slot, in memory, or was lost by a close.
FileApart ==
  /\ Distinct(file)
  /\ Stored(file) \intersect lost = {}
  /\ \A c \in Client : held[c] \intersect (Stored(file) \union lost) = {}

\* What a client knows of the file while it works on it is still true.
FileKnown(c) ==
  /\ at[c] \in {"put_read", "put_write"} => rec[c] \in held[c]
  /\ at[c] \in {"put_read", "put_write", "get_read", "get_write", "get_zap"} =>
       reccount[c] = Len(file)
  /\ at[c] = "put_write" => recno[c] \in (Nat \ {0}) \ Used(file)
  /\ at[c] = "get_write" => /\ recno[c] \in Used(file) /\ rec[c] = file[recno[c]]
                            /\ \A j \in Used(file) : recno[c] <= j
  /\ at[c] = "get_zap" /\ recno[c] = Len(file) => Used(file) = {}

\* The count of a put that is under way, and that of the last call.
Counts(c) ==
  /\ at[c] = "put_write" /\ counted[c] => result[c] = Cardinality(Stored(file))
  /\ at[c] = "idle" => result[c] \in {-1, 0, Cardinality(Stored(file))}

FileInv == FileTypes /\ FileApart /\ \A c \in Client : FileKnown(c)

CountInv == lost = {} => \A c \in Client : Counts(c)

-----------------------------------------------------------------------------
(* The slots. *)

\* A record that is written into a free slot is added to the others.
LEMMA Added ==
  ASSUME NEW f \in Slots(WorkRecord), Distinct(f), NEW r \in WorkRecord, r \notin Stored(f),
         NEW i \in (Nat \ {0}) \ Used(f)
  PROVE  /\ WriteAt(f, i, r) \in Slots(WorkRecord) /\ Distinct(WriteAt(f, i, r))
         /\ Stored(WriteAt(f, i, r)) = Stored(f) \union {r}
<1> DEFINE g == WriteAt(f, i, r)
<1>1. /\ g \in Slots(WorkRecord) /\ Used(g) = Used(f) \union {i}
      /\ g[i] = r /\ \A j \in Used(f) : g[j] = f[j]
  <2>1. r # Blank /\ r \in WorkRecord \union {Blank} /\ i \in Nat \ {0}
    BY NoBlankRecord
  <2>2. Writes(WorkRecord, f, i, r)
    BY <2>1, Written
  <2> QED BY <2>1, <2>2 DEF Writes
<1> HIDE DEF g
<1>2. Stored(g) = Stored(f) \union {r}
  BY <1>1 DEF Stored
<1>3. Distinct(g)
  BY <1>1 DEF Distinct, Stored
<1> QED BY <1>1, <1>2, <1>3 DEF g

\* Blanking a slot removes its record and no other.
LEMMA Removed ==
  ASSUME NEW f \in Slots(WorkRecord), Distinct(f), NEW i \in Used(f)
  PROVE  /\ WriteAt(f, i, Blank) \in Slots(WorkRecord) /\ Distinct(WriteAt(f, i, Blank))
         /\ Used(WriteAt(f, i, Blank)) = Used(f) \ {i}
         /\ Stored(WriteAt(f, i, Blank)) = Stored(f) \ {f[i]}
         /\ Len(WriteAt(f, i, Blank)) = Len(f)
<1> DEFINE g == WriteAt(f, i, Blank)
<1>0. i \in 1..Len(f) /\ Len(f) \in Nat
  BY DEF Used, Slots
<1>1. /\ g \in Slots(WorkRecord) /\ Used(g) = Used(f) \ {i} /\ Len(g) = Len(f)
      /\ \A j \in Used(g) : g[j] = f[j]
  <2>1. Writes(WorkRecord, f, i, Blank)
    BY <1>0, Written
  <2> QED BY <1>0, <2>1 DEF Writes
<1> HIDE DEF g
<1>2. Stored(g) = Stored(f) \ {f[i]}
  BY <1>1 DEF Stored, Distinct
<1>3. Distinct(g)
  BY <1>1 DEF Distinct
<1> QED BY <1>1, <1>2, <1>3 DEF g

\* As many records as used slots.
LEMMA AsMany ==
  ASSUME NEW f \in Slots(WorkRecord), Distinct(f)
  PROVE  /\ IsFiniteSet(Stored(f))
         /\ Cardinality(Stored(f)) = Cardinality(Used(f))
<1>1. IsFiniteSet(Used(f))
  <2>1. Used(f) \subseteq 1..Len(f) /\ Len(f) \in Nat
    BY DEF Used, Slots
  <2>2. IsFiniteSet(1..Len(f))
    BY <2>1, FS_Interval
  <2> QED BY <2>1, <2>2, FS_Subset
<1> DEFINE b == [i \in Used(f) |-> f[i]]
<1>2. b \in Bijection(Used(f), Stored(f))
  <2>1. b \in [Used(f) -> Stored(f)]
    BY DEF Stored
  <2>2. \A i, j \in Used(f) : b[i] = b[j] => i = j
    BY DEF Distinct
  <2>3. \A t \in Stored(f) : \E i \in Used(f) : b[i] = t
    BY DEF Stored
  <2> QED BY <2>1, <2>2, <2>3, Zenon DEF Bijection, Injection, Surjection, IsInjective
<1>3. ExistsBijection(Used(f), Stored(f))
  BY <1>2 DEF ExistsBijection
<1> QED BY <1>1, <1>3, FS_Bijection

-----------------------------------------------------------------------------
(* The invariant, and the bag behind it. *)

LEMMA FileStarts == FileInit => FileInv /\ CountInv /\ Bag!Init
<1> SUFFICES ASSUME FileInit PROVE FileInv /\ CountInv /\ Bag!Init
  OBVIOUS
<1>1. file \in Slots(WorkRecord) /\ Used(file) = {} /\ Stored(file) = {}
  BY DEF FileInit, Slots, Used, Stored
<1>2. FileTypes
  BY <1>1 DEF FileInit, FileTypes
<1>3. FileApart
  BY <1>1 DEF FileInit, FileApart, Distinct
<1>4. \A c \in Client : FileKnown(c)
  BY DEF FileInit, FileKnown
<1>5. CountInv
  BY DEF FileInit, CountInv, Counts
<1>6. Bag!Init
  BY <1>1 DEF FileInit, Bag!Init
<1> QED BY <1>2, <1>3, <1>4, <1>5, <1>6 DEF FileInv

\* One client: what one step needs to preserve.
LEMMA OnlyOne ==
  ASSUME Alone, NEW c \in Client, FileTypes', FileApart', FileKnown(c)'
  PROVE  FileInv'
BY DEF Alone, FileInv

BagStep == [Bag!Next]_<<Stored(file) \union lost, held>>

\* A put looks for its slot: a blank one, or a new one behind the last.
LEMMA FilePutStep ==
  ASSUME Alone, FileInv, NEW c \in Client,
         PutRead(c) \/ \E r \in WorkRecord, want \in BOOLEAN : PutOpen(c, r, want)
  PROVE  FileInv' /\ BagStep
<1> USE DEF FileInv, FileTypes
<1>1. Len(file) \in Nat /\ DOMAIN file = 1..Len(file)
  BY DEF Slots
<1>2. CASE PutRead(c)
  <2> USE <1>2 DEF PutRead, Step
  <2>1. reccount[c] = Len(file) /\ rec[c] \in held[c]
    BY DEF FileKnown
  <2>3. SlotFor(file, Len(file), counted[c]) \in (Nat \ {0}) \ Used(file)
    BY FreeSlot
  <2>4. RecordsSeen(file, reccount[c]) \in Int
    <3>1. {i \in Used(file) : i <= reccount[c]} \in SUBSET (1..Len(file))
      BY <1>1 DEF Used
    <3>2. IsFiniteSet(1..Len(file))
      BY <1>1, FS_Interval
    <3>3. IsFiniteSet({i \in Used(file) : i <= reccount[c]})
      BY <3>1, <3>2, FS_Subset, Zenon
    <3>4. RecordsSeen(file, reccount[c]) \in Nat
      BY <3>3, FS_CardinalityType, Zenon DEF RecordsSeen
    <3> QED BY <3>4
  <2>5. FileTypes'
    BY <2>1, <2>3, <2>4
  <2>6. FileApart'
    BY DEF FileApart, Distinct, Stored, Used
  <2>7. FileKnown(c)'
    BY <2>1, <2>3 DEF FileKnown, Used
  <2>8. BagStep
    BY DEF BagStep, Stored, Used
  <2> QED BY <2>5, <2>6, <2>7, <2>8, OnlyOne
<1>3. ASSUME NEW r \in WorkRecord, NEW want \in BOOLEAN, PutOpen(c, r, want)
      PROVE  FileInv' /\ BagStep
  <2> USE <1>3 DEF PutOpen, Step
  <2>1. FileTypes'
    BY <1>1
  <2>2. FileApart'
    BY DEF FileApart, Distinct, Stored, Used
  <2>3. FileKnown(c)'
    BY DEF FileKnown
  <2>4. BagStep
    BY DEF BagStep, Stored, Used
  <2> QED BY <2>1, <2>2, <2>3, <2>4, OnlyOne
<1> QED BY <1>2, <1>3

\* The record is written, or left behind by a close that fails.
LEMMA PutDone ==
  ASSUME Alone, FileInv, NEW c \in Client, PutWrite(c) \/ PutWriteLost(c)
  PROVE  FileInv' /\ BagStep
<1> USE DEF FileInv, FileTypes
<1>1. PutReturn(c) /\ at[c] = "put_write" /\ at'[c] = "idle"
  BY DEF PutWrite, PutWriteLost, PutReturn, Step
<1>2. rec[c] \in held[c] /\ rec[c] \in WorkRecord /\ recno[c] \in (Nat \ {0}) \ Used(file)
  BY <1>1 DEF FileKnown
<1>3. rec[c] \notin Stored(file) \union lost
  BY <1>2 DEF FileApart
<1>4. held' = [held EXCEPT ![c] = @ \ {rec[c]}]
  BY <1>1 DEF PutReturn
<1>5. /\ file' \in Slots(WorkRecord) /\ Distinct(file') /\ lost' \subseteq WorkRecord
      /\ Stored(file') \intersect lost' = {}
      /\ Stored(file') \union lost' = (Stored(file) \union lost) \union {rec[c]}
  <2>1. CASE PutWrite(c)
    <3>1. file' = WriteAt(file, recno[c], rec[c]) /\ lost' = lost
      BY <2>1 DEF PutWrite
    <3>2. Distinct(file) /\ Stored(file) \intersect lost = {}
      BY DEF FileApart
    <3>3. file' \in Slots(WorkRecord) /\ Distinct(file') /\ Stored(file') = Stored(file) \union {rec[c]}
      BY <1>2, <1>3, <3>1, <3>2, Added
    <3> QED BY <1>3, <3>1, <3>2, <3>3
  <2>2. CASE PutWriteLost(c)
    <3>1. file' = file /\ lost' = lost \union {rec[c]}
      BY <2>2 DEF PutWriteLost
    <3>2. Stored(file') = Stored(file) /\ Distinct(file')
      BY <3>1 DEF FileApart
    <3>3. Stored(file) \intersect lost = {}
      BY DEF FileApart
    <3> QED BY <1>2, <1>3, <3>1, <3>2, <3>3
  <2> QED BY <2>1, <2>2
<1>6. FileTypes'
  BY <1>1, <1>4, <1>5 DEF PutReturn, Step
<1>7. FileApart'
  <2>1. \A d \in Client : d = c
    BY DEF Alone
  <2>2. held'[c] = held[c] \ {rec[c]} /\ held[c] \intersect (Stored(file) \union lost) = {}
    BY <1>4 DEF FileApart
  <2> QED BY <1>5, <2>1, <2>2 DEF FileApart
<1>8. FileKnown(c)'
  BY <1>1 DEF FileKnown
<1>9. BagStep
  <2>1. Bag!Put(c, rec[c])
    BY <1>2, <1>4, <1>5 DEF Bag!Put
  <2> QED BY <1>2, <2>1 DEF BagStep, Bag!Next
<1> QED BY <1>6, <1>7, <1>8, <1>9, OnlyOne

\* A get finds the first record, or that there is none.
LEMMA FileGetStep ==
  ASSUME Alone, FileInv, NEW c \in Client,
         \/ GetRead(c) \/ GetNone(c)
         \/ \E want \in BOOLEAN : GetOpen(c, want)
  PROVE  FileInv' /\ BagStep
<1> USE DEF FileInv, FileTypes
<1>1. Len(file) \in Nat /\ DOMAIN file = 1..Len(file)
  BY DEF Slots
<1>2. file' = file /\ held' = held /\ lost' = lost
  BY DEF GetOpen, GetRead, GetNone
<1>3. Used(file)' = Used(file) /\ Stored(file)' = Stored(file)
  BY <1>2
<1>4. FileApart' /\ BagStep
  BY <1>2, <1>3 DEF FileApart, Distinct, BagStep
<1>5. CASE GetRead(c)
  <2>1. PICK i \in Used(file) :
          /\ i <= reccount[c] /\ i = Least(Used(file))
          /\ recno' = [recno EXCEPT ![c] = i] /\ rec' = [rec EXCEPT ![c] = file[i]]
    BY <1>5 DEF GetRead
  <2>2. i \in Nat /\ file[i] \in WorkRecord \union {Blank}
    BY <1>1 DEF Used, Slots
  <2>3. \A j \in Used(file) : i <= j
    BY <1>1, <2>1, EndsExist DEF Used
  <2>4. FileTypes'
    BY <1>2, <1>5, <2>1, <2>2 DEF GetRead, Step
  <2>5. FileKnown(c)'
    BY <1>2, <1>3, <1>5, <2>1, <2>3 DEF GetRead, Step, FileKnown
  <2> QED BY <1>4, <2>4, <2>5, OnlyOne
<1>6. CASE GetNone(c)
  <2>1. reccount[c] = Len(file)
    BY <1>6 DEF GetNone, Step, FileKnown
  <2>2. Used(file) = {}
    BY <1>1, <1>6, <2>1 DEF GetNone, Used
  <2>3. FileTypes'
    BY <1>2, <1>6 DEF GetNone, Step
  <2>4. FileKnown(c)'
    BY <1>2, <1>3, <1>6, <2>1, <2>2 DEF GetNone, Step, FileKnown
  <2> QED BY <1>4, <2>3, <2>4, OnlyOne
<1>7. ASSUME NEW want \in BOOLEAN, GetOpen(c, want) PROVE FileInv' /\ BagStep
  <2>1. FileTypes'
    BY <1>1, <1>2, <1>7 DEF GetOpen, Step
  <2>2. FileKnown(c)'
    BY <1>2, <1>7 DEF GetOpen, Step, FileKnown
  <2> QED BY <1>4, <2>1, <2>2, OnlyOne
<1> QED BY <1>5, <1>6, <1>7

\* The record is blanked; then it is in memory only.
LEMMA GetTaken ==
  ASSUME Alone, FileInv, NEW c \in Client, GetWrite(c)
  PROVE  FileInv' /\ BagStep
<1> USE DEF FileInv, FileTypes
<1>1. Len(file) \in Nat /\ DOMAIN file = 1..Len(file)
  BY DEF Slots
<1>2. /\ recno[c] \in Used(file) /\ rec[c] = file[recno[c]]
      /\ reccount[c] = Len(file) /\ \A j \in Used(file) : recno[c] <= j
  BY DEF GetWrite, Step, FileKnown
<1>3. rec[c] \in WorkRecord /\ rec[c] \in Stored(file)
  BY <1>1, <1>2 DEF Used, Stored, Slots
<1>4. Distinct(file) /\ Stored(file) \intersect lost = {}
  BY DEF FileApart
<1>5. file' = WriteAt(file, recno[c], Blank)
  BY DEF GetWrite
<1>6. /\ file' \in Slots(WorkRecord) /\ Distinct(file') /\ Len(file') = Len(file)
      /\ Used(file') = Used(file) \ {recno[c]}
      /\ Stored(file') = Stored(file) \ {rec[c]}
  BY <1>2, <1>4, <1>5, Removed
<1>7. lost' = lost /\ held' = [held EXCEPT ![c] = @ \union {rec[c]}]
  BY DEF GetWrite
<1>8. FileTypes'
  BY <1>3, <1>6, <1>7 DEF GetWrite, Step
<1>9. FileApart'
  <2>1. \A d \in Client : d = c
    BY DEF Alone
  <2>2. /\ held'[c] = held[c] \union {rec[c]}
        /\ held[c] \intersect (Stored(file) \union lost) = {}
    BY <1>7 DEF FileApart
  <2> QED BY <1>3, <1>4, <1>6, <1>7, <2>1, <2>2 DEF FileApart
<1>10. FileKnown(c)'
  <2>1. at'[c] = "get_zap" /\ recno' = recno /\ reccount' = reccount
    BY DEF GetWrite, Step
  <2>2. recno[c] = Len(file) => Used(file') = {}
    BY <1>1, <1>2, <1>6 DEF Used
  <2> QED BY <1>2, <1>6, <2>1, <2>2 DEF FileKnown
<1>11. BagStep
  <2>1. Bag!Get(c, rec[c])
    BY <1>3, <1>4, <1>6, <1>7 DEF Bag!Get
  <2> QED BY <1>3, <2>1 DEF BagStep, Bag!Next
<1> QED BY <1>8, <1>9, <1>10, <1>11, OnlyOne

\* A file of blanks is truncated, the count is returned, or the call fails.
LEMMA GetDone ==
  ASSUME Alone, FileInv, NEW c \in Client, GetZap(c) \/ GetReturn(c) \/ Fail(c)
  PROVE  FileInv' /\ BagStep
<1> USE DEF FileInv, FileTypes
<1>1. held' = held /\ lost' = lost /\ at'[c] \notin {"put_read", "put_write",
        "get_read", "get_write", "get_zap"}
  BY DEF GetZap, GetReturn, Fail, Step
<1>2. file' \in Slots(WorkRecord) /\ Distinct(file') /\ Stored(file') = Stored(file)
  <2>1. CASE file' = file
    BY <2>1 DEF FileApart
  <2>2. CASE GetZap(c) /\ AllBlank(reccount[c], recno[c])
    <3>1. Used(file) = {} /\ file' = <<>>
      BY <2>2 DEF GetZap, Step, FileKnown, AllBlank
    <3>2. file' \in Slots(WorkRecord) /\ Used(file') = {}
      BY <3>1 DEF Slots, Used
    <3> QED BY <3>1, <3>2 DEF Stored, Distinct
  <2> QED BY <2>1, <2>2 DEF GetZap, GetReturn, Fail
<1>3. FileTypes'
  <2>1. CASE GetReturn(c)
    <3>1. Cardinality(Used(file)) \in Int
      BY AsMany, FS_CardinalityType DEF FileApart
    <3> QED BY <1>2, <2>1, <3>1 DEF GetReturn, Step
  <2>2. CASE GetZap(c)
    BY <1>1, <1>2, <2>2 DEF GetZap, Step
  <2>3. CASE Fail(c)
    BY <1>1, <1>2, <2>3 DEF Fail
  <2> QED BY <2>1, <2>2, <2>3
<1>4. FileApart'
  BY <1>1, <1>2 DEF FileApart
<1>5. FileKnown(c)'
  BY <1>1 DEF FileKnown
<1>6. BagStep
  BY <1>1, <1>2 DEF BagStep
<1> QED BY <1>3, <1>4, <1>5, <1>6, OnlyOne

\* What it had in memory is gone.
LEMMA CrashStep ==
  ASSUME Alone, FileInv, NEW c \in Client, Crash(c)
  PROVE  FileInv' /\ BagStep
<1> USE DEF FileInv, FileTypes
<1>1. /\ file' = file /\ lost' = lost /\ at'[c] = "idle"
      /\ held' = [held EXCEPT ![c] = {}]
  BY DEF Crash
<1>2. FileTypes' /\ FileKnown(c)'
  BY <1>1 DEF Crash, FileKnown
<1>3. FileApart'
  BY <1>1 DEF FileApart
<1>4. BagStep
  <2>1. Bag!Die(c)
    BY <1>1 DEF Bag!Die
  <2> QED BY <2>1 DEF BagStep, Bag!Next
<1> QED BY <1>2, <1>3, <1>4, OnlyOne

LEMMA FileStep ==
  ASSUME Alone, FileInv, [FileNext]_filevars
  PROVE  FileInv' /\ BagStep
<1>1. CASE UNCHANGED filevars
  BY <1>1 DEF filevars, local, FileInv, FileTypes, FileApart, FileKnown, BagStep
<1>2. CASE FileNext
  BY <1>2, FilePutStep, PutDone, FileGetStep, GetTaken, GetDone, CrashStep DEF FileNext
<1> QED BY <1>1, <1>2

\* One client: a buffer file, with its blanks, its truncation and its slots
\* that are used again, is a bag of records, wherever the client dies.
THEOREM FileIsBag ==
  ASSUME Alone PROVE FileSpec => ImplementsRecordBag
<1>1. FileInit => FileInv /\ Bag!Init
  BY FileStarts
<1>2. FileInv /\ [FileNext]_filevars => FileInv' /\ [Bag!Next]_<<Stored(file) \union lost, held>>
  BY FileStep DEF BagStep
<1> QED BY <1>1, <1>2, PTL DEF FileSpec, ImplementsRecordBag, Bag!Spec

-----------------------------------------------------------------------------
(* The counts. *)

\* A step of a client changes what it counted only with the file.
LEMMA CountStep ==
  ASSUME Alone, FileInv, FileInv', CountInv, [FileNext]_filevars
  PROVE  CountInv'
<1> SUFFICES ASSUME lost' = {}, NEW c \in Client PROVE Counts(c)'
  BY DEF CountInv
<1> USE DEF FileInv, FileTypes
<1>1. CASE UNCHANGED filevars
  BY <1>1 DEF filevars, local, CountInv, Counts
<1>2. CASE FileNext
  <2>1. lost = {}
    BY <1>2 DEF FileNext, PutOpen, PutRead, PutWrite, PutWriteLost, GetOpen, GetRead, GetNone,
                GetWrite, GetZap, GetReturn, Fail, Crash
  <2>2. Counts(c)
    BY <2>1 DEF CountInv
  <2>3. IsFiniteSet(Stored(file)) /\ Cardinality(Stored(file)) = Cardinality(Used(file))
    BY AsMany DEF FileApart
  <2>4. Cardinality(Stored(file)) \in Nat
    BY <2>3, FS_CardinalityType
  <2>5. CASE PutRead(c)
    <3>1. reccount[c] = Len(file) /\ at'[c] = "put_write" /\ file' = file
      BY <2>5 DEF PutRead, Step, FileKnown
    <3>2. {i \in Used(file) : i <= reccount[c]} = Used(file)
      BY <3>1 DEF Used, Slots
    <3>3. counted'[c] => result'[c] = Cardinality(Stored(file))
      BY <2>3, <2>5, <3>2 DEF PutRead, RecordsSeen
    <3> QED BY <3>1, <3>3 DEF Counts
  <2>6. CASE PutWrite(c)
    <3>1. /\ rec[c] \in held[c] /\ recno[c] \in (Nat \ {0}) \ Used(file)
          /\ file' = WriteAt(file, recno[c], rec[c])
      BY <2>6 DEF PutWrite, PutReturn, Step, FileKnown
    <3>2. rec[c] \in WorkRecord /\ rec[c] \notin Stored(file) /\ Distinct(file)
      BY <3>1 DEF FileApart
    <3>3. Stored(file') = Stored(file) \union {rec[c]}
      BY <3>1, <3>2, Added
    <3>4. Cardinality(Stored(file')) = Cardinality(Stored(file)) + 1
      <4>1. IsFiniteSet(Stored(file))
        BY <2>3
      <4> QED BY <3>2, <3>3, <4>1, FS_AddElement
    <3>5. at[c] = "put_write" /\ at'[c] = "idle"
          /\ result'[c] = IF counted[c] THEN result[c] + 1 ELSE 0
      BY <2>6 DEF PutWrite, PutReturn, Step
    <3>6. Stored(file)' = Stored(file')
      BY DEF Stored, Used
    <3> QED BY <2>2, <3>4, <3>5, <3>6 DEF Counts
  <2>7. CASE GetReturn(c)
    <3>1. /\ at'[c] = "idle" /\ file' = file
          /\ result'[c] \in {0, Cardinality(Used(file))}
      BY <2>7 DEF GetReturn, Step
    <3> QED BY <2>3, <3>1 DEF Counts
  <2>8. CASE Fail(c) \/ Crash(c)
    BY <2>8 DEF Fail, Crash, Counts
  <2>9. CASE PutWriteLost(c)
    BY <2>9 DEF PutWriteLost
  <2>10. ASSUME \/ GetRead(c) \/ GetNone(c) \/ GetWrite(c) \/ GetZap(c)
                \/ \E want \in BOOLEAN : GetOpen(c, want) \/ \E r \in WorkRecord : PutOpen(c, r, want)
         PROVE  Counts(c)'
    <3>1. at'[c] \notin {"idle", "put_write"}
      BY <2>10 DEF GetRead, GetNone, GetWrite, GetZap, GetOpen, PutOpen, Step
    <3> QED BY <3>1 DEF Counts
  <2> QED BY <1>2, <2>5, <2>6, <2>7, <2>8, <2>9, <2>10 DEF FileNext, Alone
<1> QED BY <1>1, <1>2

\* One client: what a call reports to be left in the file is left in it.
THEOREM CountsRight ==
  ASSUME Alone PROVE FileSpec => []CountExact
<1>1. FileInit => FileInv /\ CountInv
  BY FileStarts
<1>2. FileInv /\ CountInv /\ [FileNext]_filevars => FileInv' /\ CountInv'
  BY FileStep, CountStep
<1>3. CountInv => CountExact
  BY DEF CountInv, Counts, CountExact
<1> QED BY <1>1, <1>2, <1>3, PTL DEF FileSpec

-----------------------------------------------------------------------------
(* Buffers: all buffers of a client. *)

Types ==
  /\ buf \in [Buffer -> Slots(Record)]
  /\ {disk, identical} \subseteq BOOLEAN
  /\ ~disk => \A b \in Buffer : Blanks(buf[b]) = {}
  /\ hands \subseteq Record /\ discarded \subseteq Record
  /\ pc \in {"idle", "get", "taken", "more", "flush"}
  /\ call.contest \in Contest /\ call.dir \in Dir
  /\ pc \in {"taken", "flush"} => data \in Record

\* Two slots never hold the same packet.
Single ==
  \A b, d \in Buffer : \A i \in Used(buf[b]), j \in Used(buf[d]) :
    buf[b][i].packet = buf[d][j].packet => b = d /\ i = j

\* Packets are in a buffer, in hand, thrown away, or just being sorted; a record
\* that is to be flushed is still in hand.
Apart ==
  /\ Packets(InBuffers) \intersect (Packets(hands) \union Packets(discarded)) = {}
  /\ Packets(hands) \intersect Packets(discarded) = {}
  /\ \A r, s \in hands : r.packet = s.packet => r = s
  /\ pc = "taken" => data.packet \notin Packets(hands) \union Packets(discarded)
                                          \union Packets(InBuffers)
  /\ pc = "flush" => data \in hands

PlaceInv == Types /\ Single /\ Apart

\* All packets that are somewhere.
Kept == Packets(InBuffers) \union Packets(hands) \union Packets(discarded)
          \union (IF pc = "taken" THEN {data.packet} ELSE {})

-----------------------------------------------------------------------------
(* What one record that comes or goes makes of the buffers. *)

LEMMA InBuffersIs ==
  ASSUME Types
  PROVE  /\ InBuffers \subseteq Record
         /\ \A r : r \in InBuffers <=> \E b \in Buffer : \E i \in Used(buf[b]) : r = buf[b][i]
<1>1. ASSUME NEW b \in Buffer PROVE \A i \in Used(buf[b]) : buf[b][i] \in Record
  BY UsedSlots DEF Types
<1>2. \A r : r \in InBuffers <=> \E b \in Buffer : \E i \in Used(buf[b]) : r = buf[b][i]
  BY DEF InBuffers, Stored
<1> QED BY <1>1, <1>2

\* A record whose packet is in no buffer is added to buffer b, in slot k.
LEMMA OneMore ==
  ASSUME Types, Single, NEW b \in Buffer, NEW g \in Slots(Record), NEW r \in Record, NEW k,
         r.packet \notin Packets(InBuffers), k \notin Used(buf[b]),
         Used(g) = Used(buf[b]) \union {k}, g[k] = r, \A j \in Used(buf[b]) : g[j] = buf[b][j],
         buf' = [buf EXCEPT ![b] = g]
  PROVE  /\ buf' \in [Buffer -> Slots(Record)] /\ Single'
         /\ InBuffers' = InBuffers \union {r}
<1>1. buf' \in [Buffer -> Slots(Record)]
  BY DEF Types
<1>2. \A d \in Buffer : buf'[d] = IF d = b THEN g ELSE buf[d]
  BY DEF Types
<1>3. ASSUME NEW d \in Buffer, NEW i \in Used(buf[d]) PROVE buf[d][i].packet # r.packet
  BY InBuffersIs DEF Packets
<1>4. Single'
  <2> SUFFICES ASSUME NEW d \in Buffer, NEW e \in Buffer,
                      NEW i \in Used(buf'[d]), NEW j \in Used(buf'[e]),
                      buf'[d][i].packet = buf'[e][j].packet
               PROVE  d = e /\ i = j
    BY DEF Single, Used
  <2>1. CASE d = b /\ i = k
    BY <1>2, <1>3, <2>1
  <2>2. CASE e = b /\ j = k
    BY <1>2, <1>3, <2>2
  <2>3. CASE ~(d = b /\ i = k) /\ ~(e = b /\ j = k)
    <3>1. i \in Used(buf[d]) /\ buf'[d][i] = buf[d][i]
      BY <1>2, <2>3
    <3>2. j \in Used(buf[e]) /\ buf'[e][j] = buf[e][j]
      BY <1>2, <2>3
    <3> QED BY <3>1, <3>2 DEF Single
  <2> QED BY <2>1, <2>2, <2>3
<1>5. InBuffers' = InBuffers \union {r}
  <2>1. InBuffers' = UNION {Stored(buf'[d]) : d \in Buffer}
    BY DEF InBuffers, Stored, Used
  <2>2. Stored(buf'[b]) = Stored(buf[b]) \union {r}
    BY <1>2 DEF Stored
  <2>3. \A d \in Buffer : d # b => Stored(buf'[d]) = Stored(buf[d])
    BY <1>2
  <2> QED BY <2>1, <2>2, <2>3 DEF InBuffers
<1> QED BY <1>1, <1>4, <1>5

\* A record is taken out of slot k of buffer b.
LEMMA OneLess ==
  ASSUME Types, Single, NEW b \in Buffer, NEW g \in Slots(Record), NEW k \in Used(buf[b]),
         Used(g) = Used(buf[b]) \ {k}, \A j \in Used(g) : g[j] = buf[b][j],
         buf' = [buf EXCEPT ![b] = g]
  PROVE  /\ buf' \in [Buffer -> Slots(Record)] /\ Single'
         /\ buf[b][k] \in Record /\ buf[b][k] \in InBuffers
         /\ InBuffers' = InBuffers \ {buf[b][k]}
         /\ buf[b][k].packet \notin Packets(InBuffers')
<1>1. buf' \in [Buffer -> Slots(Record)]
  BY DEF Types
<1>2. \A d \in Buffer : buf'[d] = IF d = b THEN g ELSE buf[d]
  BY DEF Types
<1>3. buf[b][k] \in InBuffers /\ buf[b][k] \in Record
  BY InBuffersIs
<1>4. \A d \in Buffer : /\ Used(buf'[d]) = Used(buf[d]) \ (IF d = b THEN {k} ELSE {})
                        /\ \A i \in Used(buf'[d]) : buf'[d][i] = buf[d][i]
  BY <1>2
<1>5. Single'
  <2> SUFFICES ASSUME NEW d \in Buffer, NEW e \in Buffer,
                      NEW i \in Used(buf'[d]), NEW j \in Used(buf'[e]),
                      buf'[d][i].packet = buf'[e][j].packet
               PROVE  d = e /\ i = j
    BY DEF Single, Used
  <2> QED BY <1>4 DEF Single
<1>6. ASSUME NEW d \in Buffer, NEW i \in Used(buf'[d])
      PROVE  /\ i \in Used(buf[d]) /\ buf'[d][i] = buf[d][i]
             /\ buf[d][i].packet # buf[b][k].packet
  <2>1. i \in Used(buf[d]) /\ ~(d = b /\ i = k) /\ buf'[d][i] = buf[d][i]
    BY <1>4
  <2> QED BY <2>1 DEF Single
<1>7. InBuffers' = UNION {Stored(buf'[d]) : d \in Buffer}
  BY DEF InBuffers, Stored, Used
<1>8. \A r : r \in InBuffers' <=> \E d \in Buffer : \E i \in Used(buf'[d]) : r = buf'[d][i]
  BY <1>7 DEF Stored
<1>9. buf[b][k].packet \notin Packets(InBuffers')
  BY <1>6, <1>8 DEF Packets
<1>10. InBuffers' = InBuffers \ {buf[b][k]}
  <2>1. ASSUME NEW r \in InBuffers' PROVE r \in InBuffers /\ r # buf[b][k]
    BY <1>6, <1>8, InBuffersIs
  <2>2. ASSUME NEW r \in InBuffers, r # buf[b][k] PROVE r \in InBuffers'
    <3>0. PICK d \in Buffer : \E i \in Used(buf[d]) : r = buf[d][i]
      BY InBuffersIs
    <3>1. PICK i \in Used(buf[d]) : r = buf[d][i]
      BY <3>0
    <3>2. i \in Used(buf'[d])
      BY <1>4, <2>2, <3>1
    <3> QED BY <1>4, <1>8, <3>1, <3>2
  <2> QED BY <2>1, <2>2
<1> QED BY <1>1, <1>3, <1>5, <1>9, <1>10

\* A record goes into any file.
LEMMA DiskStep ==
  ASSUME Types, Single, NEW r \in Record, r.packet \notin Packets(InBuffers),
         NEW want, NEW b \in Buffer, buf' = [buf EXCEPT ![b] = PutSlot(@, r, want)]
  PROVE  /\ buf' \in [Buffer -> Slots(Record)] /\ Single'
         /\ InBuffers' = InBuffers \union {r}
<1>1. buf[b] \in Slots(Record)
  BY DEF Types
<1>2. PutSlot(buf[b], r, want) \in Slots(Record)
  BY <1>1, PutSlotAdds, BlankAssumption
<1>3. PICK k \in Nat \ Used(buf[b]) :
        /\ Used(PutSlot(buf[b], r, want)) = Used(buf[b]) \union {k}
        /\ PutSlot(buf[b], r, want)[k] = r
        /\ \A j \in Used(buf[b]) : PutSlot(buf[b], r, want)[j] = buf[b][j]
  BY <1>1, PutSlotAdds, BlankAssumption
<1>4. buf' = [buf EXCEPT ![b] = PutSlot(buf[b], r, want)]
  OBVIOUS
<1> QED BY <1>2, <1>3, <1>4, OneMore

\* A record goes where it belongs, on disk or in memory.
LEMMA StoreStep ==
  ASSUME Types, Single, NEW r \in Record, Known(r), r.packet \notin Packets(InBuffers),
         NEW want, Store(r, want), disk' = disk
  PROVE  /\ buf' \in [Buffer -> Slots(Record)] /\ Single'
         /\ InBuffers' = InBuffers \union {r}
         /\ ~disk' => \A b \in Buffer : Blanks(buf'[b]) = {}
<1> DEFINE b == File(Home(r))
<1>1. b \in Buffer /\ (~disk => b = Home(r))
  BY DEF File, Home, Known, Buffer, Dir
<1>2. buf[b] \in Slots(Record)
  BY <1>1 DEF Types
<1>3. CASE disk /\ buf' = [buf EXCEPT ![b] = PutSlot(@, r, want)]
  BY <1>1, <1>3, DiskStep
<1>4. CASE ~disk /\ buf' = [buf EXCEPT ![b] = Append(@, r)]
  <2> DEFINE g == Append(buf[b], r)   k == Len(buf[b]) + 1
  <2> HIDE DEF b
  <2>1. Blanks(buf[b]) = {} /\ r # Blank
    BY <1>1, <1>4, BlankAssumption DEF Types
  <2>2. /\ Len(buf[b]) \in Nat /\ DOMAIN buf[b] = 1..Len(buf[b])
        /\ Used(buf[b]) \subseteq 1..Len(buf[b])
    BY <1>2, UsedSlots
  <2>3. g \in Slots(Record) /\ DOMAIN g = 1..k /\ g[k] = r /\ \A j \in 1..Len(buf[b]) : g[j] = buf[b][j]
    BY <1>2, <2>2 DEF Slots
  <2> HIDE DEF g
  <2>4. Used(g) = Used(buf[b]) \union {k}
    BY <2>1, <2>2, <2>3 DEF Used
  <2>5. Blanks(g) = {}
    BY <2>1, <2>2, <2>3, <2>4 DEF Blanks
  <2>6. k \notin Used(buf[b])
    BY <2>2
  <2>7. \A j \in Used(buf[b]) : g[j] = buf[b][j]
    BY <2>2, <2>3
  <2>8. buf' = [buf EXCEPT ![b] = g]
    BY <1>4 DEF g
  <2> HIDE DEF k
  <2>9. buf' \in [Buffer -> Slots(Record)] /\ Single' /\ InBuffers' = InBuffers \union {r}
    BY <1>1, <2>3, <2>4, <2>6, <2>7, <2>8, OneMore
  <2>10. \A d \in Buffer : Blanks(buf'[d]) = {}
    BY <1>1, <1>4, <2>5, <2>8 DEF Types
  <2> QED BY <2>9, <2>10
<1> QED BY <1>1, <1>3, <1>4 DEF Store

\* A record that leaves the hands or the sorting is stored or thrown away.
Leaves(r) ==
  \/ Known(r) /\ (\E want \in BOOLEAN : Store(r, want)) /\ UNCHANGED discarded
  \/ StoreFails(r)

LEMMA LeavesStep ==
  ASSUME Types, Single, NEW r \in Record, r.packet \notin Packets(InBuffers), Leaves(r),
         disk' = disk
  PROVE  /\ buf' \in [Buffer -> Slots(Record)] /\ Single'
         /\ ~disk' => \A b \in Buffer : Blanks(buf'[b]) = {}
         /\ \/ InBuffers' = InBuffers \union {r} /\ discarded' = discarded
            \/ InBuffers' = InBuffers /\ discarded' = discarded \union {r}
<1>1. CASE StoreFails(r)
  BY <1>1 DEF StoreFails, Types, Single, InBuffers
<1>2. CASE Known(r) /\ (\E want \in BOOLEAN : Store(r, want)) /\ UNCHANGED discarded
  BY <1>2, StoreStep
<1> QED BY <1>1, <1>2 DEF Leaves

-----------------------------------------------------------------------------
(* Each step keeps every packet in one place. *)

LEMMA PlaceInit == Init => PlaceInv
<1> SUFFICES ASSUME Init PROVE PlaceInv
  OBVIOUS
<1>1. \A b \in Buffer : buf[b] = <<>> /\ Used(buf[b]) = {} /\ Blanks(buf[b]) = {}
  BY DEF Init, Used, Blanks
<1>2. buf \in [Buffer -> Slots(Record)]
  BY DEF Init, Slots
<1>3. call.contest \in Contest /\ call.dir \in Dir
  BY ContestAssumption DEF Init, NoCall, Dir
<1>4. InBuffers = {}
  BY <1>1 DEF InBuffers, Stored
<1>5. Types
  BY <1>1, <1>2, <1>3, MembuffAssumption DEF Init, Types
<1>6. Single /\ Apart
  BY <1>1, <1>4 DEF Init, Single, Apart, Packets
<1> QED BY <1>5, <1>6 DEF PlaceInv

\* Steps between which and the buffers nothing moves.
LEMMA QuietStep ==
  ASSUME PlaceInv, UNCHANGED <<buf, disk, identical, hands, discarded>>,
         \/ RaiseExitRequestTrigger \/ GetError \/ GetMore
         \/ \E b \in Buffer, f \in BOOLEAN : Get(b, f)
         \/ UNCHANGED vars
  PROVE  PlaceInv' /\ Kept \subseteq Kept'
<1> USE DEF PlaceInv, Types
<1>1. InBuffers' = InBuffers /\ Single'
  BY DEF InBuffers, Stored, Used, Single
<1>2. NoCall.contest \in Contest /\ NoCall.dir \in Dir
  BY ContestAssumption DEF NoCall, Dir
<1>3. CASE UNCHANGED vars \/ RaiseExitRequestTrigger
  <2>1. UNCHANGED <<pc, call, data>>
    BY <1>3 DEF vars, getVars, RaiseExitRequestTrigger
  <2>2. Types'
    BY <2>1
  <2> QED BY <1>1, <2>1, <2>2 DEF Apart, Kept, Packets
<1>4. CASE GetError \/ GetMore \/ \E b \in Buffer, f \in BOOLEAN : Get(b, f)
  <2>1. /\ pc \notin {"taken", "flush"} /\ pc' \in {"idle", "get"}
        /\ call'.contest \in Contest /\ call'.dir \in Dir
    BY <1>2, <1>4 DEF GetError, GetMore, Get, Return, Buffer
  <2>2. Types'
    BY <2>1
  <2> QED BY <1>1, <2>1, <2>2 DEF Apart, Kept, Packets
<1> QED BY <1>3, <1>4

\* The network and the user bring new packets, crunchers finish them.
LEMMA NewStep ==
  ASSUME PlaceInv,
         \/ \E p \in Packet, c \in Contest : Receive(p, c)
         \/ \E r \in Record, b \in Buffer : UserMerge(r, b)
         \/ \E r \in hands : Finish(r)
  PROVE  PlaceInv' /\ Kept \subseteq Kept'
<1> USE DEF PlaceInv
<1>1. pc = "idle" /\ UNCHANGED <<disk, identical, discarded, pc, call, data>>
  BY DEF Receive, UserMerge, Finish, getVars
<1>2. ASSUME buf' = buf, hands' \subseteq Record, Packets(hands) \subseteq Packets(hands)',
             Packets(hands)' \intersect (Packets(InBuffers) \union Packets(discarded)) = {},
             \A r, s \in hands' : r.packet = s.packet => r = s
      PROVE  PlaceInv' /\ Kept \subseteq Kept'
  <2>1. InBuffers' = InBuffers /\ Single'
    BY <1>2 DEF InBuffers, Stored, Used, Single
  <2>2. Packets(InBuffers)' = Packets(InBuffers) /\ Packets(discarded)' = Packets(discarded)
    BY <1>1, <2>1 DEF Packets
  <2>3. Types'
    BY <1>1, <1>2 DEF Types
  <2>4. Apart'
    BY <1>1, <1>2, <2>2 DEF Apart
  <2>5. Kept \subseteq Kept'
    BY <1>1, <1>2, <2>2 DEF Kept
  <2> QED BY <2>1, <2>3, <2>4, <2>5
<1>3. ASSUME NEW p \in Packet, NEW c \in Contest, Receive(p, c)
      PROVE  PlaceInv' /\ Kept \subseteq Kept'
  <2> DEFINE nr == [packet |-> p, contest |-> c, state |-> "WORKING"]
  <2>1. buf' = buf /\ hands' = hands \union {nr} /\ p \in Fresh
    BY <1>3 DEF Receive
  <2>2. nr \in Record /\ nr.packet = p
    BY DEF Record, State
  <2> HIDE DEF nr
  <2>3. /\ p \notin Packets(hands) \union Packets(discarded) \union Packets(InBuffers)
        /\ Packets(hands)' = Packets(hands) \union {p}
    BY <2>1, <2>2 DEF Fresh, Packets
  <2>4. \A r, s \in hands' : r.packet = s.packet => r = s
    BY <2>1, <2>2, <2>3 DEF Apart, Packets
  <2>5. hands' \subseteq Record
    BY <2>1, <2>2 DEF Types
  <2>6. Packets(hands)' \intersect (Packets(InBuffers) \union Packets(discarded)) = {}
    BY <2>3 DEF Apart
  <2> QED BY <1>2, <2>1, <2>3, <2>4, <2>5, <2>6
<1>4. ASSUME NEW r \in hands, Finish(r)
      PROVE  PlaceInv' /\ Kept \subseteq Kept'
  <2> DEFINE nr == [r EXCEPT !.state = "FINISHED"]
  <2>1. buf' = buf /\ hands' = (hands \ {r}) \union {nr}
    BY <1>4 DEF Finish
  <2>2. nr \in Record /\ nr.packet = r.packet
    BY DEF Types, Record, State
  <2> HIDE DEF nr
  <2>3. Packets(hands)' = Packets(hands)
    BY <2>1, <2>2 DEF Packets
  <2>4. \A q, s \in hands' : q.packet = s.packet => q = s
    BY <2>1, <2>2 DEF Apart
  <2> QED BY <1>2, <2>1, <2>2, <2>3, <2>4 DEF Types, Apart
<1>5. ASSUME NEW r \in Record, NEW b \in Buffer, UserMerge(r, b)
      PROVE  PlaceInv' /\ Kept \subseteq Kept'
  <2>1. /\ disk /\ hands' = hands /\ r.packet \in Fresh
        /\ buf' = [buf EXCEPT ![File(b)] = PutSlot(@, r, FALSE)]
    BY <1>5 DEF UserMerge
  <2>2. r.packet \notin Packets(hands) \union Packets(discarded) \union Packets(InBuffers)
    BY <2>1 DEF Fresh
  <2>3. File(b) \in Buffer
    BY DEF File, Buffer, Dir
  <2>4. buf' \in [Buffer -> Slots(Record)] /\ Single' /\ InBuffers' = InBuffers \union {r}
    BY <2>1, <2>2, <2>3, DiskStep
  <2>5. Types'
    BY <1>1, <2>1, <2>4 DEF Types
  <2>6. /\ Packets(InBuffers)' = Packets(InBuffers) \union {r.packet}
        /\ Packets(hands)' = Packets(hands) /\ Packets(discarded)' = Packets(discarded)
    BY <1>1, <2>1, <2>4 DEF Packets
  <2>7. Apart'
    BY <1>1, <2>1, <2>2, <2>6 DEF Apart
  <2>8. Kept \subseteq Kept'
    BY <1>1, <2>6 DEF Kept
  <2> QED BY <2>4, <2>5, <2>7, <2>8
<1> QED BY <1>3, <1>4, <1>5

\* A caller stores a record, and throws it away if that fails.
LEMMA PutStep ==
  ASSUME PlaceInv, (\E r \in hands : Put(r)) \/ FlushBack
  PROVE  PlaceInv' /\ Kept \subseteq Kept'
<1> USE DEF PlaceInv
<1>1. PICK r \in hands : PutBufferRecord(r)
  BY DEF Put, FlushBack, Apart
<1>2. /\ UNCHANGED <<disk, identical>> /\ pc # "taken" /\ pc' = "idle"
      /\ call'.contest \in Contest /\ call'.dir \in Dir
  BY ContestAssumption DEF Put, FlushBack, getVars, Return, NoCall, Dir, Types
<1>3. hands' = hands \ {r} /\ Leaves(r)
  BY <1>1 DEF PutBufferRecord, Leaves
<1>4. r \in Record /\ r.packet \notin Packets(InBuffers) \union Packets(discarded)
  BY DEF Types, Apart, Packets
<1>5. /\ buf' \in [Buffer -> Slots(Record)] /\ Single'
      /\ ~disk' => \A b \in Buffer : Blanks(buf'[b]) = {}
      /\ \/ InBuffers' = InBuffers \union {r} /\ discarded' = discarded
         \/ InBuffers' = InBuffers /\ discarded' = discarded \union {r}
  BY <1>2, <1>3, <1>4, LeavesStep
<1>6. Types'
  BY <1>2, <1>3, <1>4, <1>5 DEF Types
<1>7. Packets(hands)' = Packets(hands) \ {r.packet}
  BY <1>3 DEF Apart, Packets
<1>8. \/ /\ Packets(InBuffers)' = Packets(InBuffers) \union {r.packet}
         /\ Packets(discarded)' = Packets(discarded)
      \/ /\ Packets(InBuffers)' = Packets(InBuffers)
         /\ Packets(discarded)' = Packets(discarded) \union {r.packet}
  BY <1>5 DEF Packets
<1>9. Apart'
  <2>1. r.packet \in Packets(hands) /\ r.packet \notin Packets(InBuffers) \union Packets(discarded)
    BY <1>4 DEF Packets
  <2>2. /\ (Packets(InBuffers) \intersect (Packets(hands) \union Packets(discarded)))' = {}
        /\ (Packets(hands) \intersect Packets(discarded))' = {}
    BY <2>1, <1>7, <1>8 DEF Apart
  <2>3. (\A q, s \in hands : q.packet = s.packet => q = s)'
    BY <1>3 DEF Apart
  <2> QED BY <1>2, <2>2, <2>3 DEF Apart
<1>10. Kept \subseteq Kept'
  BY <1>2, <1>7, <1>8 DEF Kept
<1> QED BY <1>5, <1>6, <1>9, <1>10

\* An empty file is truncated, or a record is taken out.
LEMMA TakeStep ==
  ASSUME PlaceInv, GetNothing \/ GetTake
  PROVE  PlaceInv' /\ Kept \subseteq Kept'
<1> USE DEF PlaceInv
<1> DEFINE b == File(Asked)
<1>1. b \in Buffer /\ (~disk => b = Asked)
  BY DEF File, Asked, Buffer, Types, Dir
<1>2. pc = "get" /\ UNCHANGED <<disk, identical, hands, discarded>> /\ buf[b] \in Slots(Record)
  BY <1>1 DEF GetNothing, GetTake, Types
<1> HIDE DEF b
<1>3. Packets(hands)' = Packets(hands) /\ Packets(discarded)' = Packets(discarded)
  BY <1>2 DEF Packets
<1>4. CASE GetNothing
  <2>1. Used(buf[b]) = {} /\ buf' = [buf EXCEPT ![b] = <<>>] /\ Return
    BY <1>4 DEF GetNothing, b
  <2>2. <<>> \in Slots(Record) /\ Used(<<>>) = {} /\ Blanks(<<>>) = {}
    BY DEF Slots, Used, Blanks
  <2>3. \A d \in Buffer : /\ Used(buf'[d]) = Used(buf[d]) /\ Stored(buf'[d]) = Stored(buf[d])
                          /\ \A i \in Used(buf[d]) : buf'[d][i] = buf[d][i]
                          /\ Blanks(buf'[d]) \subseteq Blanks(buf[d])
    BY <2>1, <2>2 DEF Types, Stored
  <2>4. InBuffers' = InBuffers
    <3>1. InBuffers' = UNION {Stored(buf'[d]) : d \in Buffer}
      BY DEF InBuffers, Stored, Used
    <3> QED BY <2>3, <3>1 DEF InBuffers
  <2>5. Single'
    BY <2>3 DEF Single, Used
  <2>6. /\ pc' = "idle" /\ call'.contest \in Contest /\ call'.dir \in Dir
    BY <2>1, ContestAssumption DEF Return, NoCall, Dir
  <2>7. Types'
    BY <1>1, <1>2, <2>1, <2>2, <2>3, <2>6 DEF Types
  <2>8. Packets(InBuffers)' = Packets(InBuffers)
    BY <2>4 DEF Packets
  <2> QED BY <1>2, <1>3, <2>5, <2>6, <2>7, <2>8 DEF Apart, Kept
<1>5. CASE GetTake
  <2> DEFINE f == buf[b]
             k == IF disk THEN FirstSlot(f) ELSE Len(f)
             g == IF disk THEN GetSlot(f) ELSE SubSeq(f, 1, Len(f) - 1)
  <2>1. /\ Used(f) # {} /\ data' = f[k] /\ buf' = [buf EXCEPT ![b] = g]
        /\ pc' = "taken" /\ call' = call
    BY <1>5 DEF GetTake, b
  <2>2. /\ k \in Used(f) /\ g \in Slots(Record) /\ Used(g) = Used(f) \ {k}
        /\ \A j \in Used(g) : g[j] = f[j]
        /\ ~disk => Blanks(g) = {}
    <3>1. CASE disk
      BY <1>2, <2>1, <3>1, GetSlotRemoves
    <3>2. CASE ~disk
      <4>1. /\ Len(f) \in Nat /\ DOMAIN f = 1..Len(f) /\ Used(f) \subseteq 1..Len(f)
        BY <1>2, UsedSlots
      <4>2. Blanks(f) = {}
        BY <1>1, <3>2 DEF Types
      <4>0. Used(f) = DOMAIN f
        BY <4>1, <4>2 DEF Blanks
      <4>3. Used(f) = 1..Len(f) /\ Len(f) \in Nat \ {0}
        <5> HIDE DEF f
        <5> QED BY <2>1, <4>0, <4>1
      <4>4. /\ g \in Slots(Record) /\ DOMAIN g = 1..(Len(f) - 1)
            /\ \A j \in 1..(Len(f) - 1) : g[j] = f[j]
        BY <1>2, <3>2, <4>3 DEF Slots
      <4> HIDE DEF f, g
      <4>5. Used(g) = 1..(Len(f) - 1)
        BY <4>3, <4>4 DEF Used
      <4> QED BY <3>2, <4>3, <4>4, <4>5 DEF Blanks
    <3> QED BY <3>1, <3>2
  <2> HIDE DEF k, g
  <2>3. /\ buf' \in [Buffer -> Slots(Record)] /\ Single' /\ f[k] \in Record /\ f[k] \in InBuffers
        /\ InBuffers' = InBuffers \ {f[k]} /\ f[k].packet \notin Packets(InBuffers')
    <3>1. k \in Used(buf[b]) /\ g \in Slots(Record) /\ Used(g) = Used(buf[b]) \ {k}
      BY <2>2
    <3>2. (\A j \in Used(g) : g[j] = buf[b][j]) /\ buf' = [buf EXCEPT ![b] = g]
      BY <2>1, <2>2
    <3>3. /\ buf' \in [Buffer -> Slots(Record)] /\ Single'
          /\ buf[b][k] \in Record /\ buf[b][k] \in InBuffers
          /\ InBuffers' = InBuffers \ {buf[b][k]}
          /\ buf[b][k].packet \notin Packets(InBuffers')
      BY <1>1, <3>1, <3>2, OneLess, Zenon
    <3> QED BY <3>3
  <2> HIDE DEF f
  <2>4. Types'
    BY <1>1, <1>2, <2>1, <2>2, <2>3 DEF Types
  <2>5. /\ data'.packet \in Packets(InBuffers) /\ data'.packet \notin Packets(InBuffers)'
        /\ Packets(InBuffers) = Packets(InBuffers)' \union {data'.packet}
    BY <2>1, <2>3 DEF Packets
  <2>6. Apart'
    BY <1>2, <1>3, <2>1, <2>5 DEF Apart
  <2>7. Kept \subseteq Kept'
    BY <1>2, <1>3, <2>1, <2>5 DEF Kept
  <2> QED BY <2>3, <2>4, <2>6, <2>7
<1> QED BY <1>4, <1>5

\* The record taken out is handed over, thrown away, or sorted.
LEMMA SortStep ==
  ASSUME PlaceInv, GetOk \/ GetDiscard \/ GetCrossSave
  PROVE  PlaceInv' /\ Kept \subseteq Kept'
<1> USE DEF PlaceInv
<1>1. /\ pc = "taken" /\ UNCHANGED <<disk, identical>> /\ data \in Record
      /\ data.packet \notin Packets(hands) \union Packets(discarded) \union Packets(InBuffers)
  BY DEF GetOk, GetDiscard, GetCrossSave, Types, Apart
<1>2. CASE GetOk
  <2>1. /\ UNCHANGED <<buf, discarded>> /\ hands' = hands \union {data}
        /\ pc' \in {"idle", "flush"} /\ (pc' = "flush" => data' = data)
        /\ call'.contest \in Contest /\ call'.dir \in Dir
    BY <1>2, ContestAssumption DEF GetOk, Return, NoCall, Dir, Types
  <2>2. InBuffers' = InBuffers /\ Single'
    BY <2>1 DEF InBuffers, Stored, Used, Single
  <2>3. Types'
    BY <1>1, <2>1 DEF Types
  <2>4. /\ Packets(InBuffers)' = Packets(InBuffers) /\ Packets(discarded)' = Packets(discarded)
        /\ Packets(hands)' = Packets(hands) \union {data.packet}
    BY <2>1, <2>2 DEF Packets
  <2>5. \A r, s \in hands' : r.packet = s.packet => r = s
    BY <1>1, <2>1 DEF Apart, Packets
  <2>6. Apart'
    <3>1. /\ Packets(InBuffers)' \intersect (Packets(hands)' \union Packets(discarded)') = {}
          /\ Packets(hands)' \intersect Packets(discarded)' = {}
      BY <1>1, <2>4 DEF Apart
    <3>2. pc' # "taken" /\ (pc' = "flush" => data' \in hands')
      BY <2>1
    <3> QED BY <2>5, <3>1, <3>2 DEF Apart
  <2>7. Kept \subseteq Kept'
    BY <1>1, <2>4 DEF Kept
  <2> QED BY <2>2, <2>3, <2>6, <2>7
<1>3. CASE GetDiscard \/ GetCrossSave
  <2>1. /\ hands' = hands /\ pc' = "more" /\ call' = call
        /\ \/ Leaves(data)
           \/ buf' = buf /\ discarded' = discarded \union {data}
    BY <1>3 DEF GetDiscard, GetCrossSave, Leaves
  <2>2. /\ buf' \in [Buffer -> Slots(Record)] /\ Single'
        /\ ~disk' => \A b \in Buffer : Blanks(buf'[b]) = {}
        /\ \/ InBuffers' = InBuffers \union {data} /\ discarded' = discarded
           \/ InBuffers' = InBuffers /\ discarded' = discarded \union {data}
    <3>1. CASE buf' = buf /\ discarded' = discarded \union {data}
      BY <1>1, <3>1 DEF Types, Single, InBuffers
    <3> QED BY <1>1, <2>1, <3>1, LeavesStep
  <2>3. Types'
    BY <1>1, <2>1, <2>2 DEF Types
  <2>4. /\ Packets(hands)' = Packets(hands)
        /\ \/ /\ Packets(InBuffers)' = Packets(InBuffers) \union {data.packet}
              /\ Packets(discarded)' = Packets(discarded)
           \/ /\ Packets(InBuffers)' = Packets(InBuffers)
              /\ Packets(discarded)' = Packets(discarded) \union {data.packet}
    BY <2>1, <2>2 DEF Packets
  <2>5. Apart'
    BY <1>1, <2>1, <2>4 DEF Apart
  <2>6. Kept \subseteq Kept'
    BY <1>1, <2>1, <2>4 DEF Kept
  <2> QED BY <2>2, <2>3, <2>5, <2>6
<1> QED BY <1>2, <1>3

LEMMA PlaceStep ==
  ASSUME PlaceInv, [Next]_vars
  PROVE  PlaceInv' /\ Kept \subseteq Kept'
<1>1. CASE UNCHANGED vars
  BY <1>1, QuietStep DEF vars
<1>2. ASSUME RaiseExitRequestTrigger \/ GetError \/ GetMore
             \/ \E b \in Buffer, f \in BOOLEAN : Get(b, f)
      PROVE  PlaceInv' /\ Kept \subseteq Kept'
  BY <1>2, QuietStep DEF RaiseExitRequestTrigger, GetError, GetMore, Get
<1>3. ASSUME NEW c \in Contest, Get(<<c, "out">>, TRUE) PROVE PlaceInv' /\ Kept \subseteq Kept'
  <2>1. <<c, "out">> \in Buffer
    BY DEF Buffer, Dir
  <2> QED BY <1>2, <1>3, <2>1
<1> QED BY <1>1, <1>2, <1>3, NewStep, PutStep, TakeStep, SortStep DEF Next, GetStep

-----------------------------------------------------------------------------
(* The theorems. *)

\* A packet is somewhere, for the properties and for the proof.
LEMMA PlacesAreKept == \A p : Places(p) # {} <=> p \in Kept
<1> TAKE p
<1>1. p \in Packets(InBuffers) <=> \E b \in Buffer : \E i \in Used(buf[b]) : buf[b][i].packet = p
  BY DEF Packets, InBuffers, Stored
<1> DEFINE slots == UNION {{b} \X {i \in Used(buf[b]) : buf[b][i].packet = p} : b \in Buffer}
<1>2. slots # {} <=> \E b \in Buffer : \E i \in Used(buf[b]) : buf[b][i].packet = p
  <2>1. ASSUME NEW b \in Buffer, NEW i \in Used(buf[b]), buf[b][i].packet = p PROVE slots # {}
    <3>1. <<b, i>> \in {b} \X {j \in Used(buf[b]) : buf[b][j].packet = p}
      BY <2>1
    <3> QED BY <3>1
  <2>2. ASSUME slots # {} PROVE \E b \in Buffer : \E i \in Used(buf[b]) : buf[b][i].packet = p
    BY <2>2
  <2> QED BY <2>1, <2>2
<1> HIDE DEF slots
<1>3. Places(p) # {} <=> \/ slots # {}
                        \/ p \in Packets(hands)
                        \/ p \in Packets(discarded)
                        \/ (pc = "taken" /\ data.packet = p)
  BY DEF Places, slots
<1> QED BY <1>1, <1>2, <1>3 DEF Kept

\* No packet is in two places at once: not in two slots of the buffers, in a buffer
\* and in hand, or in one of them and thrown away.
THEOREM EachOnce == Spec => []OnePlace
<1>1. PlaceInv => OnePlace
  <2> SUFFICES ASSUME PlaceInv, NEW p \in Packet PROVE Cardinality(Places(p)) <= 1
    BY DEF OnePlace
  <2> USE DEF PlaceInv
  <2> DEFINE slots == UNION {{b} \X {i \in Used(buf[b]) : buf[b][i].packet = p} : b \in Buffer}
  <2>1. slots # {} => p \in Packets(InBuffers)
    BY DEF Packets, InBuffers, Stored
  <2>2. \A x, y \in slots : x = y
    BY DEF Single
  <2>3. \A x, y \in Places(p) : x = y
    <3> HIDE DEF slots
    <3>1. Places(p) = slots \union (IF p \in Packets(hands) THEN {"hands"} ELSE {})
                            \union (IF p \in Packets(discarded) THEN {"discarded"} ELSE {})
                            \union (IF pc = "taken" /\ data.packet = p THEN {"data"} ELSE {})
      BY DEF Places, slots
    <3> QED BY <2>1, <2>2, <3>1 DEF Apart
  <2>4. Places(p) = {} \/ \E x : Places(p) = {x}
    BY <2>3
  <2>5. Cardinality(Places(p)) = 0 \/ Cardinality(Places(p)) = 1
    BY <2>4, FS_EmptySet, FS_Singleton, Zenon
  <2> QED BY <2>5
<1>2. PlaceInv /\ [Next]_vars => PlaceInv'
  BY PlaceStep
<1> QED BY <1>1, <1>2, PlaceInit, PTL DEF Spec

\* No step of sorting, storing, flushing or taking out makes a packet vanish.
THEOREM NoneLost == Spec => NoneVanishes
<1>1. PlaceInv /\ [Next]_vars => PlaceInv'
  BY PlaceStep
<1>2. (\A p : Places(p) # {} <=> p \in Kept)'
  BY PlacesAreKept, PTL
<1>3. PlaceInv /\ [Next]_vars => [\A p \in Packet : Places(p) # {} => Places(p)' # {}]_vars
  BY <1>2, PlacesAreKept, PlaceStep
<1> QED BY <1>1, <1>3, PlaceInit, PTL DEF Spec, NoneVanishes
=============================================================================
