---------------------------- MODULE BufferSlots ----------------------------
(***************************************************************************)
(* The contents of a buffer file (common/buffpub.cpp) as a sequence of      *)
(* slots, each a record or blank: what BufferPutFileRecord(),               *)
(* BufferGetFileRecord() and BufferCountFileRecords() read from it and      *)
(* make of it.                                                              *)
(***************************************************************************)
EXTENDS Integers, Sequences, FiniteSets

CONSTANT Blank   \* the blank record that overwrites one that was handed out

Used(f)   == {i \in DOMAIN f : f[i] # Blank}
Blanks(f) == DOMAIN f \ Used(f)
Stored(f) == {f[i] : i \in Used(f)}

Least(S)    == CHOOSE i \in S : \A j \in S : i <= j
Greatest(S) == CHOOSE i \in S : \A j \in S : i >= j

\* fseek(), fwrite(): a hole behind the end reads as zeros, as blank slots.
WriteAt(f, i, r) ==
  [j \in 1..(IF i > Len(f) THEN i ELSE Len(f)) |->
     IF j = i THEN r ELSE IF j <= Len(f) THEN f[j] ELSE Blank]

\* Where a record goes in the first n slots: into the first blank one, or
\* into the last blank one if the scan goes on to the end to count; behind
\* them if none is blank.
SlotFor(f, n, want) ==
  LET blanks == {i \in Blanks(f) : i <= n}
  IN  IF blanks = {} THEN n + 1
      ELSE IF want THEN Greatest(blanks) ELSE Least(blanks)

\* Mutation: blank slots are counted.
RecordsSeenAll(f, n) == n

RecordsSeen(f, n) == Cardinality({i \in Used(f) : i <= n})

\* Mutation: the last slot is not looked at.
AllBlankButLast(n, seen) == n > 0 /\ seen >= n - 1

\* reccount > 0 && reccount == blanked: nothing was left behind the n-th slot.
AllBlank(n, seen) == n > 0 /\ n = seen

\* The three operations at one stroke, when nobody else uses the file.
PutSlot(f, r, want) == WriteAt(f, SlotFor(f, Len(f), want), r)

FirstSlot(f) == Least(Used(f))

\* The first record is blanked; if it was in the last slot the file is
\* truncated (BufferZapFileRecords()).
GetSlot(f) ==
  LET i == FirstSlot(f)
  IN  IF AllBlank(Len(f), i) THEN <<>> ELSE WriteAt(f, i, Blank)
=============================================================================
