------------------------------- MODULE Rc5Keys -------------------------------
(* How an RC5-72 packet is worked through (problem.cpp): a key of one byte and *)
(* two words is searched in slices by a core that counts in a byte-reversed    *)
(* format.  The client keeps the keys done as a number of two words of its     *)
(* own, follows the core with a reference key, and rebuilds the core's key     *)
(* from the packet whenever the packet is loaded again.                        *)
(* Keys and counts are records of words of four bytes; BYTE stands for the 256 *)
(* values of a byte, so that every carry happens in a small space.             *)
EXTENDS Naturals, FiniteSets

CONSTANTS
  BYTE,                \* values of a byte
  MINIMUM_ITERATIONS,  \* boundary to which a slice is rounded up
  DUMMY_ITERATIONS,    \* iterations.hi of the known dummy packet
  Packets,             \* packets the buffer may deliver: records [key, iterations]
  Suggested,           \* suggested numbers of keys of a slice (pub_data.tslice)
  Partial,             \* key numbers whose first cipher word matches by chance
  MaxLoads             \* bound: times a packet is loaded

WORD == BYTE * BYTE * BYTE * BYTE
SPACE == BYTE * WORD * WORD     \* number of keys
NoKey == SPACE                  \* the packet's message has no key in this space

Words == 0 .. WORD - 1
Keys == [hi : Words, mid : Words, lo : Words]
Counts == [hi : Words, lo : Words]

\* What a server hands out has keys, and fewer than the counter of them can hold.
ASSUME Rc5Assumption ==
  /\ BYTE \in Nat \ {0, 1}
  /\ MINIMUM_ITERATIONS \in 1 .. WORD - 1
  /\ Packets \subseteq [key : Keys, iterations : Counts]
  /\ \A p \in Packets : p.iterations # [hi |-> 0, lo |-> 0] /\ p.iterations.hi < WORD - 1
  /\ \A s \in Suggested : s \in Nat /\ s + MINIMUM_ITERATIONS < WORD
  /\ Partial \subseteq 0 .. SPACE - 1
  /\ MaxLoads \in Nat

VARIABLES
  packet,      \* the packet as it was received
  secret,      \* number of the key that solves it, or NoKey
  saved,       \* the packet as it was last written to a buffer (ContestWork)
  work,        \* priv_data.contestwork: key, iterations, keysdone, check
  unit,        \* priv_data.rc5_72unitwork: L0 and check, in the core's format
  refL0,       \* priv_data.refL0
  state,       \* "buffered", "loaded" or "refused"
  resultcode,  \* priv_data.last_resultcode
  loads        \* times loaded (bound)

rc5vars == <<packet, secret, saved, work, unit, refL0, state, resultcode, loads>>

----------------------------------------------------------------------------
(* Words, keys and counts *)

Zero == [hi |-> 0, mid |-> 0, lo |-> 0]
Num(k) == ((k.hi % BYTE) * WORD + k.mid) * WORD + k.lo
Count(c) == c.hi * WORD + c.lo

\* Carry out of a word to which "added" was added: the sum is less than it.
Carry(sum, added) == IF sum < added THEN 1 ELSE 0

\* Between the client's and the core's format: the bytes in reverse order; of the
\* high word only one byte counts.
Weight == <<1, BYTE, BYTE * BYTE, BYTE * BYTE * BYTE>>
Byte(word, i) == (word \div Weight[i + 1]) % BYTE
WordOf(b0, b1, b2, b3) == b0 + BYTE * (b1 + BYTE * (b2 + BYTE * b3))
SwitchRC572Format(k) ==
  [lo  |-> WordOf(Byte(k.hi, 0), Byte(k.mid, 3), Byte(k.mid, 2), Byte(k.mid, 1)),
   mid |-> WordOf(Byte(k.mid, 0), Byte(k.lo, 3), Byte(k.lo, 2), Byte(k.lo, 1)),
   hi  |-> Byte(k.lo, 0)]

\* A key in the core's format, "iters" keys on.
IncrementKey(k, iters) ==
  LET n == SwitchRC572Format(k)
      lo == (n.lo + iters) % WORD
      mid == (n.mid + Carry(lo, iters)) % WORD
      hi == n.hi + IF lo < iters /\ mid = 0 THEN 1 ELSE 0
  IN SwitchRC572Format([hi |-> hi, mid |-> mid, lo |-> lo])

----------------------------------------------------------------------------
(* Loading and saving *)

NoCheck == [count |-> 0, key |-> Zero]
Fresh(p) == [key |-> p.key, iterations |-> p.iterations,
             keysdone |-> [hi |-> 0, lo |-> 0], check |-> NoCheck]

RC5Init ==
  /\ packet \in Packets
  /\ secret \in {NoKey} \cup
       {(Num(packet.key) + d) % SPACE : d \in 0 .. Count(packet.iterations) - 1}
  /\ saved = Fresh(packet)
  /\ work = saved
  /\ unit = [L0 |-> Zero, check |-> NoCheck]
  /\ refL0 = Zero
  /\ state = "buffered"
  /\ resultcode = "WORKING"
  /\ loads = 0

\* Mutation: the keys are counted anew, the matches are not.
ResetKeysOnly(w) == [w EXCEPT !.keysdone = [hi |-> 0, lo |-> 0]]

\* A packet in progress that another core, processor or build worked on begins anew.
Reset(w) == [w EXCEPT !.keysdone = [hi |-> 0, lo |-> 0], !.check = NoCheck]

Corrupted(w) == w.key.hi >= BYTE
Dummy(w) == w.key = Zero /\ w.iterations = [hi |-> DUMMY_ITERATIONS, lo |-> 0]

\* Mutation: a middle word that overflows is not carried.
StartKeyUncarried(w) ==
  LET lo == (w.key.lo + w.keysdone.lo) % WORD
  IN [hi |-> w.key.hi, lo |-> lo,
      mid |-> (w.key.mid + w.keysdone.hi + Carry(lo, w.keysdone.lo)) % WORD]

\* The next key to be tested: key + keysdone, with the carries between the words.
StartKey(w) ==
  LET mid0 == (w.key.mid + w.keysdone.hi) % WORD
      lo == (w.key.lo + w.keysdone.lo) % WORD
      mid == (mid0 + Carry(lo, w.keysdone.lo)) % WORD
      hi == w.key.hi + Carry(mid0, w.keysdone.hi)
              + IF lo < w.keysdone.lo /\ mid = 0 THEN 1 ELSE 0
  IN [hi |-> hi % BYTE, mid |-> mid, lo |-> lo]

\* The check is kept in the packet in the client's format.
SwitchCheck(c) == [c EXCEPT !.key = SwitchRC572Format(@)]

LoadState(sameCore) ==
  /\ state = "buffered" /\ loads < MaxLoads
  /\ loads' = loads + 1
  /\ LET w == IF sameCore THEN saved ELSE Reset(saved)
     IN IF Corrupted(w) \/ Dummy(w)
        THEN state' = "refused" /\ UNCHANGED <<work, unit, refL0>>
        ELSE /\ state' = "loaded"
             /\ work' = w
             /\ refL0' = SwitchRC572Format(StartKey(w))
             /\ unit' = [L0 |-> refL0', check |-> SwitchCheck(w.check)]
  /\ UNCHANGED <<packet, secret, saved, resultcode>>

\* The packet goes back to a buffer, in progress or finished.
RetrieveState ==
  /\ state = "loaded"
  /\ saved' = work
  /\ state' = IF resultcode = "WORKING" THEN "buffered" ELSE "done"
  /\ UNCHANGED <<packet, secret, work, unit, refL0, resultcode, loads>>

----------------------------------------------------------------------------
(* Searching a slice *)

\* Mutation: the last word is taken for the one that begins when all are done.
ClampedTooLate(w, keystocheck) ==
  IF /\ w.iterations.hi = w.keysdone.hi
     /\ (w.keysdone.lo + keystocheck) % WORD < keystocheck
  THEN (WORD + w.iterations.lo - w.keysdone.lo) % WORD
  ELSE keystocheck

\* No more keys than are left in the last word of the packet, rounded up.
Clamped(w, keystocheck) ==
  IF /\ (WORD + w.iterations.hi - w.keysdone.hi) % WORD <= 1
     /\ (w.keysdone.lo + keystocheck) % WORD < keystocheck
  THEN (WORD + w.iterations.lo - w.keysdone.lo) % WORD
  ELSE keystocheck

RoundedUp(n) ==
  LET over == n % MINIMUM_ITERATIONS
  IN IF n < MINIMUM_ITERATIONS THEN MINIMUM_ITERATIONS
     ELSE IF over = 0 THEN n ELSE (n + MINIMUM_ITERATIONS - over) % WORD

\* The core tests n keys from u.L0 on.  A key whose first cipher word matches is
\* noted as the check; the one that solves the packet ends the search, and L0
\* stays at it.
Distance(from, to) == (SPACE + to - from) % SPACE
Tested(u, n) ==
  LET from == Num(SwitchRC572Format(u.L0))
      found == secret # NoKey /\ Distance(from, secret) < n
      done == IF found THEN Distance(from, secret) ELSE n
      noted == {Distance(from, k) : k \in (Partial \cup {secret}) \ {NoKey}}
                 \cap 0 .. IF found THEN done ELSE n - 1
      last == CHOOSE d \in noted : \A e \in noted : e <= d
  IN [rescode |-> IF found THEN "FOUND" ELSE "NOTHING",
      done |-> done,
      L0 |-> IncrementKey(u.L0, done),
      check |-> IF noted = {} THEN u.check
                ELSE [count |-> u.check.count + Cardinality(noted),
                      key |-> IncrementKey(u.L0, last)]]

\* What a core may answer: the result of the slice; that it is still at it (an
\* asynchronous core); or a slice of which it tested a part only.
Answers(u, n) ==
  {Tested(u, n),
   [rescode |-> "WORKING", done |-> 0, L0 |-> u.L0, check |-> u.check]}
    \cup {[Tested(u, m) EXCEPT !.done = n] :
            m \in {k \in {1, n - 1} : 0 < k /\ k < n /\ Tested(u, k).rescode = "NOTHING"}}

\* Mutation: only the low words are compared, which hold the high bytes.
MismatchLow(ref, r) == ref.lo # r.L0.lo /\ r.rescode # "FOUND"

\* The core's key is compared with the reference key.
Mismatch(ref, r) == ref # r.L0 /\ r.rescode # "FOUND"

AddKeysDone(c, n) ==
  LET lo == (c.lo + n) % WORD IN [hi |-> (c.hi + Carry(lo, n)) % WORD, lo |-> lo]

\* Mutation: the middle word is compared with its value before the first carry.
FoundKeyTwice(w) ==
  LET lo == (w.key.lo + w.keysdone.lo) % WORD
      carry == IF lo < w.key.lo THEN 1 ELSE 0
      mid0 == (w.key.mid + carry) % WORD
      mid == (mid0 + w.keysdone.hi) % WORD
      hi == w.key.hi + (IF carry = 1 /\ mid0 = 0 THEN 1 ELSE 0)
              + (IF mid < w.key.mid THEN 1 ELSE 0)
  IN [hi |-> hi, mid |-> mid, lo |-> lo]

\* The key that was found: key + keysdone, with the carries between the words.
FoundKey(w) ==
  LET lo == (w.key.lo + w.keysdone.lo) % WORD
      carry == IF lo < w.key.lo THEN 1 ELSE 0
      mid0 == (w.key.mid + carry) % WORD
      mid == (mid0 + w.keysdone.hi) % WORD
      hi == w.key.hi + (IF carry = 1 /\ mid0 = 0 THEN 1 ELSE 0)
              + (IF mid < mid0 THEN 1 ELSE 0)
  IN [hi |-> hi, mid |-> mid, lo |-> lo]

AllDone(w) ==
  \/ w.keysdone.hi > w.iterations.hi
  \/ w.keysdone.hi = w.iterations.hi /\ w.keysdone.lo >= w.iterations.lo

\* Run_RC5_72(): a refused answer changes nothing, as the core works on a copy.
Credited(r) ==
  LET w == [work EXCEPT !.keysdone = AddKeysDone(@, r.done), !.check = SwitchCheck(r.check)]
  IN /\ unit' = [L0 |-> r.L0, check |-> r.check]
     /\ refL0' = IncrementKey(refL0, r.done)
     /\ work' = IF r.rescode = "FOUND" THEN [w EXCEPT !.key = FoundKey(w)] ELSE w
     /\ resultcode' = IF r.rescode = "FOUND" THEN "FOUND"
                      ELSE IF AllDone(w) THEN "NOTHING" ELSE "WORKING"
     /\ UNCHANGED <<packet, secret, saved, state, loads>>

Searching == state = "loaded" /\ resultcode = "WORKING"
SliceOf(tslice) == RoundedUp(Clamped(work, tslice))

RunRC572 ==
  /\ Searching
  /\ \E tslice \in Suggested : \E r \in Answers(unit, SliceOf(tslice)) :
       IF Mismatch(IncrementKey(refL0, r.done), r) THEN UNCHANGED rc5vars ELSE Credited(r)

RC5Next ==
  \/ \E sameCore \in BOOLEAN : LoadState(sameCore)
  \/ RunRC572
  \/ RetrieveState

RC5Spec == RC5Init /\ [][RC5Next]_rc5vars

----------------------------------------------------------------------------
(* Properties *)

Works == [key : Keys, iterations : Counts, keysdone : Counts,
          check : [count : Nat, key : Keys]]

\* Types: no word of a key or a count leaves its width.
RC5TypeOK ==
  /\ packet \in Packets /\ secret \in 0 .. NoKey
  /\ saved \in Works /\ work \in Works
  /\ unit \in [L0 : Keys, check : [count : Nat, key : Keys]] /\ refL0 \in Keys
  /\ state \in {"buffered", "loaded", "refused", "done"}
  /\ resultcode \in {"WORKING", "FOUND", "NOTHING"}
  /\ loads \in 0 .. MaxLoads

First == Num(packet.key)

\* The core stands where the packet's own count says, whatever slices, carries,
\* byte orders, saves, resets and bad answers came before.
KeysExact ==
  state = "loaded" =>
    /\ Num(SwitchRC572Format(unit.L0)) = (First + Count(work.keysdone)) % SPACE
    /\ refL0 = unit.L0

\* A packet reported as searched without success does not hold the key.
NoKeySkipped ==
  resultcode = "NOTHING" =>
    secret = NoKey \/ Distance(First, secret) >= Count(packet.iterations)

\* The key reported is the one that solves the packet.
FoundIsKey == resultcode = "FOUND" => Num(work.key) = secret

\* The check a packet is returned with counts the partial matches among exactly
\* the keys done (a key tested twice or not at all shows here), and names the
\* last of them.
CheckExact ==
  state = "loaded" =>
    LET ends == Count(work.keysdone) - IF resultcode = "FOUND" THEN 0 ELSE 1
        noted == {d \in 0 .. ends :
                    (First + d) % SPACE \in (Partial \cup {secret}) \ {NoKey}}
    IN /\ work.check.count = Cardinality(noted)
       /\ noted # {} =>
            Num(work.check.key) =
              (First + CHOOSE d \in noted : \A e \in noted : e <= d) % SPACE

\* "don't allow a too large of a keystocheck be used ie (>(iter-keysdone))", but
\* for the rounding: the comment in Run_RC5_72() makes no exception.
NoExtraKeys ==
  state = "loaded" =>
    Count(work.keysdone) < Count(work.iterations) + MINIMUM_ITERATIONS

\* No slice reaches further beyond the end of a packet than the rounding, so that
\* no keys of the next packet are searched for nothing.  This is about the packets
\* of the servers, whose number of keys is a multiple of a word.
ServerPacketsEnd == packet.iterations.lo = 0 => NoExtraKeys
==============================================================================
