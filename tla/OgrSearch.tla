------------------------------ MODULE OgrSearch ------------------------------
(***************************************************************************)
(* The OGR-NG core (src/ogr/ansi/ogrng_codebase.cpp, ogrng-32.h,           *)
(* ogrng_init.cpp) and the way problem.cpp drives it: a stub is replayed   *)
(* by ogr_create(), searched in slices of a given number of nodes by       *)
(* ogr_cycle_entry(), and written back by ogr_getresult() whenever the     *)
(* packet leaves the client's memory, to be replayed again later.          *)
(*                                                                         *)
(* A ruler is a growing sequence of marks.  The core keeps, level by       *)
(* level, three bitmaps, which are sets of distances here: bit n of a      *)
(* bitmap is the number n.  All limits and widths are constants, so that   *)
(* an instance can be small and still have every case of the real one.     *)
(***************************************************************************)
EXTENDS Integers, FiniteSets

CONSTANTS
  OGR_NG_MIN, OGR_NG_MAX,  \* numbers of marks the core accepts
  OGR_STUB_MAX,            \* diffs in a work record
  OGRNG_BITMAPS_LENGTH,    \* bits of a bitmap
  SCALAR_BITS,             \* bits of a machine word of a bitmap
  CHOOSE_DIST_BITS,        \* distances the table of limits knows about
  CHOOSE_MARKS,            \* segments per row of the choose data
  OGR,                     \* OGR[n]: length of the best ruler of n marks
  choose_dat,              \* the choose data, as ogr_init_choose() unpacks them
  Rulers,                  \* Rulers[n]: the Golomb rulers to be found among n marks
  Stubs,                   \* the work records a server may hand out
  Slices,                  \* node counts the client asks for
  MaxResets                \* bound: how often the core is exchanged

Level    == 0 .. OGR_STUB_MAX              \* OGR_MAXDEPTH = OGR_STUB_MAX + 1
Dist     == 1 .. OGRNG_BITMAPS_LENGTH
Results  == {"none", "CORE_S_CONTINUE", "CORE_S_OK", "CORE_S_SUCCESS",
             "CORE_E_STUB", "CORE_E_FORMAT"}

U16(x) == x % 65536

WorkStub == [marks : Nat, length : Nat, diffs : [1 .. OGR_STUB_MAX -> Nat],
             worklength : Nat, collapsed : Nat]

ASSUME SizeAssumption ==
  /\ OGR_NG_MIN \in Nat /\ OGR_NG_MAX \in Nat /\ OGR_STUB_MAX \in Nat
  /\ 3 < OGR_NG_MIN /\ OGR_NG_MIN <= OGR_NG_MAX /\ OGR_NG_MAX <= OGR_STUB_MAX
  /\ OGRNG_BITMAPS_LENGTH \in Nat /\ SCALAR_BITS \in Nat /\ CHOOSE_DIST_BITS \in Nat
  /\ 0 < CHOOSE_DIST_BITS /\ CHOOSE_DIST_BITS <= SCALAR_BITS
  /\ SCALAR_BITS <= OGRNG_BITMAPS_LENGTH
  /\ CHOOSE_MARKS \in Nat \ {0} /\ OGR_NG_MAX <= 2 * CHOOSE_MARKS
  /\ OGR_STUB_MAX < 65536 /\ MaxResets \in Nat

ASSUME DataAssumption ==
  /\ OGR \in [1 .. OGR_NG_MAX -> Nat]
  /\ \A n \in 1 .. OGR_NG_MAX : OGR[n] < 65536
  /\ choose_dat \in [SUBSET (1 .. CHOOSE_DIST_BITS) -> [0 .. CHOOSE_MARKS - 1 -> Nat]]

IsGolomb(r) ==
  \A a, b, c, d \in DOMAIN r : a < b /\ c < d /\ r[b] - r[a] = r[d] - r[c] => a = c

ASSUME RulerAssumption ==
  \A n \in OGR_NG_MIN .. OGR_NG_MAX : \A r \in Rulers[n] :
    /\ r \in [0 .. n - 1 -> 0 .. OGR[n]] /\ r[0] = 0
    /\ \A a, b \in 0 .. n - 1 : a < b => r[a] < r[b]
    /\ IsGolomb(r)

\* What the tables mean to the rulers: no proper part of one is shorter than the
\* best ruler of as many marks, or than the row of the distances it does without
\* says.  Nothing is said of the whole: it may be shorter than the best one known.
ASSUME LeastLengths ==
  \A n \in OGR_NG_MIN .. OGR_NG_MAX : \A r \in Rulers[n] : \A a, b \in 0 .. n - 1 :
    a <= b /\ b - a < n - 1 =>
      /\ OGR[b - a + 1] <= r[b] - r[a]
      /\ b - a < CHOOSE_MARKS =>
           \A D \in SUBSET (1 .. CHOOSE_DIST_BITS) :
             (\A c, d \in a .. b : r[d] - r[c] \notin D)
               => choose_dat[D][b - a] <= r[b] - r[a]

\* A server sends stubs nobody has worked on, shorter than a whole ruler.  The
\* last diff of a combined stub is the first of those it stands for.
ASSUME InputAssumption ==
  /\ Slices \subseteq Nat \ {0}
  /\ Stubs \subseteq WorkStub
  /\ \A w \in Stubs :
       /\ w.worklength <= w.length
       /\ w.marks \in OGR_NG_MIN .. OGR_NG_MAX =>
            /\ 0 < w.length /\ w.length < w.marks - 1
            /\ \A k \in 1 .. w.length : w.diffs[k] > 0
            /\ w.collapsed \in {0, w.diffs[w.length]}

VARIABLES
  received,    \* the work record as the server sent it (history)
  workstub,    \* contestwork.ogr_ng.workstub
  worked,      \* contestwork.ogr_ng.nodes # 0
  resets,      \* how often a newly installed core discarded the progress
  pc,          \* where the caller and the core are
  retval,      \* what ogr_cycle_entry() or ogr_create() returned
  maxdepth, startdepth, stopdepth, depth,         \* struct OgrState
  list, dist, comp, mark, limit,                  \* OgrState.Levels[]
  pos, newbit, nodes                              \* locals of ogr_cycle_256()

file   == <<received, workstub, worked, resets>>
bounds == <<maxdepth, startdepth, stopdepth>>
levels == <<list, dist, comp, mark, limit>>
vars   == <<file, pc, retval, bounds, depth, levels, pos, newbit, nodes>>

------------------------------------------------------------------------------
(* The limits of a mark's position.                                          *)

MinOf(a, b) == IF b < a THEN b ELSE a
MaxOf(a, b) == IF b > a THEN b ELSE a

\* The middle segment of a ruler of n marks: how many segments, and between
\* which marks.
MidSize(n) == 2 - ((n - 1) % 2)
MidLeft(n) == (n - 1 - MidSize(n)) \div 2

maxdepthm1  == maxdepth - 1
maxlen      == OGR[maxdepth]                   \* oState->max
half_depth  == MidLeft(maxdepth)
half_depth2 == half_depth + MidSize(maxdepth)

\* The n smallest distances that are not in D, and their sum, counted as the
\* number of pairs <<x, y>> with y \in 1..x.
FirstFree(n, D) ==
  {x \in (1 .. n + CHOOSE_DIST_BITS) \ D : Cardinality((1 .. x) \ D) <= n}
LeastSum(n, D) ==
  Cardinality({p \in FirstFree(n, D) \X (1 .. n + CHOOSE_DIST_BITS) : p[2] <= p[1]})

\* A lower bound of the length of n segments that measure no distance of D:
\* read from the choose data, or estimated from two shorter pieces.
min_length(n, D) ==
  IF n < CHOOSE_MARKS
  THEN choose_dat[D][n]
  ELSE MaxOf(MaxOf(choose_dat[D][CHOOSE_MARKS - 1]
                     + choose_dat[D][n - (CHOOSE_MARKS - 1)],
                   OGR[n + 1]),
             LeastSum(n, D))

\* cache_limits(n): the furthest position of mark d when D is measured already.
\* Up to the middle segment, only one of a ruler and its mirror image is kept.
CacheLimit(n, d, D) ==
  LET whole == OGR[n] - min_length(n - 1 - d, D)
      half  == (OGR[n] - 1 - min_length(MidSize(n), D)) \div 2
                 - min_length(MidLeft(n) - d, D)
  IN MaxOf(0, IF d <= MidLeft(n) THEN MinOf(whole, half) ELSE whole)

\* choose(dist0, depth): the table is indexed by the leftmost bits only.
choose(n, D, d) == CacheLimit(n, d, D \cap (1 .. CHOOSE_DIST_BITS))

FirstBlank(D) ==
  CHOOSE s \in 1 .. SCALAR_BITS + 1 : s \notin D /\ \A t \in 1 .. s - 1 : t \in D

\* Mutation: the last mark of the middle segment is moved to the left as well.
NextLimitTight(D, d, m) ==
  IF half_depth < d /\ d <= half_depth2
  THEN MinOf(choose(maxdepth, D, d),
             maxlen - 1 - m - FirstBlank(D \cap (1 .. SCALAR_BITS)))
  ELSE choose(maxdepth, D, d)

\* The limit of level d after a push, the middle segment included; m is the
\* position of the mark of level half_depth.
NextLimit(D, d, m) ==
  IF half_depth < d /\ d <= half_depth2
  THEN MinOf(choose(maxdepth, D, d),
             maxlen - 1 - m -
               (IF d < half_depth2 THEN FirstBlank(D \cap (1 .. SCALAR_BITS)) ELSE 0))
  ELSE choose(maxdepth, D, d)

------------------------------------------------------------------------------
(* The bitmaps.                                                              *)

\* A bitmap is an array of words; bit 1 of a word is its leftmost one.  No bit
\* is set in a word outside of the array.
Bit(b, i, o) == o \in 1 .. SCALAR_BITS /\ i * SCALAR_BITS + o \in b
WordOf(x)    == (x - 1) \div SCALAR_BITS
BitOf(x)     == ((x - 1) % SCALAR_BITS) + 1

\* Bit o of word i after shifts by whole words and the rest of s: it comes from
\* within a word, or is carried over from the next one in the shift's direction.
FromLeft(b, i, o, s) ==
  LET k == i - s \div SCALAR_BITS    r == s % SCALAR_BITS
  IN Bit(b, k, o - r) \/ Bit(b, k - 1, o - r + SCALAR_BITS)

\* Mutation: no bit is carried from one word to the other.
FromRightUncarried(b, i, o, s) ==
  Bit(b, i + s \div SCALAR_BITS, o + (s % SCALAR_BITS))

FromRight(b, i, o, s) ==
  LET k == i + s \div SCALAR_BITS    r == s % SCALAR_BITS
  IN Bit(b, k, o + r) \/ Bit(b, k + 1, o + r - SCALAR_BITS)

\* COMP_LEFT_LIST_RIGHT(lev, s): the trial position moves s to the right; newbit
\* is the last bit of a word before LIST.
ShiftList(s) ==
  LET b == list[depth] \cup (IF newbit THEN {0} ELSE {})
  IN {x \in Dist : FromLeft(b, WordOf(x), BitOf(x), s)}

ShiftComp(s) == {x \in Dist : FromRight(comp[depth], WordOf(x), BitOf(x), s)}

\* Place the mark of the current level s further to the right and push:
\* PUSH_LEVEL_UPDATE_STATE(lev), ++lev, ++depth, and the limit of the new level.
PushAt(s, m) ==
  LET l == ShiftList(s)
      c == ShiftComp(s)
      d == dist[depth] \cup l
  IN /\ list'  = [list EXCEPT ![depth] = l, ![depth + 1] = l]
     /\ comp'  = [comp EXCEPT ![depth] = c, ![depth + 1] = c \cup d]
     /\ dist'  = [dist EXCEPT ![depth + 1] = d]
     /\ limit' = [limit EXCEPT ![depth + 1] =
                    NextLimit(d, depth + 1,
                              IF half_depth = depth THEN m ELSE mark[half_depth])]
     /\ depth' = depth + 1
     /\ pos' = m
     /\ newbit' = TRUE

------------------------------------------------------------------------------
(* Loading a packet: LoadState() and ogr_create().                           *)

NoLevel(e) == [d \in Level |-> e]

Init ==
  /\ received \in Stubs /\ workstub = received
  /\ worked = FALSE /\ resets = 0
  /\ pc = "stored" /\ retval = "none"
  /\ maxdepth = OGR_NG_MIN /\ startdepth = 0 /\ stopdepth = 0 /\ depth = 0
  /\ list = NoLevel({}) /\ dist = NoLevel({}) /\ comp = NoLevel({})
  /\ mark = NoLevel(0) /\ limit = NoLevel(0)
  /\ pos = 0 /\ newbit = FALSE /\ nodes = 0

\* Progress made by another core, cpu, os or build is dropped, and the last
\* diff of a combined stub is put back.
ResetStub(w) ==
  [w EXCEPT !.worklength = w.length,
            !.diffs = IF w.collapsed # 0 THEN [@ EXCEPT ![w.length] = w.collapsed] ELSE @]

\* The number of diffs ogr_create() replays.
ReplayLength(w) == MaxOf(w.worklength, w.length)

BeginCreate(w) ==
  /\ workstub' = w
  /\ IF w.marks \notin OGR_NG_MIN .. OGR_NG_MAX \/ ReplayLength(w) >= OGR_STUB_MAX
     THEN /\ pc' = "done" /\ retval' = "CORE_E_FORMAT"
          /\ UNCHANGED <<bounds, depth, levels, pos, newbit>>
     ELSE /\ pc' = "create" /\ retval' = "none"
          /\ maxdepth' = w.marks /\ depth' = 1
          /\ startdepth' = w.length
          /\ stopdepth' = IF w.collapsed # 0 THEN w.length - 1 ELSE w.length
          /\ list' = NoLevel({}) /\ dist' = NoLevel({}) /\ comp' = NoLevel({})
          /\ mark' = NoLevel(0)
          /\ limit' = [NoLevel(0) EXCEPT ![1] = choose(w.marks, {}, 1)]
          /\ pos' = 0 /\ newbit' = TRUE
  /\ UNCHANGED <<received, nodes>>

Load ==
  /\ pc = "stored"
  /\ BeginCreate(workstub)
  /\ UNCHANGED <<worked, resets>>

LoadReset ==
  /\ pc = "stored" /\ worked /\ resets < MaxResets
  /\ BeginCreate(ResetStub(workstub))
  /\ worked' = FALSE /\ resets' = resets + 1

\* Mutation: the limit itself is taken for too far.
BadDiffAtLimit(s) == pos + s >= limit[depth] \/ s \in comp[depth]

\* One round of the replay loop.  Whole words and the rest of a diff are
\* shifted in turn; the bit looked at is the one of the new position.
BadDiff(s) == pos + s > limit[depth] \/ s \in comp[depth]

Replay ==
  LET s == workstub.diffs[depth]
  IN /\ pc = "create" /\ depth <= ReplayLength(workstub)
     /\ ~BadDiff(s)
     /\ PushAt(s, pos + s)
     /\ mark' = [mark EXCEPT ![depth] = pos + s, ![depth + 1] = pos + s]
     /\ UNCHANGED <<file, pc, retval, bounds, nodes>>

ReplayError ==
  /\ pc = "create" /\ depth <= ReplayLength(workstub)
  /\ BadDiff(workstub.diffs[depth])
  /\ pc' = "done" /\ retval' = "CORE_E_STUB"
  /\ UNCHANGED <<file, bounds, depth, levels, pos, newbit, nodes>>

Created ==
  /\ pc = "create" /\ depth > ReplayLength(workstub)
  /\ depth' = depth - 1
  /\ pc' = "ready" /\ retval' = "CORE_S_CONTINUE"
  /\ UNCHANGED <<file, bounds, levels, pos, newbit, nodes>>

------------------------------------------------------------------------------
(* The search: ogr_cycle_entry() and ogr_cycle_256().                        *)

\* SETUP_TOP_STATE and the top of the outer loop, for level d.
EnterLevel(d) ==
  /\ depth' = d
  /\ pos' = mark[d]
  /\ newbit' = (d < maxdepthm1)
  /\ pc' = "cycle"

Enter(n) ==
  /\ pc = "ready"
  /\ EnterLevel(depth + 1)
  /\ nodes' = n
  /\ UNCHANGED <<file, retval, bounds, levels>>

comp0 == comp[depth] \cap (1 .. SCALAR_BITS)
full0 == comp0 = 1 .. SCALAR_BITS
blank == FirstBlank(comp0)

\* The last mark fits: leave the loop with the ruler.
Complete ==
  /\ pc = "cycle" /\ ~full0 /\ pos + blank <= limit[depth]
  /\ depth = maxdepthm1
  /\ list' = [list EXCEPT ![depth] = ShiftList(blank)]
  /\ comp' = [comp EXCEPT ![depth] = ShiftComp(blank)]
  /\ mark' = [mark EXCEPT ![depth] = pos + blank]
  /\ pos' = pos + blank /\ newbit' = FALSE
  /\ pc' = "exit"
  /\ UNCHANGED <<file, retval, bounds, depth, dist, limit, nodes>>

\* Another mark fits: push, and stop when the nodes are used up.
Place ==
  /\ pc = "cycle" /\ ~full0 /\ pos + blank <= limit[depth]
  /\ depth # maxdepthm1
  /\ PushAt(blank, pos + blank)
  /\ nodes' = nodes - 1
  /\ IF nodes' <= 0
     THEN mark' = [mark EXCEPT ![depth] = pos + blank, ![depth + 1] = pos + blank]
          /\ pc' = "exit"
     ELSE mark' = [mark EXCEPT ![depth] = pos + blank] /\ UNCHANGED pc
  /\ UNCHANGED <<file, retval, bounds>>

\* No free position within the first word: shift by a word, place nothing.
SkipWord ==
  /\ pc = "cycle" /\ full0 /\ pos + SCALAR_BITS <= limit[depth]
  /\ list' = [list EXCEPT ![depth] = ShiftList(SCALAR_BITS)]
  /\ comp' = [comp EXCEPT ![depth] = ShiftComp(SCALAR_BITS)]
  /\ pos' = pos + SCALAR_BITS /\ newbit' = FALSE
  /\ UNCHANGED <<file, pc, retval, bounds, depth, dist, mark, limit, nodes>>

\* The limit is passed: POP_LEVEL, and on with the mark of the level below.
Back ==
  /\ pc = "cycle"
  /\ pos + (IF full0 THEN SCALAR_BITS ELSE blank) > limit[depth]
  /\ depth' = depth - 1
  /\ pos' = mark[depth - 1] /\ newbit' = FALSE
  /\ pc' = IF depth - 1 > stopdepth THEN "cycle" ELSE "exit"
  /\ UNCHANGED <<file, retval, bounds, levels, nodes>>

\* found_one(): distances longer than the bitmaps and up to half the ruler
\* (Principle #1) must differ.
found_one ==
  \A a, b, c, d \in 0 .. maxdepthm1 :
    LET diff == mark[b] - mark[a]
    IN /\ a < b /\ c < d /\ mark[d] - mark[c] = diff
       /\ diff > OGRNG_BITMAPS_LENGTH /\ diff + diff <= maxlen
       => a = c

\* Mutation: the bitmaps are taken to be twice as long.
RejectedLate == mark[depth] > 4 * OGRNG_BITMAPS_LENGTH /\ ~found_one

RulerFound == depth = maxdepthm1 /\ nodes # 0
Rejected   == mark[depth] > 2 * OGRNG_BITMAPS_LENGTH /\ ~found_one

\* Mutation: the depth is compared before it is decremented.
getresultAbove(d) ==
  LET diffs == [k \in 1 .. OGR_STUB_MAX |-> U16(mark[k] - mark[k - 1])]
  IN [workstub EXCEPT
        !.worklength = MinOf(U16(d), OGR_STUB_MAX),
        !.diffs = IF d + 1 < stopdepth /\ workstub.collapsed > 0
                  THEN [diffs EXCEPT ![startdepth] = workstub.collapsed]
                  ELSE diffs]

\* Mutation: one diff less is reported than was placed.
getresultShort(d) ==
  LET diffs == [k \in 1 .. OGR_STUB_MAX |-> U16(mark[k] - mark[k - 1])]
  IN [workstub EXCEPT
        !.worklength = MinOf(U16(d - 1), OGR_STUB_MAX),
        !.diffs = IF d < stopdepth /\ workstub.collapsed > 0
                  THEN [diffs EXCEPT ![startdepth] = workstub.collapsed]
                  ELSE diffs]

\* ogr_getresult(): the marks become diffs again; when the search is over, the
\* last diff of a combined stub is put back.  d is oState->depth at the call.
getresult(d) ==
  LET diffs == [k \in 1 .. OGR_STUB_MAX |-> U16(mark[k] - mark[k - 1])]
  IN [workstub EXCEPT
        !.worklength = MinOf(U16(d), OGR_STUB_MAX),
        !.diffs = IF d < stopdepth /\ workstub.collapsed > 0
                  THEN [diffs EXCEPT ![startdepth] = workstub.collapsed]
                  ELSE diffs]

\* The ruler is not Golomb after all: go on at the same level.
Continue ==
  /\ pc = "exit" /\ RulerFound /\ Rejected
  /\ EnterLevel(depth)
  /\ UNCHANGED <<file, retval, bounds, levels, nodes>>

Finish(r, d) ==
  /\ depth' = d
  /\ retval' = r /\ pc' = "done"
  /\ workstub' = getresult(d)
  /\ UNCHANGED <<received, worked, resets, bounds, levels, pos, newbit, nodes>>

\* CORE_S_SUCCESS: Run_OGR_NG() fetches the result at once.
Success ==
  /\ pc = "exit" /\ RulerFound /\ ~Rejected
  /\ Finish("CORE_S_SUCCESS", stopdepth - 1)

\* CORE_S_OK: the stub holds nothing; RetrieveState() fetches the record.
Exhausted ==
  /\ pc = "exit" /\ ~RulerFound /\ depth <= stopdepth
  /\ Finish("CORE_S_OK", depth - 1)

\* CORE_S_CONTINUE: the slice is used up.
SliceDone ==
  /\ pc = "exit" /\ ~RulerFound /\ depth > stopdepth
  /\ depth' = depth - 1
  /\ retval' = "CORE_S_CONTINUE" /\ pc' = "ready" /\ worked' = TRUE
  /\ UNCHANGED <<received, workstub, resets, bounds, levels, pos, newbit, nodes>>

\* ProblemRetrieveState() with purge between two slices: the packet goes back
\* into a buffer file, and a later Load resumes it.
Retrieve ==
  /\ pc = "ready"
  /\ workstub' = getresult(depth)
  /\ pc' = "stored"
  /\ UNCHANGED <<received, worked, resets, retval, bounds, depth, levels, pos, newbit, nodes>>

Over == pc = "done" /\ UNCHANGED vars

Cycle == Complete \/ Place \/ SkipWord \/ Back \/ Continue \/ Success \/ Exhausted \/ SliceDone
Run   == \E n \in Slices : Enter(n)

Next ==
  \/ Load \/ LoadReset \/ Replay \/ ReplayError \/ Created
  \/ Run \/ Cycle \/ Retrieve \/ Over

Fairness ==
  /\ WF_vars(Load \/ Replay \/ ReplayError \/ Created)
  /\ WF_vars(Cycle)
  /\ SF_vars(Run)

Spec == Init /\ [][Next]_vars /\ Fairness

------------------------------------------------------------------------------
(* Properties                                                                *)

TypeOK ==
  /\ received \in Stubs /\ workstub \in WorkStub
  /\ worked \in BOOLEAN /\ resets \in 0 .. MaxResets
  /\ pc \in {"stored", "create", "ready", "cycle", "exit", "done"}
  /\ retval \in Results
  /\ maxdepth \in OGR_NG_MIN .. OGR_NG_MAX
  /\ startdepth \in Level /\ stopdepth \in Level /\ depth \in -1 .. OGR_STUB_MAX
  /\ list \in [Level -> SUBSET Dist] /\ dist \in [Level -> SUBSET Dist]
  /\ comp \in [Level -> SUBSET Dist]
  /\ mark \in [Level -> Nat] /\ limit \in [Level -> Int]
  /\ pos \in Nat /\ newbit \in BOOLEAN /\ nodes \in Nat

\* The level the core works on, the marks placed before it, and the position
\* from which a level's bitmaps are counted.
Top      == IF pc = "ready" THEN depth + 1 ELSE depth
At(k)    == IF k = Top THEN pos ELSE mark[k]
Running  == pc \in {"create", "ready", "cycle", "exit"}

\* The distances that the first k marks measure, as far as a bitmap reaches.
Measured(k) ==
  {n \in Dist : \E j \in 0 .. k - 1 : \E i \in 0 .. j - 1 : n = mark[j] - mark[i]}

\* After any number of shifts, pushes, pops, slices and resumes, the DIST
\* bitmap of every level is the set of distances its marks measure, and its
\* COMP bitmap is the set of positions where a mark would repeat one of them:
\* none is forbidden that is free, and none is free that is forbidden.
BitmapsExact ==
  Running => \A k \in 1 .. Top :
    LET m == Measured(k)
    IN /\ dist[k] = m
       /\ comp[k] = {x \in Dist : \E i \in 0 .. k - 1 : At(k) + x - mark[i] \in m}

\* A ruler reported as found is Golomb and not longer than the best one known,
\* although the bitmaps and found_one() together leave out every distance
\* longer than half of it.
FoundIsGolomb ==
  retval = "CORE_S_SUCCESS" =>
    /\ IsGolomb([k \in 0 .. maxdepthm1 |-> mark[k]])
    /\ mark[maxdepthm1] <= maxlen

\* Only a record as the server sent it is ever refused: one the client wrote
\* back at any point of the search is replayed without an error.
SavedStateLoads == retval \in {"CORE_E_STUB", "CORE_E_FORMAT"} => workstub = received

\* The record of a stub that held nothing names the stub the server sent, the
\* last diff of a combined stub included.
StubRestored ==
  retval = "CORE_S_OK" =>
    /\ workstub.marks = received.marks /\ workstub.length = received.length
    /\ workstub.collapsed = received.collapsed
    /\ \A k \in 1 .. received.length : workstub.diffs[k] = received.diffs[k]

\* The rulers a stub stands for: the marks start with the stub's diffs (a combined
\* stub's last one may be longer), and of the two mirror images the one is meant
\* whose middle segment is further to the left.
StandsFor(w, r) ==
  /\ \A k \in 1 .. w.length - 1 : r[k] - r[k - 1] = w.diffs[k]
  /\ LET last == r[w.length] - r[w.length - 1]
     IN IF w.collapsed = 0 THEN last = w.diffs[w.length] ELSE last >= w.collapsed
  /\ r[MidLeft(w.marks)] < r[w.marks - 1] - r[MidLeft(w.marks) + MidSize(w.marks)]

\* A stub reported as empty holds no ruler: no limit, no mirror rule, no slice
\* boundary and no resume ever skips one.
NothingMissed ==
  retval = "CORE_S_OK" => \A r \in Rulers[received.marks] : ~StandsFor(received, r)

\* "If cycle returns CORE_S_SUCCESS, call getresult to get the successful
\* result" (ogr-interface.h:92): the diffs of the record are the ruler found.
SuccessIsReported ==
  retval = "CORE_S_SUCCESS" =>
    \A k \in 1 .. maxdepthm1 : workstub.diffs[k] = mark[k] - mark[k - 1]

\* Every stub is searched to its end, in slices of any length, although the
\* packet may be written back and resumed between any two of them.
SearchEnds == <>(pc = "done")
==============================================================================
