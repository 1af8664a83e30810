-------------------------- MODULE OgrSearchProofs ---------------------------
(* Any number of marks, any length and width of the bitmaps and any table of  *)
(* limits: after any number of shifts, pushes, pops, slices and resumes the    *)
(* bitmaps are exact (BitmapsExact), a ruler reported is Golomb                *)
(* (FoundIsGolomb), a record written back at any point replays without an      *)
(* error (SavedStateLoads), that of a stub that held nothing names the stub    *)
(* the server sent (StubRestored), and no ruler the stub holds was passed      *)
(* (NothingMissed).                                                            *)
EXTENDS OgrSearch, FiniteSetTheorems, WellFoundedInduction, TLAPS

-----------------------------------------------------------------------------
(* What the bitmaps and limits of a ruler are meant to be.                   *)

\* The distances that the first k marks of m measure, the positions a bitmap
\* that is counted from p holds of the marks before, and those at which a mark
\* would measure one of the distances again.
MeasuredIn(m, k) ==
  {x \in Dist : \E j \in 0 .. k - 1 : \E i \in 0 .. j - 1 : x = m[j] - m[i]}
ListOf(m, p, k) == {x \in Dist : \E i \in 0 .. k - 1 : p - m[i] = x}
CompOf(m, p, k) == {x \in Dist : \E i \in 0 .. k - 1 : p + x - m[i] \in MeasuredIn(m, k)}

\* NextLimit of a ruler of n marks, and the limit of mark k of the marks m.
LimitAt(n, D, d, q) ==
  IF MidLeft(n) < d /\ d <= MidLeft(n) + MidSize(n)
  THEN MinOf(choose(n, D, d),
             OGR[n] - 1 - q -
               (IF d < MidLeft(n) + MidSize(n) THEN FirstBlank(D \cap (1 .. SCALAR_BITS)) ELSE 0))
  ELSE choose(n, D, d)
LimitIn(n, m, k) == LimitAt(n, MeasuredIn(m, k), k, m[MidLeft(n)])

\* The first t + 1 marks of m are those of a ruler the core may come to: each is
\* within its limit and repeats no distance that the bitmaps hold.
Fits(n, m, k) ==
  /\ m[k] <= LimitIn(n, m, k)
  /\ \A i \in 0 .. k - 1 : m[i] < m[k] /\ m[k] - m[i] \notin MeasuredIn(m, k)
Ruler(n, m, t) == m[0] = 0 /\ \A k \in 1 .. t : Fits(n, m, k)

\* What the levels up to t hold when the last of them is at position p.
Where(m, p, t, k) == IF k = t THEN p ELSE m[k]
Exact(n, m, p, t, ls, ds, cs, lim) ==
  /\ Ruler(n, m, t - 1)
  /\ \A i \in 0 .. t - 1 : m[i] <= p
  /\ \A k \in 1 .. t :
       /\ ds[k] = MeasuredIn(m, k) /\ lim[k] = LimitIn(n, m, k)
       /\ cs[k] = CompOf(m, Where(m, p, t, k), k)
       /\ k < n - 1 => ls[k] = ListOf(m, Where(m, p, t, k), k)

\* The two kinds of bitmaps, shifted by s.
ShiftUp(S, s, e) == ({x + s : x \in S} \cup e) \cap Dist
ShiftDown(S, s)  == {x \in Dist : x + s \in S}

\* What is shifted into the list for mark k - 1: s if it was placed just now,
\* nothing if the position moved on since.
ShiftsIn(m, p, k, s, e) ==
  \/ e = {s} /\ p = m[k - 1]
  \/ e = {} /\ \A i \in 0 .. k - 1 : m[i] < p

MayShift(n, m, p, t, s, e) == t < n - 1 => ShiftsIn(m, p, t, s, e)

\* The position of level t moves s further on.
Moved(t, s, e, ls, cs, ls2, cs2) ==
  /\ ls2 = [ls EXCEPT ![t] = ShiftUp(ls[t], s, e)]
  /\ cs2 = [cs EXCEPT ![t] = ShiftDown(cs[t], s)]
KeepsMarks(m, r, t) == \A i \in 0 .. t - 1 : r[i] = m[i]

Marks == [Level -> Nat]
Levels(ls, ds, cs, lim) ==
  /\ ls \in [Level -> SUBSET Dist] /\ ds \in [Level -> SUBSET Dist]
  /\ cs \in [Level -> SUBSET Dist] /\ lim \in [Level -> Int]

\* PushAt: the mark of level t is placed s further on and a level is pushed.
Pushed(n, m, p, t, s, e, ls, ds, cs, lim, ls2, ds2, cs2, lim2) ==
  LET l == ShiftUp(ls[t], s, e)
      c == ShiftDown(cs[t], s)
      d == ds[t] \cup l
      q == IF MidLeft(n) = t THEN p + s ELSE m[MidLeft(n)]
  IN /\ ls2 = [ls EXCEPT ![t] = l, ![t + 1] = l]
     /\ ds2 = [ds EXCEPT ![t + 1] = d]
     /\ cs2 = [cs EXCEPT ![t] = c, ![t + 1] = c \cup d]
     /\ lim2 = [lim EXCEPT ![t + 1] = LimitAt(n, d, t + 1, q)]
MovedTo(m, r, t, p) == r[t] = p /\ \A i \in 0 .. t - 1 : r[i] = m[i]

------------------------------------------------------------------------------

\* A set of numbers that is not empty has a least one.
LEMMA LeastNumber ==
  ASSUME NEW S \in SUBSET Nat, S # {}
  PROVE  \E x \in S : \A y \in S : x <= y
<1>1. PICK x \in S : \A y \in S : <<y, x>> \notin OpToRel(<, Nat)
  BY Zenon, NatLessThanWellFounded, WFMin
<1>2. \A y \in S : ~(y < x)
  BY <1>1, Zenon DEF OpToRel
<1> QED BY <1>2

\* The best lengths known, entry by entry.
LEMMA Lengths ==
  ASSUME NEW n \in 1 .. OGR_NG_MAX
  PROVE  OGR[n] \in Nat /\ OGR[n] < 65536
  BY DataAssumption

\* The choose data, entry by entry.
LEMMA ChooseData ==
  ASSUME NEW D \in SUBSET (1 .. CHOOSE_DIST_BITS), NEW n \in 0 .. CHOOSE_MARKS - 1
  PROVE  choose_dat[D][n] \in Nat
<1> DEFINE S == SUBSET (1 .. CHOOSE_DIST_BITS)
           T == [0 .. CHOOSE_MARKS - 1 -> Nat]
<1>1. choose_dat \in [S -> T] /\ D \in S
  BY DataAssumption
<1>2. choose_dat[D] \in T
  <2> HIDE DEF S, T
  <2> QED BY <1>1
<1> QED BY <1>2

\* The first blank bit of a word is free, and within the word unless that is full.
LEMMA FirstBlankIs ==
  ASSUME NEW D \in SUBSET (1 .. SCALAR_BITS)
  PROVE  /\ FirstBlank(D) \in 1 .. SCALAR_BITS + 1
         /\ FirstBlank(D) \notin D
         /\ D # 1 .. SCALAR_BITS => FirstBlank(D) \in 1 .. SCALAR_BITS
         /\ \A t \in 1 .. FirstBlank(D) - 1 : t \in D
<1> DEFINE S == (1 .. SCALAR_BITS + 1) \ D
<1>1. S \in SUBSET Nat /\ SCALAR_BITS + 1 \in S
  BY SizeAssumption
<1>2. PICK s \in S : \A y \in S : s <= y
  BY <1>1, LeastNumber
<1>3. s \in 1 .. SCALAR_BITS + 1 /\ s \notin D /\ \A t \in 1 .. s - 1 : t \in D
  BY <1>2, SizeAssumption
<1>4. /\ FirstBlank(D) \in 1 .. SCALAR_BITS + 1
      /\ FirstBlank(D) \notin D
      /\ \A t \in 1 .. FirstBlank(D) - 1 : t \in D
  BY <1>3 DEF FirstBlank
<1>5. ASSUME FirstBlank(D) = SCALAR_BITS + 1 PROVE D = 1 .. SCALAR_BITS
  <2>1. \A t \in 1 .. SCALAR_BITS : t \in D
    BY <1>4, <1>5, SizeAssumption
  <2> QED BY <2>1
<1> QED BY <1>4, <1>5, SizeAssumption

\* The middle segment lies between two marks of the ruler, not at its ends.
LEMMA Middle ==
  ASSUME NEW n \in OGR_NG_MIN .. OGR_NG_MAX
  PROVE  /\ MidSize(n) \in 1 .. 2 /\ MidLeft(n) \in 1 .. n - 2
         /\ MidLeft(n) \in Level
  BY SizeAssumption DEF MidSize, MidLeft, Level

\* The least sum of distances is a number.
LEMMA LeastSumNat ==
  ASSUME NEW n \in Nat, NEW D \in SUBSET (1 .. CHOOSE_DIST_BITS)
  PROVE  LeastSum(n, D) \in Nat
<1> DEFINE I == 1 .. n + CHOOSE_DIST_BITS
<1>1. IsFiniteSet(I)
  BY FS_Interval, SizeAssumption
<1>2. IsFiniteSet(I \X I)
  BY <1>1, FS_Product
<1>3. {p \in FirstFree(n, D) \X I : p[2] <= p[1]} \in SUBSET (I \X I)
  BY DEF FirstFree
<1>4. IsFiniteSet({p \in FirstFree(n, D) \X I : p[2] <= p[1]})
  BY <1>2, <1>3, FS_Subset
<1> QED BY <1>4, FS_CardinalityType DEF LeastSum

\* min_length() is a number, also where it estimates.
LEMMA MinLengthNat ==
  ASSUME NEW n \in 0 .. OGR_NG_MAX - 2, NEW D \in SUBSET (1 .. CHOOSE_DIST_BITS)
  PROVE  min_length(n, D) \in Nat
<1>1. CASE n < CHOOSE_MARKS
  <2>1. n \in 0 .. CHOOSE_MARKS - 1
    BY <1>1, SizeAssumption
  <2> QED BY <1>1, <2>1, ChooseData DEF min_length
<1>2. CASE n >= CHOOSE_MARKS
  <2>1. /\ choose_dat[D][CHOOSE_MARKS - 1] \in Nat
        /\ choose_dat[D][n - (CHOOSE_MARKS - 1)] \in Nat
    BY <1>2, ChooseData, SizeAssumption
  <2>2. OGR[n + 1] \in Nat
    BY Lengths, SizeAssumption
  <2>3. LeastSum(n, D) \in Nat
    BY LeastSumNat, SizeAssumption
  <2> QED BY <1>2, <2>1, <2>2, <2>3, SizeAssumption DEF min_length, MaxOf
<1> QED BY <1>1, <1>2, SizeAssumption

\* choose() is a position within the best ruler known.
LEMMA ChooseRange ==
  ASSUME NEW n \in OGR_NG_MIN .. OGR_NG_MAX, NEW D, NEW d \in 1 .. n - 1
  PROVE  choose(n, D, d) \in 0 .. OGR[n] /\ OGR[n] \in Nat /\ OGR[n] < 65536
<1> DEFINE E == D \cap (1 .. CHOOSE_DIST_BITS)
<1>0. OGR[n] \in Nat /\ OGR[n] < 65536
  BY Lengths, SizeAssumption
<1>1. min_length(n - 1 - d, E) \in Nat
  BY MinLengthNat, SizeAssumption
<1>2. MidSize(n) \in 0 .. OGR_NG_MAX - 2 /\ MidLeft(n) \in 1 .. n - 2
  BY Middle, SizeAssumption
<1>3. min_length(MidSize(n), E) \in Nat
  BY <1>2, MinLengthNat
<1>4. ASSUME d <= MidLeft(n) PROVE min_length(MidLeft(n) - d, E) \in Nat
  BY <1>2, <1>4, MinLengthNat, SizeAssumption
<1> DEFINE whole == OGR[n] - min_length(n - 1 - d, E)
           half  == (OGR[n] - 1 - min_length(MidSize(n), E)) \div 2
                      - min_length(MidLeft(n) - d, E)
<1>5. whole \in Int /\ whole <= OGR[n]
  BY <1>0, <1>1
<1>6. d <= MidLeft(n) => half \in Int
  BY <1>0, <1>3, <1>4
<1>7. CacheLimit(n, d, E) = MaxOf(0, IF d <= MidLeft(n) THEN MinOf(whole, half) ELSE whole)
  BY DEF CacheLimit
<1> HIDE DEF whole, half
<1>8. CacheLimit(n, d, E) \in 0 .. OGR[n]
  BY <1>0, <1>2, <1>5, <1>6, <1>7 DEF MinOf, MaxOf
<1> QED BY <1>0, <1>8 DEF choose

\* A limit is a number, and within the best length known.
LEMMA LimitRange ==
  ASSUME NEW n \in OGR_NG_MIN .. OGR_NG_MAX, NEW D, NEW d \in 1 .. n - 1, NEW q \in Nat
  PROVE  LimitAt(n, D, d, q) \in Int /\ LimitAt(n, D, d, q) <= OGR[n]
<1>1. choose(n, D, d) \in 0 .. OGR[n] /\ OGR[n] \in Nat /\ OGR[n] < 65536
  BY ChooseRange
<1>2. FirstBlank(D \cap (1 .. SCALAR_BITS)) \in Nat
  BY FirstBlankIs, SizeAssumption
<1> QED BY <1>1, <1>2 DEF LimitAt, MinOf

\* The limits of the core are those of its number of marks.
LEMMA NextLimitIs ==
  ASSUME NEW D, NEW d, NEW q
  PROVE  NextLimit(D, d, q) = LimitAt(maxdepth, D, d, q)
  BY DEF NextLimit, LimitAt, half_depth, half_depth2, maxlen

------------------------------------------------------------------------------

\* What the marks up to k decide does not depend on those after.
LEMMA Agree ==
  ASSUME NEW n \in OGR_NG_MIN .. OGR_NG_MAX, NEW k \in 1 .. n - 1,
         NEW m \in Marks, NEW r \in Marks, \A i \in 0 .. k - 1 : m[i] = r[i]
  PROVE  /\ MeasuredIn(m, k) = MeasuredIn(r, k)
         /\ LimitIn(n, m, k) = LimitIn(n, r, k)
         /\ \A p : ListOf(m, p, k) = ListOf(r, p, k) /\ CompOf(m, p, k) = CompOf(r, p, k)
         /\ m[k] = r[k] => Fits(n, m, k) = Fits(n, r, k)
<1>0. k \in Nat /\ n \in Nat
  BY SizeAssumption
<1>1. MeasuredIn(m, k) = MeasuredIn(r, k)
  BY <1>0 DEF MeasuredIn
<1>2. LimitIn(n, m, k) = LimitIn(n, r, k)
  <2>1. MidLeft(n) \in 1 .. n - 2
    BY Middle
  <2>2. CASE MidLeft(n) < k
    BY <1>0, <1>1, <2>1, <2>2 DEF LimitIn
  <2>3. CASE ~(MidLeft(n) < k)
    BY <1>1, <2>3 DEF LimitIn, LimitAt
  <2> QED BY <2>2, <2>3
<1>3. \A p : ListOf(m, p, k) = ListOf(r, p, k) /\ CompOf(m, p, k) = CompOf(r, p, k)
  BY <1>1 DEF ListOf, CompOf
<1>4. ASSUME m[k] = r[k] PROVE Fits(n, m, k) = Fits(n, r, k)
  BY <1>1, <1>2, <1>4 DEF Fits
<1> QED BY <1>1, <1>2, <1>3, <1>4

\* A ruler remains one when the marks after it change.
LEMMA RulerAgrees ==
  ASSUME NEW n \in OGR_NG_MIN .. OGR_NG_MAX, NEW t \in -1 .. n - 1,
         NEW m \in Marks, NEW r \in Marks, \A i \in 0 .. t : m[i] = r[i],
         m[0] = r[0], Ruler(n, m, t)
  PROVE  Ruler(n, r, t)
<1>1. ASSUME NEW k \in 1 .. t PROVE Fits(n, r, k)
  <2>1. k \in 1 .. n - 1 /\ m[k] = r[k] /\ \A i \in 0 .. k - 1 : m[i] = r[i]
    BY SizeAssumption
  <2>2. Fits(n, m, k)
    BY DEF Ruler
  <2> QED BY <2>1, <2>2, Agree
<1> QED BY <1>1 DEF Ruler

\* The marks of a ruler grow and stay within the best length known.
LEMMA Growing ==
  ASSUME NEW n \in OGR_NG_MIN .. OGR_NG_MAX, NEW t \in -1 .. n - 1,
         NEW m \in Marks, Ruler(n, m, t)
  PROVE  /\ \A k \in 0 .. t : \A i \in 0 .. k - 1 : m[i] < m[k]
         /\ \A k \in 0 .. t : m[k] \in 0 .. OGR[n]
<1>0. n \in Nat /\ OGR[n] \in Nat /\ OGR[n] < 65536
  BY Lengths, SizeAssumption
<1>1. ASSUME NEW k \in 1 .. t PROVE (\A i \in 0 .. k - 1 : m[i] < m[k]) /\ m[k] \in 0 .. OGR[n]
  <2>1. Fits(n, m, k)
    BY DEF Ruler
  <2>2. MidLeft(n) \in Level /\ k \in Level
    BY Middle, SizeAssumption DEF Level
  <2>3. m[k] \in Nat /\ m[MidLeft(n)] \in Nat
    BY <2>2 DEF Marks
  <2>4. LimitIn(n, m, k) \in Int /\ LimitIn(n, m, k) <= OGR[n]
    BY <1>0, <2>3, LimitRange DEF LimitIn
  <2> QED BY <1>0, <2>1, <2>3, <2>4 DEF Fits
<1>2. m[0] = 0
  BY DEF Ruler
<1> QED BY <1>0, <1>1, <1>2

-----------------------------------------------------------------------------
(* The bitmaps under shifts.                                                 *)

\* Marks are numbers, and levels are enough for all of them.
LEMMA MarkNat ==
  ASSUME NEW n \in OGR_NG_MIN .. OGR_NG_MAX, NEW m \in Marks
  PROVE  /\ n \in Nat /\ 3 < n /\ n <= OGR_STUB_MAX
         /\ \A i \in 0 .. n : i \in Level /\ m[i] \in Nat
  BY SizeAssumption DEF Marks, Level

\* Where a bit is, and where the shift by s takes it from: whole words and bits
\* within a word add up.
LEMMA InWords ==
  ASSUME NEW x \in Int, NEW w \in Nat \ {0}
  PROVE  x \div w \in Int /\ x % w \in 0 .. w - 1 /\ x = (x \div w) * w + (x % w)
  OBVIOUS

LEMMA AddWords ==
  ASSUME NEW w \in Nat, NEW i \in Int, NEW o \in Int, NEW k \in Int, NEW r \in Int
  PROVE  /\ (i - k) * w + (o - r) = (i * w + o) - (k * w + r)
         /\ (i - k - 1) * w + (o - r + w) = (i * w + o) - (k * w + r)
         /\ (i + k) * w + (o + r) = (i * w + o) + (k * w + r)
         /\ (i + k + 1) * w + (o + r - w) = (i * w + o) + (k * w + r)
  OBVIOUS

\* No bit is lost and none is invented at a word's edge: of the two words that bit x
\* of a shifted bitmap may come from, exactly one has the place x - s or x + s.
LEMMA ShiftedWords ==
  ASSUME NEW b, NEW x \in Dist, NEW s \in Nat
  PROVE  /\ FromLeft(b, WordOf(x), BitOf(x), s) <=> x - s \in b
         /\ FromRight(b, WordOf(x), BitOf(x), s) <=> x + s \in b
<1> DEFINE w == SCALAR_BITS
           i == WordOf(x)
           o == BitOf(x)
           k == s \div w
           r == s % w
<1>1. w \in Nat \ {0} /\ x \in Int /\ s \in Int
  BY SizeAssumption DEF Dist
<1>2. i \in Int /\ o \in 1 .. w /\ x = i * w + o
  <2> DEFINE y == x - 1
  <2>1. y \in Int /\ x = y + 1
    BY <1>1
  <2> HIDE DEF y, w
  <2>2. y \div w \in Int /\ y % w \in 0 .. w - 1 /\ y = (y \div w) * w + (y % w)
    BY <1>1, <2>1, InWords
  <2>3. i = y \div w /\ o = (y % w) + 1
    BY DEF WordOf, BitOf, y, w
  <2>4. (y \div w) * w \in Int
    BY <1>1, <2>2
  <2> HIDE DEF i, o
  <2> QED BY <1>1, <2>1, <2>2, <2>3, <2>4
<1>3. k \in Int /\ r \in 0 .. w - 1 /\ s = k * w + r
  BY <1>1, InWords
<1>4. /\ (i - k) * w + (o - r) = x - s /\ (i - k - 1) * w + (o - r + w) = x - s
      /\ (i + k) * w + (o + r) = x + s /\ (i + k + 1) * w + (o + r - w) = x + s
  <2> HIDE DEF i, o, k, r, w
  <2> QED BY <1>1, <1>2, <1>3, AddWords
<1>5. /\ FromLeft(b, i, o, s) <=> Bit(b, i - k, o - r) \/ Bit(b, i - k - 1, o - r + w)
      /\ FromRight(b, i, o, s) <=> Bit(b, i + k, o + r) \/ Bit(b, i + k + 1, o + r - w)
  BY DEF FromLeft, FromRight
<1>6. /\ Bit(b, i - k, o - r) <=> o - r \in 1 .. w /\ x - s \in b
      /\ Bit(b, i - k - 1, o - r + w) <=> o - r + w \in 1 .. w /\ x - s \in b
      /\ Bit(b, i + k, o + r) <=> o + r \in 1 .. w /\ x + s \in b
      /\ Bit(b, i + k + 1, o + r - w) <=> o + r - w \in 1 .. w /\ x + s \in b
  BY <1>4 DEF Bit
<1>7. /\ o - r \in 1 .. w \/ o - r + w \in 1 .. w
      /\ o + r \in 1 .. w \/ o + r - w \in 1 .. w
  <2> HIDE DEF o, r, w
  <2> QED BY <1>1, <1>2, <1>3
<1> QED BY <1>5, <1>6, <1>7

\* The carries of COMP_LEFT_LIST_RIGHT make shifts of whole bitmaps of the shifts of words.
LEMMA ShiftsWhole ==
  ASSUME NEW s \in Nat, list[depth] \subseteq Dist
  PROVE  /\ ShiftList(s) = ShiftUp(list[depth], s, IF newbit THEN {s} ELSE {})
         /\ ShiftComp(s) = ShiftDown(comp[depth], s)
<1> DEFINE b == list[depth] \cup (IF newbit THEN {0} ELSE {})
<1>1. \A x \in Dist : x \in Int /\ SCALAR_BITS \in Int
  BY SizeAssumption DEF Dist
<1>2. ShiftList(s) = {x \in Dist : x - s \in b}
  BY ShiftedWords DEF ShiftList
<1>3. ASSUME NEW x \in Dist
      PROVE  x - s \in b <=> x \in {y + s : y \in list[depth]} \/ (newbit /\ x = s)
  <2>1. x - s \in list[depth] <=> x \in {y + s : y \in list[depth]}
    BY <1>1
  <2>2. x - s = 0 <=> x = s
    BY <1>1
  <2> QED BY <2>1, <2>2
<1>4. ShiftList(s) = ShiftUp(list[depth], s, IF newbit THEN {s} ELSE {})
  BY <1>2, <1>3 DEF ShiftUp
<1>5. ShiftComp(s) = ShiftDown(comp[depth], s)
  BY ShiftedWords DEF ShiftComp, ShiftDown
<1> QED BY <1>4, <1>5

\* The bitmap of the distances to the marks before, shifted by s.
LEMMA ListShift ==
  ASSUME NEW n \in OGR_NG_MIN .. OGR_NG_MAX, NEW k \in 1 .. n - 1, NEW m \in Marks,
         NEW p \in Nat, NEW s \in Nat \ {0}, NEW e,
         \A i \in 0 .. k - 1 : m[i] <= p, ShiftsIn(m, p, k, s, e)
  PROVE  ShiftUp(ListOf(m, p, k), s, e) = ListOf(m, p + s, k)
<1>0. /\ k - 1 \in 0 .. k - 1 /\ k \in Nat
      /\ \A i \in 0 .. k - 1 : m[i] \in Nat
  BY MarkNat
<1>1. ASSUME NEW x \in ListOf(m, p, k), x + s \in Dist PROVE x + s \in ListOf(m, p + s, k)
  BY <1>0, <1>1, SizeAssumption DEF ListOf, Dist
<1>2. ASSUME e = {s}, s \in Dist PROVE s \in ListOf(m, p + s, k)
  <2>1. p = m[k - 1]
    BY <1>2 DEF ShiftsIn
  <2>2. (p + s) - m[k - 1] = s
    BY <1>0, <2>1
  <2> QED BY <1>0, <1>2, <2>2 DEF ListOf
<1>3. ASSUME NEW x \in ListOf(m, p + s, k)
      PROVE  \/ \E y \in ListOf(m, p, k) : x = y + s
             \/ e = {s} /\ x = s
  <2>1. PICK i \in 0 .. k - 1 : (p + s) - m[i] = x
    BY DEF ListOf
  <2>2. x \in Dist /\ x \in Nat /\ x <= OGRNG_BITMAPS_LENGTH
    BY SizeAssumption DEF ListOf, Dist
  <2>3. CASE m[i] = p
    <3>1. x = s /\ ~(m[i] < p)
      BY <1>0, <2>1, <2>2, <2>3
    <3>2. e = {s}
      BY <3>1 DEF ShiftsIn
    <3> QED BY <3>1, <3>2
  <2>4. CASE m[i] # p
    <3> DEFINE y == p - m[i]
    <3>1. y \in Dist /\ x = y + s
      BY <1>0, <2>1, <2>2, <2>4, SizeAssumption DEF Dist
    <3>2. y \in ListOf(m, p, k)
      BY <3>1 DEF ListOf
    <3> QED BY <3>1, <3>2
  <2> QED BY <2>3, <2>4
<1>4. ListOf(m, p + s, k) \subseteq Dist
  BY DEF ListOf
<1>5. e \in {{}, {s}}
  BY DEF ShiftsIn
<1> QED BY <1>1, <1>2, <1>3, <1>4, <1>5 DEF ShiftUp

\* The bitmap of the forbidden positions, shifted by s.
LEMMA CompShift ==
  ASSUME NEW n \in OGR_NG_MIN .. OGR_NG_MAX, NEW k \in 1 .. n - 1, NEW m \in Marks,
         NEW p \in Nat, NEW s \in Nat,
         \A i \in 0 .. k - 1 : m[i] <= p
  PROVE  ShiftDown(CompOf(m, p, k), s) = CompOf(m, p + s, k)
<1>0. \A i \in 0 .. k - 1 : m[i] \in Nat
  BY MarkNat
<1>1. ASSUME NEW x \in Dist PROVE x + s \in CompOf(m, p, k) <=> x \in CompOf(m, p + s, k)
  <2>0. x \in Nat /\ OGRNG_BITMAPS_LENGTH \in Nat
    BY SizeAssumption DEF Dist
  <2>1. \A i \in 0 .. k - 1 : p + (x + s) - m[i] = p + s + x - m[i]
    BY <1>0, <2>0
  <2>2. CASE x + s \in Dist
    BY <2>1, <2>2 DEF CompOf
  <2>3. CASE x + s \notin Dist
    <3>1. \A i \in 0 .. k - 1 : p + s + x - m[i] \notin Dist
      BY <1>0, <2>0, <2>3 DEF Dist
    <3> QED BY <3>1, <2>3 DEF CompOf, MeasuredIn
  <2> QED BY <2>2, <2>3
<1>2. CompOf(m, p + s, k) \subseteq Dist
  BY DEF CompOf
<1> QED BY <1>1, <1>2 DEF ShiftDown

\* A distance s is forbidden where the mark would measure one again.
LEMMA Forbidden ==
  ASSUME NEW n \in OGR_NG_MIN .. OGR_NG_MAX, NEW k \in 1 .. n - 1, NEW m \in Marks,
         NEW p \in Nat, NEW s \in Nat \ {0},
         \A i \in 0 .. k - 1 : m[i] <= p
  PROVE  s \notin CompOf(m, p, k) <=> \A i \in 0 .. k - 1 : p + s - m[i] \notin MeasuredIn(m, k)
<1>0. \A i \in 0 .. k - 1 : m[i] \in Nat
  BY MarkNat
<1>1. CASE s \in Dist
  BY <1>1 DEF CompOf
<1>2. CASE s \notin Dist
  <2>1. \A i \in 0 .. k - 1 : p + s - m[i] \notin Dist
    BY <1>0, <1>2, SizeAssumption DEF Dist
  <2> QED BY <1>2, <2>1 DEF CompOf, MeasuredIn
<1> QED BY <1>1, <1>2

\* With the mark of level k placed at p, its distances become measured ones.
LEMMA DistPush ==
  ASSUME NEW n \in OGR_NG_MIN .. OGR_NG_MAX, NEW k \in 1 .. n - 1, NEW m \in Marks
  PROVE  MeasuredIn(m, k) \cup ListOf(m, m[k], k) = MeasuredIn(m, k + 1)
<1>0. k \in Nat /\ (k + 1) - 1 = k
  OBVIOUS
<1>1. ASSUME NEW x \in MeasuredIn(m, k + 1) PROVE x \in MeasuredIn(m, k) \cup ListOf(m, m[k], k)
  <2>1. PICK j \in 0 .. k : \E i \in 0 .. j - 1 : x = m[j] - m[i]
    BY <1>0 DEF MeasuredIn
  <2>2. PICK i \in 0 .. j - 1 : x = m[j] - m[i]
    BY <2>1
  <2>3. CASE j = k
    BY <2>2, <2>3 DEF ListOf, MeasuredIn
  <2>4. CASE j # k
    <3>1. j \in 0 .. k - 1
      BY <2>4
    <3> QED BY <2>2, <3>1 DEF MeasuredIn
  <2> QED BY <2>3, <2>4
<1>2. ASSUME NEW x \in MeasuredIn(m, k) PROVE x \in MeasuredIn(m, k + 1)
  BY <1>0 DEF MeasuredIn
<1>3. ASSUME NEW x \in ListOf(m, m[k], k) PROVE x \in MeasuredIn(m, k + 1)
  BY <1>0 DEF MeasuredIn, ListOf
<1> QED BY <1>1, <1>2, <1>3

\* COMP of the level above: what the new mark forbids is what DIST now holds.
LEMMA CompPush ==
  ASSUME NEW n \in OGR_NG_MIN .. OGR_NG_MAX, NEW k \in 1 .. n - 1, NEW m \in Marks,
         \A j \in 0 .. k : \A i \in 0 .. j - 1 : m[i] < m[j]
  PROVE  CompOf(m, m[k], k) \cup MeasuredIn(m, k + 1) = CompOf(m, m[k], k + 1)
<1> DEFINE M == MeasuredIn(m, k)
           M1 == MeasuredIn(m, k + 1)
<1>0. /\ k \in Nat /\ (k + 1) - 1 = k
      /\ \A i \in 0 .. k : m[i] \in Nat
      /\ M1 = M \cup ListOf(m, m[k], k)
  BY MarkNat, DistPush
<1>1. ASSUME NEW x \in Dist PROVE x \in CompOf(m, m[k], k) \cup M1 <=> x \in CompOf(m, m[k], k + 1)
  <2>0. x \in Nat /\ x > 0
    BY SizeAssumption DEF Dist
  <2>1. ASSUME x \in CompOf(m, m[k], k) PROVE x \in CompOf(m, m[k], k + 1)
    <3>1. PICK i \in 0 .. k - 1 : m[k] + x - m[i] \in M
      BY <2>1 DEF CompOf
    <3>2. i \in 0 .. k /\ m[k] + x - m[i] \in M1
      BY <1>0, <3>1
    <3> QED BY <1>0, <3>2 DEF CompOf
  <2>2. ASSUME x \in M1 PROVE x \in CompOf(m, m[k], k + 1)
    <3>1. k \in 0 .. k /\ m[k] + x - m[k] \in M1
      BY <1>0, <2>0, <2>2
    <3> QED BY <1>0, <3>1 DEF CompOf
  <2>3. ASSUME x \in CompOf(m, m[k], k + 1) PROVE x \in CompOf(m, m[k], k) \cup M1
    <3>1. PICK i \in 0 .. k : m[k] + x - m[i] \in M1
      BY <1>0, <2>3 DEF CompOf
    <3>2. CASE i = k
      <4>1. m[k] + x - m[k] = x
        BY <1>0, <2>0
      <4> QED BY <3>1, <3>2, <4>1
    <3>3. CASE i # k /\ m[k] + x - m[i] \in M
      <4>1. i \in 0 .. k - 1
        BY <3>3
      <4> QED BY <3>3, <4>1 DEF CompOf
    <3>4. CASE i # k /\ m[k] + x - m[i] \in ListOf(m, m[k], k)
      <4>1. PICK j \in 0 .. k - 1 : m[k] - m[j] = m[k] + x - m[i]
        BY <3>4 DEF ListOf
      <4>2. i \in 0 .. k - 1 /\ j \in 0 .. k /\ i \in 0 .. k
        BY <3>4
      <4>3. x = m[i] - m[j]
        BY <1>0, <2>0, <4>1, <4>2
      <4>4. j < i
        <5>1. m[j] < m[i]
          BY <1>0, <2>0, <4>2, <4>3
        <5>2. SUFFICES ASSUME i <= j PROVE FALSE
          BY <4>2
        <5>3. CASE i = j
          BY <1>0, <4>2, <5>1, <5>3
        <5>4. CASE i # j
          <6>1. i \in 0 .. j - 1
            BY <4>2, <5>2, <5>4
          <6>2. m[i] < m[j]
            BY <4>2, <6>1
          <6> QED BY <1>0, <4>2, <5>1, <6>2
        <5> QED BY <5>3, <5>4
      <4>5. j \in 0 .. i - 1
        BY <4>2, <4>4
      <4>6. x \in M
        BY <4>2, <4>3, <4>5 DEF MeasuredIn
      <4> QED BY <1>0, <4>6
    <3> QED BY <1>0, <3>1, <3>2, <3>3, <3>4
  <2> QED BY <2>1, <2>2, <2>3
<1>2. /\ CompOf(m, m[k], k) \cup M1 \subseteq Dist
      /\ CompOf(m, m[k], k + 1) \subseteq Dist
  BY DEF CompOf, MeasuredIn
<1> QED BY <1>1, <1>2

-----------------------------------------------------------------------------
(* A level that is pushed, moved on, or popped.                              *)

\* A free position within the limit, and what the ruler is with a mark there.
LEMMA FitsThere ==
  ASSUME NEW n \in OGR_NG_MIN .. OGR_NG_MAX, NEW t \in 1 .. n - 1,
         NEW m \in Marks, NEW r \in Marks, NEW p \in Nat, NEW s \in Nat \ {0},
         NEW ls, NEW ds, NEW cs, NEW lim, Exact(n, m, p, t, ls, ds, cs, lim),
         p + s <= lim[t], s \notin cs[t], MovedTo(m, r, t, p + s)
  PROVE  Fits(n, r, t)
<1>0. n \in Nat /\ t \in Nat /\ t \in 1 .. t /\ \A i \in 0 .. n : m[i] \in Nat
  BY MarkNat
<1>1. /\ \A i \in 0 .. t - 1 : m[i] <= p
      /\ lim[t] = LimitIn(n, m, t) /\ cs[t] = CompOf(m, p, t)
  BY <1>0 DEF Exact, Where
<1>2. r[t] = p + s /\ \A i \in 0 .. t - 1 : r[i] = m[i]
  BY DEF MovedTo
<1>3. MeasuredIn(r, t) = MeasuredIn(m, t) /\ LimitIn(n, r, t) = LimitIn(n, m, t)
  BY <1>0, <1>2, Agree
<1>4. \A i \in 0 .. t - 1 : p + s - m[i] \notin MeasuredIn(m, t)
  BY <1>0, <1>1, Forbidden
<1>5. \A i \in 0 .. t - 1 : r[i] < r[t] /\ r[t] - r[i] \notin MeasuredIn(r, t)
  <2> TAKE i \in 0 .. t - 1
  <2>1. m[i] \in Nat /\ m[i] <= p /\ r[i] = m[i]
    BY <1>0, <1>1, <1>2
  <2>2. p + s - m[i] = (p + s) - m[i]
    BY <2>1
  <2> QED BY <1>2, <1>3, <1>4, <2>1, <2>2
<1>6. r[t] <= LimitIn(n, r, t)
  BY <1>1, <1>2, <1>3
<1> QED BY <1>5, <1>6 DEF Fits

\* The mark of level t is placed s further on and a level is pushed.
LEMMA PushExact ==
  ASSUME NEW n \in OGR_NG_MIN .. OGR_NG_MAX, NEW t \in 1 .. n - 2,
         NEW m \in Marks, NEW r \in Marks, NEW p \in Nat, NEW s \in Nat \ {0},
         NEW e, ShiftsIn(m, p, t, s, e),
         NEW ls, NEW ds, NEW cs, NEW lim, NEW ls2, NEW ds2, NEW cs2, NEW lim2,
         Levels(ls, ds, cs, lim), Exact(n, m, p, t, ls, ds, cs, lim),
         p + s <= lim[t], s \notin cs[t], MovedTo(m, r, t, p + s),
         Pushed(n, m, p, t, s, e, ls, ds, cs, lim, ls2, ds2, cs2, lim2)
  PROVE  Exact(n, r, p + s, t + 1, ls2, ds2, cs2, lim2) /\ Levels(ls2, ds2, cs2, lim2)
<1> DEFINE l == ShiftUp(ls[t], s, e)
           c == ShiftDown(cs[t], s)
           d == ds[t] \cup l
           q == IF MidLeft(n) = t THEN p + s ELSE m[MidLeft(n)]
<1>a. /\ ls2 = [ls EXCEPT ![t] = l, ![t + 1] = l]
      /\ ds2 = [ds EXCEPT ![t + 1] = d]
      /\ cs2 = [cs EXCEPT ![t] = c, ![t + 1] = c \cup d]
      /\ lim2 = [lim EXCEPT ![t + 1] = LimitAt(n, d, t + 1, q)]
  BY DEF Pushed
<1>b. l = ShiftUp(ls[t], s, e) /\ c = ShiftDown(cs[t], s) /\ d = ds[t] \cup l
  OBVIOUS
<1>c. q = IF MidLeft(n) = t THEN p + s ELSE m[MidLeft(n)]
  OBVIOUS
<1>d. r[t] = p + s /\ \A i \in 0 .. t - 1 : r[i] = m[i]
  BY DEF MovedTo
<1> HIDE DEF l, c, d, q
<1>0. /\ t \in Nat /\ n \in Nat /\ t \in 1 .. n - 1 /\ t \in 1 .. t /\ t < n - 1
      /\ t \in Level /\ t + 1 \in Level /\ (t + 1) - 1 = t /\ t + 1 # t
      /\ \A i \in 0 .. n : m[i] \in Nat /\ r[i] \in Nat
  <2>1. n \in Nat /\ n <= OGR_STUB_MAX
    BY MarkNat
  <2>2. \A i \in 0 .. n : m[i] \in Nat /\ r[i] \in Nat
    BY MarkNat
  <2> QED BY <2>1, <2>2, SizeAssumption DEF Level
<1>1. /\ Ruler(n, m, t - 1)
      /\ \A i \in 0 .. t - 1 : m[i] <= p
      /\ ds[t] = MeasuredIn(m, t) /\ lim[t] = LimitIn(n, m, t)
      /\ cs[t] = CompOf(m, p, t) /\ ls[t] = ListOf(m, p, t)
  BY <1>0 DEF Exact, Where
<1>2. /\ MeasuredIn(r, t) = MeasuredIn(m, t) /\ LimitIn(n, r, t) = LimitIn(n, m, t)
      /\ \A z : ListOf(r, z, t) = ListOf(m, z, t) /\ CompOf(r, z, t) = CompOf(m, z, t)
  BY <1>0, <1>d, Agree
<1>3. l = ListOf(r, r[t], t)
  <2>1. ShiftUp(ListOf(m, p, t), s, e) = ListOf(m, p + s, t)
    BY <1>0, <1>1, ListShift
  <2> QED BY <1>1, <1>2, <1>b, <1>d, <2>1
<1>4. c = CompOf(r, r[t], t)
  <2>1. s \in Nat /\ \A i \in 0 .. t - 1 : m[i] <= p
    BY <1>1
  <2>2. ShiftDown(CompOf(m, p, t), s) = CompOf(m, p + s, t)
    BY <1>0, <2>1, CompShift
  <2> QED BY <1>1, <1>2, <1>b, <1>d, <2>2
<1>5. d = MeasuredIn(r, t + 1)
  BY <1>0, <1>1, <1>2, <1>3, <1>b, DistPush
<1>6. Fits(n, r, t)
  BY <1>0, FitsThere
<1>7. Ruler(n, r, t)
  <2>1. Ruler(n, r, t - 1)
    <3>1. t - 1 \in -1 .. n - 1 /\ m[0] = r[0]
      BY <1>0, <1>d
    <3> QED BY <1>1, <1>d, <3>1, RulerAgrees
  <2>2. \A k \in 1 .. t : k = t \/ k \in 1 .. t - 1
    BY <1>0
  <2> QED BY <1>6, <2>1, <2>2 DEF Ruler
<1>8. /\ \A j \in 0 .. t : \A i \in 0 .. j - 1 : r[i] < r[j]
      /\ \A i \in 0 .. t : r[i] <= p + s
  <2>1. \A j \in 0 .. t : \A i \in 0 .. j - 1 : r[i] < r[j]
    <3>1. t \in -1 .. n - 1
      BY <1>0
    <3> QED BY <1>7, <3>1, Growing
  <2>2. ASSUME NEW i \in 0 .. t PROVE r[i] <= p + s
    <3>1. i = t \/ i \in 0 .. t - 1
      BY <1>0
    <3> QED BY <1>0, <1>1, <1>d, <3>1
  <2> QED BY <2>1, <2>2
<1>9. c \cup d = CompOf(r, r[t], t + 1)
  BY <1>0, <1>4, <1>5, <1>8, CompPush
<1>10. l = ListOf(r, r[t], t + 1)
  <2>1. 0 \notin Dist /\ r[t] - r[t] = 0
    BY <1>0 DEF Dist
  <2>2. \A i \in 0 .. t : i = t \/ i \in 0 .. t - 1
    BY <1>0
  <2>3. 0 .. t - 1 \subseteq 0 .. t
    BY <1>0
  <2> QED BY <1>0, <1>3, <2>1, <2>2, <2>3 DEF ListOf
<1>11. LimitAt(n, d, t + 1, q) = LimitIn(n, r, t + 1) /\ LimitAt(n, d, t + 1, q) \in Int
  <2>1. MidLeft(n) \in 1 .. n - 2 /\ MidLeft(n) \in Nat
    BY Middle, <1>0
  <2>2. q \in Nat
    BY <1>0, <1>c, <2>1
  <2>3. t + 1 \in 1 .. n - 1
    BY <1>0
  <2>4. LimitAt(n, d, t + 1, q) \in Int
    BY <2>2, <2>3, LimitRange
  <2>5. CASE MidLeft(n) < t + 1
    <3>1. MidLeft(n) = t \/ MidLeft(n) \in 0 .. t - 1
      BY <1>0, <2>1, <2>5
    <3>2. q = r[MidLeft(n)]
      BY <3>1, <1>0, <1>c, <1>d
    <3> QED BY <1>5, <2>4, <3>2 DEF LimitIn
  <2>6. CASE ~(MidLeft(n) < t + 1)
    BY <1>5, <2>4, <2>6 DEF LimitIn, LimitAt
  <2> QED BY <2>5, <2>6
<1>12. /\ ls2[t] = l /\ ls2[t + 1] = l /\ ds2[t + 1] = d /\ ds2[t] = ds[t]
       /\ cs2[t] = c /\ cs2[t + 1] = c \cup d
       /\ lim2[t + 1] = LimitAt(n, d, t + 1, q) /\ lim2[t] = lim[t]
       /\ \A k \in Level \ {t, t + 1} : ls2[k] = ls[k] /\ ds2[k] = ds[k] /\ cs2[k] = cs[k] /\ lim2[k] = lim[k]
  BY <1>0, <1>a DEF Levels
<1>13. ASSUME NEW k \in 1 .. t + 1
       PROVE  /\ ds2[k] = MeasuredIn(r, k) /\ lim2[k] = LimitIn(n, r, k)
              /\ cs2[k] = CompOf(r, Where(r, p + s, t + 1, k), k)
              /\ k < n - 1 => ls2[k] = ListOf(r, Where(r, p + s, t + 1, k), k)
  <2>1. CASE k = t + 1
    <3>1. Where(r, p + s, t + 1, k) = r[t]
      BY <2>1, <1>d DEF Where
    <3> QED BY <2>1, <3>1, <1>5, <1>9, <1>10, <1>11, <1>12
  <2>2. CASE k = t
    <3>1. Where(r, p + s, t + 1, k) = r[t]
      BY <2>2, <1>0 DEF Where
    <3> QED BY <2>2, <3>1, <1>1, <1>2, <1>3, <1>4, <1>12
  <2>3. CASE k # t /\ k # t + 1
    <3>1. /\ k \in 1 .. t - 1 /\ k \in Level \ {t, t + 1} /\ k \in 1 .. n - 1
          /\ \A i \in 0 .. k - 1 : i \in 0 .. t - 1
      <4>1. k \in 1 .. t - 1 /\ k \in 1 .. n - 1 /\ k \in 0 .. t
        BY <2>3, <1>0
      <4>2. k \in Level
        BY <4>1, <1>0, SizeAssumption DEF Level
      <4>3. \A i \in 0 .. k - 1 : i \in 0 .. t - 1
        BY <4>1, <1>0
      <4> QED BY <2>3, <4>1, <4>2, <4>3
    <3>2. m[k] = r[k] /\ Where(m, p, t, k) = m[k] /\ Where(r, p + s, t + 1, k) = r[k]
      BY <1>d, <2>3, <3>1 DEF Where
    <3>3. /\ ds[k] = MeasuredIn(m, k) /\ lim[k] = LimitIn(n, m, k)
          /\ cs[k] = CompOf(m, m[k], k)
          /\ k < n - 1 => ls[k] = ListOf(m, m[k], k)
      <4>1. k \in 1 .. t
        BY <3>1, <1>0
      <4> QED BY <3>2, <4>1 DEF Exact
    <3>4. /\ MeasuredIn(m, k) = MeasuredIn(r, k)
          /\ LimitIn(n, m, k) = LimitIn(n, r, k)
          /\ \A z : ListOf(m, z, k) = ListOf(r, z, k) /\ CompOf(m, z, k) = CompOf(r, z, k)
      BY <3>1, <1>d, Agree
    <3> QED BY <3>1, <3>2, <3>3, <3>4, <1>12
  <2> QED BY <2>1, <2>2, <2>3
<1>14. Exact(n, r, p + s, t + 1, ls2, ds2, cs2, lim2)
  BY <1>0, <1>7, <1>8, <1>13 DEF Exact
<1>15. l \in SUBSET Dist /\ c \in SUBSET Dist /\ d \in SUBSET Dist /\ c \cup d \in SUBSET Dist
  BY <1>3, <1>4, <1>5 DEF ListOf, CompOf, MeasuredIn
<1>16. Levels(ls2, ds2, cs2, lim2)
  <2>1. ls2 \in [Level -> SUBSET Dist]
    BY Zenon, <1>a, <1>15 DEF Levels
  <2>2. ds2 \in [Level -> SUBSET Dist]
    BY Zenon, <1>a, <1>15 DEF Levels
  <2>3. cs2 \in [Level -> SUBSET Dist]
    BY Zenon, <1>a, <1>15 DEF Levels
  <2>4. lim2 \in [Level -> Int]
    BY Zenon, <1>a, <1>11 DEF Levels
  <2> QED BY <2>1, <2>2, <2>3, <2>4 DEF Levels
<1> QED BY <1>14, <1>16

\* The position of level t moves s further on, and no mark is placed yet.
LEMMA MoveExact ==
  ASSUME NEW n \in OGR_NG_MIN .. OGR_NG_MAX, NEW t \in 1 .. n - 1,
         NEW m \in Marks, NEW r \in Marks, NEW p \in Nat, NEW s \in Nat \ {0},
         NEW e, MayShift(n, m, p, t, s, e),
         NEW ls, NEW ds, NEW cs, NEW lim, NEW ls2, NEW cs2,
         Levels(ls, ds, cs, lim), Exact(n, m, p, t, ls, ds, cs, lim),
         KeepsMarks(m, r, t), Moved(t, s, e, ls, cs, ls2, cs2)
  PROVE  Exact(n, r, p + s, t, ls2, ds, cs2, lim) /\ Levels(ls2, ds, cs2, lim)
<1>a. \A i \in 0 .. t - 1 : r[i] = m[i]
  BY DEF KeepsMarks
<1>b. /\ ls2 = [ls EXCEPT ![t] = ShiftUp(ls[t], s, e)]
      /\ cs2 = [cs EXCEPT ![t] = ShiftDown(cs[t], s)]
  BY DEF Moved
<1>c. t < n - 1 => ShiftsIn(m, p, t, s, e)
  BY DEF MayShift
<1>0. /\ n \in Nat /\ t \in Nat /\ t \in 1 .. t /\ t \in Level
      /\ \A i \in 0 .. n : m[i] \in Nat /\ r[i] \in Nat
  <2>1. n \in Nat /\ n <= OGR_STUB_MAX /\ \A i \in 0 .. n : m[i] \in Nat /\ r[i] \in Nat
    BY MarkNat
  <2>2. t \in Level
    BY <2>1, SizeAssumption DEF Level
  <2> QED BY <2>1, <2>2
<1>1. /\ Ruler(n, m, t - 1)
      /\ \A i \in 0 .. t - 1 : m[i] <= p
      /\ ds[t] = MeasuredIn(m, t) /\ lim[t] = LimitIn(n, m, t)
      /\ cs[t] = CompOf(m, p, t)
      /\ t < n - 1 => ls[t] = ListOf(m, p, t)
  BY <1>0 DEF Exact, Where
<1>2. /\ MeasuredIn(r, t) = MeasuredIn(m, t) /\ LimitIn(n, r, t) = LimitIn(n, m, t)
      /\ \A z : ListOf(r, z, t) = ListOf(m, z, t) /\ CompOf(r, z, t) = CompOf(m, z, t)
  BY <1>0, <1>a, Agree
<1>3. Ruler(n, r, t - 1)
  <2>1. t - 1 \in -1 .. n - 1 /\ m[0] = r[0]
    BY <1>0, <1>a
  <2> QED BY <1>1, <1>a, <2>1, RulerAgrees
<1>4. \A i \in 0 .. t - 1 : r[i] <= p + s
  <2> TAKE i \in 0 .. t - 1
  <2>1. i \in 0 .. n /\ m[i] <= p /\ r[i] = m[i]
    BY <1>0, <1>1, <1>a
  <2> QED BY <1>0, <2>1
<1>5. ASSUME t < n - 1 PROVE ShiftUp(ls[t], s, e) = ListOf(r, p + s, t)
  <2>1. ShiftUp(ListOf(m, p, t), s, e) = ListOf(m, p + s, t)
    BY <1>0, <1>1, <1>5, <1>c, ListShift
  <2> QED BY <1>1, <1>2, <1>5, <2>1
<1>6. ShiftDown(cs[t], s) = CompOf(r, p + s, t)
  <2>1. s \in Nat /\ \A i \in 0 .. t - 1 : m[i] <= p
    BY <1>1
  <2>2. ShiftDown(CompOf(m, p, t), s) = CompOf(m, p + s, t)
    BY <1>0, <2>1, CompShift
  <2> QED BY <1>1, <1>2, <2>2
<1>7. ASSUME NEW k \in 1 .. t
      PROVE  /\ ds[k] = MeasuredIn(r, k) /\ lim[k] = LimitIn(n, r, k)
             /\ cs2[k] = CompOf(r, Where(r, p + s, t, k), k)
             /\ k < n - 1 => ls2[k] = ListOf(r, Where(r, p + s, t, k), k)
  <2>1. k \in Level /\ k \in 1 .. n - 1 /\ k \in Nat
    BY <1>0, SizeAssumption DEF Level
  <2>2. CASE k = t
    <3>1. ls2[t] = ShiftUp(ls[t], s, e) /\ cs2[t] = ShiftDown(cs[t], s)
      BY <1>0, <1>b DEF Levels
    <3>2. Where(r, p + s, t, t) = p + s
      BY DEF Where
    <3> QED BY <1>1, <1>2, <1>5, <1>6, <2>2, <3>1, <3>2
  <2>3. CASE k # t
    <3>1. ls2[k] = ls[k] /\ cs2[k] = cs[k]
      BY <1>b, <2>1, <2>3 DEF Levels
    <3>2. k \in 1 .. t - 1 /\ k \in 0 .. t - 1 /\ \A i \in 0 .. k - 1 : i \in 0 .. t - 1
      BY <1>0, <2>1, <2>3
    <3>3. Where(r, p + s, t, k) = r[k] /\ Where(m, p, t, k) = m[k] /\ r[k] = m[k]
      BY <1>a, <2>3, <3>2 DEF Where
    <3>4. /\ ds[k] = MeasuredIn(m, k) /\ lim[k] = LimitIn(n, m, k)
          /\ cs[k] = CompOf(m, m[k], k)
          /\ k < n - 1 => ls[k] = ListOf(m, m[k], k)
      BY <3>3 DEF Exact
    <3>5. /\ MeasuredIn(r, k) = MeasuredIn(m, k) /\ LimitIn(n, r, k) = LimitIn(n, m, k)
          /\ \A z : ListOf(r, z, k) = ListOf(m, z, k) /\ CompOf(r, z, k) = CompOf(m, z, k)
      BY <1>a, <2>1, <3>2, Agree
    <3>6. CompOf(r, r[k], k) = CompOf(m, m[k], k) /\ ListOf(r, r[k], k) = ListOf(m, m[k], k)
      BY Zenon, <3>3, <3>5
    <3>7. /\ ds[k] = MeasuredIn(r, k) /\ lim[k] = LimitIn(n, r, k) /\ cs[k] = CompOf(r, r[k], k)
          /\ k < n - 1 => ls[k] = ListOf(r, r[k], k)
      BY Zenon, <3>4, <3>5, <3>6
    <3>8. Where(r, p + s, t, k) = r[k]
      BY <3>3
    <3> QED BY Zenon, <3>1, <3>7, <3>8
  <2> QED BY <2>2, <2>3
<1>8. Levels(ls2, ds, cs2, lim)
  <2>1. ShiftUp(ls[t], s, e) \in SUBSET Dist /\ ShiftDown(cs[t], s) \in SUBSET Dist
    BY DEF ShiftUp, ShiftDown
  <2>2. ls2 \in [Level -> SUBSET Dist]
    BY Zenon, <1>b, <2>1 DEF Levels
  <2>3. cs2 \in [Level -> SUBSET Dist]
    BY Zenon, <1>b, <2>1 DEF Levels
  <2> QED BY <2>2, <2>3 DEF Levels
<1>9. Exact(n, r, p + s, t, ls2, ds, cs2, lim)
  BY <1>3, <1>4, <1>7 DEF Exact
<1> QED BY <1>8, <1>9

\* Back to the mark of the level below.
LEMMA PopExact ==
  ASSUME NEW n \in OGR_NG_MIN .. OGR_NG_MAX, NEW t \in 1 .. n - 1,
         NEW m \in Marks, NEW p, NEW ls, NEW ds, NEW cs, NEW lim,
         Exact(n, m, p, t, ls, ds, cs, lim)
  PROVE  /\ Exact(n, m, m[t - 1], t - 1, ls, ds, cs, lim)
         /\ 1 < t => m[t - 2] < m[t - 1]
<1>0. n \in Nat /\ t \in Nat /\ t - 1 \in -1 .. n - 1 /\ t - 1 \in 0 .. t - 1
  BY MarkNat
<1>1. Ruler(n, m, t - 1)
  BY DEF Exact
<1>2. \A k \in 0 .. t - 1 : \A i \in 0 .. k - 1 : m[i] < m[k]
  BY <1>0, <1>1, Growing
<1>3. Ruler(n, m, (t - 1) - 1)
  <2>1. \A k \in 1 .. (t - 1) - 1 : k \in 1 .. t - 1
    BY <1>0
  <2> QED BY <1>1, <2>1 DEF Ruler
<1>4. \A i \in 0 .. (t - 1) - 1 : m[i] <= m[t - 1]
  <2> TAKE i \in 0 .. (t - 1) - 1
  <2>1. m[i] < m[t - 1]
    BY <1>0, <1>2
  <2>2. i \in 0 .. n /\ t - 1 \in 0 .. n
    BY <1>0
  <2>3. m[i] \in Nat /\ m[t - 1] \in Nat
    BY <2>2, MarkNat
  <2> QED BY <2>1, <2>3
<1>5. ASSUME NEW k \in 1 .. t - 1
      PROVE  k \in 1 .. t /\ Where(m, p, t, k) = m[k] /\ Where(m, m[t - 1], t - 1, k) = m[k]
  BY <1>0 DEF Where
<1>6. Exact(n, m, m[t - 1], t - 1, ls, ds, cs, lim)
  BY <1>3, <1>4, <1>5 DEF Exact
<1>7. 1 < t => m[t - 2] < m[t - 1]
  <2>1. 1 < t => t - 2 \in 0 .. (t - 1) - 1
    BY <1>0
  <2> QED BY <1>0, <1>2, <2>1
<1> QED BY <1>6, <1>7

\* The bitmaps of the first level before any mark is placed.
LEMMA FirstExact ==
  ASSUME NEW n \in OGR_NG_MIN .. OGR_NG_MAX
  PROVE  /\ Exact(n, NoLevel(0), 0, 1, NoLevel({}), NoLevel({}), NoLevel({}),
                  [NoLevel(0) EXCEPT ![1] = choose(n, {}, 1)])
         /\ choose(n, {}, 1) \in Int
<1> DEFINE m == NoLevel(0)
           e == NoLevel({})
           lim == [NoLevel(0) EXCEPT ![1] = choose(n, {}, 1)]
<1>0. /\ 0 \in Level /\ 1 \in Level /\ m[0] = 0 /\ e[1] = {} /\ lim[1] = choose(n, {}, 1)
  BY SizeAssumption DEF NoLevel, Level
<1> HIDE DEF m, e, lim
<1>1. MeasuredIn(m, 1) = {}
  BY DEF MeasuredIn
<1>2. LimitIn(n, m, 1) = choose(n, {}, 1)
  <2>1. MidLeft(n) \in 1 .. n - 2
    BY Middle
  <2>2. ~(MidLeft(n) < 1)
    BY <2>1, SizeAssumption
  <2> QED BY <1>1, <2>2 DEF LimitIn, LimitAt
<1>3. CompOf(m, 0, 1) = {}
  BY <1>1 DEF CompOf
<1>4. ListOf(m, 0, 1) = {}
  BY <1>0 DEF ListOf, Dist
<1>5. Exact(n, m, 0, 1, e, e, e, lim)
  <2>1. Ruler(n, m, 1 - 1)
    BY <1>0 DEF Ruler
  <2>2. \A k \in 1 .. 1 : k = 1 /\ Where(m, 0, 1, k) = 0
    BY DEF Where
  <2>3. \A i \in 0 .. 1 - 1 : m[i] <= 0
    BY <1>0
  <2> QED BY <1>0, <1>1, <1>2, <1>3, <1>4, <2>1, <2>2, <2>3 DEF Exact
<1>6. choose(n, {}, 1) \in Int
  BY ChooseRange, SizeAssumption
<1> QED BY <1>5, <1>6 DEF m, e, lim

-----------------------------------------------------------------------------
(* Rulers without a repeated distance, and records that replay.              *)

\* found_one() of a ruler of n marks.
Differ(n, m) ==
  \A a, b, c, d \in 0 .. n - 1 :
    /\ a < b /\ c < d /\ m[d] - m[c] = m[b] - m[a]
    /\ m[b] - m[a] > OGRNG_BITMAPS_LENGTH /\ (m[b] - m[a]) + (m[b] - m[a]) <= OGR[n]
    => a = c

\* No two pairs of marks of a finished ruler are equally far apart: the later mark
\* would repeat a short distance, and two long ones would not fit in.
LEMMA NoneTwice ==
  ASSUME NEW n \in OGR_NG_MIN .. OGR_NG_MAX, NEW m \in Marks, Ruler(n, m, n - 1),
         m[n - 1] <= 2 * OGRNG_BITMAPS_LENGTH \/ Differ(n, m),
         NEW a \in 0 .. n - 1, NEW b \in 0 .. n - 1, NEW c \in 0 .. n - 1, NEW d \in 0 .. n - 1,
         a < b, c < d, b < d, m[b] - m[a] = m[d] - m[c]
  PROVE  FALSE
<1> DEFINE L == OGRNG_BITMAPS_LENGTH
           N == n - 1
<1>0. /\ n \in Nat /\ N \in 0 .. N /\ N \in -1 .. n - 1 /\ L \in Nat
      /\ OGR[n] \in Nat
      /\ \A i \in 0 .. N : m[i] \in Nat
  BY MarkNat, Lengths, SizeAssumption
<1>1. /\ \A k \in 0 .. N : \A i \in 0 .. k - 1 : m[i] < m[k]
      /\ \A k \in 0 .. N : m[k] <= OGR[n]
  BY <1>0, Growing
<1>2. \A i, k \in 0 .. N : i < k => m[i] < m[k]
  BY <1>1
<1>3. m[a] < m[b] /\ m[c] < m[d] /\ m[b] < m[d] /\ m[a] < m[c] /\ m[d] <= m[N]
  <2>1. m[a] < m[b] /\ m[c] < m[d] /\ m[b] < m[d]
    BY <1>2
  <2>2. m[d] <= m[N]
    BY <1>0, <1>2
  <2> QED BY <1>0, <2>1, <2>2
<1>4. a < c
  <2>1. CASE c = a
    BY <1>0, <1>3, <2>1
  <2>2. CASE c < a
    BY <1>0, <1>2, <1>3, <2>2
  <2> QED BY <2>1, <2>2
<1>5. ASSUME NEW i \in 0 .. N, NEW j \in 0 .. N, NEW k \in 0 .. N, i < j, j < d, k < d,
             m[j] - m[i] = m[d] - m[k], m[d] - m[k] \in Dist
      PROVE  FALSE
  <2>1. Fits(n, m, d)
    <3>1. d \in 1 .. n - 1
      BY <1>0
    <3> QED BY <3>1 DEF Ruler
  <2>2. k \in 0 .. d - 1 /\ j \in 0 .. d - 1 /\ i \in 0 .. j - 1
    BY <1>5
  <2>3. m[d] - m[k] \in MeasuredIn(m, d)
    BY <1>5, <2>2 DEF MeasuredIn
  <2> QED BY <2>1, <2>2, <2>3 DEF Fits
<1> DEFINE g == m[b] - m[a]
           e == m[c] - m[a]
<1>6. /\ g \in Nat /\ g > 0 /\ e \in Nat /\ e > 0
      /\ m[d] - m[c] = g /\ m[d] - m[b] = e
  BY <1>0, <1>3
<1>7. g > L
  <2>1. g \notin Dist
    BY <1>5, <1>6
  <2> QED BY <1>0, <1>6, <2>1 DEF Dist
<1>8. ~(g + g <= OGR[n] /\ Differ(n, m))
  BY <1>4, <1>6, <1>7 DEF Differ
<1>9. m[N] < g + g
  BY <1>0, <1>1, <1>6, <1>7, <1>8
<1>10. m[c] < m[b]
  BY <1>0, <1>3, <1>6, <1>9
<1>11. c < b
  <2>1. CASE b = c
    BY <1>0, <1>10, <2>1
  <2>2. CASE b < c
    BY <1>0, <1>2, <1>10, <2>2
  <2> QED BY <2>1, <2>2
<1>12. e > L
  <2>1. e \notin Dist
    <3>1. c < d /\ b < d /\ a < c
      BY <1>4
    <3> QED BY <1>5, <1>6, <3>1
  <2> QED BY <1>0, <1>6, <2>1 DEF Dist
<1>13. e + e <= m[N]
  BY <1>0, <1>3, <1>6, <1>10
<1>14. e + e <= OGR[n]
  BY <1>0, <1>1, <1>6, <1>13
<1>15. ~Differ(n, m)
  <2>1. a < c /\ b < d /\ a # b
    BY <1>4
  <2> QED BY <2>1, <1>6, <1>12, <1>14 DEF Differ
<1> QED BY <1>0, <1>6, <1>12, <1>13, <1>15

\* A finished ruler that found_one() accepts is Golomb.
LEMMA GolombFound ==
  ASSUME NEW n \in OGR_NG_MIN .. OGR_NG_MAX, NEW m \in Marks, Ruler(n, m, n - 1),
         m[n - 1] <= 2 * OGRNG_BITMAPS_LENGTH \/ Differ(n, m)
  PROVE  IsGolomb([k \in 0 .. n - 1 |-> m[k]])
<1>1. ASSUME NEW a \in 0 .. n - 1, NEW b \in 0 .. n - 1, NEW c \in 0 .. n - 1,
             NEW d \in 0 .. n - 1, a < b, c < d, m[b] - m[a] = m[d] - m[c]
      PROVE  a = c
  <2>0. n \in Nat /\ n - 1 \in -1 .. n - 1 /\ \A i \in 0 .. n - 1 : m[i] \in Nat
    BY MarkNat
  <2>1. ~(b < d)
    BY <1>1, NoneTwice
  <2>2. ~(d < b)
    BY <1>1, NoneTwice
  <2>3. b = d
    BY <2>0, <2>1, <2>2
  <2>4. m[a] = m[c]
    BY <1>1, <2>0, <2>3
  <2>5. \A k \in 0 .. n - 1 : \A i \in 0 .. k - 1 : m[i] < m[k]
    BY <2>0, Growing
  <2>6. ~(a < c) /\ ~(c < a)
    BY <2>0, <2>4, <2>5
  <2> QED BY <2>0, <2>6
<1> DEFINE r == [k \in 0 .. n - 1 |-> m[k]]
<1>2. DOMAIN r = 0 .. n - 1 /\ \A k \in 0 .. n - 1 : r[k] = m[k]
  OBVIOUS
<1> HIDE DEF r
<1>3. IsGolomb(r)
  BY <1>1, <1>2 DEF IsGolomb
<1> QED BY <1>3 DEF r

------------------------------------------------------------------------------
\* The diffs of a record, up to the t-th, are those of the marks m.
DiffsOf(diffs, m, t) == \A k \in 1 .. t : m[k] = m[k - 1] + diffs[k]

\* The record's first t diffs are those of a ruler of n marks the core may come to.
Replays(n, diffs, t) == \E m \in Marks : Ruler(n, m, t) /\ DiffsOf(diffs, m, t)

\* The diffs of a record determine its marks.
LEMMA SameMarks ==
  ASSUME NEW diffs, NEW t \in Nat, NEW m \in Marks, NEW r \in Marks, t <= OGR_STUB_MAX,
         m[0] = r[0], DiffsOf(diffs, m, t), DiffsOf(diffs, r, t)
  PROVE  \A k \in 0 .. t : m[k] = r[k]
<1> DEFINE S == {k \in 0 .. t : m[k] # r[k]}
<1>1. SUFFICES ASSUME S # {} PROVE FALSE
  OBVIOUS
<1>2. PICK x \in S : \A y \in S : x <= y
  <2>1. S \in SUBSET Nat
    OBVIOUS
  <2> HIDE DEF S
  <2> QED BY <1>1, <2>1, LeastNumber
<1>3. x \in 1 .. t /\ m[x] # r[x] /\ x - 1 \in 0 .. t
  BY <1>2
<1>4. m[x - 1] = r[x - 1]
  <2>1. ~(x <= x - 1)
    BY <1>3
  <2> QED BY <1>2, <1>3, <2>1
<1> QED BY <1>3, <1>4 DEF DiffsOf

\* Whether a record replays depends on the diffs that are replayed.
LEMMA SameDiffs ==
  ASSUME NEW n, NEW t \in Nat, NEW d, NEW e, Replays(n, d, t), \A k \in 1 .. t : d[k] = e[k]
  PROVE  Replays(n, e, t)
  BY DEF Replays, DiffsOf

\* Such diffs are positive and fit the 16 bits of a record's fields.
LEMMA DiffsBound ==
  ASSUME NEW n \in OGR_NG_MIN .. OGR_NG_MAX, NEW t \in 0 .. n - 1, NEW diffs,
         \A k \in 1 .. t : diffs[k] \in Nat, Replays(n, diffs, t)
  PROVE  \A k \in 1 .. t : 0 < diffs[k] /\ diffs[k] < 65536
<1>1. PICK m \in Marks : Ruler(n, m, t) /\ DiffsOf(diffs, m, t)
  BY DEF Replays
<1>2. /\ OGR[n] \in Nat /\ OGR[n] < 65536 /\ n \in Nat
      /\ \A i \in 0 .. n : m[i] \in Nat
  BY MarkNat, Lengths, SizeAssumption
<1>3. /\ \A k \in 0 .. t : \A i \in 0 .. k - 1 : m[i] < m[k]
      /\ \A k \in 0 .. t : m[k] \in 0 .. OGR[n]
  <2>1. t \in -1 .. n - 1
    BY <1>2
  <2> QED BY <1>1, <2>1, Growing
<1>4. ASSUME NEW k \in 1 .. t PROVE 0 < diffs[k] /\ diffs[k] < 65536
  <2>1. k \in 0 .. t /\ k - 1 \in 0 .. t /\ k - 1 \in 0 .. k - 1
    BY <1>2
  <2>2. m[k] = m[k - 1] + diffs[k]
    BY <1>1 DEF DiffsOf
  <2>3. m[k - 1] < m[k] /\ m[k] \in Nat /\ m[k - 1] \in Nat /\ m[k] <= OGR[n]
    BY <1>2, <1>3, <2>1
  <2>4. diffs[k] \in Nat
    OBVIOUS
  <2> QED BY <1>2, <2>2, <2>3, <2>4
<1> QED BY <1>4

\* A record that replays is never refused: the next diff keeps the limit and
\* repeats no distance.
LEMMA NextDiffFits ==
  ASSUME NEW n \in OGR_NG_MIN .. OGR_NG_MAX, NEW t \in 1 .. n - 2, NEW l \in t .. n - 2,
         NEW m \in Marks, NEW p \in Nat, NEW ls, NEW ds, NEW cs, NEW lim, NEW diffs,
         Exact(n, m, p, t, ls, ds, cs, lim), p = m[t - 1],
         DiffsOf(diffs, m, t - 1), Replays(n, diffs, l), diffs[t] \in Nat \ {0}
  PROVE  p + diffs[t] <= lim[t] /\ diffs[t] \notin cs[t]
<1>0. /\ t \in 1 .. n - 1 /\ t - 1 \in Nat /\ t - 1 <= OGR_STUB_MAX /\ t \in 1 .. l
      /\ \A i \in 0 .. t - 1 : m[i] \in Nat
  <2>1. n \in Nat /\ n <= OGR_STUB_MAX /\ \A i \in 0 .. n : m[i] \in Nat
    BY MarkNat
  <2> QED BY <2>1, SizeAssumption
<1>1. PICK r \in Marks : Ruler(n, r, l) /\ DiffsOf(diffs, r, l)
  BY DEF Replays
<1>2. /\ m[0] = r[0]
      /\ \A i \in 0 .. t - 1 : m[i] <= p
      /\ lim[t] = LimitIn(n, m, t) /\ cs[t] = CompOf(m, p, t)
  BY <1>0, <1>1 DEF Exact, Ruler, Where
<1>3. \A k \in 0 .. t - 1 : m[k] = r[k]
  <2>1. DiffsOf(diffs, r, t - 1)
    BY <1>0, <1>1 DEF DiffsOf
  <2> QED BY <1>0, <1>2, <2>1, SameMarks
<1>4. r[t] = p + diffs[t]
  <2>1. r[t] = r[t - 1] + diffs[t] /\ t - 1 \in 0 .. t - 1
    BY <1>0, <1>1 DEF DiffsOf
  <2> QED BY <1>3, <2>1
<1>5. Fits(n, r, t)
  BY <1>0, <1>1 DEF Ruler
<1>6. MeasuredIn(m, t) = MeasuredIn(r, t) /\ LimitIn(n, m, t) = LimitIn(n, r, t)
  BY <1>0, <1>3, Agree
<1>7. p + diffs[t] <= lim[t]
  BY <1>2, <1>4, <1>5, <1>6 DEF Fits
<1>8. \A i \in 0 .. t - 1 : p + diffs[t] - m[i] \notin MeasuredIn(m, t)
  <2> TAKE i \in 0 .. t - 1
  <2>1. r[t] - r[i] \notin MeasuredIn(r, t)
    BY <1>5 DEF Fits
  <2>2. p + diffs[t] - m[i] = r[t] - r[i]
    BY <1>0, <1>3, <1>4
  <2> QED BY <1>6, <2>1, <2>2
<1>9. diffs[t] \notin CompOf(m, p, t)
  <2> DEFINE s == diffs[t]
  <2> HIDE DEF s
  <2>1. s \in Nat \ {0} /\ \A i \in 0 .. t - 1 : p + s - m[i] \notin MeasuredIn(m, t)
    BY <1>8 DEF s
  <2>2. s \notin CompOf(m, p, t)
    BY <1>0, <1>2, <2>1, Forbidden
  <2> QED BY <2>2 DEF s
<1> QED BY <1>2, <1>7, <1>9

-----------------------------------------------------------------------------
(* The inductive invariant, and the start of ogr_create().                   *)

InRange(w) == w.marks \in OGR_NG_MIN .. OGR_NG_MAX

\* What every state keeps of the stub the server sent: all of its diffs but the
\* last of a combined stub, for which the search puts others.
KeepsStub(w) ==
  /\ w.marks = received.marks /\ w.length = received.length
  /\ w.collapsed = received.collapsed
  /\ InRange(received) =>
       \A k \in 1 .. received.length :
         k < received.length \/ received.collapsed = 0 => w.diffs[k] = received.diffs[k]
StubKept == KeepsStub(workstub)

Phase ==
  /\ pc = "stored" => retval \in {"none", "CORE_S_CONTINUE"}
  /\ pc = "create" => retval = "none"
  /\ pc \in {"ready", "cycle", "exit"} => retval = "CORE_S_CONTINUE"
  /\ Running => InRange(received)

\* A packet that was loaded once can be loaded again, with its progress or without.
Loaded == pc \in {"ready", "cycle", "exit"} \/ worked \/ workstub # received
Progress(w) ==
  /\ ReplayLength(w) <= maxdepth - 2
  /\ Replays(maxdepth, w.diffs, ReplayLength(w))
Reloadable ==
  pc # "done" /\ Loaded =>
    /\ InRange(received) /\ maxdepth = received.marks
    /\ Replays(maxdepth, received.diffs, received.length)
    /\ pc \in {"stored", "create"} /\ workstub # received => Progress(workstub)

\* The marks placed so far when a record is replayed.
Replaying ==
  pc = "create" =>
    /\ depth \in 1 .. ReplayLength(workstub) + 1 /\ ReplayLength(workstub) <= maxdepth - 2
    /\ DiffsOf(workstub.diffs, mark, depth - 1)
    /\ newbit /\ mark[depth] = pos

Bounded ==
  Running =>
    /\ maxdepth = received.marks /\ startdepth = received.length
    /\ stopdepth = (IF received.collapsed # 0 THEN received.length - 1 ELSE received.length)
    /\ Top \in 0 .. maxdepthm1

\* The levels of the search hold what they are meant to, up to the current one.
LevelsExact == Running => Exact(maxdepth, mark, pos, Top, list, dist, comp, limit)

\* The marks of the stub stay where it puts them.
StubPlaced ==
  Running /\ pc # "create" => \A k \in 1 .. stopdepth : mark[k] = mark[k - 1] + received.diffs[k]

\* newbit stands for the distance to a mark that was just placed.
NewBit ==
  Running =>
    /\ newbit => Top > 0 /\ pos = mark[Top - 1]
    /\ ~newbit /\ 0 < Top /\ Top < maxdepthm1 => pos > mark[Top - 1]

\* Where the search stands when it may be interrupted, and when it has ended.
Stands ==
  /\ pc = "ready" => Top > received.length /\ newbit /\ mark[Top] = pos
  /\ pc = "cycle" => Top > stopdepth /\ nodes > 0
  /\ pc = "exit" =>
       \/ Top <= stopdepth
       \/ nodes = 0 /\ newbit /\ Top > stopdepth + 1 /\ mark[Top] = pos
       \/ /\ Top = maxdepthm1 /\ nodes > 0 /\ ~newbit
          /\ mark[Top] = pos /\ Fits(maxdepth, mark, Top)

OgrInv ==
  /\ TypeOK /\ StubKept /\ Phase /\ Reloadable /\ Replaying /\ Bounded /\ LevelsExact
  /\ StubPlaced /\ NewBit /\ Stands
  /\ FoundIsGolomb /\ SavedStateLoads /\ StubRestored

------------------------------------------------------------------------------

\* A stub of the core's range, as servers send them.
LEMMA StubFacts ==
  ASSUME received \in Stubs
  PROVE  /\ received \in WorkStub
         /\ received.marks \in Nat /\ received.length \in Nat /\ received.collapsed \in Nat
         /\ received.worklength \in Nat /\ received.diffs \in [1 .. OGR_STUB_MAX -> Nat]
         /\ received.worklength <= received.length
         /\ InRange(received) =>
              /\ 0 < received.length /\ received.length < received.marks - 1
              /\ received.length < OGR_STUB_MAX /\ received.length \in Level
              /\ \A k \in 1 .. received.length : received.diffs[k] \in Nat \ {0}
              /\ received.collapsed \in {0, received.diffs[received.length]}
<1>1. received \in WorkStub
  BY InputAssumption
<1>2. /\ received.marks \in Nat /\ received.length \in Nat /\ received.collapsed \in Nat
      /\ received.worklength \in Nat /\ received.diffs \in [1 .. OGR_STUB_MAX -> Nat]
  BY <1>1 DEF WorkStub
<1>3. received.worklength <= received.length
  BY InputAssumption
<1>4. ASSUME InRange(received)
      PROVE  /\ 0 < received.length /\ received.length < received.marks - 1
             /\ \A k \in 1 .. received.length : received.diffs[k] > 0
             /\ received.collapsed \in {0, received.diffs[received.length]}
  BY <1>4, InputAssumption DEF InRange
<1>5. ASSUME InRange(received)
      PROVE  /\ received.length < OGR_STUB_MAX /\ received.length \in Level
             /\ \A k \in 1 .. received.length : received.diffs[k] \in Nat \ {0}
  <2>1. received.length < OGR_STUB_MAX
    BY <1>2, <1>4, <1>5, SizeAssumption DEF InRange
  <2>2. \A k \in 1 .. received.length : received.diffs[k] \in Nat
    BY <1>2, <2>1, SizeAssumption
  <2>3. received.length \in Level
    BY <1>2, <2>1, SizeAssumption DEF Level
  <2> QED BY <1>4, <1>5, <2>1, <2>2, <2>3
<1> QED BY <1>1, <1>2, <1>3, <1>4, <1>5

\* The fields of a record, and how many of its diffs are replayed.
LEMMA StubTypes ==
  ASSUME NEW w \in WorkStub
  PROVE  /\ w.marks \in Nat /\ w.length \in Nat /\ w.worklength \in Nat /\ w.collapsed \in Nat
         /\ w.diffs \in [1 .. OGR_STUB_MAX -> Nat]
         /\ ReplayLength(w) \in Nat /\ ReplayLength(w) >= w.length
         /\ ReplayLength(w) >= w.worklength
         /\ ReplayLength(w) \in {w.length, w.worklength}
<1>1. /\ w.marks \in Nat /\ w.length \in Nat /\ w.worklength \in Nat /\ w.collapsed \in Nat
      /\ w.diffs \in [1 .. OGR_STUB_MAX -> Nat]
  BY DEF WorkStub
<1> QED BY <1>1 DEF ReplayLength, MaxOf

\* The packet before its first load.
LEMMA OgrInit == Init => OgrInv
<1> SUFFICES ASSUME Init PROVE OgrInv
  OBVIOUS
<1> USE DEF Init
<1>0. /\ 0 \in Level /\ 0 \in -1 .. OGR_STUB_MAX /\ 0 \in 0 .. MaxResets
      /\ OGR_NG_MIN \in OGR_NG_MIN .. OGR_NG_MAX
  BY SizeAssumption DEF Level
<1>1. TypeOK
  <2>0. received \in Stubs /\ workstub \in WorkStub
    BY InputAssumption
  <2>1. /\ worked \in BOOLEAN /\ resets \in 0 .. MaxResets
        /\ maxdepth \in OGR_NG_MIN .. OGR_NG_MAX
        /\ startdepth \in Level /\ stopdepth \in Level /\ depth \in -1 .. OGR_STUB_MAX
    BY <1>0
  <2>2. list \in [Level -> SUBSET Dist] /\ dist \in [Level -> SUBSET Dist]
        /\ comp \in [Level -> SUBSET Dist] /\ mark \in [Level -> Nat] /\ limit \in [Level -> Int]
    BY DEF NoLevel
  <2> QED BY <2>0, <2>1, <2>2 DEF TypeOK, Results
<1>2. StubKept /\ Phase /\ Reloadable
  BY DEF StubKept, KeepsStub, Phase, Running, Reloadable, Loaded
<1>3. Replaying /\ Bounded /\ LevelsExact /\ StubPlaced /\ NewBit /\ Stands
  BY DEF Replaying, Bounded, LevelsExact, StubPlaced, NewBit, Stands, Running
<1>4. FoundIsGolomb /\ SavedStateLoads /\ StubRestored
  BY DEF FoundIsGolomb, SavedStateLoads, StubRestored
<1> QED BY <1>1, <1>2, <1>3, <1>4 DEF OgrInv

\* The start of ogr_create().
LEMMA BeginInv ==
  ASSUME OgrInv, pc = "stored", NEW w \in WorkStub, BeginCreate(w), KeepsStub(w),
         worked' \in BOOLEAN, resets' \in 0 .. MaxResets,
         worked' \/ w # received =>
           /\ InRange(received) /\ maxdepth = received.marks
           /\ Replays(maxdepth, received.diffs, received.length),
         w # received => Progress(w)
  PROVE  OgrInv'
<1>0. /\ received' = received /\ workstub' = w /\ nodes' = nodes /\ received \in Stubs
      /\ InRange(w) <=> InRange(received)
      /\ TypeOK
  BY DEF BeginCreate, KeepsStub, InRange, TypeOK, OgrInv
<1>1. CASE w.marks \notin OGR_NG_MIN .. OGR_NG_MAX \/ ReplayLength(w) >= OGR_STUB_MAX
  <2>1. /\ pc' = "done" /\ retval' = "CORE_E_FORMAT"
        /\ UNCHANGED <<bounds, depth, levels, pos, newbit>>
    BY <1>1 DEF BeginCreate
  <2>2. TypeOK'
    BY <1>0, <2>1 DEF TypeOK, Results, bounds, levels
  <2>3. StubKept'
    BY <1>0 DEF StubKept, KeepsStub, InRange
  <2>4. (Phase /\ Reloadable /\ Replaying /\ Bounded /\ LevelsExact /\ StubPlaced /\ NewBit /\ Stands)'
    BY <2>1 DEF Phase, Reloadable, Replaying, Bounded, LevelsExact, StubPlaced, NewBit, Stands, Running
  <2>5. w = received
    <3>1. SUFFICES ASSUME w # received PROVE FALSE
      OBVIOUS
    <3>2. InRange(w) /\ InRange(received) /\ maxdepth = received.marks /\ ReplayLength(w) <= maxdepth - 2
      BY <1>0, <3>1 DEF Progress
    <3>3. ReplayLength(w) \in Nat
      BY DEF ReplayLength, MaxOf, WorkStub
    <3> QED BY <1>1, <3>2, <3>3, SizeAssumption DEF InRange
  <2>6. (FoundIsGolomb /\ SavedStateLoads /\ StubRestored)'
    BY <1>0, <2>1, <2>5 DEF FoundIsGolomb, SavedStateLoads, StubRestored
  <2> QED BY <2>2, <2>3, <2>4, <2>6 DEF OgrInv
<1>2. CASE ~(w.marks \notin OGR_NG_MIN .. OGR_NG_MAX \/ ReplayLength(w) >= OGR_STUB_MAX)
  <2>1. /\ pc' = "create" /\ retval' = "none"
        /\ maxdepth' = w.marks /\ depth' = 1
        /\ startdepth' = w.length
        /\ stopdepth' = (IF w.collapsed # 0 THEN w.length - 1 ELSE w.length)
        /\ list' = NoLevel({}) /\ dist' = NoLevel({}) /\ comp' = NoLevel({})
        /\ mark' = NoLevel(0)
        /\ limit' = [NoLevel(0) EXCEPT ![1] = choose(w.marks, {}, 1)]
        /\ pos' = 0 /\ newbit' = TRUE
    BY <1>2 DEF BeginCreate
  <2>2. /\ InRange(received) /\ w.marks = received.marks /\ w.length = received.length
        /\ w.collapsed = received.collapsed
        /\ w.marks \in OGR_NG_MIN .. OGR_NG_MAX
    BY <1>0, <1>2 DEF KeepsStub, InRange
  <2>3. /\ received.marks \in Nat /\ received.length \in Nat /\ received.collapsed \in Nat
        /\ 0 < received.length /\ received.length < received.marks - 1
        /\ received.length < OGR_STUB_MAX /\ received.worklength <= received.length
        /\ received.worklength \in Nat
    BY <1>0, <2>2, StubFacts
  <2>4. ReplayLength(w) \in Nat /\ ReplayLength(w) <= w.marks - 2
    <3>1. ReplayLength(w) \in Nat
      BY StubTypes
    <3>2. CASE w = received
      BY <2>3, <3>2 DEF ReplayLength, MaxOf
    <3>3. CASE w # received
      <4>1. ReplayLength(w) <= maxdepth - 2
        BY <3>3 DEF Progress
      <4>2. maxdepth = w.marks
        BY Zenon, <3>3, <2>2
      <4> QED BY <3>1, <4>1, <4>2
    <3> QED BY <3>1, <3>2, <3>3
  <2>5. Exact(maxdepth', mark', 0, 1, list', dist', comp', limit') /\ choose(w.marks, {}, 1) \in Int
    BY <2>1, <2>2, FirstExact
  <2>6. TypeOK'
    <3>1. startdepth' \in Level /\ stopdepth' \in Level /\ depth' \in -1 .. OGR_STUB_MAX
      BY <2>1, <2>2, <2>3, SizeAssumption DEF Level
    <3>2. /\ list' \in [Level -> SUBSET Dist] /\ dist' \in [Level -> SUBSET Dist]
          /\ comp' \in [Level -> SUBSET Dist] /\ mark' \in [Level -> Nat]
      BY <2>1 DEF NoLevel
    <3>2a. limit' \in [Level -> Int]
      <4>1. NoLevel(0) \in [Level -> Int]
        BY DEF NoLevel
      <4> HIDE DEF NoLevel
      <4> QED BY <2>1, <2>5, <4>1
    <3>3. /\ received' \in Stubs /\ workstub' \in WorkStub /\ nodes' \in Nat
          /\ worked' \in BOOLEAN /\ resets' \in 0 .. MaxResets
      BY <1>0 DEF TypeOK
    <3>4. /\ pc' \in {"stored", "create", "ready", "cycle", "exit", "done"} /\ retval' \in Results
          /\ maxdepth' \in OGR_NG_MIN .. OGR_NG_MAX /\ pos' \in Nat /\ newbit' \in BOOLEAN
      BY <2>1, <2>2 DEF Results
    <3> QED BY <3>1, <3>2, <3>2a, <3>3, <3>4 DEF TypeOK
  <2>7. StubKept'
    BY <1>0 DEF StubKept, KeepsStub, InRange
  <2>8. Phase'
    BY <1>0, <2>1, <2>2 DEF Phase, InRange
  <2>9. Reloadable'
    <3>1. SUFFICES ASSUME worked' \/ w # received
          PROVE  /\ InRange(received) /\ maxdepth' = received.marks
                 /\ Replays(maxdepth', received.diffs, received.length)
                 /\ w # received => /\ ReplayLength(w) <= maxdepth' - 2
                                    /\ Replays(maxdepth', w.diffs, ReplayLength(w))
      BY <1>0, <2>1 DEF Reloadable, Loaded, Progress, InRange
    <3>2. maxdepth' = maxdepth
      BY <2>1, <2>2, <3>1
    <3> QED BY <2>1, <2>2, <3>1, <3>2 DEF Progress
  <2>10. Replaying'
    <3>1. mark'[1] = 0
      BY <2>1, SizeAssumption DEF NoLevel, Level
    <3>2. DiffsOf(workstub'.diffs, mark', depth' - 1)
      BY <2>1 DEF DiffsOf
    <3> QED BY <1>0, <2>1, <2>4, <3>1, <3>2 DEF Replaying
  <2>11. Bounded' /\ NewBit'
    <3>1. Top' = 1 /\ maxdepthm1' = w.marks - 1
      BY <2>1 DEF Top, maxdepthm1
    <3>2. mark'[Top' - 1] = 0
      BY <2>1, <3>1, SizeAssumption DEF NoLevel, Level
    <3> QED BY <1>0, <2>1, <2>2, <2>3, <3>1, <3>2, SizeAssumption DEF Bounded, NewBit
  <2>12. LevelsExact'
    <3>1. Top' = 1 /\ pos' = 0
      BY <2>1 DEF Top
    <3> QED BY <2>5, <3>1 DEF LevelsExact
  <2>13. StubPlaced' /\ Stands'
    BY <2>1 DEF StubPlaced, Stands
  <2>14. (FoundIsGolomb /\ SavedStateLoads /\ StubRestored)'
    BY <2>1 DEF FoundIsGolomb, SavedStateLoads, StubRestored
  <2> QED BY <2>6, <2>7, <2>8, <2>9, <2>10, <2>11, <2>12, <2>13, <2>14 DEF OgrInv
<1> QED BY <1>1, <1>2

-----------------------------------------------------------------------------
(* Replaying a record.                                                       *)

\* What newbit stands for when the bitmaps are shifted.
LEMMA ShiftsNow ==
  ASSUME maxdepth \in OGR_NG_MIN .. OGR_NG_MAX, mark \in Marks, pos \in Nat,
         depth \in 1 .. maxdepth - 1, Ruler(maxdepth, mark, depth - 1),
         newbit => pos = mark[depth - 1],
         ~newbit => pos > mark[depth - 1],
         NEW s
  PROVE  ShiftsIn(mark, pos, depth, s, IF newbit THEN {s} ELSE {})
<1>1. ASSUME pos > mark[depth - 1], NEW i \in 0 .. depth - 1 PROVE mark[i] < pos
  <2>1. /\ depth - 1 \in -1 .. maxdepth - 1 /\ depth - 1 \in 0 .. depth - 1
        /\ i \in 0 .. maxdepth /\ depth - 1 \in 0 .. maxdepth
    BY SizeAssumption
  <2>2. \A k \in 0 .. depth - 1 : \A j \in 0 .. k - 1 : mark[j] < mark[k]
    BY <2>1, Growing
  <2>3. i = depth - 1 \/ i \in 0 .. (depth - 1) - 1
    BY <2>1
  <2>4. mark[i] \in Nat /\ mark[depth - 1] \in Nat
    BY <2>1, MarkNat
  <2> QED BY <1>1, <2>1, <2>2, <2>3, <2>4
<1>2. CASE newbit
  BY <1>2 DEF ShiftsIn
<1>3. CASE ~newbit
  BY <1>1, <1>3 DEF ShiftsIn
<1> QED BY <1>2, <1>3

\* A push keeps the levels exact, in the replay of a record and in the search.
LEMMA PushInv ==
  ASSUME TypeOK, Exact(maxdepth, mark, pos, depth, list, dist, comp, limit),
         depth \in 1 .. maxdepth - 2,
         newbit => pos = mark[depth - 1],
         ~newbit => pos > mark[depth - 1],
         NEW s \in Nat \ {0}, ~BadDiff(s), PushAt(s, pos + s), maxdepth' = maxdepth,
         \/ mark' = [mark EXCEPT ![depth] = pos + s, ![depth + 1] = pos + s]
         \/ mark' = [mark EXCEPT ![depth] = pos + s]
  PROVE  /\ Exact(maxdepth, mark', pos', depth', list', dist', comp', limit')
         /\ Levels(list', dist', comp', limit') /\ mark' \in Marks
         /\ depth' = depth + 1 /\ pos' = pos + s /\ newbit' = TRUE
         /\ MovedTo(mark, mark', depth, pos')
<1> DEFINE n == maxdepth
           e == IF newbit THEN {s} ELSE {}
<1>0. /\ n \in OGR_NG_MIN .. OGR_NG_MAX /\ mark \in Marks /\ pos \in Nat
      /\ Levels(list, dist, comp, limit) /\ depth \in 1 .. n - 2
  BY DEF TypeOK, Marks, Levels
<1>1. /\ depth \in Level /\ depth + 1 \in Level /\ depth + 1 # depth
      /\ depth \in Nat /\ \A i \in 0 .. depth - 1 : i \in Level
  <2>1. n \in Nat /\ n <= OGR_STUB_MAX
    BY <1>0, MarkNat
  <2> QED BY <1>0, <2>1, SizeAssumption DEF Level
<1>2. mark' \in Marks /\ MovedTo(mark, mark', depth, pos + s)
  <2>1. mark \in [Level -> Nat] /\ pos + s \in Nat
    BY <1>0 DEF Marks
  <2>2. \A i \in 0 .. depth - 1 : i # depth /\ i # depth + 1
    BY <1>1
  <2> QED BY <1>1, <2>1, <2>2 DEF Marks, MovedTo
<1>3. /\ Pushed(n, mark, pos, depth, s, e, list, dist, comp, limit, list', dist', comp', limit')
      /\ depth' = depth + 1 /\ pos' = pos + s /\ newbit' = TRUE
  <2>1. ShiftList(s) = ShiftUp(list[depth], s, e) /\ ShiftComp(s) = ShiftDown(comp[depth], s)
    BY <1>0, <1>1, ShiftsWhole DEF Levels
  <2> HIDE DEF e
  <2> QED BY <2>1, NextLimitIs DEF PushAt, Pushed, half_depth
<1>5. pos + s <= limit[depth] /\ s \notin comp[depth]
  <2>1. limit[depth] \in Int
    BY <1>0, <1>1 DEF Levels
  <2> QED BY <1>0, <2>1 DEF BadDiff
<1>7. ShiftsIn(mark, pos, depth, s, e)
  <2>1. depth \in 1 .. n - 1
    BY <1>0
  <2>2. Ruler(n, mark, depth - 1)
    BY DEF Exact
  <2> QED BY <1>0, <2>1, <2>2, ShiftsNow
<1>8. Exact(n, mark, pos, depth, list, dist, comp, limit)
  OBVIOUS
<1> HIDE DEF n, e
<1>9. /\ Exact(n, mark', pos + s, depth + 1, list', dist', comp', limit')
      /\ Levels(list', dist', comp', limit')
  BY <1>0, <1>2, <1>3, <1>5, <1>7, <1>8, PushExact
<1> QED BY <1>2, <1>3, <1>9 DEF n

\* The packet is loaded with the progress it has.
LEMMA LoadOgr == ASSUME OgrInv, Load PROVE OgrInv'
<1>1. workstub \in WorkStub /\ worked \in BOOLEAN /\ resets \in 0 .. MaxResets
  BY DEF OgrInv, TypeOK
<1>2. /\ pc = "stored" /\ BeginCreate(workstub) /\ worked' = worked /\ resets' = resets
  BY DEF Load
<1>3. KeepsStub(workstub)
  BY DEF OgrInv, StubKept
<1>4. ASSUME worked \/ workstub # received
      PROVE  /\ InRange(received) /\ maxdepth = received.marks
             /\ Replays(maxdepth, received.diffs, received.length)
  BY <1>2, <1>4 DEF OgrInv, Reloadable, Loaded
<1>5. ASSUME workstub # received PROVE Progress(workstub)
  BY <1>2, <1>5 DEF OgrInv, Reloadable, Loaded
<1>6. /\ worked' \in BOOLEAN /\ resets' \in 0 .. MaxResets
      /\ worked' \/ workstub # received =>
           /\ InRange(received) /\ maxdepth = received.marks
           /\ Replays(maxdepth, received.diffs, received.length)
  BY <1>1, <1>2, <1>4
<1> QED BY <1>1, <1>2, <1>3, <1>5, <1>6, BeginInv

\* A record whose progress is dropped is the stub the server sent.
LEMMA ResetRecord ==
  ASSUME OgrInv, pc = "stored", worked
  PROVE  LET w == ResetStub(workstub)
         IN /\ w \in WorkStub /\ KeepsStub(w) /\ ReplayLength(w) = received.length
            /\ \A k \in 1 .. received.length : w.diffs[k] = received.diffs[k]
            /\ Progress(w)
<1> DEFINE w == ResetStub(workstub)
           D == IF workstub.collapsed # 0
                THEN [workstub.diffs EXCEPT ![workstub.length] = workstub.collapsed]
                ELSE workstub.diffs
<1>0. workstub \in WorkStub /\ received \in Stubs /\ KeepsStub(workstub)
  BY DEF OgrInv, TypeOK, StubKept
<1>2. /\ InRange(received) /\ maxdepth = received.marks
      /\ Replays(maxdepth, received.diffs, received.length)
  BY DEF OgrInv, Reloadable, Loaded
<1>3. /\ workstub.length = received.length /\ workstub.collapsed = received.collapsed
      /\ workstub.marks = received.marks
      /\ received.length \in 1 .. OGR_STUB_MAX /\ received.length < received.marks - 1
      /\ received.collapsed \in {0, received.diffs[received.length]}
      /\ received.marks \in Nat
      /\ \A k \in 1 .. received.length :
           k < received.length \/ received.collapsed = 0 => workstub.diffs[k] = received.diffs[k]
  <2>1. /\ received.length \in Nat /\ received.marks \in Nat /\ 0 < received.length
        /\ received.length < received.marks - 1 /\ received.length < OGR_STUB_MAX
        /\ received.collapsed \in {0, received.diffs[received.length]}
    BY <1>0, <1>2, StubFacts
  <2>2. received.length \in 1 .. OGR_STUB_MAX
    BY <2>1, SizeAssumption
  <2> QED BY <1>0, <1>2, <2>1, <2>2 DEF KeepsStub
<1>4. /\ workstub.diffs \in [1 .. OGR_STUB_MAX -> Nat] /\ workstub.collapsed \in Nat
      /\ workstub.length \in Nat
  BY <1>0, StubTypes
<1>5. w = [workstub EXCEPT !.worklength = workstub.length, !.diffs = D]
  BY <1>0 DEF ResetStub, WorkStub
<1>6. D \in [1 .. OGR_STUB_MAX -> Nat]
  BY <1>4
<1>7. ASSUME NEW k \in 1 .. received.length PROVE D[k] = received.diffs[k]
  <2>1. k \in 1 .. OGR_STUB_MAX /\ workstub.length \in 1 .. OGR_STUB_MAX
    BY <1>3, SizeAssumption
  <2>2. CASE workstub.collapsed = 0
    BY <1>3, <2>2
  <2>3. CASE workstub.collapsed # 0 /\ k = workstub.length
    BY <1>3, <1>4, <2>1, <2>3
  <2>4. CASE workstub.collapsed # 0 /\ k # workstub.length
    <3>1. k < received.length
      BY <1>3, <2>4
    <3>2. workstub.diffs[k] = received.diffs[k]
      BY <1>3, <3>1
    <3> QED BY <1>4, <2>1, <2>4, <3>2
  <2> QED BY <2>2, <2>3, <2>4
<1> HIDE DEF D, w
<1>8. /\ w \in WorkStub /\ w.marks = received.marks /\ w.length = received.length
      /\ w.collapsed = received.collapsed /\ w.diffs = D /\ w.worklength = received.length
  <2>1. w.marks = workstub.marks /\ w.length = workstub.length
    BY <1>0, <1>5 DEF WorkStub
  <2>2. w.collapsed = workstub.collapsed /\ w.diffs = D /\ w.worklength = workstub.length
    BY <1>0, <1>5 DEF WorkStub
  <2>3. w \in WorkStub
    BY <1>0, <1>4, <1>5, <1>6 DEF WorkStub
  <2> QED BY <1>3, <2>1, <2>2, <2>3
<1>9. ReplayLength(w) = received.length
  BY <1>3, <1>8 DEF ReplayLength, MaxOf
<1>10. KeepsStub(w)
  BY <1>7, <1>8 DEF KeepsStub
<1>11. Progress(w)
  <2>1. Replays(maxdepth, D, received.length)
    BY <1>2, <1>3, <1>7, SameDiffs
  <2>2. received.length <= maxdepth - 2
    BY <1>2, <1>3
  <2> QED BY <1>8, <1>9, <2>1, <2>2 DEF Progress
<1> QED BY <1>7, <1>8, <1>9, <1>10, <1>11 DEF w

\* The packet is loaded and its progress dropped.
LEMMA LoadResetOgr == ASSUME OgrInv, LoadReset PROVE OgrInv'
<1> DEFINE w == ResetStub(workstub)
<1>1. /\ pc = "stored" /\ worked /\ resets < MaxResets
      /\ BeginCreate(w) /\ worked' = FALSE /\ resets' = resets + 1
  BY DEF LoadReset
<1>2. /\ InRange(received) /\ maxdepth = received.marks
      /\ Replays(maxdepth, received.diffs, received.length)
  BY <1>1 DEF OgrInv, Reloadable, Loaded
<1>3. w \in WorkStub /\ KeepsStub(w) /\ Progress(w)
  BY <1>1, ResetRecord
<1> HIDE DEF w
<1>4. worked' \in BOOLEAN /\ resets' \in 0 .. MaxResets
  <2>1. resets \in 0 .. MaxResets
    BY DEF OgrInv, TypeOK
  <2>2. resets + 1 \in 0 .. MaxResets
    BY <1>1, <2>1, SizeAssumption
  <2> QED BY <1>1, <2>2
<1> QED BY <1>1, <1>2, <1>3, <1>4, BeginInv

\* The record that is replayed, whether a server's or one the client wrote back.
LEMMA RecordReplayed ==
  ASSUME OgrInv, pc = "create"
  PROVE  /\ maxdepth \in OGR_NG_MIN .. OGR_NG_MAX /\ maxdepth \in Nat
         /\ ReplayLength(workstub) \in Nat /\ ReplayLength(workstub) <= maxdepth - 2
         /\ depth \in 1 .. ReplayLength(workstub) + 1
         /\ Top = depth /\ newbit /\ pos = mark[depth - 1] /\ mark[depth] = pos
         /\ DiffsOf(workstub.diffs, mark, depth - 1)
         /\ Exact(maxdepth, mark, pos, depth, list, dist, comp, limit)
         /\ \A k \in 1 .. ReplayLength(workstub) : workstub.diffs[k] \in Nat \ {0}
<1>1. /\ maxdepth \in OGR_NG_MIN .. OGR_NG_MAX /\ workstub \in WorkStub /\ received \in Stubs
      /\ ReplayLength(workstub) <= maxdepth - 2 /\ depth \in 1 .. ReplayLength(workstub) + 1
      /\ newbit /\ mark[depth] = pos /\ DiffsOf(workstub.diffs, mark, depth - 1)
      /\ Running
  BY DEF OgrInv, TypeOK, Replaying, Running
<1>2. Top = depth
  BY DEF Top
<1>3. /\ InRange(received) /\ maxdepth = received.marks
      /\ Exact(maxdepth, mark, pos, depth, list, dist, comp, limit)
      /\ pos = mark[depth - 1]
  BY <1>1, <1>2 DEF OgrInv, Phase, Bounded, LevelsExact, NewBit
<1>4. ReplayLength(workstub) \in Nat /\ workstub.diffs \in [1 .. OGR_STUB_MAX -> Nat]
  BY <1>1, StubTypes
<1>5. maxdepth \in Nat /\ maxdepth <= OGR_STUB_MAX
  BY <1>1, SizeAssumption
<1>6. \A k \in 1 .. ReplayLength(workstub) : workstub.diffs[k] \in Nat
  <2>1. \A k \in 1 .. ReplayLength(workstub) : k \in 1 .. OGR_STUB_MAX
    BY <1>1, <1>4, <1>5, SizeAssumption
  <2> QED BY <1>4, <2>1
<1>7. ASSUME NEW k \in 1 .. ReplayLength(workstub) PROVE workstub.diffs[k] # 0
  <2>1. CASE workstub = received
    <3>1. /\ received.length \in Nat /\ received.worklength \in Nat
          /\ received.worklength <= received.length
          /\ \A i \in 1 .. received.length : received.diffs[i] \in Nat \ {0}
      BY <1>1, <1>3, StubFacts
    <3>2. ReplayLength(workstub) = received.length
      BY <2>1, <3>1 DEF ReplayLength, MaxOf
    <3> QED BY <2>1, <3>1, <3>2
  <2>2. CASE workstub # received
    <3>1. Replays(maxdepth, workstub.diffs, ReplayLength(workstub))
      BY <2>2 DEF OgrInv, Reloadable, Loaded, Progress
    <3>2. ReplayLength(workstub) \in 0 .. maxdepth - 1
      BY <1>1, <1>4, <1>5
    <3>3. 0 < workstub.diffs[k]
      BY <1>1, <1>6, <3>1, <3>2, DiffsBound
    <3> QED BY <3>3
  <2> QED BY <2>1, <2>2
<1> QED BY <1>1, <1>2, <1>3, <1>4, <1>5, <1>6, <1>7

\* One diff of the record is replayed.
LEMMA ReplayOgr == ASSUME OgrInv, Replay PROVE OgrInv'
<1> DEFINE s == workstub.diffs[depth]
<1>1. /\ pc = "create" /\ depth <= ReplayLength(workstub)
      /\ ~BadDiff(s) /\ PushAt(s, pos + s)
      /\ mark' = [mark EXCEPT ![depth] = pos + s, ![depth + 1] = pos + s]
      /\ UNCHANGED <<file, pc, retval, bounds, nodes>>
  BY DEF Replay
<1>2. /\ received' = received /\ workstub' = workstub /\ worked' = worked /\ resets' = resets
      /\ pc' = "create" /\ retval' = retval /\ maxdepth' = maxdepth /\ startdepth' = startdepth
      /\ stopdepth' = stopdepth /\ nodes' = nodes
  BY <1>1 DEF file, bounds
<1>3. /\ maxdepth \in OGR_NG_MIN .. OGR_NG_MAX /\ maxdepth \in Nat
      /\ ReplayLength(workstub) \in Nat /\ ReplayLength(workstub) <= maxdepth - 2
      /\ depth \in 1 .. ReplayLength(workstub) + 1
      /\ Top = depth /\ newbit /\ pos = mark[depth - 1] /\ mark[depth] = pos
      /\ DiffsOf(workstub.diffs, mark, depth - 1)
      /\ Exact(maxdepth, mark, pos, depth, list, dist, comp, limit)
      /\ \A k \in 1 .. ReplayLength(workstub) : workstub.diffs[k] \in Nat \ {0}
  BY <1>1, RecordReplayed
<1>4. depth \in 1 .. maxdepth - 2 /\ depth \in 1 .. ReplayLength(workstub) /\ s \in Nat \ {0}
  <2>1. depth \in 1 .. maxdepth - 2 /\ depth \in 1 .. ReplayLength(workstub)
    BY <1>1, <1>3
  <2> QED BY <1>3, <2>1
<1> HIDE DEF s
<1>5. TypeOK
  BY DEF OgrInv
<1>6. /\ Exact(maxdepth, mark', pos', depth', list', dist', comp', limit')
      /\ Levels(list', dist', comp', limit') /\ mark' \in Marks
      /\ depth' = depth + 1 /\ pos' = pos + s /\ newbit' = TRUE
      /\ MovedTo(mark, mark', depth, pos')
  <2>1. newbit => pos = mark[depth - 1]
    BY <1>3
  <2>2. ~newbit => pos > mark[depth - 1]
    BY <1>3
  <2> QED BY <1>1, <1>2, <1>3, <1>4, <1>5, <2>1, <2>2, PushInv
<1>7. /\ mark'[depth] = pos' /\ mark'[depth'] = pos' /\ mark'[depth' - 1] = pos'
      /\ \A i \in 0 .. depth - 1 : mark'[i] = mark[i]
  <2>0. maxdepth <= OGR_STUB_MAX
    BY <1>3, SizeAssumption
  <2>1. mark \in [Level -> Nat] /\ depth + 1 \in Level
    <3>1. depth + 1 \in Level
      BY <1>3, <1>4, <2>0, SizeAssumption DEF Level
    <3> QED BY <1>5, <3>1 DEF TypeOK
  <2>2. mark'[depth + 1] = pos + s
    BY <1>1, <2>1
  <2>4. mark'[depth] = pos' /\ \A i \in 0 .. depth - 1 : mark'[i] = mark[i]
    BY <1>6 DEF MovedTo
  <2>5. depth' - 1 = depth /\ depth' = depth + 1
    BY <1>4, <1>6
  <2> QED BY <1>6, <2>2, <2>4, <2>5
<1>8. TypeOK'
  <2>0. maxdepth <= OGR_STUB_MAX
    BY <1>3, SizeAssumption
  <2>1. depth' \in -1 .. OGR_STUB_MAX
    BY <1>3, <1>4, <1>6, <2>0, SizeAssumption
  <2>2. pos' \in Nat /\ pos \in Nat
    BY <1>4, <1>5, <1>6 DEF TypeOK
  <2>3. newbit' \in BOOLEAN
    BY <1>6
  <2> QED BY <1>1, <1>2, <1>5, <1>6, <2>1, <2>2, <2>3 DEF TypeOK, Levels, Marks
<1>9. StubKept' /\ Phase' /\ Reloadable'
  <2>1. StubKept'
    BY <1>2 DEF OgrInv, StubKept, KeepsStub, InRange
  <2>2. Phase'
    BY <1>1, <1>2 DEF OgrInv, Phase, Running, InRange
  <2>3. Reloadable'
    BY <1>1, <1>2 DEF OgrInv, Reloadable, Loaded, Progress, InRange
  <2> QED BY <2>1, <2>2, <2>3
<1>10. Replaying'
  <2>1. depth' \in 1 .. ReplayLength(workstub) + 1
    BY <1>1, <1>3, <1>4, <1>6
  <2>2. DiffsOf(workstub.diffs, mark', depth)
    <3>1. ASSUME NEW k \in 1 .. depth PROVE mark'[k] = mark'[k - 1] + workstub.diffs[k]
      <4>1. k \in 1 .. depth - 1 \/ k = depth
        BY <1>4
      <4>2. CASE k = depth
        <5>1. depth - 1 \in 0 .. depth - 1
          BY <1>4
        <5>2. mark'[depth - 1] = pos
          BY <1>3, <1>7, <5>1
        <5> QED BY <1>6, <1>7, <4>2, <5>2 DEF s
      <4>3. CASE k \in 1 .. depth - 1
        <5>1. k \in 0 .. depth - 1 /\ k - 1 \in 0 .. depth - 1
          BY <4>3, <1>4
        <5>2. mark[k] = mark[k - 1] + workstub.diffs[k]
          BY <1>3, <4>3 DEF DiffsOf
        <5> QED BY <1>7, <5>1, <5>2
      <4> QED BY <4>1, <4>2, <4>3
    <3> QED BY <3>1 DEF DiffsOf
  <2>3. depth' - 1 = depth
    BY <1>4, <1>6
  <2> QED BY <1>2, <1>3, <1>6, <1>7, <2>1, <2>2, <2>3 DEF Replaying
<1>11. Top' = depth' /\ Running
  BY <1>1, <1>2 DEF Top, Running
<1>12. Bounded'
  <2>1. depth' \in 0 .. maxdepth - 1
    BY <1>3, <1>4, <1>6
  <2>2. /\ maxdepth = received.marks /\ startdepth = received.length
        /\ stopdepth = (IF received.collapsed # 0 THEN received.length - 1 ELSE received.length)
    BY <1>11 DEF OgrInv, Bounded
  <2> QED BY <1>2, <1>11, <2>1, <2>2 DEF Bounded, maxdepthm1
<1>13. LevelsExact'
  BY <1>2, <1>6, <1>11 DEF LevelsExact
<1>14. NewBit'
  BY <1>4, <1>6, <1>7, <1>11 DEF NewBit
<1>15. StubPlaced' /\ Stands'
  BY <1>2 DEF StubPlaced, Stands
<1>16. FoundIsGolomb' /\ SavedStateLoads' /\ StubRestored'
  <2>1. retval' = "none"
    BY <1>1, <1>2 DEF OgrInv, Phase
  <2> QED BY <2>1 DEF FoundIsGolomb, SavedStateLoads, StubRestored
<1> QED BY <1>8, <1>9, <1>10, <1>12, <1>13, <1>14, <1>15, <1>16 DEF OgrInv

\* A record the client wrote back is not refused, so what is refused is the
\* server's.
LEMMA ReplayErrorOgr == ASSUME OgrInv, ReplayError PROVE OgrInv'
<1>1. /\ pc = "create" /\ depth <= ReplayLength(workstub)
      /\ BadDiff(workstub.diffs[depth])
      /\ pc' = "done" /\ retval' = "CORE_E_STUB"
      /\ UNCHANGED <<file, bounds, depth, levels, pos, newbit, nodes>>
  BY DEF ReplayError
<1>2. workstub = received
  <2>1. SUFFICES ASSUME workstub # received PROVE FALSE
    OBVIOUS
  <2>2. /\ maxdepth \in OGR_NG_MIN .. OGR_NG_MAX /\ maxdepth \in Nat
        /\ ReplayLength(workstub) \in Nat /\ ReplayLength(workstub) <= maxdepth - 2
        /\ depth \in 1 .. ReplayLength(workstub) + 1
        /\ pos = mark[depth - 1]
        /\ DiffsOf(workstub.diffs, mark, depth - 1)
        /\ Exact(maxdepth, mark, pos, depth, list, dist, comp, limit)
        /\ \A k \in 1 .. ReplayLength(workstub) : workstub.diffs[k] \in Nat \ {0}
    BY <1>1, RecordReplayed
  <2>3. Replays(maxdepth, workstub.diffs, ReplayLength(workstub))
    BY <1>1, <2>1 DEF OgrInv, Reloadable, Loaded, Progress
  <2>4. /\ depth \in 1 .. maxdepth - 2 /\ ReplayLength(workstub) \in depth .. maxdepth - 2
        /\ depth \in 1 .. ReplayLength(workstub)
    BY <1>1, <2>2
  <2>5. mark \in Marks /\ pos \in Nat /\ limit \in [Level -> Int]
    BY DEF OgrInv, TypeOK, Marks
  <2>6. /\ pos + workstub.diffs[depth] <= limit[depth]
        /\ workstub.diffs[depth] \notin comp[depth]
    BY <2>2, <2>3, <2>4, <2>5, NextDiffFits
  <2>7. depth \in Level /\ workstub.diffs[depth] \in Nat
    BY <2>2, <2>4, SizeAssumption DEF Level
  <2>8. limit[depth] \in Int
    BY <2>5, <2>7
  <2> QED BY <1>1, <2>5, <2>6, <2>7, <2>8 DEF BadDiff
<1>3. TypeOK'
  BY <1>1 DEF OgrInv, TypeOK, Results, file, bounds, levels
<1>4. StubKept'
  BY <1>1 DEF OgrInv, StubKept, KeepsStub, InRange, file
<1>5. (Phase /\ Reloadable /\ Replaying /\ Bounded /\ LevelsExact /\ StubPlaced /\ NewBit /\ Stands)'
  BY <1>1 DEF Phase, Reloadable, Replaying, Bounded, LevelsExact, StubPlaced, NewBit, Stands, Running
<1>6. (FoundIsGolomb /\ SavedStateLoads /\ StubRestored)'
  BY <1>1, <1>2 DEF FoundIsGolomb, SavedStateLoads, StubRestored, file
<1> QED BY <1>3, <1>4, <1>5, <1>6 DEF OgrInv

-----------------------------------------------------------------------------
(* The search.                                                               *)

\* ogr_create() has replayed the record: the stub is searched from its marks on.
LEMMA CreatedOgr == ASSUME OgrInv, Created PROVE OgrInv'
<1>1. /\ pc = "create" /\ depth > ReplayLength(workstub)
      /\ depth' = depth - 1 /\ pc' = "ready" /\ retval' = "CORE_S_CONTINUE"
      /\ received' = received /\ workstub' = workstub /\ worked' = worked /\ resets' = resets
      /\ maxdepth' = maxdepth /\ startdepth' = startdepth /\ stopdepth' = stopdepth
      /\ list' = list /\ dist' = dist /\ comp' = comp /\ mark' = mark /\ limit' = limit
      /\ pos' = pos /\ newbit' = newbit /\ nodes' = nodes
  BY DEF Created, file, bounds, levels
<1>2. /\ maxdepth \in OGR_NG_MIN .. OGR_NG_MAX /\ maxdepth \in Nat
      /\ ReplayLength(workstub) \in Nat /\ ReplayLength(workstub) <= maxdepth - 2
      /\ depth \in 1 .. ReplayLength(workstub) + 1
      /\ Top = depth /\ newbit /\ pos = mark[depth - 1] /\ mark[depth] = pos
      /\ DiffsOf(workstub.diffs, mark, depth - 1)
      /\ Exact(maxdepth, mark, pos, depth, list, dist, comp, limit)
  BY <1>1, RecordReplayed
<1>3. depth = ReplayLength(workstub) + 1 /\ depth - 1 = ReplayLength(workstub)
  BY <1>1, <1>2
<1>4. Top' = depth /\ Running /\ Running'
  <2>1. depth' + 1 = depth
    BY <1>1, <1>2
  <2> QED BY <1>1, <2>1 DEF Top, Running
<1>5. /\ TypeOK /\ InRange(received) /\ maxdepth = received.marks /\ startdepth = received.length
      /\ stopdepth = (IF received.collapsed # 0 THEN received.length - 1 ELSE received.length)
      /\ KeepsStub(workstub)
  BY <1>4 DEF OgrInv, Phase, Bounded, StubKept
<1>6. /\ received \in Stubs /\ workstub \in WorkStub /\ mark \in Marks
  BY <1>5 DEF TypeOK, Marks
<1>7. /\ received.length \in Nat /\ received.worklength \in Nat
      /\ received.worklength <= received.length
      /\ 0 < received.length /\ received.length < received.marks - 1
      /\ received.collapsed \in Nat
  BY <1>5, <1>6, StubFacts
<1>8. received.length <= ReplayLength(workstub)
  BY <1>5, <1>6, <1>7, StubTypes DEF KeepsStub
<1>9. TypeOK'
  <2>1. depth' \in -1 .. OGR_STUB_MAX
    <3>1. maxdepth <= OGR_STUB_MAX
      BY <1>2, SizeAssumption
    <3> QED BY <1>1, <1>2, <3>1, SizeAssumption
  <2> QED BY <1>1, <1>5, <2>1 DEF TypeOK, Results
<1>10. StubKept' /\ Phase'
  BY <1>1, <1>5 DEF StubKept, KeepsStub, Phase, InRange
<1>11. Replays(maxdepth, received.diffs, received.length)
  <2>1. CASE workstub # received
    BY <1>1, <2>1 DEF OgrInv, Reloadable, Loaded
  <2>2. CASE workstub = received
    <3>1. ReplayLength(workstub) = received.length
      BY <1>7, <2>2 DEF ReplayLength, MaxOf
    <3>2. Ruler(maxdepth, mark, received.length)
      BY <1>2, <1>3, <3>1 DEF Exact
    <3>3. DiffsOf(received.diffs, mark, received.length)
      BY <1>2, <1>3, <2>2, <3>1
    <3> QED BY <1>6, <3>2, <3>3 DEF Replays
  <2> QED BY <2>1, <2>2
<1>12. Reloadable' /\ Replaying'
  BY <1>1, <1>5, <1>11 DEF Reloadable, Loaded, InRange, Replaying
<1>13. Bounded'
  <2>1. depth \in 0 .. maxdepth - 1
    BY <1>2
  <2> QED BY <1>1, <1>4, <1>5, <2>1 DEF Bounded, maxdepthm1
<1>14. LevelsExact'
  BY <1>1, <1>2, <1>4 DEF LevelsExact
<1>15. StubPlaced'
  <2>1. ASSUME NEW k \in 1 .. stopdepth PROVE mark[k] = mark[k - 1] + received.diffs[k]
    <3>1. /\ k \in 1 .. received.length /\ k \in 1 .. depth - 1
          /\ k < received.length \/ received.collapsed = 0
      BY <1>3, <1>5, <1>7, <1>8, <1>2
    <3>2. workstub.diffs[k] = received.diffs[k]
      BY <1>5, <3>1 DEF KeepsStub
    <3>3. mark[k] = mark[k - 1] + workstub.diffs[k]
      BY <1>2, <3>1 DEF DiffsOf
    <3> QED BY <3>2, <3>3
  <2> QED BY <1>1, <2>1 DEF StubPlaced
<1>16. NewBit'
  BY <1>1, <1>2, <1>4 DEF NewBit
<1>17. Stands'
  <2>1. depth > received.length
    BY <1>3, <1>2, <1>7, <1>8
  <2> QED BY <1>1, <1>2, <1>4, <2>1 DEF Stands
<1>18. (FoundIsGolomb /\ SavedStateLoads /\ StubRestored)'
  BY <1>1 DEF FoundIsGolomb, SavedStateLoads, StubRestored
<1> QED BY <1>9, <1>10, <1>12, <1>13, <1>14, <1>15, <1>16, <1>17, <1>18 DEF OgrInv

\* What holds whenever the core has a stub in its levels.
LEMMA InCore ==
  ASSUME OgrInv, pc \in {"ready", "cycle", "exit"}
  PROVE  /\ maxdepth \in OGR_NG_MIN .. OGR_NG_MAX /\ maxdepth \in Nat /\ maxdepth > 3
         /\ maxdepth <= OGR_STUB_MAX /\ maxdepthm1 = maxdepth - 1
         /\ received \in Stubs /\ InRange(received) /\ maxdepth = received.marks
         /\ received.length \in Nat /\ 0 < received.length /\ received.length < maxdepth - 1
         /\ startdepth = received.length
         /\ stopdepth = (IF received.collapsed # 0 THEN received.length - 1 ELSE received.length)
         /\ stopdepth \in 0 .. received.length
         /\ Top \in 0 .. maxdepth - 1 /\ mark \in Marks /\ pos \in Nat /\ nodes \in Nat
         /\ newbit \in BOOLEAN /\ Levels(list, dist, comp, limit)
         /\ Exact(maxdepth, mark, pos, Top, list, dist, comp, limit)
         /\ Replays(maxdepth, received.diffs, received.length)
         /\ Running /\ retval = "CORE_S_CONTINUE"
<1>1. Running /\ TypeOK /\ InRange(received) /\ retval = "CORE_S_CONTINUE"
  BY DEF Running, OgrInv, Phase
<1>2. /\ maxdepth = received.marks /\ startdepth = received.length
      /\ stopdepth = (IF received.collapsed # 0 THEN received.length - 1 ELSE received.length)
      /\ Top \in 0 .. maxdepthm1
      /\ Exact(maxdepth, mark, pos, Top, list, dist, comp, limit)
      /\ Replays(maxdepth, received.diffs, received.length)
  BY <1>1 DEF OgrInv, Bounded, LevelsExact, Reloadable, Loaded
<1>3. /\ maxdepth \in OGR_NG_MIN .. OGR_NG_MAX /\ received \in Stubs
      /\ mark \in Marks /\ pos \in Nat /\ nodes \in Nat
      /\ newbit \in BOOLEAN /\ Levels(list, dist, comp, limit)
  BY <1>1 DEF TypeOK, Marks, Levels
<1>4. /\ maxdepth \in Nat /\ maxdepth > 3 /\ maxdepth <= OGR_STUB_MAX /\ maxdepthm1 = maxdepth - 1
  BY <1>3, SizeAssumption DEF maxdepthm1
<1>5. received.length \in Nat /\ 0 < received.length /\ received.length < maxdepth - 1
  BY <1>1, <1>2, <1>3, StubFacts
<1>6. stopdepth \in 0 .. received.length
  BY <1>2, <1>5
<1> QED BY <1>1, <1>2, <1>3, <1>4, <1>5, <1>6

\* A step that stays within the search keeps what is known of the stub.
LEMMA StaysInCore ==
  ASSUME OgrInv, pc \in {"ready", "cycle", "exit"}, pc' \in {"ready", "cycle", "exit"},
         UNCHANGED <<received, workstub, resets, retval, bounds>>,
         worked' \in BOOLEAN, nodes' \in Nat, pos' \in Nat, newbit' \in BOOLEAN,
         mark' \in Marks, Levels(list', dist', comp', limit'),
         depth' \in Int, Top' \in 0 .. maxdepth - 1,
         Exact(maxdepth, mark', pos', Top', list', dist', comp', limit'),
         \A k \in 0 .. stopdepth : mark'[k] = mark[k],
         NewBit', Stands'
  PROVE  OgrInv'
<1>1. /\ received' = received /\ workstub' = workstub /\ resets' = resets /\ retval' = retval
      /\ maxdepth' = maxdepth /\ startdepth' = startdepth /\ stopdepth' = stopdepth
  BY DEF bounds
<1>2. /\ maxdepth \in Nat /\ maxdepth <= OGR_STUB_MAX /\ maxdepthm1 = maxdepth - 1
      /\ InRange(received) /\ maxdepth = received.marks
      /\ startdepth = received.length
      /\ stopdepth = (IF received.collapsed # 0 THEN received.length - 1 ELSE received.length)
      /\ stopdepth \in 0 .. received.length /\ received.length \in Nat
      /\ Replays(maxdepth, received.diffs, received.length)
      /\ Running /\ retval = "CORE_S_CONTINUE"
  BY InCore
<1>3. TypeOK'
  <2>1. depth' \in -1 .. OGR_STUB_MAX
    <3>1. Top' = depth' \/ Top' = depth' + 1
      BY DEF Top
    <3> QED BY <1>2, <3>1, SizeAssumption
  <2> QED BY <1>1, <2>1 DEF OgrInv, TypeOK, Levels, Marks
<1>4. StubKept' /\ Phase' /\ Reloadable' /\ Replaying'
  BY <1>1, <1>2 DEF OgrInv, StubKept, KeepsStub, Phase, Reloadable, Loaded, Replaying, InRange
<1>5. Bounded' /\ LevelsExact'
  BY <1>1, <1>2 DEF Bounded, LevelsExact, maxdepthm1
<1>6. StubPlaced'
  <2>1. ASSUME NEW k \in 1 .. stopdepth PROVE mark'[k] = mark'[k - 1] + received.diffs[k]
    <3>1. mark[k] = mark[k - 1] + received.diffs[k]
      BY <1>2 DEF OgrInv, StubPlaced
    <3>2. k \in 0 .. stopdepth /\ k - 1 \in 0 .. stopdepth
      BY <1>2
    <3> QED BY <3>1, <3>2
  <2> QED BY <1>1, <2>1 DEF StubPlaced
<1>7. (FoundIsGolomb /\ SavedStateLoads /\ StubRestored)'
  BY <1>1, <1>2 DEF FoundIsGolomb, SavedStateLoads, StubRestored
<1> QED BY <1>3, <1>4, <1>5, <1>6, <1>7 DEF OgrInv

\* A slice begins.
LEMMA EnterOgr == ASSUME OgrInv, NEW n \in Slices, Enter(n) PROVE OgrInv'
<1>1. /\ pc = "ready" /\ pc' = "cycle" /\ depth' = depth + 1 /\ pos' = mark[depth + 1]
      /\ newbit' = (depth + 1 < maxdepthm1) /\ nodes' = n /\ worked' = worked
      /\ UNCHANGED <<received, workstub, resets, retval, bounds>>
      /\ list' = list /\ dist' = dist /\ comp' = comp /\ mark' = mark /\ limit' = limit
  BY DEF Enter, EnterLevel, file, levels
<1>2. Top = depth + 1 /\ Top' = depth + 1
  BY <1>1 DEF Top
<1>3. /\ Top \in 0 .. maxdepth - 1 /\ maxdepth \in Nat /\ mark \in Marks /\ pos \in Nat
      /\ Levels(list, dist, comp, limit)
      /\ Exact(maxdepth, mark, pos, Top, list, dist, comp, limit)
      /\ stopdepth \in 0 .. received.length /\ received.length \in Nat
      /\ maxdepthm1 = maxdepth - 1 /\ Running
  BY <1>1, InCore
<1>4. mark[Top] = pos /\ newbit /\ Top > received.length
  BY <1>1 DEF OgrInv, Stands
<1>5. Top > 0 /\ pos = mark[Top - 1]
  BY <1>3, <1>4 DEF OgrInv, NewBit
<1>6. pos' = pos /\ depth' \in Int /\ worked' \in BOOLEAN /\ nodes' \in Nat /\ nodes' > 0
  BY <1>1, <1>2, <1>3, <1>4, InputAssumption DEF OgrInv, TypeOK
<1>7. maxdepthm1' = maxdepthm1 /\ stopdepth' = stopdepth
  BY <1>1 DEF maxdepthm1, bounds
<1>8. NewBit'
  BY <1>1, <1>2, <1>5, <1>6, <1>7 DEF NewBit
<1>9. Stands'
  BY <1>1, <1>2, <1>3, <1>4, <1>6, <1>7 DEF Stands
<1> QED BY <1>1, <1>2, <1>3, <1>6, <1>8, <1>9, StaysInCore

\* The core in its inner loop.
LEMMA Cycling ==
  ASSUME OgrInv, pc = "cycle"
  PROVE  /\ maxdepth \in OGR_NG_MIN .. OGR_NG_MAX /\ maxdepth \in Nat /\ Top = depth
         /\ maxdepth <= OGR_STUB_MAX /\ maxdepthm1 = maxdepth - 1
         /\ depth \in 1 .. maxdepth - 1 /\ stopdepth \in Nat /\ stopdepth < depth
         /\ nodes \in Nat /\ nodes > 0
         /\ mark \in Marks /\ pos \in Nat /\ newbit \in BOOLEAN
         /\ Levels(list, dist, comp, limit)
         /\ Exact(maxdepth, mark, pos, depth, list, dist, comp, limit)
         /\ newbit => pos = mark[depth - 1]
         /\ ~newbit /\ depth < maxdepth - 1 => pos > mark[depth - 1]
         /\ pos >= mark[depth - 1] /\ mark[depth - 1] \in Nat /\ worked \in BOOLEAN
<1>1. Top = depth
  BY DEF Top
<1>2. /\ maxdepth \in OGR_NG_MIN .. OGR_NG_MAX /\ maxdepth \in Nat
      /\ maxdepth <= OGR_STUB_MAX /\ maxdepthm1 = maxdepth - 1
      /\ depth \in 0 .. maxdepth - 1 /\ received.length \in Nat
      /\ stopdepth \in 0 .. received.length
      /\ mark \in Marks /\ pos \in Nat /\ newbit \in BOOLEAN /\ nodes \in Nat
      /\ Levels(list, dist, comp, limit)
      /\ Exact(maxdepth, mark, pos, depth, list, dist, comp, limit)
      /\ Running
  BY <1>1, InCore
<1>3. depth > stopdepth /\ nodes > 0 /\ worked \in BOOLEAN
  BY <1>1 DEF OgrInv, Stands, TypeOK
<1>4. depth \in 1 .. maxdepth - 1 /\ stopdepth \in Nat /\ 0 < depth
  BY <1>2, <1>3
<1>5. newbit => pos = mark[depth - 1]
  BY <1>1, <1>2 DEF OgrInv, NewBit
<1>6. ~newbit /\ depth < maxdepth - 1 => pos > mark[depth - 1]
  BY <1>1, <1>2, <1>4 DEF OgrInv, NewBit
<1>7. mark[depth - 1] <= pos
  BY <1>2, <1>4 DEF Exact
<1>8. mark[depth - 1] \in Nat
  <2>1. depth - 1 \in 0 .. maxdepth
    BY <1>2, <1>4
  <2> QED BY <1>2, <2>1, MarkNat
<1> QED BY <1>1, <1>2, <1>3, <1>4, <1>5, <1>6, <1>7, <1>8

\* The first free position within a word keeps the marks different.
LEMMA BlankFits ==
  ASSUME OgrInv, pc = "cycle", ~full0, pos + blank <= limit[depth]
  PROVE  blank \in Nat \ {0} /\ blank \notin comp[depth] /\ ~BadDiff(blank)
<1>1. comp0 \in SUBSET (1 .. SCALAR_BITS) /\ comp0 # 1 .. SCALAR_BITS
  BY DEF comp0, full0
<1>2. blank \in 1 .. SCALAR_BITS /\ blank \notin comp0
  BY <1>1, FirstBlankIs DEF blank
<1>3. blank \notin comp[depth]
  BY <1>2 DEF comp0
<1>4. pos \in Nat /\ limit[depth] \in Int
  <2>1. pos \in Nat /\ depth \in 1 .. maxdepth - 1 /\ maxdepth \in Nat
        /\ maxdepth <= OGR_STUB_MAX /\ limit \in [Level -> Int]
    BY Cycling DEF Levels
  <2>2. depth \in Level
    BY <2>1, SizeAssumption DEF Level
  <2> QED BY <2>1, <2>2
<1>5. blank \in Nat \ {0}
  BY <1>2, SizeAssumption
<1> QED BY <1>3, <1>4, <1>5 DEF BadDiff

\* A mark is placed, and the next level entered.
LEMMA PlaceOgr == ASSUME OgrInv, Place PROVE OgrInv'
<1> DEFINE s == blank
<1>1. /\ pc = "cycle" /\ ~full0 /\ pos + s <= limit[depth] /\ depth # maxdepthm1
      /\ PushAt(s, pos + s) /\ nodes' = nodes - 1 /\ worked' = worked
      /\ UNCHANGED <<received, workstub, resets, retval, bounds>>
      /\ \/ /\ nodes' <= 0 /\ pc' = "exit"
            /\ mark' = [mark EXCEPT ![depth] = pos + s, ![depth + 1] = pos + s]
         \/ /\ ~(nodes' <= 0) /\ pc' = "cycle"
            /\ mark' = [mark EXCEPT ![depth] = pos + s]
  BY DEF Place, file
<1>2. s \in Nat \ {0} /\ ~BadDiff(s)
  BY <1>1, BlankFits
<1> HIDE DEF s
<1>3. /\ maxdepth \in OGR_NG_MIN .. OGR_NG_MAX /\ maxdepth \in Nat /\ Top = depth
      /\ maxdepth <= OGR_STUB_MAX /\ maxdepthm1 = maxdepth - 1
      /\ depth \in 1 .. maxdepth - 1 /\ stopdepth \in Nat /\ stopdepth < depth
      /\ nodes \in Nat /\ nodes > 0 /\ mark \in Marks /\ pos \in Nat /\ worked \in BOOLEAN
      /\ Exact(maxdepth, mark, pos, depth, list, dist, comp, limit)
      /\ newbit => pos = mark[depth - 1]
      /\ ~newbit /\ depth < maxdepth - 1 => pos > mark[depth - 1]
  BY <1>1, Cycling
<1>4. depth \in 1 .. maxdepth - 2 /\ depth < maxdepth - 1
  BY <1>1, <1>3
<1>5. /\ Exact(maxdepth, mark', pos', depth', list', dist', comp', limit')
      /\ Levels(list', dist', comp', limit') /\ mark' \in Marks
      /\ depth' = depth + 1 /\ pos' = pos + s /\ newbit' = TRUE
      /\ MovedTo(mark, mark', depth, pos')
  <2>1. TypeOK /\ maxdepth' = maxdepth
    BY <1>1 DEF OgrInv, bounds
  <2>2. ~newbit => pos > mark[depth - 1]
    BY <1>3, <1>4
  <2>3. \/ mark' = [mark EXCEPT ![depth] = pos + s, ![depth + 1] = pos + s]
        \/ mark' = [mark EXCEPT ![depth] = pos + s]
    BY <1>1
  <2> QED BY <1>1, <1>2, <1>3, <1>4, <2>1, <2>2, <2>3, PushInv
<1>6. /\ Top' = depth' /\ maxdepthm1' = maxdepthm1 /\ stopdepth' = stopdepth
      /\ depth' - 1 = depth /\ depth' \in Int
      /\ depth' \in 0 .. maxdepth - 1
  BY <1>1, <1>3, <1>4, <1>5 DEF Top, maxdepthm1, bounds
<1>7. /\ mark'[depth] = pos' /\ \A k \in 0 .. stopdepth : mark'[k] = mark[k]
  <2>1. \A k \in 0 .. stopdepth : k \in 0 .. depth - 1
    BY <1>3
  <2> QED BY <1>5, <2>1 DEF MovedTo
<1>8. nodes' \in Nat /\ (nodes' <= 0 => nodes' = 0)
  BY <1>1, <1>3
<1>9. NewBit'
  BY <1>3, <1>4, <1>5, <1>6, <1>7 DEF NewBit
<1>10. Stands'
  <2>1. CASE pc' = "exit"
    <3>1. mark' = [mark EXCEPT ![depth] = pos + s, ![depth + 1] = pos + s] /\ nodes' = 0
      BY <1>1, <1>8, <2>1
    <3>2. depth + 1 \in Level
      BY <1>3, <1>4, SizeAssumption DEF Level
    <3>3. mark'[depth + 1] = pos'
      BY <1>3, <1>5, <3>1, <3>2 DEF Marks
    <3>4. depth' > stopdepth + 1
      BY <1>3, <1>4, <1>5
    <3> QED BY <1>5, <1>6, <2>1, <3>1, <3>3, <3>4 DEF Stands
  <2>2. CASE pc' = "cycle"
    <3>1. nodes' > 0 /\ depth' > stopdepth
      BY <1>1, <1>3, <1>4, <1>5, <1>8, <2>2
    <3> QED BY <1>6, <2>2, <3>1 DEF Stands
  <2> QED BY <1>1, <2>1, <2>2
<1>11. pos' \in Nat /\ newbit' \in BOOLEAN /\ worked' \in BOOLEAN
  BY <1>1, <1>2, <1>3, <1>5
<1> QED BY <1>1, <1>5, <1>6, <1>7, <1>8, <1>9, <1>10, <1>11, StaysInCore

\* The position moves s further on; the mark itself may be placed there.
LEMMA MoveInv ==
  ASSUME OgrInv, pc = "cycle", NEW s \in Nat \ {0},
         list' = [list EXCEPT ![depth] = ShiftList(s)],
         comp' = [comp EXCEPT ![depth] = ShiftComp(s)],
         mark' \in Marks, \A i \in 0 .. depth - 1 : mark'[i] = mark[i]
  PROVE  /\ Exact(maxdepth, mark', pos + s, depth, list', dist, comp', limit)
         /\ Levels(list', dist, comp', limit)
<1> DEFINE e == IF newbit THEN {s} ELSE {}
<1>1. /\ maxdepth \in OGR_NG_MIN .. OGR_NG_MAX /\ maxdepth \in Nat
      /\ depth \in 1 .. maxdepth - 1
      /\ mark \in Marks /\ pos \in Nat
      /\ Levels(list, dist, comp, limit)
      /\ Exact(maxdepth, mark, pos, depth, list, dist, comp, limit)
      /\ newbit => pos = mark[depth - 1]
      /\ ~newbit /\ depth < maxdepth - 1 => pos > mark[depth - 1]
  BY Cycling
<1>2. Ruler(maxdepth, mark, depth - 1)
  BY <1>1 DEF Exact
<1>3. MayShift(maxdepth, mark, pos, depth, s, e)
  <2>1. ASSUME depth < maxdepth - 1 PROVE ShiftsIn(mark, pos, depth, s, e)
    <3>1. ~newbit => pos > mark[depth - 1]
      BY <1>1, <2>1
    <3> QED BY <1>1, <1>2, <3>1, ShiftsNow
  <2> HIDE DEF e
  <2> QED BY <2>1 DEF MayShift
<1>5. ShiftList(s) = ShiftUp(list[depth], s, e) /\ ShiftComp(s) = ShiftDown(comp[depth], s)
  <2>1. depth \in Level
    BY <1>1, SizeAssumption DEF Level
  <2> QED BY <1>1, <2>1, ShiftsWhole DEF Levels
<1> HIDE DEF e
<1>6. Moved(depth, s, e, list, comp, list', comp')
  BY <1>5 DEF Moved
<1>7. KeepsMarks(mark, mark', depth)
  BY DEF KeepsMarks
<1> QED BY <1>1, <1>3, <1>6, <1>7, MoveExact

\* The last mark of a ruler is placed.
LEMMA CompleteOgr == ASSUME OgrInv, Complete PROVE OgrInv'
<1> DEFINE s == blank
<1>1. /\ pc = "cycle" /\ ~full0 /\ pos + s <= limit[depth] /\ depth = maxdepthm1
      /\ list' = [list EXCEPT ![depth] = ShiftList(s)]
      /\ comp' = [comp EXCEPT ![depth] = ShiftComp(s)]
      /\ mark' = [mark EXCEPT ![depth] = pos + s]
      /\ pos' = pos + s /\ newbit' = FALSE /\ pc' = "exit"
      /\ worked' = worked /\ UNCHANGED <<received, workstub, resets, retval, bounds>>
      /\ depth' = depth /\ dist' = dist /\ limit' = limit /\ nodes' = nodes
  BY DEF Complete, file
<1>2. s \in Nat \ {0} /\ s \notin comp[depth]
  BY <1>1, BlankFits
<1> HIDE DEF s
<1>3. /\ maxdepth \in OGR_NG_MIN .. OGR_NG_MAX /\ maxdepth \in Nat
      /\ maxdepth <= OGR_STUB_MAX /\ maxdepthm1 = maxdepth - 1
      /\ depth \in 1 .. maxdepth - 1 /\ stopdepth \in Nat /\ stopdepth < depth
      /\ nodes \in Nat /\ nodes > 0 /\ mark \in Marks /\ pos \in Nat /\ worked \in BOOLEAN
      /\ Exact(maxdepth, mark, pos, depth, list, dist, comp, limit)
  BY <1>1, Cycling
<1>4. mark' \in Marks /\ MovedTo(mark, mark', depth, pos + s)
  <2>1. mark \in [Level -> Nat] /\ pos + s \in Nat
    BY <1>2, <1>3 DEF Marks
  <2>2. depth \in Level /\ \A i \in 0 .. depth - 1 : i # depth /\ i \in Level
    BY <1>3, SizeAssumption DEF Level
  <2> QED BY <1>1, <2>1, <2>2 DEF Marks, MovedTo
<1>5. /\ mark'[depth] = pos' /\ \A i \in 0 .. depth - 1 : mark'[i] = mark[i]
  BY <1>1, <1>4 DEF MovedTo
<1>6. /\ Exact(maxdepth, mark', pos', depth, list', dist', comp', limit')
      /\ Levels(list', dist', comp', limit')
  BY <1>1, <1>2, <1>4, <1>5, MoveInv
<1>7. Fits(maxdepth, mark', depth)
  BY <1>1, <1>2, <1>3, <1>4, FitsThere
<1>8. /\ Top' = depth /\ maxdepthm1' = maxdepthm1 /\ maxdepth' = maxdepth
      /\ depth' \in Int /\ depth \in 0 .. maxdepth - 1
  BY <1>1, <1>3 DEF Top, maxdepthm1, bounds
<1>9. \A k \in 0 .. stopdepth : mark'[k] = mark[k]
  BY <1>3, <1>5
<1>10. NewBit'
  BY <1>1, <1>8 DEF NewBit
<1>11. Stands'
  BY <1>1, <1>3, <1>5, <1>7, <1>8 DEF Stands
<1>12. pos' \in Nat /\ newbit' \in BOOLEAN /\ worked' \in BOOLEAN /\ nodes' \in Nat
  <2>1. pos + s \in Nat
    BY <1>2, <1>3
  <2> QED BY Zenon, <1>1, <1>3, <2>1
<1>13. /\ Top' \in 0 .. maxdepth - 1
       /\ Exact(maxdepth, mark', pos', Top', list', dist', comp', limit')
  BY <1>6, <1>8
<1>14. pc' \in {"ready", "cycle", "exit"} /\ pc \in {"ready", "cycle", "exit"} /\ depth' \in Int
  BY <1>1, <1>8
<1> QED BY <1>1, <1>4, <1>6, <1>9, <1>10, <1>11, <1>12, <1>13, <1>14, StaysInCore

\* A word without a free position is skipped.
LEMMA SkipWordOgr == ASSUME OgrInv, SkipWord PROVE OgrInv'
<1> DEFINE s == SCALAR_BITS
<1>1. /\ pc = "cycle" /\ pc' = "cycle"
      /\ list' = [list EXCEPT ![depth] = ShiftList(s)]
      /\ comp' = [comp EXCEPT ![depth] = ShiftComp(s)]
      /\ mark' = mark /\ pos' = pos + s /\ newbit' = FALSE
      /\ worked' = worked /\ UNCHANGED <<received, workstub, resets, retval, bounds>>
      /\ depth' = depth /\ dist' = dist /\ limit' = limit /\ nodes' = nodes
  BY DEF SkipWord, file
<1>2. s \in Nat \ {0}
  BY SizeAssumption
<1> HIDE DEF s
<1>3. /\ maxdepth \in Nat /\ depth \in 1 .. maxdepth - 1 /\ stopdepth \in Nat /\ stopdepth < depth
      /\ nodes \in Nat /\ nodes > 0 /\ mark \in Marks /\ pos \in Nat /\ worked \in BOOLEAN
      /\ pos >= mark[depth - 1] /\ mark[depth - 1] \in Nat
  BY <1>1, Cycling
<1>4. /\ Exact(maxdepth, mark', pos', depth, list', dist', comp', limit')
      /\ Levels(list', dist', comp', limit')
  BY <1>1, <1>2, <1>3, MoveInv
<1>5. Top' = depth /\ depth' \in Int /\ depth \in 0 .. maxdepth - 1 /\ stopdepth' = stopdepth
  BY <1>1, <1>3 DEF Top, bounds
<1>6. NewBit'
  BY <1>1, <1>2, <1>3, <1>5 DEF NewBit
<1>7. Stands'
  BY <1>1, <1>3, <1>5 DEF Stands
<1>8. pos' \in Nat /\ newbit' \in BOOLEAN /\ worked' \in BOOLEAN /\ nodes' \in Nat
  <2>1. pos + s \in Nat
    BY <1>2, <1>3
  <2> QED BY Zenon, <1>1, <1>3, <2>1
<1> QED BY <1>1, <1>3, <1>4, <1>5, <1>6, <1>7, <1>8, StaysInCore

\* The core backs up to the mark of the level below.
LEMMA BackOgr == ASSUME OgrInv, Back PROVE OgrInv'
<1>1. /\ pc = "cycle" /\ depth' = depth - 1 /\ pos' = mark[depth - 1] /\ newbit' = FALSE
      /\ \/ depth - 1 > stopdepth /\ pc' = "cycle"
         \/ ~(depth - 1 > stopdepth) /\ pc' = "exit"
      /\ worked' = worked /\ UNCHANGED <<received, workstub, resets, retval, bounds>>
      /\ list' = list /\ dist' = dist /\ comp' = comp /\ mark' = mark /\ limit' = limit
      /\ nodes' = nodes
  BY DEF Back, file, levels
<1>2. /\ maxdepth \in OGR_NG_MIN .. OGR_NG_MAX /\ maxdepth \in Nat
      /\ depth \in 1 .. maxdepth - 1 /\ stopdepth \in Nat /\ stopdepth < depth
      /\ nodes \in Nat /\ nodes > 0 /\ mark \in Marks /\ worked \in BOOLEAN
      /\ Levels(list, dist, comp, limit)
      /\ Exact(maxdepth, mark, pos, depth, list, dist, comp, limit)
      /\ mark[depth - 1] \in Nat
  BY <1>1, Cycling
<1>3. /\ Exact(maxdepth, mark', pos', depth', list', dist', comp', limit')
      /\ 1 < depth => mark[depth - 2] < mark[depth - 1]
  BY <1>1, <1>2, PopExact
<1>4. /\ Top' = depth' /\ depth' \in Int /\ depth' \in 0 .. maxdepth - 1 /\ stopdepth' = stopdepth
      /\ depth' - 1 = depth - 2
  BY <1>1, <1>2 DEF Top, bounds
<1>5. NewBit'
  BY <1>1, <1>2, <1>3, <1>4 DEF NewBit
<1>6. Stands'
  BY <1>1, <1>2, <1>4 DEF Stands
<1>7. pos' \in Nat /\ newbit' \in BOOLEAN /\ worked' \in BOOLEAN /\ nodes' \in Nat
  BY <1>1, <1>2
<1> QED BY <1>1, <1>2, <1>3, <1>4, <1>5, <1>6, <1>7, StaysInCore

\* A ruler that is none is left, and the search goes on.
LEMMA ContinueOgr == ASSUME OgrInv, Continue PROVE OgrInv'
<1>1. /\ pc = "exit" /\ depth = maxdepthm1 /\ nodes # 0
      /\ depth' = depth /\ pos' = mark[depth] /\ newbit' = (depth < maxdepthm1) /\ pc' = "cycle"
      /\ worked' = worked /\ UNCHANGED <<received, workstub, resets, retval, bounds>>
      /\ list' = list /\ dist' = dist /\ comp' = comp /\ mark' = mark /\ limit' = limit
      /\ nodes' = nodes
  BY DEF Continue, RulerFound, EnterLevel, file, levels
<1>2. /\ maxdepth \in Nat /\ maxdepthm1 = maxdepth - 1 /\ received.length \in Nat
      /\ received.length < maxdepth - 1 /\ stopdepth \in 0 .. received.length
      /\ Top \in 0 .. maxdepth - 1 /\ mark \in Marks /\ pos \in Nat /\ nodes \in Nat
      /\ Levels(list, dist, comp, limit)
      /\ Exact(maxdepth, mark, pos, Top, list, dist, comp, limit)
  BY <1>1, InCore
<1>3. Top = depth /\ Top' = depth /\ depth' \in Int /\ stopdepth' = stopdepth /\ maxdepthm1' = maxdepthm1
  BY <1>1, <1>2 DEF Top, bounds, maxdepthm1
<1>4. mark[depth] = pos /\ nodes > 0 /\ depth > stopdepth
  BY <1>1, <1>2, <1>3 DEF OgrInv, Stands
<1>5. pos' = pos /\ newbit' = FALSE /\ nodes' \in Nat /\ worked' \in BOOLEAN
  <2>1. ~(depth < maxdepthm1)
    BY <1>1, <1>2
  <2>2. (depth < maxdepthm1) = FALSE
    BY <2>1
  <2>3. worked \in BOOLEAN
    BY Zenon DEF OgrInv, TypeOK
  <2> QED BY Zenon, <1>1, <1>2, <1>4, <2>2, <2>3
<1>6. NewBit' /\ Stands'
  BY <1>1, <1>2, <1>3, <1>4, <1>5 DEF NewBit, Stands
<1> QED BY <1>1, <1>2, <1>3, <1>5, <1>6, StaysInCore

\* The nodes of a slice are used up.
LEMMA SliceDoneOgr == ASSUME OgrInv, SliceDone PROVE OgrInv'
<1>1. /\ pc = "exit" /\ ~RulerFound /\ depth > stopdepth /\ depth' = depth - 1
      /\ retval' = "CORE_S_CONTINUE" /\ pc' = "ready" /\ worked' = TRUE
      /\ UNCHANGED <<received, workstub, resets, bounds>>
      /\ list' = list /\ dist' = dist /\ comp' = comp /\ mark' = mark /\ limit' = limit
      /\ pos' = pos /\ newbit' = newbit /\ nodes' = nodes
  BY DEF SliceDone, levels
<1>2. /\ maxdepth \in Nat /\ maxdepthm1 = maxdepth - 1 /\ received.length \in Nat
      /\ stopdepth = (IF received.collapsed # 0 THEN received.length - 1 ELSE received.length)
      /\ stopdepth \in 0 .. received.length
      /\ Top \in 0 .. maxdepth - 1 /\ mark \in Marks /\ pos \in Nat /\ nodes \in Nat
      /\ newbit \in BOOLEAN /\ Levels(list, dist, comp, limit)
      /\ Exact(maxdepth, mark, pos, Top, list, dist, comp, limit)
      /\ Running /\ retval = "CORE_S_CONTINUE"
  BY <1>1, InCore
<1>3. Top = depth
  BY <1>1 DEF Top
<1>4. Top' = depth /\ depth' \in Int /\ maxdepthm1' = maxdepthm1 /\ received' = received
  <2>1. (depth - 1) + 1 = depth
    BY <1>2, <1>3
  <2> QED BY <1>1, <1>2, <1>3, <2>1 DEF Top, bounds, maxdepthm1
<1>5. newbit /\ depth > stopdepth + 1 /\ mark[depth] = pos
  BY <1>1, <1>2, <1>3 DEF OgrInv, Stands, RulerFound
<1>6. NewBit'
  BY <1>1, <1>2, <1>3, <1>4, <1>5 DEF OgrInv, NewBit
<1>7. Stands'
  BY <1>1, <1>2, <1>3, <1>4, <1>5 DEF Stands
<1>8. UNCHANGED <<received, workstub, resets, retval, bounds>> /\ worked' \in BOOLEAN
  BY <1>1, <1>2
<1> QED BY <1>1, <1>2, <1>3, <1>4, <1>6, <1>7, <1>8, StaysInCore

-----------------------------------------------------------------------------
(* The end of the search, the record written back, and the theorems.         *)

\* A number that fits 16 bits is not changed by them.
LEMMA Fits16 == ASSUME NEW x \in Nat, x < 65536 PROVE U16(x) = x
  BY DEF U16

\* Sixteen bits of any number.
LEMMA U16Nat == ASSUME NEW x \in Int PROVE U16(x) \in Nat
  BY DEF U16

\* The record ogr_getresult() writes back: the diffs of the stub are those the
\* server sent, all of them when the search is over.
LEMMA ResultRecord ==
  ASSUME OgrInv, pc \in {"ready", "exit"}, NEW d \in Int
  PROVE  /\ getresult(d) \in WorkStub /\ KeepsStub(getresult(d))
         /\ getresult(d).worklength = MinOf(U16(d), OGR_STUB_MAX)
         /\ getresult(d).length = received.length
         /\ d < stopdepth =>
              \A k \in 1 .. received.length : getresult(d).diffs[k] = received.diffs[k]
         /\ ~(d < stopdepth) =>
              \A k \in 1 .. OGR_STUB_MAX : getresult(d).diffs[k] = U16(mark[k] - mark[k - 1])
<1> DEFINE diffs == [k \in 1 .. OGR_STUB_MAX |-> U16(mark[k] - mark[k - 1])]
           restored == d < stopdepth /\ workstub.collapsed > 0
           new == IF restored THEN [diffs EXCEPT ![startdepth] = workstub.collapsed] ELSE diffs
           w == getresult(d)
           wl == MinOf(U16(d), OGR_STUB_MAX)
<1>1. w = [workstub EXCEPT !.worklength = wl, !.diffs = new]
  BY DEF getresult
<1>2. /\ maxdepth \in OGR_NG_MIN .. OGR_NG_MAX /\ maxdepth \in Nat
      /\ received \in Stubs /\ InRange(received) /\ maxdepth = received.marks
      /\ received.length \in Nat /\ 0 < received.length /\ received.length < maxdepth - 1
      /\ startdepth = received.length
      /\ stopdepth = (IF received.collapsed # 0 THEN received.length - 1 ELSE received.length)
      /\ stopdepth \in 0 .. received.length /\ mark \in Marks
      /\ Replays(maxdepth, received.diffs, received.length) /\ Running
  BY InCore
<1>3. /\ workstub \in WorkStub /\ KeepsStub(workstub)
      /\ \A k \in 1 .. stopdepth : mark[k] = mark[k - 1] + received.diffs[k]
  BY <1>2 DEF OgrInv, TypeOK, StubKept, StubPlaced
<1>4. /\ received.length <= OGR_STUB_MAX /\ OGR_STUB_MAX \in Nat
      /\ received.collapsed \in Nat
      /\ received.collapsed \in {0, received.diffs[received.length]}
      /\ \A k \in 1 .. received.length : received.diffs[k] \in Nat
  <2>1. OGR_STUB_MAX \in Nat
    BY SizeAssumption
  <2>2. /\ received.length < OGR_STUB_MAX /\ received.collapsed \in Nat
        /\ received.collapsed \in {0, received.diffs[received.length]}
        /\ \A k \in 1 .. received.length : received.diffs[k] \in Nat \ {0}
    BY <1>2, StubFacts
  <2> QED BY <1>2, <2>1, <2>2
<1>5. \A k \in 1 .. OGR_STUB_MAX : mark[k] - mark[k - 1] \in Int
  <2> TAKE k \in 1 .. OGR_STUB_MAX
  <2>1. k \in Level /\ k - 1 \in Level
    BY <1>4 DEF Level
  <2>2. mark[k] \in Nat /\ mark[k - 1] \in Nat
    BY <1>2, <2>1 DEF Marks
  <2> QED BY <2>2
<1>6. diffs \in [1 .. OGR_STUB_MAX -> Nat]
  BY <1>5, U16Nat
<1>7. new \in [1 .. OGR_STUB_MAX -> Nat]
  <2>1. workstub.collapsed \in Nat
    BY <1>3 DEF WorkStub
  <2> HIDE DEF diffs, restored
  <2>2. CASE restored
    BY <1>6, <2>1, <2>2
  <2>3. CASE ~restored
    BY <1>6, <2>3
  <2> QED BY <2>2, <2>3
<1>8. wl \in Nat
  BY <1>4, U16Nat DEF MinOf
<1>9. \A k \in 1 .. OGR_STUB_MAX : diffs[k] = U16(mark[k] - mark[k - 1])
  OBVIOUS
<1>10. /\ startdepth \in 1 .. OGR_STUB_MAX /\ workstub.collapsed = received.collapsed
       /\ workstub.marks = received.marks /\ workstub.length = received.length
  <2>1. startdepth \in 1 .. OGR_STUB_MAX
    BY <1>2, <1>4
  <2>2. /\ workstub.collapsed = received.collapsed
        /\ workstub.marks = received.marks /\ workstub.length = received.length
    BY <1>3 DEF KeepsStub
  <2> QED BY <2>1, <2>2
<1>11. /\ restored <=> d < stopdepth /\ received.collapsed > 0
       /\ restored => new = [diffs EXCEPT ![startdepth] = received.collapsed]
       /\ ~restored => new = diffs
  BY <1>10
<1> HIDE DEF diffs, restored, new, wl, w
<1>12. /\ w.worklength = wl /\ w.diffs = new /\ w.marks = received.marks
       /\ w.length = received.length /\ w.collapsed = received.collapsed
  BY <1>1, <1>3, <1>10 DEF WorkStub
<1>13. w \in WorkStub
  <2> HIDE DEF WorkStub
  <2>1. [workstub EXCEPT !.worklength = wl, !.diffs = new] \in WorkStub
    BY <1>3, <1>7, <1>8 DEF WorkStub
  <2> QED BY <1>1, <2>1
<1>14. ASSUME NEW k \in 1 .. received.length, k < received.length \/ received.collapsed = 0
       PROVE  new[k] = received.diffs[k]
  <2>1. k \in 1 .. stopdepth /\ k \in 1 .. OGR_STUB_MAX /\ k - 1 \in 0 .. OGR_STUB_MAX
    BY <1>2, <1>4, <1>14
  <2>2. received.diffs[k] \in Nat /\ received.diffs[k] < 65536
    <3>1. received.length \in 0 .. maxdepth - 1
      BY <1>2
    <3> QED BY <1>2, <1>4, <3>1, DiffsBound
  <2>3. mark[k] - mark[k - 1] = received.diffs[k]
    <3>1. mark[k] \in Nat /\ mark[k - 1] \in Nat
      BY <1>2, <2>1 DEF Marks, Level
    <3>2. mark[k] = mark[k - 1] + received.diffs[k]
      BY <1>3, <2>1
    <3> QED BY <2>2, <3>1, <3>2
  <2>4. diffs[k] = received.diffs[k]
    BY <1>9, <2>1, <2>2, <2>3, Fits16
  <2>5. restored => k # startdepth
    BY <1>2, <1>4, <1>11, <1>14
  <2>6. new[k] = diffs[k]
    <3>1. CASE restored
      BY <1>6, <1>11, <2>1, <2>5, <3>1
    <3>2. CASE ~restored
      BY <1>11, <3>2
    <3> QED BY <3>1, <3>2
  <2> QED BY <2>4, <2>6
<1>15. KeepsStub(w)
  BY <1>12, <1>14 DEF KeepsStub
<1>16. ASSUME d < stopdepth, NEW k \in 1 .. received.length PROVE new[k] = received.diffs[k]
  <2>1. CASE k < received.length \/ received.collapsed = 0
    BY <1>14, <2>1
  <2>2. CASE ~(k < received.length) /\ received.collapsed # 0
    <3>1. k = startdepth /\ k = received.length /\ received.collapsed > 0
      BY <1>2, <1>4, <2>2
    <3>2. new = [diffs EXCEPT ![startdepth] = received.collapsed]
      BY <1>11, <1>16, <3>1
    <3>3. new[startdepth] = received.collapsed
      BY <1>6, <1>10, <3>2
    <3> QED BY <1>4, <2>2, <3>1, <3>3
  <2> QED BY <2>1, <2>2
<1>17. ASSUME ~(d < stopdepth), NEW k \in 1 .. OGR_STUB_MAX PROVE new[k] = U16(mark[k] - mark[k - 1])
  BY <1>9, <1>11, <1>17
<1>18. /\ w \in WorkStub /\ KeepsStub(w) /\ w.worklength = wl /\ w.length = received.length
       /\ d < stopdepth => \A k \in 1 .. received.length : w.diffs[k] = received.diffs[k]
       /\ ~(d < stopdepth) => \A k \in 1 .. OGR_STUB_MAX : w.diffs[k] = U16(mark[k] - mark[k - 1])
  BY <1>12, <1>13, <1>15, <1>16, <1>17
<1> QED BY <1>18 DEF w, wl

\* The search of a stub is over: with or without a ruler.
LEMMA FinishInv ==
  ASSUME OgrInv, pc = "exit", NEW d \in -1 .. OGR_STUB_MAX, d < stopdepth,
         NEW r \in {"CORE_S_SUCCESS", "CORE_S_OK"}, Finish(r, d),
         r = "CORE_S_SUCCESS" =>
           /\ IsGolomb([k \in 0 .. maxdepthm1 |-> mark[k]]) /\ mark[maxdepthm1] <= maxlen
  PROVE  OgrInv'
<1>1. /\ depth' = d /\ retval' = r /\ pc' = "done" /\ workstub' = getresult(d)
      /\ received' = received /\ worked' = worked /\ resets' = resets
      /\ maxdepth' = maxdepth /\ startdepth' = startdepth /\ stopdepth' = stopdepth
      /\ list' = list /\ dist' = dist /\ comp' = comp /\ mark' = mark /\ limit' = limit
      /\ pos' = pos /\ newbit' = newbit /\ nodes' = nodes
  BY DEF Finish, bounds, levels
<1>2. /\ getresult(d) \in WorkStub /\ KeepsStub(getresult(d))
      /\ \A k \in 1 .. received.length : getresult(d).diffs[k] = received.diffs[k]
  BY ResultRecord
<1>3. TypeOK'
  BY <1>1, <1>2 DEF OgrInv, TypeOK, Results
<1>4. StubKept'
  BY <1>1, <1>2 DEF StubKept, KeepsStub, InRange
<1>5. (Phase /\ Reloadable /\ Replaying /\ Bounded /\ LevelsExact /\ StubPlaced /\ NewBit /\ Stands)'
  BY <1>1 DEF Phase, Reloadable, Replaying, Bounded, LevelsExact, StubPlaced, NewBit, Stands, Running
<1>6. FoundIsGolomb'
  BY <1>1 DEF FoundIsGolomb, maxdepthm1, maxlen
<1>7. SavedStateLoads'
  BY <1>1 DEF SavedStateLoads
<1>8. StubRestored'
  BY <1>1, <1>2 DEF StubRestored, KeepsStub
<1> QED BY <1>3, <1>4, <1>5, <1>6, <1>7, <1>8 DEF OgrInv

\* A ruler is reported.
LEMMA SuccessOgr == ASSUME OgrInv, Success PROVE OgrInv'
<1>1. /\ pc = "exit" /\ depth = maxdepthm1 /\ nodes # 0 /\ ~Rejected
      /\ Finish("CORE_S_SUCCESS", stopdepth - 1)
  BY DEF Success, RulerFound
<1>2. /\ maxdepth \in OGR_NG_MIN .. OGR_NG_MAX /\ maxdepth \in Nat
      /\ maxdepth <= OGR_STUB_MAX /\ maxdepthm1 = maxdepth - 1
      /\ received.length \in Nat /\ received.length < maxdepth - 1
      /\ stopdepth \in 0 .. received.length /\ mark \in Marks
      /\ Exact(maxdepth, mark, pos, Top, list, dist, comp, limit)
  BY <1>1, InCore
<1>3. Top = depth
  BY <1>1 DEF Top
<1>4. Fits(maxdepth, mark, maxdepth - 1)
  BY <1>1, <1>2, <1>3 DEF OgrInv, Stands
<1>5. Ruler(maxdepth, mark, maxdepth - 1)
  <2>1. Ruler(maxdepth, mark, (maxdepth - 1) - 1)
    BY <1>1, <1>2, <1>3 DEF Exact
  <2>2. \A k \in 1 .. maxdepth - 1 : k = maxdepth - 1 \/ k \in 1 .. (maxdepth - 1) - 1
    BY <1>2
  <2> QED BY <1>4, <2>1, <2>2 DEF Ruler
<1>6. mark[maxdepth - 1] <= OGR[maxdepth]
  <2>1. maxdepth - 1 \in -1 .. maxdepth - 1 /\ maxdepth - 1 \in 0 .. maxdepth - 1
    BY <1>2, SizeAssumption
  <2> QED BY <1>2, <1>5, <2>1, Growing
<1>7. mark[maxdepth - 1] <= 2 * OGRNG_BITMAPS_LENGTH \/ Differ(maxdepth, mark)
  <2>1. found_one => Differ(maxdepth, mark)
    BY <1>2 DEF found_one, Differ, maxlen
  <2>2. maxdepth - 1 \in Level
    BY <1>2, SizeAssumption DEF Level
  <2>3. mark[maxdepth - 1] \in Nat /\ OGRNG_BITMAPS_LENGTH \in Nat
    BY <1>2, <2>2, SizeAssumption DEF Marks
  <2> QED BY <1>1, <1>2, <2>1, <2>3 DEF Rejected
<1>8. IsGolomb([k \in 0 .. maxdepthm1 |-> mark[k]]) /\ mark[maxdepthm1] <= maxlen
  BY <1>2, <1>5, <1>6, <1>7, GolombFound DEF maxlen
<1>9. stopdepth - 1 \in -1 .. OGR_STUB_MAX /\ stopdepth - 1 < stopdepth
  BY <1>2, SizeAssumption
<1> QED BY <1>1, <1>8, <1>9, FinishInv

\* The stub holds nothing.
LEMMA ExhaustedOgr == ASSUME OgrInv, Exhausted PROVE OgrInv'
<1>1. pc = "exit" /\ depth <= stopdepth /\ Finish("CORE_S_OK", depth - 1)
  BY DEF Exhausted
<1>2. /\ maxdepth \in Nat /\ maxdepth <= OGR_STUB_MAX /\ Top \in 0 .. maxdepth - 1
      /\ received.length \in Nat /\ stopdepth \in 0 .. received.length
  BY <1>1, InCore
<1>3. Top = depth
  BY <1>1 DEF Top
<1>4. depth - 1 \in -1 .. OGR_STUB_MAX /\ depth - 1 < stopdepth
  BY <1>1, <1>2, <1>3, SizeAssumption
<1> QED BY <1>1, <1>4, FinishInv

\* The record of a packet that is written back between two slices: all diffs placed so
\* far, and a replay that comes to the same marks.
LEMMA RetrievedRecord ==
  ASSUME OgrInv, pc = "ready"
  PROVE  LET w == getresult(depth)
         IN /\ w \in WorkStub /\ KeepsStub(w) /\ ReplayLength(w) = depth
            /\ Ruler(maxdepth, mark, depth) /\ DiffsOf(w.diffs, mark, depth)
            /\ Progress(w) /\ depth \in 0 .. maxdepth - 2 /\ Top = depth + 1
            /\ pos = mark[depth]
<1>2. /\ maxdepth \in OGR_NG_MIN .. OGR_NG_MAX /\ maxdepth \in Nat
      /\ maxdepth <= OGR_STUB_MAX /\ Running
      /\ received.length \in Nat /\ stopdepth \in 0 .. received.length
      /\ Top \in 0 .. maxdepth - 1 /\ mark \in Marks
      /\ Exact(maxdepth, mark, pos, Top, list, dist, comp, limit)
  BY InCore
<1>3. Top = depth + 1 /\ Top > received.length /\ newbit
  BY DEF Top, OgrInv, Stands
<1>4. /\ depth \in Int /\ depth \in 0 .. maxdepth - 2 /\ ~(depth < stopdepth) /\ depth >= received.length
      /\ depth \in -1 .. maxdepth - 1 /\ Top - 1 = depth
  <2>1. depth \in -1 .. OGR_STUB_MAX
    BY DEF OgrInv, TypeOK
  <2> QED BY <1>2, <1>3, <2>1, SizeAssumption
<1> DEFINE w == getresult(depth)
<1>5. /\ w \in WorkStub /\ KeepsStub(w) /\ w.worklength = MinOf(U16(depth), OGR_STUB_MAX)
      /\ w.length = received.length
      /\ \A k \in 1 .. OGR_STUB_MAX : w.diffs[k] = U16(mark[k] - mark[k - 1])
  BY <1>4, ResultRecord
<1> HIDE DEF w
<1>6. ReplayLength(w) = depth
  <2>1. depth \in Nat /\ depth < 65536 /\ depth <= OGR_STUB_MAX /\ OGR_STUB_MAX \in Nat
    BY <1>2, <1>4, SizeAssumption
  <2>2. U16(depth) = depth
    BY <2>1, Fits16
  <2>3. w.worklength = depth
    BY <1>5, <2>1, <2>2 DEF MinOf
  <2> QED BY <1>2, <1>4, <1>5, <2>3 DEF ReplayLength, MaxOf
<1>7. Ruler(maxdepth, mark, depth)
  BY <1>2, <1>4 DEF Exact
<1>8. DiffsOf(w.diffs, mark, depth)
  <2>1. ASSUME NEW k \in 1 .. depth PROVE mark[k] = mark[k - 1] + w.diffs[k]
    <3>1. /\ k \in 1 .. OGR_STUB_MAX /\ k \in 0 .. depth /\ k - 1 \in 0 .. k - 1
          /\ k - 1 \in 0 .. depth
      BY <1>2, <1>4, SizeAssumption
    <3>2. OGR[maxdepth] \in Nat /\ OGR[maxdepth] < 65536
      BY <1>2, Lengths, SizeAssumption
    <3>3. mark[k - 1] < mark[k] /\ mark[k] \in 0 .. OGR[maxdepth] /\ mark[k - 1] \in 0 .. OGR[maxdepth]
      BY <1>2, <1>4, <1>7, <3>1, Growing
    <3>4. mark[k] - mark[k - 1] \in Nat /\ mark[k] - mark[k - 1] < 65536
      BY <3>2, <3>3
    <3>5. w.diffs[k] = mark[k] - mark[k - 1]
      BY <1>5, <3>1, <3>4, Fits16
    <3> QED BY <3>2, <3>3, <3>5
  <2> QED BY <2>1 DEF DiffsOf
<1>9. Progress(w)
  BY <1>2, <1>4, <1>6, <1>7, <1>8 DEF Progress, Replays
<1>10. pos = mark[depth]
  BY <1>2, <1>3, <1>4 DEF OgrInv, NewBit
<1> QED BY <1>3, <1>4, <1>5, <1>6, <1>7, <1>8, <1>9, <1>10 DEF w

\* A packet that is written back between two slices loads again.
LEMMA RetrieveOgr == ASSUME OgrInv, Retrieve PROVE OgrInv'
<1> DEFINE w == getresult(depth)
<1>1. /\ pc = "ready" /\ workstub' = w /\ pc' = "stored"
      /\ received' = received /\ worked' = worked /\ resets' = resets /\ retval' = retval
      /\ maxdepth' = maxdepth /\ startdepth' = startdepth /\ stopdepth' = stopdepth
      /\ list' = list /\ dist' = dist /\ comp' = comp /\ mark' = mark /\ limit' = limit
      /\ depth' = depth /\ pos' = pos /\ newbit' = newbit /\ nodes' = nodes
  BY DEF Retrieve, bounds, levels
<1>2. /\ InRange(received) /\ maxdepth = received.marks
      /\ Replays(maxdepth, received.diffs, received.length) /\ retval = "CORE_S_CONTINUE"
  BY <1>1, InCore
<1>3. w \in WorkStub /\ KeepsStub(w) /\ Progress(w)
  BY <1>1, RetrievedRecord
<1> HIDE DEF w
<1>4. TypeOK'
  BY <1>1, <1>3 DEF OgrInv, TypeOK
<1>5. StubKept'
  BY <1>1, <1>3 DEF StubKept, KeepsStub, InRange
<1>6. Phase'
  BY <1>1, <1>2 DEF Phase, Running
<1>7. Reloadable'
  BY <1>1, <1>2, <1>3 DEF Reloadable, Progress, InRange
<1>8. (Replaying /\ Bounded /\ LevelsExact /\ StubPlaced /\ NewBit /\ Stands)'
  BY <1>1 DEF Replaying, Bounded, LevelsExact, StubPlaced, NewBit, Stands, Running
<1>9. (FoundIsGolomb /\ SavedStateLoads /\ StubRestored)'
  BY <1>1, <1>2 DEF FoundIsGolomb, SavedStateLoads, StubRestored
<1> QED BY <1>4, <1>5, <1>6, <1>7, <1>8, <1>9 DEF OgrInv

\* A state that does not change.
LEMMA StutterOgr == ASSUME OgrInv, UNCHANGED vars PROVE OgrInv'
<1>1. /\ received' = received /\ workstub' = workstub /\ worked' = worked /\ resets' = resets
      /\ pc' = pc /\ retval' = retval
      /\ maxdepth' = maxdepth /\ startdepth' = startdepth /\ stopdepth' = stopdepth
      /\ depth' = depth /\ list' = list /\ dist' = dist /\ comp' = comp /\ mark' = mark
      /\ limit' = limit /\ pos' = pos /\ newbit' = newbit /\ nodes' = nodes
  BY DEF vars, file, bounds, levels
<1>2. TypeOK' /\ StubKept' /\ Phase' /\ Reloadable' /\ Replaying'
  BY <1>1 DEF OgrInv, TypeOK, StubKept, KeepsStub, InRange, Phase, Running, Reloadable, Loaded,
              Progress, Replaying
<1>3. Bounded' /\ LevelsExact' /\ StubPlaced' /\ NewBit' /\ Stands'
  BY <1>1 DEF OgrInv, Bounded, LevelsExact, StubPlaced, NewBit, Stands, Running, Top, maxdepthm1
<1>4. FoundIsGolomb' /\ SavedStateLoads' /\ StubRestored'
  BY <1>1 DEF OgrInv, FoundIsGolomb, SavedStateLoads, StubRestored, maxdepthm1, maxlen
<1> QED BY <1>2, <1>3, <1>4 DEF OgrInv

\* The inductive invariant: what every state of the search says of its stub, of its
\* levels and of what can be loaded again.
THEOREM OgrSafety == Spec => []OgrInv
<1>1. ASSUME OgrInv, [Next]_vars PROVE OgrInv'
  <2>1. CASE Load
    BY <1>1, <2>1, LoadOgr
  <2>2. CASE LoadReset
    BY <1>1, <2>2, LoadResetOgr
  <2>3. CASE Replay
    BY <2>3, <1>1, ReplayOgr
  <2>4. CASE ReplayError
    BY <2>4, <1>1, ReplayErrorOgr
  <2>5. CASE Created
    BY <2>5, <1>1, CreatedOgr
  <2>6. CASE Run
    BY <2>6, <1>1, EnterOgr DEF Run
  <2>7. CASE Complete
    BY <2>7, <1>1, CompleteOgr
  <2>8. CASE Place
    BY <2>8, <1>1, PlaceOgr
  <2>9. CASE SkipWord
    BY <2>9, <1>1, SkipWordOgr
  <2>10. CASE Back
    BY <2>10, <1>1, BackOgr
  <2>11. CASE Continue
    BY <2>11, <1>1, ContinueOgr
  <2>12. CASE Success
    BY <2>12, <1>1, SuccessOgr
  <2>13. CASE Exhausted
    BY <2>13, <1>1, ExhaustedOgr
  <2>14. CASE SliceDone
    BY <2>14, <1>1, SliceDoneOgr
  <2>15. CASE Retrieve
    BY <2>15, <1>1, RetrieveOgr
  <2>16. CASE Over \/ UNCHANGED vars
    BY <2>16, <1>1, StutterOgr DEF Over
  <2> QED BY <1>1, <2>1, <2>2, <2>3, <2>4, <2>5, <2>6, <2>7, <2>8, <2>9, <2>10, <2>11, <2>12,
             <2>13, <2>14, <2>15, <2>16 DEF Next, Cycle
<1> QED BY <1>1, OgrInit, PTL DEF Spec

\* The levels are exact in the words of the property.
LEMMA BitmapsFollow == ASSUME OgrInv PROVE BitmapsExact
<1>1. SUFFICES ASSUME Running, NEW k \in 1 .. Top
      PROVE  /\ dist[k] = Measured(k)
             /\ comp[k] = {x \in Dist : \E i \in 0 .. k - 1 : At(k) + x - mark[i] \in Measured(k)}
  BY DEF BitmapsExact
<1>2. Exact(maxdepth, mark, pos, Top, list, dist, comp, limit)
  BY <1>1 DEF OgrInv, LevelsExact
<1>3. dist[k] = MeasuredIn(mark, k) /\ comp[k] = CompOf(mark, Where(mark, pos, Top, k), k)
  BY <1>1, <1>2 DEF Exact
<1>4. Measured(k) = MeasuredIn(mark, k) /\ At(k) = Where(mark, pos, Top, k)
  BY DEF Measured, MeasuredIn, At, Where
<1> QED BY <1>3, <1>4 DEF CompOf

\* The core leaves no array of its levels, and no field its width.
THEOREM OgrType == Spec => []TypeOK
<1>1. OgrInv => TypeOK
  BY DEF OgrInv
<1> QED BY <1>1, OgrSafety, PTL

\* The DIST and COMP bitmaps are exact on every level of ogr_cycle_256(), after any
\* number of shifts, pushes, pops, slices and replays.
THEOREM OgrBitmaps == Spec => []BitmapsExact
<1>1. OgrInv => BitmapsExact
  BY BitmapsFollow
<1> QED BY <1>1, OgrSafety, PTL

\* A ruler reported with CORE_S_SUCCESS is Golomb and within the best length known,
\* though the bitmaps are shorter than the ruler and found_one() looks only at distances up
\* to half of it.
THEOREM OgrFound == Spec => []FoundIsGolomb
<1>1. OgrInv => FoundIsGolomb
  BY DEF OgrInv
<1> QED BY <1>1, OgrSafety, PTL

\* The record that ogr_getresult() writes at the end of a search names the stub as
\* the server sent it, the last diff of a combined stub included.
THEOREM OgrRestored == Spec => []StubRestored
<1>1. OgrInv => StubRestored
  BY DEF OgrInv
<1> QED BY <1>1, OgrSafety, PTL

\* ogr_create() never refuses a record that ogr_getresult() wrote back between two
\* slices.
THEOREM OgrLoads == Spec => []SavedStateLoads
<1>1. OgrInv => SavedStateLoads
  BY DEF OgrInv
<1> QED BY <1>1, OgrSafety, PTL

-----------------------------------------------------------------------------
(* What the limits are to a ruler that is sought.                            *)

\* A ruler that is sought, mark by mark.
LEMMA SoughtIs ==
  ASSUME NEW n \in OGR_NG_MIN .. OGR_NG_MAX, NEW r \in Rulers[n]
  PROVE  /\ n \in Nat /\ 3 < n /\ n <= OGR_NG_MAX /\ OGR[n] \in Nat
         /\ \A a \in 0 .. n - 1 : r[a] \in 0 .. OGR[n]
         /\ r[0] = 0
         /\ \A a, b \in 0 .. n - 1 : a < b => r[a] < r[b]
         /\ \A a, b, c, d \in 0 .. n - 1 :
              a < b /\ c < d /\ r[b] - r[a] = r[d] - r[c] => a = c /\ b = d
<1>1. n \in Nat /\ 3 < n /\ n <= OGR_NG_MAX /\ OGR[n] \in Nat
  BY SizeAssumption, Lengths
<1>2. /\ r \in [0 .. n - 1 -> 0 .. OGR[n]] /\ r[0] = 0
      /\ \A a, b \in 0 .. n - 1 : a < b => r[a] < r[b]
      /\ IsGolomb(r)
  BY RulerAssumption
<1>3. \A a \in 0 .. n - 1 : r[a] \in 0 .. OGR[n]
  BY <1>2
<1>4. ASSUME NEW a \in 0 .. n - 1, NEW b \in 0 .. n - 1, NEW c \in 0 .. n - 1, NEW d \in 0 .. n - 1,
             a < b, c < d, r[b] - r[a] = r[d] - r[c]
      PROVE  a = c /\ b = d
  <2>1. a = c
    BY <1>2, <1>4 DEF IsGolomb
  <2>2. r[b] = r[d]
    BY <1>1, <1>3, <1>4, <2>1
  <2>3. ~(b < d) /\ ~(d < b)
    BY <1>1, <1>2, <1>3, <2>2
  <2> QED BY <2>1, <2>3
<1> QED BY <1>1, <1>2, <1>3, <1>4

\* There are different elements of the larger set for those of the smaller.
LEMMA RoomFor ==
  ASSUME NEW S, NEW T, IsFiniteSet(S), IsFiniteSet(T), Cardinality(S) <= Cardinality(T)
  PROVE  \E f \in [S -> T] : \A x, y \in S : f[x] = f[y] => x = y
<1> DEFINE m == Cardinality(S)
           k == Cardinality(T)
<1>1. m \in Nat /\ k \in Nat /\ m <= k
  BY FS_CardinalityType
<1>2. PICK g \in Bijection(1 .. m, S) : TRUE
  BY FS_CardinalityType DEF ExistsBijection
<1>3. PICK h \in Bijection(1 .. k, T) : TRUE
  BY FS_CardinalityType DEF ExistsBijection
<1>4. g \in [1 .. m -> S] /\ \A x \in S : \E a \in 1 .. m : g[a] = x
  BY <1>2 DEF Bijection, Injection, Surjection
<1>5. h \in [1 .. k -> T] /\ \A a, b \in 1 .. k : h[a] = h[b] => a = b
  BY <1>3 DEF Bijection, Injection, IsInjective
<1> DEFINE num(x) == CHOOSE a \in 1 .. m : g[a] = x
<1>6. \A x \in S : num(x) \in 1 .. m /\ g[num(x)] = x
  BY <1>4
<1>7. \A x \in S : num(x) \in 1 .. k
  BY <1>1, <1>6
<1> HIDE DEF m, k, num
<1> DEFINE f == [x \in S |-> h[num(x)]]
<1>8. f \in [S -> T]
  BY <1>5, <1>7
<1>9. ASSUME NEW x \in S, NEW y \in S, f[x] = f[y] PROVE x = y
  <2>1. h[num(x)] = h[num(y)]
    BY <1>9
  <2>2. num(x) = num(y)
    BY <1>5, <1>7, <2>1
  <2> QED BY <1>6, <2>2
<1> QED BY <1>8, <1>9

\* The n least distances that are not in D are below all others that are not.
LEMMA FreeOnesLeast ==
  ASSUME NEW n \in Nat, NEW D \in SUBSET (1 .. CHOOSE_DIST_BITS)
  PROVE  /\ IsFiniteSet(FirstFree(n, D)) /\ Cardinality(FirstFree(n, D)) <= n
         /\ \A x \in FirstFree(n, D) : \A y \in Nat \ {0} :
              y \notin D /\ y <= x => y \in FirstFree(n, D)
<1> DEFINE M == n + CHOOSE_DIST_BITS
           F == FirstFree(n, D)
<1>0. M \in Nat
  BY SizeAssumption
<1>1. F = {x \in (1 .. M) \ D : Cardinality((1 .. x) \ D) <= n}
  BY DEF FirstFree
<1>2. \A x \in 1 .. M : IsFiniteSet((1 .. x) \ D) /\ Cardinality((1 .. x) \ D) \in Nat
  <2> TAKE x \in 1 .. M
  <2>1. IsFiniteSet(1 .. x)
    BY FS_Interval
  <2>2. (1 .. x) \ D \in SUBSET (1 .. x)
    OBVIOUS
  <2>3. IsFiniteSet((1 .. x) \ D)
    BY <2>1, <2>2, FS_Subset
  <2> QED BY <2>3, FS_CardinalityType
<1> HIDE DEF M, F
<1>3. IsFiniteSet(F) /\ Cardinality(F) <= n
  <2>1. CASE F = {}
    BY <2>1, FS_EmptySet
  <2>2. CASE F # {}
    <3> DEFINE S == {M - x : x \in F}
    <3>0. \A x \in F : x \in 1 .. M /\ M - x \in Nat
      BY <1>0, <1>1
    <3>1. S \in SUBSET Nat /\ S # {}
      BY <2>2, <3>0
    <3>2. PICK s \in S : \A y \in S : s <= y
      BY <3>1, LeastNumber
    <3>3. PICK x \in F : s = M - x
      BY <3>2
    <3>4. ASSUME NEW y \in F PROVE y <= x
      <4>1. M - x <= M - y
        BY <3>2, <3>3
      <4> QED BY <1>0, <3>0, <4>1
    <3>5. x \in 1 .. M /\ Cardinality((1 .. x) \ D) <= n
      BY <1>1
    <3>6. F \in SUBSET ((1 .. x) \ D)
      BY <1>0, <1>1, <3>4
    <3>7. IsFiniteSet(F) /\ Cardinality(F) <= Cardinality((1 .. x) \ D)
      BY <1>2, <3>5, <3>6, FS_Subset
    <3>8. Cardinality(F) \in Nat
      BY <3>7, FS_CardinalityType
    <3> QED BY <1>2, <3>5, <3>7, <3>8
  <2> QED BY <2>1, <2>2
<1>4. ASSUME NEW x \in F, NEW y \in Nat \ {0}, y \notin D, y <= x PROVE y \in F
  <2>1. x \in 1 .. M /\ y \in 1 .. M /\ Cardinality((1 .. x) \ D) <= n
    BY <1>0, <1>1, <1>4
  <2>2. (1 .. y) \ D \in SUBSET ((1 .. x) \ D)
    BY <1>4, <2>1
  <2>3. Cardinality((1 .. y) \ D) <= Cardinality((1 .. x) \ D)
    BY <1>2, <2>1, <2>2, FS_Subset
  <2>4. Cardinality((1 .. y) \ D) <= n
    BY <1>2, <2>1, <2>3
  <2> QED BY <1>1, <1>4, <2>1, <2>4
<1> QED BY <1>3, <1>4 DEF F

\* A part of a ruler that measures none of the distances D is not shorter than the
\* least ones it may measure: its segments are as many, and all different.
LEMMA LeastSumHolds ==
  ASSUME NEW n \in OGR_NG_MIN .. OGR_NG_MAX, NEW r \in Rulers[n],
         NEW i \in 0 .. n - 1, NEW j \in 0 .. n - 1, i <= j,
         NEW D \in SUBSET (1 .. CHOOSE_DIST_BITS), \A c, d \in i .. j : r[d] - r[c] \notin D
  PROVE  LeastSum(j - i, D) <= r[j] - r[i]
<1> DEFINE seg(k) == r[k] - r[k - 1]
           K == i + 1 .. j
           S == {seg(k) : k \in K}
           F == FirstFree(j - i, D)
           M == j - i + CHOOSE_DIST_BITS
<1>0. /\ i \in Nat /\ j \in Nat /\ j - i \in Nat /\ n \in Nat
      /\ \A k \in i .. j : k \in 0 .. n - 1 /\ r[k] \in Nat
      /\ \A k \in K : k \in i .. j /\ k - 1 \in i .. j /\ k - 1 < k
  <2>1. n \in Nat /\ \A a \in 0 .. n - 1 : r[a] \in 0 .. OGR[n] /\ OGR[n] \in Nat
    BY SoughtIs
  <2> QED BY <2>1
<1>1. \A a, b \in i .. j : a < b => r[a] < r[b]
  BY <1>0, SoughtIs
<1>2. \A k \in K : seg(k) \in Nat \ {0} /\ seg(k) \notin D
  BY <1>0, <1>1
<1>3. \A k, l \in K : seg(k) = seg(l) => k = l
  <2> TAKE k, l \in K
  <2> HAVE seg(k) = seg(l)
  <2>1. /\ k - 1 \in 0 .. n - 1 /\ k \in 0 .. n - 1 /\ l - 1 \in 0 .. n - 1 /\ l \in 0 .. n - 1
        /\ k - 1 < k /\ l - 1 < l /\ r[k] - r[k - 1] = r[l] - r[l - 1]
    BY <1>0
  <2> QED BY <2>1, SoughtIs
<1>4. IsFiniteSet(K) /\ Cardinality(K) = j - i
  <2>1. /\ IsFiniteSet(i + 1 .. j)
        /\ Cardinality(i + 1 .. j) = IF i + 1 > j THEN 0 ELSE j - (i + 1) + 1
    BY <1>0, i + 1 \in Int, j \in Int, FS_Interval
  <2> QED BY <1>0, <2>1
<1>5. IsFiniteSet(S) /\ Cardinality(S) = j - i
  <2> DEFINE f == [k \in K |-> seg(k)]
  <2>1. f \in [K -> S] /\ \A x \in S : \E k \in K : f[k] = x
    OBVIOUS
  <2>2. \A k, l \in K : f[k] = f[l] => k = l
    BY <1>3
  <2> HIDE DEF f, K, S
  <2>3. f \in Bijection(K, S)
    BY <2>1, <2>2 DEF Bijection, Injection, Surjection, IsInjective
  <2>4. ExistsBijection(K, S)
    BY <2>3 DEF ExistsBijection
  <2> QED BY <1>4, <2>4, FS_Bijection
<1>6. /\ IsFiniteSet(F) /\ Cardinality(F) <= j - i
      /\ \A x \in F : \A y \in Nat \ {0} : y \notin D /\ y <= x => y \in F
  BY <1>0, FreeOnesLeast
<1>7. F \subseteq 1 .. M /\ M \in Nat
  BY <1>0, SizeAssumption DEF FirstFree
<1>8. \A y \in S : y \in Nat \ {0} /\ y \notin D
  BY <1>2
<1>9. \A y \in S : \E k \in K : seg(k) = y
  OBVIOUS
<1> HIDE DEF S, F, M
<1>10. \A x \in F \ S : \A y \in S \ F : x < y
  BY <1>6, <1>7, <1>8
<1>11. \E g \in [F \ S -> S \ F] : \A x, y \in F \ S : g[x] = g[y] => x = y
  <2>1. /\ IsFiniteSet(F \ S) /\ Cardinality(F \ S) = Cardinality(F) - Cardinality(F \cap S)
        /\ IsFiniteSet(S \ F) /\ Cardinality(S \ F) = Cardinality(S) - Cardinality(S \cap F)
    BY <1>5, <1>6, FS_Difference
  <2>2. S \cap F = F \cap S
    OBVIOUS
  <2>3. Cardinality(F) \in Nat /\ Cardinality(F \cap S) \in Nat
    BY <1>6, FS_Intersection, FS_CardinalityType
  <2>4. Cardinality(F \ S) <= Cardinality(S \ F)
    BY <1>0, <1>5, <1>6, <2>1, <2>2, <2>3
  <2> QED BY <2>1, <2>4, RoomFor
<1>12. PICK g \in [F \ S -> S \ F] : \A x, y \in F \ S : g[x] = g[y] => x = y
  BY <1>11
<1> DEFINE to(x) == IF x \in S THEN x ELSE g[x]
           at(x) == CHOOSE k \in K : seg(k) = to(x)
<1>13. \A x \in F : to(x) \in S /\ x <= to(x)
  BY <1>7, <1>8, <1>10, <1>12
<1>14. \A x, y \in F : to(x) = to(y) => x = y
  BY <1>12
<1>15. \A x \in F : at(x) \in K /\ seg(at(x)) = to(x)
  BY <1>9, <1>13
<1> HIDE DEF to, at
<1> DEFINE P == {p \in F \X (1 .. M) : p[2] <= p[1]}
           h == [p \in P |-> r[at(p[1]) - 1] + p[2]]
<1>16. \A p \in P : /\ p[1] \in F /\ p[2] \in 1 .. M /\ p = <<p[1], p[2]>>
                    /\ at(p[1]) \in K
                    /\ r[at(p[1]) - 1] < h[p] /\ h[p] <= r[at(p[1])] /\ h[p] \in Nat
  <2> TAKE p \in P
  <2>1. p[1] \in F /\ p[2] \in 1 .. M /\ p = <<p[1], p[2]>> /\ p[2] <= p[1]
    OBVIOUS
  <2>2. /\ at(p[1]) \in K /\ p[1] <= r[at(p[1])] - r[at(p[1]) - 1]
        /\ r[at(p[1])] \in Nat /\ r[at(p[1]) - 1] \in Nat
    BY <1>0, <1>13, <1>15, <2>1
  <2>3. h[p] = r[at(p[1]) - 1] + p[2]
    OBVIOUS
  <2>4. p[1] \in Nat /\ p[2] \in Nat \ {0}
    <3>1. \A x \in F : x \in Nat
      BY <1>7
    <3>2. \A y \in 1 .. M : y \in Nat \ {0}
      BY <1>7
    <3> QED BY Zenon, <2>1, <3>1, <3>2
  <2>5. r[at(p[1]) - 1] < h[p] /\ h[p] <= r[at(p[1])] /\ h[p] \in Nat
    <3>1. p[2] <= p[1]
      BY <2>1
    <3> HIDE DEF h, P, K
    <3> QED BY <2>2, <2>3, <2>4, <3>1
  <2> QED BY Zenon, <2>1, <2>2, <2>5
<1>17. \A p \in P : h[p] \in r[i] + 1 .. r[j]
  <2> TAKE p \in P
  <2>1. /\ at(p[1]) \in i .. j /\ at(p[1]) - 1 \in i .. j
        /\ r[at(p[1]) - 1] < h[p] /\ h[p] <= r[at(p[1])] /\ h[p] \in Nat
    BY <1>0, <1>16
  <2>2. r[i] <= r[at(p[1]) - 1] /\ r[at(p[1])] <= r[j]
    BY <1>0, <1>1, <2>1
  <2> QED BY <1>0, <2>1, <2>2
<1>18. \A p, q \in P : h[p] = h[q] => ~(at(p[1]) < at(q[1]))
  <2> TAKE p, q \in P
  <2> HAVE h[p] = h[q]
  <2>1. /\ at(p[1]) \in K /\ at(q[1]) \in K /\ h[p] <= r[at(p[1])] /\ r[at(q[1]) - 1] < h[q]
        /\ h[p] \in Nat
    BY <1>16
  <2>2. ASSUME at(p[1]) < at(q[1]) PROVE r[at(p[1])] <= r[at(q[1]) - 1]
    <3>1. at(p[1]) \in i .. j /\ at(q[1]) - 1 \in i .. j /\ at(p[1]) <= at(q[1]) - 1
      BY <1>0, <2>1, <2>2
    <3> QED BY <1>0, <1>1, <3>1
  <2>3. r[at(p[1])] \in Nat /\ r[at(q[1]) - 1] \in Nat
    BY <1>0, <2>1
  <2> QED BY <2>1, <2>2, <2>3
<1>19. \A p, q \in P : h[p] = h[q] => p = q
  <2> TAKE p, q \in P
  <2> HAVE h[p] = h[q]
  <2>1. at(p[1]) \in K /\ at(q[1]) \in K
    BY <1>16
  <2>2. at(p[1]) = at(q[1])
    BY <1>0, <1>18, <2>1
  <2>3. p[1] = q[1]
    BY <1>14, <1>15, <1>16, <2>2
  <2>4. /\ h[p] = r[at(p[1]) - 1] + p[2] /\ h[q] = r[at(q[1]) - 1] + q[2]
        /\ r[at(p[1]) - 1] \in Nat /\ p[2] \in 1 .. M /\ q[2] \in 1 .. M
    BY <1>0, <1>16, <2>1
  <2>5. p[2] = q[2]
    BY <1>7, <2>2, <2>4
  <2> QED BY <1>16, <2>3, <2>5
<1>20. h \in Injection(P, r[i] + 1 .. r[j])
  <2>1. h \in [P -> r[i] + 1 .. r[j]]
    BY <1>17
  <2> HIDE DEF h, P
  <2> QED BY <1>19, <2>1 DEF Injection, IsInjective
<1>21. /\ IsFiniteSet(r[i] + 1 .. r[j]) /\ Cardinality(r[i] + 1 .. r[j]) = r[j] - r[i]
  <2>1. i \in i .. j /\ j \in i .. j
    BY <1>0
  <2>2. r[i] \in Nat /\ r[j] \in Nat /\ r[i] <= r[j] /\ r[i] + 1 \in Int /\ r[j] \in Int
    BY <1>0, <1>1, <2>1
  <2>3. /\ IsFiniteSet(r[i] + 1 .. r[j])
        /\ Cardinality(r[i] + 1 .. r[j]) = IF r[i] + 1 > r[j] THEN 0 ELSE r[j] - (r[i] + 1) + 1
    BY <2>2, FS_Interval
  <2> QED BY <2>2, <2>3
<1>22. LeastSum(j - i, D) = Cardinality(P)
  BY DEF LeastSum, F, M
<1> HIDE DEF P, h
<1> QED BY <1>20, <1>21, <1>22, FS_Injection

\* min_length() is the length of no part of a ruler that measures none of D, and less.
LEMMA LeastLengthHolds ==
  ASSUME NEW n \in OGR_NG_MIN .. OGR_NG_MAX, NEW r \in Rulers[n],
         NEW i \in 0 .. n - 1, NEW j \in 0 .. n - 1, i <= j, j - i <= n - 2,
         NEW D \in SUBSET (1 .. CHOOSE_DIST_BITS), \A c, d \in i .. j : r[d] - r[c] \notin D
  PROVE  min_length(j - i, D) <= r[j] - r[i] /\ min_length(j - i, D) \in Nat
<1> DEFINE l == j - i
           C == CHOOSE_MARKS - 1
<1>1. /\ n \in Nat /\ n <= OGR_NG_MAX /\ l \in Nat /\ l <= n - 2 /\ C \in Nat
      /\ n <= 2 * CHOOSE_MARKS /\ CHOOSE_MARKS \in Nat
      /\ \A k \in 0 .. n - 1 : r[k] \in Nat
  <2>1. n \in Nat /\ n <= OGR_NG_MAX /\ \A k \in 0 .. n - 1 : r[k] \in 0 .. OGR[n] /\ OGR[n] \in Nat
    BY SoughtIs
  <2> QED BY <2>1, SizeAssumption
<1>2. OGR[l + 1] <= r[j] - r[i]
  BY <1>1, LeastLengths
<1>3. \A a, b \in i .. j : a <= b /\ b - a < CHOOSE_MARKS => choose_dat[D][b - a] <= r[b] - r[a]
  <2> TAKE a, b \in i .. j
  <2> HAVE a <= b /\ b - a < CHOOSE_MARKS
  <2>1. /\ a \in 0 .. n - 1 /\ b \in 0 .. n - 1 /\ b - a < n - 1
        /\ \A c, d \in a .. b : r[d] - r[c] \notin D
    BY <1>1
  <2> QED BY <2>1, LeastLengths
<1>4. min_length(l, D) \in Nat
  BY <1>1, MinLengthNat, SizeAssumption
<1>5. CASE l < CHOOSE_MARKS
  BY <1>1, <1>3, <1>4, <1>5 DEF min_length
<1>6. CASE l >= CHOOSE_MARKS
  <2>1. /\ C < CHOOSE_MARKS /\ l - C < CHOOSE_MARKS /\ l - C \in Nat /\ C + i \in i .. j
        /\ (C + i) - i = C /\ j - (C + i) = l - C
    BY <1>1, <1>6
  <2>2. choose_dat[D][C] <= r[C + i] - r[i] /\ choose_dat[D][l - C] <= r[j] - r[C + i]
    <3>1. i \in i .. j /\ j \in i .. j /\ i <= C + i /\ C + i <= j
      BY <2>1
    <3> HIDE DEF C
    <3> QED BY <1>3, <2>1, <3>1
  <2>3. choose_dat[D][C] \in Nat /\ choose_dat[D][l - C] \in Nat
    BY <1>1, <2>1, ChooseData
  <2>4. LeastSum(l, D) <= r[j] - r[i] /\ LeastSum(l, D) \in Nat
    BY <1>1, LeastSumHolds, LeastSumNat
  <2>5. OGR[l + 1] \in Nat
    BY <1>1, Lengths, SizeAssumption
  <2>6. r[j] \in Nat /\ r[i] \in Nat /\ r[C + i] \in Nat
    BY <1>1, <2>1
  <2>7. choose_dat[D][C] + choose_dat[D][l - C] <= r[j] - r[i]
    BY <2>2, <2>3, <2>6
  <2>8. min_length(l, D) =
          MaxOf(MaxOf(choose_dat[D][C] + choose_dat[D][l - C], OGR[l + 1]), LeastSum(l, D))
    BY <1>1, <1>6 DEF min_length
  <2> HIDE DEF C, l
  <2> QED BY <1>2, <1>4, <2>4, <2>7, <2>8 DEF MaxOf, l
<1> QED BY <1>1, <1>5, <1>6

\* Of the two mirror images, the one that is sought.
Leftmost(n, r) == r[MidLeft(n)] < r[n - 1] - r[MidLeft(n) + MidSize(n)]

\* The middle segment of a ruler, between two of its marks.
LEMMA MiddleMarks ==
  ASSUME NEW n \in OGR_NG_MIN .. OGR_NG_MAX
  PROVE  /\ MidSize(n) \in 1 .. 2 /\ MidLeft(n) \in 1 .. n - 2
         /\ MidLeft(n) + MidSize(n) \in 2 .. n - 2
         /\ MidSize(n) <= n - 2
  BY SizeAssumption DEF MidSize, MidLeft

\* cache_limits() allows each mark of a ruler that is sought.
LEMMA CacheLimitHolds ==
  ASSUME NEW n \in OGR_NG_MIN .. OGR_NG_MAX, NEW r \in Rulers[n], Leftmost(n, r),
         NEW k \in 1 .. n - 1, NEW D \in SUBSET (1 .. CHOOSE_DIST_BITS),
         \A c, d \in k .. n - 1 : r[d] - r[c] \notin D
  PROVE  r[k] <= CacheLimit(n, k, D)
<1> DEFINE h == MidLeft(n)
           s == MidSize(n)
           whole == OGR[n] - min_length(n - 1 - k, D)
           half  == (OGR[n] - 1 - min_length(s, D)) \div 2 - min_length(h - k, D)
<1>1. /\ n \in Nat /\ 3 < n /\ OGR[n] \in Nat
      /\ \A a \in 0 .. n - 1 : r[a] \in Nat /\ r[a] <= OGR[n]
  <2>1. n \in Nat /\ 3 < n /\ OGR[n] \in Nat /\ \A a \in 0 .. n - 1 : r[a] \in 0 .. OGR[n]
    BY SoughtIs
  <2> QED BY <2>1
<1>2. h \in 1 .. n - 2 /\ s \in 1 .. 2 /\ h + s \in 2 .. n - 2 /\ s <= n - 2
  BY MiddleMarks
<1>3. r[h] < r[n - 1] - r[h + s]
  BY DEF Leftmost
<1> HIDE DEF h, s
<1>4. ASSUME NEW a \in k .. n - 1, NEW b \in k .. n - 1, a <= b
      PROVE  min_length(b - a, D) <= r[b] - r[a] /\ min_length(b - a, D) \in Nat
  <2>1. a \in 0 .. n - 1 /\ b \in 0 .. n - 1 /\ b - a <= n - 2
    BY <1>1
  <2>2. \A c, d \in a .. b : r[d] - r[c] \notin D
    BY <1>1
  <2> QED BY <1>4, <2>1, <2>2, LeastLengthHolds
<1>5. r[k] <= whole
  <2>1. n - 1 \in k .. n - 1 /\ k \in k .. n - 1 /\ k <= n - 1 /\ (n - 1) - k = n - 1 - k
    BY <1>1
  <2>2. min_length(n - 1 - k, D) <= r[n - 1] - r[k] /\ min_length(n - 1 - k, D) \in Nat
    BY <1>4, <2>1
  <2>3. r[k] \in Nat /\ r[n - 1] \in Nat /\ r[n - 1] <= OGR[n]
    BY <1>1
  <2> QED BY <1>1, <2>2, <2>3
<1>6. ASSUME k <= h PROVE r[k] <= half
  <2>1. h \in k .. n - 1 /\ h + s \in k .. n - 1 /\ k \in k .. n - 1 /\ h <= h + s /\ (h + s) - h = s
    BY <1>1, <1>2, <1>6
  <2>2. min_length(h - k, D) <= r[h] - r[k] /\ min_length(h - k, D) \in Nat
    BY <1>4, <1>6, <2>1
  <2>3. min_length(s, D) <= r[h + s] - r[h] /\ min_length(s, D) \in Nat
    BY <1>4, <2>1
  <2>4. /\ r[k] \in Nat /\ r[h] \in Nat /\ r[h + s] \in Nat /\ r[n - 1] \in Nat
        /\ r[n - 1] <= OGR[n]
    BY <1>1, <2>1
  <2>5. 2 * r[h] <= OGR[n] - 1 - min_length(s, D)
    BY <1>1, <1>3, <2>3, <2>4
  <2>6. r[h] <= (OGR[n] - 1 - min_length(s, D)) \div 2
    <3> DEFINE x == OGR[n] - 1 - min_length(s, D)
    <3>1. x \in Int /\ 2 * r[h] <= x /\ r[h] \in Int
      BY <1>1, <2>3, <2>4, <2>5
    <3> HIDE DEF x
    <3>2. r[h] <= x \div 2
      BY <3>1
    <3> QED BY <3>2 DEF x
  <2>7. (OGR[n] - 1 - min_length(s, D)) \div 2 \in Int
    BY <1>1, <2>3
  <2> QED BY <2>2, <2>4, <2>6, <2>7
<1>7. CacheLimit(n, k, D) = MaxOf(0, IF k <= h THEN MinOf(whole, half) ELSE whole)
  BY DEF CacheLimit, h, s
<1>8. whole \in Int /\ (k <= h => half \in Int) /\ r[k] \in Nat
  <2>1. min_length(n - 1 - k, D) \in Nat
    BY <1>1, MinLengthNat, SizeAssumption
  <2>2. min_length(s, D) \in Nat
    BY <1>1, <1>2, MinLengthNat, SizeAssumption
  <2>3. k <= h => min_length(h - k, D) \in Nat
    BY <1>1, <1>2, MinLengthNat, SizeAssumption
  <2> QED BY <1>1, <2>1, <2>2, <2>3
<1> HIDE DEF whole, half
<1> QED BY <1>1, <1>2, <1>5, <1>6, <1>7, <1>8 DEF MaxOf, MinOf

\* A ruler that is sought, as marks of the core.
AsMarks(n, r) == [k \in Level |-> IF k < n THEN r[k] ELSE 0]

\* Such marks are those of the ruler.
LEMMA AsMarksIs ==
  ASSUME NEW n \in OGR_NG_MIN .. OGR_NG_MAX, NEW r \in Rulers[n]
  PROVE  /\ AsMarks(n, r) \in Marks
         /\ \A k \in 0 .. n - 1 : AsMarks(n, r)[k] = r[k] /\ r[k] \in Nat
<1>1. /\ n \in Nat /\ 3 < n /\ n <= OGR_STUB_MAX /\ OGR[n] \in Nat
      /\ \A a \in 0 .. n - 1 : r[a] \in 0 .. OGR[n]
  <2>1. n <= OGR_STUB_MAX
    BY SizeAssumption
  <2> QED BY <2>1, SoughtIs
<1>2. \A k \in Level : k < n => r[k] \in Nat
  BY <1>1, SizeAssumption DEF Level
<1>3. \A k \in 0 .. n - 1 : k \in Level /\ k < n /\ r[k] \in Nat
  BY <1>1, SizeAssumption DEF Level
<1> QED BY <1>2, <1>3 DEF AsMarks, Marks

\* No limit and no forbidden place of the core excludes a ruler that is sought.
LEMMA SoughtFits ==
  ASSUME NEW n \in OGR_NG_MIN .. OGR_NG_MAX, NEW r \in Rulers[n], Leftmost(n, r)
  PROVE  Ruler(n, AsMarks(n, r), n - 1)
<1> DEFINE m == AsMarks(n, r)
           h == MidLeft(n)
           s == MidSize(n)
<1>1. /\ m \in Marks /\ \A k \in 0 .. n - 1 : m[k] = r[k] /\ r[k] \in Nat
  BY AsMarksIs
<1>2. /\ n \in Nat /\ 3 < n /\ OGR[n] \in Nat
      /\ r[0] = 0
      /\ \A a, b \in 0 .. n - 1 : a < b => r[a] < r[b]
      /\ \A a, b, c, d \in 0 .. n - 1 :
           a < b /\ c < d /\ r[b] - r[a] = r[d] - r[c] => a = c /\ b = d
  BY SoughtIs
<1>3. \A a \in 0 .. n - 1 : r[a] <= OGR[n]
  BY SoughtIs
<1> HIDE DEF m
<1>4. SUFFICES ASSUME NEW k \in 1 .. n - 1 PROVE Fits(n, m, k)
  <2>1. m[0] = 0
    BY <1>1, <1>2
  <2> QED BY <1>4, <2>1 DEF Ruler, m
<1> DEFINE D == MeasuredIn(m, k)
<1>5. ASSUME NEW c \in 0 .. n - 1, NEW d \in k .. n - 1 PROVE r[d] - r[c] \notin D
  <2> SUFFICES ASSUME r[d] - r[c] \in D PROVE FALSE
    OBVIOUS
  <2>1. PICK b \in 0 .. k - 1 : \E a \in 0 .. b - 1 : r[d] - r[c] = m[b] - m[a]
    BY DEF MeasuredIn
  <2>2. PICK a \in 0 .. b - 1 : r[d] - r[c] = m[b] - m[a]
    BY <2>1
  <2>3. a \in 0 .. n - 1 /\ b \in 0 .. n - 1 /\ d \in 0 .. n - 1 /\ a < b /\ b < d
    BY <1>2
  <2>4. r[d] - r[c] = r[b] - r[a]
    BY <1>1, <2>2, <2>3
  <2>5. c < d
    <3>1. r[a] < r[b]
      BY <1>2, <2>3
    <3>2. r[c] < r[d]
      BY <1>1, <2>3, <2>4, <3>1
    <3> QED BY <1>1, <1>2, <2>3, <3>2
  <2> QED BY <1>2, <2>3, <2>4, <2>5
<1>6. ASSUME NEW i \in 0 .. k - 1 PROVE m[i] < m[k] /\ m[k] - m[i] \notin D
  <2>1. i \in 0 .. n - 1 /\ k \in 0 .. n - 1 /\ k \in k .. n - 1 /\ i < k
    BY <1>2
  <2> QED BY <1>1, <1>2, <1>5, <2>1
<1>7. r[k] <= choose(n, D, k)
  <2>1. \A c, d \in k .. n - 1 : r[d] - r[c] \notin D \cap (1 .. CHOOSE_DIST_BITS)
    BY <1>5, <1>2
  <2>2. D \cap (1 .. CHOOSE_DIST_BITS) \in SUBSET (1 .. CHOOSE_DIST_BITS)
    OBVIOUS
  <2> HIDE DEF D
  <2> QED BY <2>1, <2>2, CacheLimitHolds DEF choose
<1>8. choose(n, D, k) \in Int
  BY ChooseRange
<1>9. h \in 1 .. n - 2 /\ s \in 1 .. 2 /\ h + s \in 2 .. n - 2
  BY MiddleMarks
<1>10. r[h] < r[n - 1] - r[h + s]
  BY DEF Leftmost
<1> HIDE DEF D, h, s
<1>11. ASSUME h < k, k <= h + s
       PROVE  r[k] <= OGR[n] - 1 - r[h] -
                        (IF k < h + s THEN FirstBlank(D \cap (1 .. SCALAR_BITS)) ELSE 0)
  <2>1. /\ r[h] \in Nat /\ r[h + s] \in Nat /\ r[k] \in Nat /\ r[n - 1] \in Nat
        /\ r[n - 1] <= OGR[n]
    BY <1>1, <1>2, <1>3, <1>9
  <2>2. CASE k = h + s
    BY <1>2, <1>10, <2>1, <2>2
  <2>3. CASE k < h + s
    <3> DEFINE x == r[h + s] - r[k]
               B == FirstBlank(D \cap (1 .. SCALAR_BITS))
    <3>1. x \in Nat \ {0} /\ x \notin D
      <4>1. h + s \in k .. n - 1 /\ k \in 0 .. n - 1 /\ h + s \in 0 .. n - 1
        BY <1>2, <1>9, <2>3
      <4> QED BY <1>2, <1>5, <2>1, <2>3, <4>1
    <3>2. B \in 1 .. SCALAR_BITS + 1 /\ \A t \in 1 .. B - 1 : t \in D
      <4>1. D \cap (1 .. SCALAR_BITS) \in SUBSET (1 .. SCALAR_BITS)
        OBVIOUS
      <4> QED BY <4>1, FirstBlankIs
    <3>3. B <= x
      <4> HIDE DEF B, x
      <4> QED BY <3>1, <3>2, SizeAssumption
    <3>4. B \in Nat
      BY <3>2, SizeAssumption
    <3> HIDE DEF B
    <3>5. r[k] <= OGR[n] - 1 - r[h] - B
      BY <1>2, <1>10, <2>1, <3>3, <3>4
    <3> QED BY <2>3, <3>5 DEF B
  <2> QED BY <1>9, <1>11, <2>2, <2>3
<1>12. m[k] <= LimitIn(n, m, k)
  <2>1. m[k] = r[k] /\ m[h] = r[h] /\ r[k] \in Nat
    BY <1>1, <1>2, <1>9
  <2>2. LimitIn(n, m, k) = LimitAt(n, D, k, r[h])
    BY <2>1 DEF LimitIn, D, h
  <2>3. CASE h < k /\ k <= h + s
    <3>1. LimitAt(n, D, k, r[h]) =
            MinOf(choose(n, D, k),
                  OGR[n] - 1 - r[h] -
                    (IF k < h + s THEN FirstBlank(D \cap (1 .. SCALAR_BITS)) ELSE 0))
      BY <2>3 DEF LimitAt, h, s
    <3> QED BY <1>7, <1>11, <2>1, <2>2, <2>3, <3>1 DEF MinOf
  <2>4. CASE ~(h < k /\ k <= h + s)
    <3>1. LimitAt(n, D, k, r[h]) = choose(n, D, k)
      BY <2>4 DEF LimitAt, h, s
    <3> QED BY <1>7, <2>1, <2>2, <3>1
  <2> QED BY <2>3, <2>4
<1> QED BY <1>6, <1>12 DEF Fits, D

-----------------------------------------------------------------------------
(* Every ruler that is sought stays ahead of the search.                     *)

\* The rulers that are sought in the stub the server sent.
Sought == {AsMarks(received.marks, r) : r \in {q \in Rulers[received.marks] : StandsFor(received, q)}}

\* m comes after the marks c whose last one, of level t, is at position p: the first
\* mark in which they differ is further on in m.
Later(m, c, p, t) ==
  \E k \in 1 .. t : (\A i \in 0 .. k - 1 : m[i] = c[i]) /\ m[k] > Where(c, p, t, k)

\* m begins with the diffs a record replays, or comes after all that do.
Follows(m, w) ==
  \E k \in 1 .. ReplayLength(w) + 1 :
    /\ \A i \in 1 .. k - 1 : m[i] - m[i - 1] = w.diffs[i]
    /\ k <= ReplayLength(w) => m[k] - m[k - 1] > w.diffs[k]

\* The search has not passed m, unless m is the ruler it just found.
JustFound(m) == pc = "exit" /\ RulerFound /\ \A k \in 0 .. maxdepthm1 : m[k] = mark[k]
Ahead(m) ==
  /\ pc \in {"stored", "create"} => Follows(m, workstub)
  /\ pc \in {"ready", "cycle", "exit"} => Later(m, mark, pos, Top) \/ JustFound(m)

MissInv ==
  /\ InRange(received) => \A m \in Sought : Ahead(m)
  /\ pc = "exit" /\ Top <= stopdepth => pos = mark[Top]
  /\ NothingMissed


\* A ruler that is sought keeps every limit, and begins with the diffs of its stub.
LEMMA SoughtMarks ==
  ASSUME InRange(received), received \in Stubs, NEW m \in Sought
  PROVE  /\ m \in Marks /\ Ruler(received.marks, m, received.marks - 1)
         /\ IsGolomb([k \in 0 .. received.marks - 1 |-> m[k]])
         /\ \A k \in 1 .. received.length - 1 : m[k] = m[k - 1] + received.diffs[k]
         /\ LET l == received.length
            IN IF received.collapsed = 0 THEN m[l] = m[l - 1] + received.diffs[l]
               ELSE m[l] >= m[l - 1] + received.diffs[l]
<1> DEFINE n == received.marks
           l == received.length
<1>1. n \in OGR_NG_MIN .. OGR_NG_MAX
  BY DEF InRange
<1>2. PICK r \in Rulers[n] : StandsFor(received, r) /\ m = AsMarks(n, r)
  BY DEF Sought
<1>3. Leftmost(n, r)
  BY <1>2 DEF StandsFor, Leftmost
<1>4. m \in Marks /\ \A k \in 0 .. n - 1 : m[k] = r[k] /\ r[k] \in Nat
  BY <1>1, <1>2, AsMarksIs
<1>5. Ruler(n, m, n - 1)
  BY <1>1, <1>2, <1>3, SoughtFits
<1>6. /\ n \in Nat /\ l \in Nat /\ 0 < l /\ l < n - 1
      /\ \A k \in 1 .. l : received.diffs[k] \in Nat
      /\ received.collapsed \in {0, received.diffs[l]}
  BY <1>1, StubFacts
<1>7. IsGolomb([k \in 0 .. n - 1 |-> m[k]])
  <2>1. r \in [0 .. n - 1 -> 0 .. OGR[n]] /\ IsGolomb(r)
    BY <1>1, RulerAssumption
  <2>2. r = [k \in 0 .. n - 1 |-> m[k]]
    BY <1>4, <2>1
  <2> QED BY <2>1, <2>2
<1>8. ASSUME NEW k \in 1 .. l - 1 PROVE m[k] = m[k - 1] + received.diffs[k]
  <2>1. r[k] - r[k - 1] = received.diffs[k]
    BY <1>2 DEF StandsFor
  <2>2. k \in 0 .. n - 1 /\ k - 1 \in 0 .. n - 1 /\ k \in 1 .. l
    BY <1>6
  <2> QED BY <1>4, <1>6, <2>1, <2>2
<1>9. /\ received.collapsed = 0 => m[l] = m[l - 1] + received.diffs[l]
      /\ received.collapsed # 0 => m[l] >= m[l - 1] + received.diffs[l]
  <2>1. /\ received.collapsed = 0 => r[l] - r[l - 1] = received.diffs[l]
        /\ received.collapsed # 0 => r[l] - r[l - 1] >= received.collapsed
    BY <1>2 DEF StandsFor
  <2>2. l \in 0 .. n - 1 /\ l - 1 \in 0 .. n - 1 /\ l \in 1 .. l
    BY <1>6
  <2>3. m[l] = r[l] /\ m[l - 1] = r[l - 1] /\ r[l] \in Nat /\ r[l - 1] \in Nat
        /\ received.diffs[l] \in Nat
    BY <1>4, <1>6, <2>2
  <2> QED BY <1>6, <2>1, <2>3
<1> QED BY <1>4, <1>5, <1>7, <1>8, <1>9

\* A ruler that is sought follows any record with the diffs of the stub.
LEMMA StubFollowed ==
  ASSUME InRange(received), received \in Stubs, NEW m \in Sought, NEW w \in WorkStub,
         ReplayLength(w) = received.length,
         \A k \in 1 .. received.length : w.diffs[k] = received.diffs[k]
  PROVE  Follows(m, w)
<1> DEFINE l == received.length
<1>1. /\ m \in Marks
      /\ \A k \in 1 .. l - 1 : m[k] = m[k - 1] + received.diffs[k]
      /\ received.collapsed = 0 => m[l] = m[l - 1] + received.diffs[l]
      /\ received.collapsed # 0 => m[l] >= m[l - 1] + received.diffs[l]
  BY SoughtMarks
<1>2. l \in Nat /\ 0 < l /\ l < OGR_STUB_MAX /\ \A k \in 1 .. l : received.diffs[k] \in Nat
  BY StubFacts
<1>3. \A k \in 0 .. l : m[k] \in Nat
  BY <1>1, <1>2, SizeAssumption DEF Marks, Level
<1>4. \A k \in 1 .. l - 1 : m[k] - m[k - 1] = w.diffs[k]
  <2> TAKE k \in 1 .. l - 1
  <2>1. k \in 1 .. l /\ k \in 0 .. l /\ k - 1 \in 0 .. l
    BY <1>2
  <2> QED BY <1>1, <1>2, <1>3, <2>1
<1>5. m[l] - m[l - 1] >= w.diffs[l] /\ m[l] - m[l - 1] \in Int /\ w.diffs[l] \in Nat
  <2>1. l \in 1 .. l /\ l \in 0 .. l /\ l - 1 \in 0 .. l
    BY <1>2
  <2>2. m[l] >= m[l - 1] + received.diffs[l]
    BY <1>1, <1>2, <1>3, <2>1
  <2> QED BY <1>2, <1>3, <2>1, <2>2
<1>6. CASE m[l] - m[l - 1] = w.diffs[l]
  <2>1. \A i \in 1 .. (l + 1) - 1 : m[i] - m[i - 1] = w.diffs[i]
    <3>1. \A i \in 1 .. (l + 1) - 1 : i = l \/ i \in 1 .. l - 1
      BY <1>2
    <3> QED BY <1>4, <1>6, <3>1
  <2>2. l + 1 \in 1 .. l + 1 /\ ~(l + 1 <= l)
    BY <1>2
  <2> HIDE DEF l
  <2> QED BY <2>1, <2>2 DEF Follows, l
<1>7. CASE m[l] - m[l - 1] > w.diffs[l]
  <2>1. l \in 1 .. l + 1
    BY <1>2
  <2> QED BY <1>4, <1>7, <2>1 DEF Follows
<1> QED BY <1>5, <1>6, <1>7

\* The next mark of a ruler that goes on from the marks placed is free, and within
\* the limit.
LEMMA NextMarkFits ==
  ASSUME NEW n \in OGR_NG_MIN .. OGR_NG_MAX, NEW t \in 1 .. n - 1,
         NEW m \in Marks, NEW c \in Marks, NEW p \in Nat,
         NEW ls, NEW ds, NEW cs, NEW lim, Exact(n, c, p, t, ls, ds, cs, lim),
         Ruler(n, m, n - 1), \A i \in 0 .. t - 1 : m[i] = c[i], m[t] > p
  PROVE  m[t] - p \notin cs[t] /\ m[t] <= lim[t]
<1> DEFINE s == m[t] - p
<1>0. /\ n \in Nat /\ \A i \in 0 .. n : m[i] \in Nat /\ c[i] \in Nat
  BY MarkNat
<1>1. m[t] \in Nat /\ s \in Nat \ {0} /\ p + s = m[t] /\ \A i \in 0 .. t - 1 : c[i] \in Nat
  BY <1>0
<1>2. /\ \A i \in 0 .. t - 1 : c[i] <= p
      /\ lim[t] = LimitIn(n, c, t) /\ cs[t] = CompOf(c, p, t)
  <2>1. t \in 1 .. t
    OBVIOUS
  <2> QED BY <2>1 DEF Exact, Where
<1>3. Fits(n, m, t)
  BY DEF Ruler
<1>4. MeasuredIn(c, t) = MeasuredIn(m, t) /\ LimitIn(n, c, t) = LimitIn(n, m, t)
  BY Agree
<1>5. m[t] <= lim[t]
  BY <1>2, <1>3, <1>4 DEF Fits
<1> HIDE DEF s
<1>6. \A i \in 0 .. t - 1 : p + s - c[i] \notin MeasuredIn(c, t)
  <2> TAKE i \in 0 .. t - 1
  <2>1. m[t] - m[i] \notin MeasuredIn(m, t)
    BY <1>3 DEF Fits
  <2>2. p + s - c[i] = m[t] - m[i]
    BY <1>1
  <2> QED BY <1>4, <2>1, <2>2
<1>7. s \notin CompOf(c, p, t)
  BY <1>1, <1>2, <1>6, Forbidden
<1> QED BY <1>2, <1>5, <1>7 DEF s

\* Only an empty stub ends with CORE_S_OK, so nothing is missed before.
LEMMA MissKept ==
  ASSUME OgrInv', received' = received, pc' # "done",
         InRange(received) => \A m \in Sought : Ahead(m)',
         pc' = "exit" /\ Top' <= stopdepth' => pos' = mark'[Top']
  PROVE  MissInv'
<1>1. Sought' = Sought /\ (InRange(received)' <=> InRange(received))
  BY DEF Sought, StandsFor, InRange
<1>2. NothingMissed'
  <2>1. retval' # "CORE_S_OK"
    BY DEF OgrInv, TypeOK, Phase
  <2> QED BY <2>1 DEF NothingMissed
<1> QED BY <1>1, <1>2 DEF MissInv

\* A mark that differs below the level worked on still differs.
LEMMA LaterBelow ==
  ASSUME NEW m, NEW c, NEW c2, NEW p2, NEW t2 \in Nat, NEW k \in 1 .. t2,
         \A i \in 0 .. k - 1 : m[i] = c[i], m[k] > c[k],
         \A i \in 0 .. k : c2[i] = c[i], k = t2 => p2 = c[k]
  PROVE  Later(m, c2, p2, t2)
<1>1. \A i \in 0 .. k - 1 : m[i] = c2[i]
  OBVIOUS
<1>2. Where(c2, p2, t2, k) = c[k]
  BY DEF Where
<1> QED BY <1>1, <1>2 DEF Later

\* The ruler that is sought has its next mark at the first free position, or further on.
LEMMA Onward ==
  ASSUME OgrInv, pc = "cycle", NEW m \in Sought,
         \A i \in 0 .. depth - 1 : m[i] = mark[i], m[depth] > pos
  PROVE  /\ m[depth] \in Nat /\ m[depth] <= limit[depth] /\ limit[depth] \in Int
         /\ blank \in Nat \ {0}
         /\ full0 => m[depth] > pos + SCALAR_BITS
         /\ ~full0 => m[depth] >= pos + blank
<1>1. /\ maxdepth \in OGR_NG_MIN .. OGR_NG_MAX /\ maxdepth \in Nat /\ maxdepth <= OGR_STUB_MAX
      /\ depth \in 1 .. maxdepth - 1 /\ mark \in Marks /\ pos \in Nat
      /\ Levels(list, dist, comp, limit)
      /\ Exact(maxdepth, mark, pos, depth, list, dist, comp, limit)
  BY Cycling
<1>2. received \in Stubs /\ InRange(received) /\ maxdepth = received.marks
  BY InCore
<1>3. m \in Marks /\ Ruler(maxdepth, m, maxdepth - 1)
  BY <1>2, SoughtMarks
<1> DEFINE s == m[depth] - pos
<1>4. s \notin comp[depth] /\ m[depth] <= limit[depth]
  BY <1>1, <1>3, NextMarkFits
<1>5. depth \in Level /\ m[depth] \in Nat /\ limit[depth] \in Int /\ SCALAR_BITS \in Nat
      /\ s \in Nat \ {0} /\ m[depth] = pos + s
  <2>1. depth \in Level
    BY <1>1, SizeAssumption DEF Level
  <2>2. m[depth] \in Nat /\ limit[depth] \in Int
    BY <1>1, <1>3, <2>1 DEF Marks, Levels
  <2> QED BY <1>1, <2>1, <2>2, SizeAssumption
<1>6. /\ blank \in 1 .. SCALAR_BITS + 1 /\ \A t \in 1 .. blank - 1 : t \in comp0
  <2>1. comp0 \in SUBSET (1 .. SCALAR_BITS)
    BY DEF comp0
  <2> QED BY <2>1, FirstBlankIs DEF blank
<1>7. s \notin comp0
  BY <1>4 DEF comp0
<1> HIDE DEF s
<1>8. ASSUME full0 PROVE s > SCALAR_BITS
  <2>1. s \notin 1 .. SCALAR_BITS
    BY <1>7, <1>8 DEF full0
  <2> QED BY <1>5, <2>1
<1>9. s >= blank
  <2>1. s \notin 1 .. blank - 1
    BY <1>6, <1>7
  <2> QED BY <1>5, <1>6, <2>1
<1>10. blank \in Nat \ {0}
  BY <1>5, <1>6
<1> QED BY <1>1, <1>4, <1>5, <1>8, <1>9, <1>10

\* What the search has before it in its inner loop: rulers that differ in an
\* earlier mark, and those that go on with the next one.
LEMMA CycleAhead ==
  ASSUME OgrInv, MissInv, pc = "cycle", NEW m \in Sought
  PROVE  \/ \E k \in 1 .. depth - 1 : (\A i \in 0 .. k - 1 : m[i] = mark[i]) /\ m[k] > mark[k]
         \/ (\A i \in 0 .. depth - 1 : m[i] = mark[i]) /\ m[depth] > pos
<1>1. Top = depth /\ depth \in Nat
  BY Cycling
<1>2. InRange(received)
  BY InCore
<1>3. Later(m, mark, pos, depth)
  BY <1>1, <1>2 DEF MissInv, Ahead, JustFound
<1>4. PICK k \in 1 .. depth :
        (\A i \in 0 .. k - 1 : m[i] = mark[i]) /\ m[k] > Where(mark, pos, depth, k)
  BY <1>3 DEF Later
<1>5. k = depth \/ k \in 1 .. depth - 1
  BY <1>1
<1>6. k # depth => Where(mark, pos, depth, k) = mark[k]
  BY DEF Where
<1>7. k = depth => Where(mark, pos, depth, k) = pos
  BY DEF Where
<1> QED BY <1>4, <1>5, <1>6, <1>7

\* A mark is placed: the rulers with it there are before the search on the next
\* level, those with it further on are on this one.
LEMMA PlaceMiss == ASSUME OgrInv, OgrInv', MissInv, Place PROVE MissInv'
<1>1. /\ pc = "cycle" /\ ~full0 /\ pos + blank <= limit[depth] /\ depth # maxdepthm1
      /\ depth' = depth + 1 /\ pos' = pos + blank /\ pc' \in {"cycle", "exit"}
      /\ received' = received /\ stopdepth' = stopdepth
      /\ \/ mark' = [mark EXCEPT ![depth] = pos + blank, ![depth + 1] = pos + blank]
         \/ mark' = [mark EXCEPT ![depth] = pos + blank]
  BY DEF Place, PushAt, file, bounds
<1>2. /\ maxdepth \in OGR_NG_MIN .. OGR_NG_MAX /\ maxdepth \in Nat
      /\ maxdepth <= OGR_STUB_MAX /\ maxdepthm1 = maxdepth - 1
      /\ depth \in 1 .. maxdepth - 1 /\ stopdepth \in Nat /\ stopdepth < depth
      /\ mark \in Marks /\ pos \in Nat
  BY <1>1, Cycling
<1>3. received \in Stubs /\ InRange(received) /\ maxdepth = received.marks
  BY <1>1, InCore
<1>4. Top' = depth + 1 /\ depth \in Nat /\ depth + 1 \in Nat /\ depth + 1 <= maxdepth - 1
  BY <1>1, <1>2 DEF Top
<1>5. mark'[depth] = pos + blank /\ \A i \in 0 .. depth - 1 : mark'[i] = mark[i]
  <2>1. depth \in Level /\ depth + 1 \in Level /\ depth + 1 # depth
    BY <1>2, <1>4, SizeAssumption DEF Level
  <2>2. \A i \in 0 .. depth - 1 : i \in Level /\ i # depth /\ i # depth + 1
    BY <1>2, SizeAssumption DEF Level
  <2> QED BY <1>1, <1>2, <2>1, <2>2 DEF Marks
<1>6. ASSUME NEW m \in Sought PROVE Later(m, mark', pos', Top')
  <2>1. CASE \E k \in 1 .. depth - 1 : (\A i \in 0 .. k - 1 : m[i] = mark[i]) /\ m[k] > mark[k]
    <3>1. PICK k \in 1 .. depth - 1 : (\A i \in 0 .. k - 1 : m[i] = mark[i]) /\ m[k] > mark[k]
      BY <2>1
    <3>2. k \in 1 .. depth + 1 /\ k # depth + 1 /\ \A i \in 0 .. k : mark'[i] = mark[i]
      BY <1>4, <1>5
    <3> QED BY <1>4, <3>1, <3>2, LaterBelow
  <2>2. CASE (\A i \in 0 .. depth - 1 : m[i] = mark[i]) /\ m[depth] > pos
    <3>1. m[depth] >= pos + blank /\ blank \in Nat \ {0} /\ m[depth] \in Nat
      BY <1>1, <2>2, Onward
    <3>2. CASE m[depth] > pos + blank
      <4>1. depth \in 1 .. depth + 1 /\ Where(mark', pos', depth + 1, depth) = pos + blank
        <5>1. depth # depth + 1 /\ depth \in 1 .. depth + 1
          BY <1>2, <1>4
        <5> QED BY <1>5, <5>1 DEF Where
      <4>2. \A i \in 0 .. depth - 1 : m[i] = mark'[i]
        BY <1>5, <2>2
      <4> QED BY <1>4, <3>2, <4>1, <4>2 DEF Later
    <3>3. CASE m[depth] = pos + blank
      <4>1. \A i \in 0 .. (depth + 1) - 1 : m[i] = mark'[i]
        <5>1. \A i \in 0 .. (depth + 1) - 1 : i = depth \/ i \in 0 .. depth - 1
          BY <1>4
        <5> QED BY <1>5, <2>2, <3>3, <5>1
      <4>2. m[depth + 1] > pos + blank
        <5>1. m \in Marks /\ Ruler(maxdepth, m, maxdepth - 1)
          BY <1>3, SoughtMarks
        <5>2. Fits(maxdepth, m, depth + 1) /\ depth \in 0 .. (depth + 1) - 1
          BY <1>2, <1>4, <5>1 DEF Ruler
        <5>3. m[depth] < m[depth + 1]
          BY <5>2 DEF Fits
        <5>4. m[depth + 1] \in Nat
          BY <1>2, <1>4, <5>1, MarkNat
        <5> QED BY <1>2, <3>1, <3>3, <5>3, <5>4
      <4>3. depth + 1 \in 1 .. depth + 1 /\ Where(mark', pos', depth + 1, depth + 1) = pos + blank
        BY <1>1, <1>4 DEF Where
      <4> QED BY <1>4, <4>1, <4>2, <4>3 DEF Later
    <3> QED BY <1>2, <3>1, <3>2, <3>3
  <2> QED BY <1>1, <2>1, <2>2, CycleAhead
<1>7. ASSUME NEW m \in Sought PROVE Ahead(m)'
  BY <1>1, <1>6, <1>7 DEF Ahead
<1>8. ~(Top' <= stopdepth')
  BY <1>1, <1>2, <1>4
<1> QED BY <1>1, <1>7, <1>8, MissKept

\* A word without a free position is skipped: no ruler has its mark there.
LEMMA SkipWordMiss == ASSUME OgrInv, OgrInv', MissInv, SkipWord PROVE MissInv'
<1>1. /\ pc = "cycle" /\ full0 /\ depth' = depth /\ pos' = pos + SCALAR_BITS
      /\ pc' = "cycle" /\ received' = received /\ mark' = mark
  BY DEF SkipWord, file
<1>2. depth \in 1 .. maxdepth - 1 /\ depth \in Nat /\ Top' = depth
  BY <1>1, Cycling DEF Top
<1>6. ASSUME NEW m \in Sought PROVE Later(m, mark', pos', Top')
  <2>1. CASE \E k \in 1 .. depth - 1 : (\A i \in 0 .. k - 1 : m[i] = mark[i]) /\ m[k] > mark[k]
    <3>1. PICK k \in 1 .. depth - 1 : (\A i \in 0 .. k - 1 : m[i] = mark[i]) /\ m[k] > mark[k]
      BY <2>1
    <3>2. k \in 1 .. depth /\ k # depth
      BY <1>2
    <3> QED BY <1>1, <1>2, <3>1, <3>2, LaterBelow
  <2>2. CASE (\A i \in 0 .. depth - 1 : m[i] = mark[i]) /\ m[depth] > pos
    <3>1. m[depth] > pos + SCALAR_BITS
      BY <1>1, <2>2, Onward
    <3>2. depth \in 1 .. depth /\ Where(mark', pos', depth, depth) = pos + SCALAR_BITS
      BY <1>1, <1>2 DEF Where
    <3> QED BY <1>1, <1>2, <2>2, <3>1, <3>2 DEF Later
  <2> QED BY <1>1, <2>1, <2>2, CycleAhead
<1>7. ASSUME NEW m \in Sought PROVE Ahead(m)'
  BY <1>1, <1>6, <1>7 DEF Ahead
<1> QED BY <1>1, <1>7, MissKept

\* The limit is passed: no ruler goes on from the marks below this level.
LEMMA BackMiss == ASSUME OgrInv, OgrInv', MissInv, Back PROVE MissInv'
<1>1. /\ pc = "cycle" /\ pos + (IF full0 THEN SCALAR_BITS ELSE blank) > limit[depth]
      /\ depth' = depth - 1 /\ pos' = mark[depth - 1]
      /\ pc' \in {"cycle", "exit"} /\ received' = received /\ mark' = mark
  BY DEF Back, file, levels
<1>2. depth \in 1 .. maxdepth - 1 /\ depth \in Nat /\ Top' = depth - 1 /\ pos \in Nat
      /\ SCALAR_BITS \in Nat
  BY <1>1, Cycling, SizeAssumption DEF Top
<1>6. ASSUME NEW m \in Sought PROVE Later(m, mark', pos', Top')
  <2>1. CASE \E k \in 1 .. depth - 1 : (\A i \in 0 .. k - 1 : m[i] = mark[i]) /\ m[k] > mark[k]
    <3>1. PICK k \in 1 .. depth - 1 : (\A i \in 0 .. k - 1 : m[i] = mark[i]) /\ m[k] > mark[k]
      BY <2>1
    <3>2. depth - 1 \in Nat
      BY <1>2
    <3>3. k = depth - 1 => pos' = mark[k]
      BY <1>1
    <3> QED BY <1>1, <1>2, <3>1, <3>2, <3>3, LaterBelow
  <2>2. CASE (\A i \in 0 .. depth - 1 : m[i] = mark[i]) /\ m[depth] > pos
    <3>1. /\ m[depth] \in Nat /\ m[depth] <= limit[depth] /\ limit[depth] \in Int
          /\ blank \in Nat \ {0}
          /\ full0 => m[depth] > pos + SCALAR_BITS
          /\ ~full0 => m[depth] >= pos + blank
      BY <1>1, <2>2, Onward
    <3> QED BY <1>1, <1>2, <3>1
  <2> QED BY <1>1, <2>1, <2>2, CycleAhead
<1>7. ASSUME NEW m \in Sought PROVE Ahead(m)'
  BY <1>1, <1>6, <1>7 DEF Ahead
<1>8. pos' = mark'[Top']
  BY <1>1, <1>2
<1> QED BY <1>1, <1>7, <1>8, MissKept

\* The last mark is placed: the ruler that is sought is the one found, or further on.
LEMMA CompleteMiss == ASSUME OgrInv, OgrInv', MissInv, Complete PROVE MissInv'
<1>1. /\ pc = "cycle" /\ ~full0 /\ depth = maxdepthm1 /\ depth' = depth
      /\ mark' = [mark EXCEPT ![depth] = pos + blank] /\ pos' = pos + blank
      /\ pc' = "exit" /\ received' = received /\ maxdepth' = maxdepth /\ stopdepth' = stopdepth
      /\ nodes' = nodes
  BY DEF Complete, file, bounds
<1>2. /\ depth \in 1 .. maxdepth - 1 /\ depth \in Nat /\ Top' = depth /\ pos \in Nat
      /\ stopdepth \in Nat /\ stopdepth < depth /\ mark \in Marks /\ nodes > 0 /\ nodes \in Nat
      /\ maxdepth \in Nat /\ maxdepth <= OGR_STUB_MAX
      /\ maxdepthm1' = depth
  BY <1>1, Cycling DEF Top, maxdepthm1
<1>3. mark'[depth] = pos + blank /\ \A i \in 0 .. depth - 1 : mark'[i] = mark[i]
  <2>1. depth \in Level /\ \A i \in 0 .. depth - 1 : i \in Level /\ i # depth
    BY <1>2, SizeAssumption DEF Level
  <2> QED BY <1>1, <1>2, <2>1 DEF Marks
<1>4. RulerFound'
  BY <1>1, <1>2 DEF RulerFound
<1>6. ASSUME NEW m \in Sought
      PROVE  Later(m, mark', pos', Top') \/ \A k \in 0 .. maxdepthm1' : m[k] = mark'[k]
  <2>1. CASE \E k \in 1 .. depth - 1 : (\A i \in 0 .. k - 1 : m[i] = mark[i]) /\ m[k] > mark[k]
    <3>1. PICK k \in 1 .. depth - 1 : (\A i \in 0 .. k - 1 : m[i] = mark[i]) /\ m[k] > mark[k]
      BY <2>1
    <3>2. k \in 1 .. depth /\ k # depth /\ \A i \in 0 .. k : mark'[i] = mark[i]
      BY <1>2, <1>3
    <3> QED BY <1>2, <3>1, <3>2, LaterBelow
  <2>2. CASE (\A i \in 0 .. depth - 1 : m[i] = mark[i]) /\ m[depth] > pos
    <3>1. m[depth] >= pos + blank /\ blank \in Nat \ {0} /\ m[depth] \in Nat
      BY <1>1, <2>2, Onward
    <3>2. CASE m[depth] > pos + blank
      <4>1. depth \in 1 .. depth /\ Where(mark', pos', depth, depth) = pos + blank
        BY <1>1, <1>2 DEF Where
      <4>2. \A i \in 0 .. depth - 1 : m[i] = mark'[i]
        BY <1>3, <2>2
      <4> QED BY <1>2, <3>2, <4>1, <4>2 DEF Later
    <3>3. CASE m[depth] = pos + blank
      <4>1. \A i \in 0 .. depth : i = depth \/ i \in 0 .. depth - 1
        BY <1>2
      <4> QED BY <1>2, <1>3, <2>2, <3>3, <4>1
    <3> QED BY <1>2, <3>1, <3>2, <3>3
  <2> QED BY <1>1, <2>1, <2>2, CycleAhead
<1>7. ASSUME NEW m \in Sought PROVE Ahead(m)'
  BY <1>1, <1>4, <1>6, <1>7 DEF Ahead, JustFound
<1>8. ~(Top' <= stopdepth')
  BY <1>1, <1>2
<1> QED BY <1>1, <1>7, <1>8, MissKept

\* The search is over, and what it reports of the stub is all there is to say.
LEMMA MissOver ==
  ASSUME pc' = "done", NothingMissed' PROVE MissInv'
  BY DEF MissInv, Ahead, JustFound

\* The packet before its first load.
LEMMA MissInit == ASSUME Init, OgrInv PROVE MissInv
<1>1. workstub = received /\ pc = "stored" /\ retval = "none" /\ received \in Stubs
  BY DEF Init
<1>2. ASSUME InRange(received), NEW m \in Sought PROVE Follows(m, workstub)
  <2>1. /\ received \in WorkStub /\ received.length \in Nat /\ received.worklength \in Nat
        /\ received.worklength <= received.length
    BY <1>1, StubFacts
  <2>2. ReplayLength(received) = received.length
    BY <2>1 DEF ReplayLength, MaxOf
  <2>3. Follows(m, received)
    BY <1>1, <1>2, <2>1, <2>2, StubFollowed
  <2> QED BY <1>1, <2>3
<1> QED BY <1>1, <1>2 DEF MissInv, Ahead, NothingMissed

\* A record the sought rulers follow is loaded.
LEMMA BeginMiss ==
  ASSUME OgrInv', NEW w, BeginCreate(w),
         InRange(received) => \A m \in Sought : Follows(m, w)
  PROVE  MissInv'
<1>1. workstub' = w /\ received' = received
  BY DEF BeginCreate
<1>2. CASE pc' = "done" /\ retval' = "CORE_E_FORMAT"
  BY <1>2, MissOver DEF NothingMissed
<1>3. CASE pc' = "create"
  <2>1. ASSUME InRange(received), NEW m \in Sought PROVE Ahead(m)'
    BY <1>1, <1>3, <2>1 DEF Ahead
  <2> QED BY <1>1, <1>3, <2>1, MissKept
<1> QED BY <1>2, <1>3 DEF BeginCreate

\* The packet is loaded with the progress it has.
LEMMA LoadMiss == ASSUME OgrInv, OgrInv', MissInv, Load PROVE MissInv'
<1>1. pc = "stored" /\ BeginCreate(workstub)
  BY DEF Load
<1>2. InRange(received) => \A m \in Sought : Follows(m, workstub)
  BY <1>1 DEF MissInv, Ahead
<1> QED BY <1>1, <1>2, BeginMiss

\* The packet is loaded and its progress dropped.
LEMMA LoadResetMiss == ASSUME OgrInv, OgrInv', MissInv, LoadReset PROVE MissInv'
<1> DEFINE w == ResetStub(workstub)
<1>1. pc = "stored" /\ worked /\ BeginCreate(w)
  BY DEF LoadReset
<1>2. /\ w \in WorkStub /\ ReplayLength(w) = received.length
      /\ \A k \in 1 .. received.length : w.diffs[k] = received.diffs[k]
  BY <1>1, ResetRecord
<1>3. received \in Stubs
  BY DEF OgrInv, TypeOK
<1> HIDE DEF w
<1>4. InRange(received) => \A m \in Sought : Follows(m, w)
  BY <1>2, <1>3, StubFollowed
<1> QED BY <1>1, <1>4, BeginMiss

\* One diff of the record is replayed.
LEMMA ReplayMiss == ASSUME OgrInv, OgrInv', MissInv, Replay PROVE MissInv'
<1>1. pc = "create" /\ pc' = "create" /\ received' = received /\ workstub' = workstub
  BY DEF Replay, file
<1>2. ASSUME InRange(received), NEW m \in Sought PROVE Ahead(m)'
  <2>1. Follows(m, workstub)
    BY <1>1, <1>2 DEF MissInv, Ahead
  <2> QED BY <1>1, <2>1 DEF Ahead
<1> QED BY <1>1, <1>2, MissKept

\* The marks replayed are those of the record the sought rulers follow.
LEMMA CreatedMiss == ASSUME OgrInv, OgrInv', MissInv, Created PROVE MissInv'
<1> DEFINE l == ReplayLength(workstub)
<1>1. /\ pc = "create" /\ depth > l /\ depth' = depth - 1 /\ pc' = "ready"
      /\ received' = received /\ mark' = mark /\ pos' = pos
  BY DEF Created, file, levels
<1>2. /\ maxdepth \in OGR_NG_MIN .. OGR_NG_MAX /\ maxdepth \in Nat
      /\ l \in Nat /\ l <= maxdepth - 2 /\ depth \in 1 .. l + 1
      /\ pos = mark[depth - 1]
      /\ DiffsOf(workstub.diffs, mark, depth - 1)
      /\ Exact(maxdepth, mark, pos, depth, list, dist, comp, limit)
      /\ \A k \in 1 .. l : workstub.diffs[k] \in Nat \ {0}
  BY <1>1, RecordReplayed
<1>3. depth = l + 1 /\ depth - 1 = l /\ Top' = l + 1
  BY <1>1, <1>2 DEF Top
<1>4. received \in Stubs /\ InRange(received) /\ maxdepth = received.marks /\ mark \in Marks
  <2>1. Running
    BY <1>1 DEF Running
  <2> QED BY <2>1 DEF OgrInv, TypeOK, Phase, Bounded, Marks
<1>5. Ruler(maxdepth, mark, l)
  BY <1>2, <1>3 DEF Exact
<1> HIDE DEF l
<1>6. ASSUME NEW m \in Sought PROVE Later(m, mark, pos, l + 1)
  <2>1. PICK k \in 1 .. l + 1 :
          /\ \A i \in 1 .. k - 1 : m[i] - m[i - 1] = workstub.diffs[i]
          /\ k <= l => m[k] - m[k - 1] > workstub.diffs[k]
    <3>1. Follows(m, workstub)
      BY <1>1, <1>4 DEF MissInv, Ahead
    <3> QED BY <3>1 DEF Follows, l
  <2>2. m \in Marks /\ Ruler(maxdepth, m, maxdepth - 1)
    BY <1>4, SoughtMarks
  <2>3. \A i \in 0 .. maxdepth : m[i] \in Nat /\ mark[i] \in Nat
    BY <1>2, <1>4, <2>2, MarkNat
  <2>4. k - 1 \in Nat /\ k - 1 <= l /\ k - 1 <= OGR_STUB_MAX
    BY <1>2, SizeAssumption
  <2>5. DiffsOf(workstub.diffs, m, k - 1)
    <3>1. ASSUME NEW i \in 1 .. k - 1 PROVE m[i] = m[i - 1] + workstub.diffs[i]
      <4>1. m[i] - m[i - 1] = workstub.diffs[i]
        BY <2>1
      <4>2. i \in 0 .. maxdepth /\ i - 1 \in 0 .. maxdepth
        BY <1>2, <2>4
      <4>3. m[i] \in Nat /\ m[i - 1] \in Nat
        BY <2>3, <4>2
      <4> QED BY <4>1, <4>3
    <3> QED BY <3>1 DEF DiffsOf
  <2>6. DiffsOf(workstub.diffs, mark, k - 1)
    <3>1. \A i \in 1 .. k - 1 : i \in 1 .. l
      BY <1>2, <2>4
    <3> QED BY <1>2, <1>3, <3>1 DEF DiffsOf
  <2>7. m[0] = mark[0]
    BY <1>5, <2>2 DEF Ruler
  <2>8. \A i \in 0 .. k - 1 : m[i] = mark[i]
    BY <1>4, <2>2, <2>4, <2>5, <2>6, <2>7, SameMarks
  <2>9. k \in 0 .. maxdepth /\ k - 1 \in 0 .. k - 1 /\ k - 1 \in 0 .. maxdepth
    BY <1>2, <2>4
  <2>10. m[k] > Where(mark, pos, l + 1, k)
    <3>1. CASE k = l + 1
      <4>1. k \in 1 .. maxdepth - 1
        BY <1>2, <3>1
      <4>2. m[k - 1] < m[k]
        BY <2>2, <2>9, <4>1 DEF Ruler, Fits
      <4>3. Where(mark, pos, l + 1, k) = mark[k - 1]
        BY <1>2, <1>3, <3>1 DEF Where
      <4> QED BY <2>3, <2>8, <2>9, <4>2, <4>3
    <3>2. CASE k # l + 1
      <4>1. k \in 1 .. l
        BY <1>2, <3>2
      <4>2. m[k] - m[k - 1] > workstub.diffs[k] /\ mark[k] = mark[k - 1] + workstub.diffs[k]
        BY <1>2, <1>3, <2>1, <4>1 DEF DiffsOf
      <4>3. workstub.diffs[k] \in Nat /\ m[k - 1] = mark[k - 1]
        BY <1>2, <2>8, <2>9, <4>1
      <4>4. m[k] > mark[k]
        BY <2>3, <2>9, <4>2, <4>3
      <4> QED BY <3>2, <4>4 DEF Where
    <3> QED BY <3>1, <3>2
  <2> QED BY <2>8, <2>10 DEF Later
<1>7. ASSUME NEW m \in Sought PROVE Ahead(m)'
  <2>1. Later(m, mark, pos, l + 1)
    BY <1>6
  <2> QED BY <1>1, <1>3, <2>1 DEF Ahead
<1> QED BY <1>1, <1>7, MissKept

\* A slice begins where the one before it ended.
LEMMA EnterMiss == ASSUME OgrInv, OgrInv', MissInv, NEW n \in Slices, Enter(n) PROVE MissInv'
<1>1. /\ pc = "ready" /\ pc' = "cycle" /\ depth' = depth + 1 /\ pos' = mark[depth + 1]
      /\ received' = received /\ mark' = mark
  BY DEF Enter, EnterLevel, file, levels
<1>2. Top' = Top /\ pos' = pos
  BY <1>1 DEF Top, OgrInv, Stands
<1>3. ASSUME InRange(received), NEW m \in Sought PROVE Ahead(m)'
  <2>1. Later(m, mark, pos, Top)
    BY <1>1, <1>3 DEF MissInv, Ahead, JustFound
  <2> QED BY <1>1, <1>2, <2>1 DEF Ahead
<1> QED BY <1>1, <1>3, MissKept

\* A ruler that is none is left, so it is not the one that is sought.
LEMMA ContinueMiss == ASSUME OgrInv, OgrInv', MissInv, Continue PROVE MissInv'
<1>1. /\ pc = "exit" /\ depth = maxdepthm1 /\ nodes # 0 /\ ~found_one
      /\ depth' = depth /\ pos' = mark[depth] /\ pc' = "cycle"
      /\ received' = received /\ mark' = mark
  BY DEF Continue, RulerFound, Rejected, EnterLevel, file, levels
<1>2. /\ received \in Stubs /\ InRange(received) /\ maxdepth = received.marks
      /\ maxdepth \in Nat /\ maxdepthm1 = maxdepth - 1 /\ received.length < maxdepth - 1
      /\ received.length \in Nat /\ stopdepth \in 0 .. received.length
  BY <1>1, InCore
<1>3. Top = depth /\ Top' = depth /\ pos = mark[depth]
  BY <1>1, <1>2 DEF Top, OgrInv, Stands
<1>4. ASSUME NEW m \in Sought PROVE Later(m, mark, pos, Top)
  <2>1. SUFFICES ASSUME \A k \in 0 .. maxdepthm1 : m[k] = mark[k] PROVE FALSE
    BY <1>1, <1>2 DEF MissInv, Ahead, JustFound
  <2>2. IsGolomb([k \in 0 .. maxdepthm1 |-> m[k]])
    BY <1>2, SoughtMarks
  <2>3. [k \in 0 .. maxdepthm1 |-> m[k]] = [k \in 0 .. maxdepthm1 |-> mark[k]]
    BY <2>1
  <2> DEFINE r == [k \in 0 .. maxdepthm1 |-> mark[k]]
  <2>4. IsGolomb(r) /\ DOMAIN r = 0 .. maxdepthm1 /\ \A k \in 0 .. maxdepthm1 : r[k] = mark[k]
    BY <2>2, <2>3
  <2> HIDE DEF r
  <2>5. found_one
    <3>1. ASSUME NEW a \in 0 .. maxdepthm1, NEW b \in 0 .. maxdepthm1,
                 NEW c \in 0 .. maxdepthm1, NEW d \in 0 .. maxdepthm1,
                 a < b, c < d, mark[d] - mark[c] = mark[b] - mark[a]
          PROVE  a = c
      <4>1. r[b] - r[a] = r[d] - r[c]
        BY <2>4, <3>1
      <4> QED BY <2>4, <3>1, <4>1 DEF IsGolomb
    <3> QED BY <3>1 DEF found_one
  <2> QED BY <1>1, <2>5
<1>5. ASSUME NEW m \in Sought PROVE Ahead(m)'
  <2>1. Later(m, mark, pos, Top)
    BY <1>4
  <2> QED BY <1>1, <1>3, <2>1 DEF Ahead
<1> QED BY <1>1, <1>5, MissKept

\* The nodes of a slice are used up.
LEMMA SliceDoneMiss == ASSUME OgrInv, OgrInv', MissInv, SliceDone PROVE MissInv'
<1>1. /\ pc = "exit" /\ ~RulerFound /\ depth' = depth - 1 /\ pc' = "ready"
      /\ received' = received /\ mark' = mark /\ pos' = pos
  BY DEF SliceDone, levels
<1>2. Top' = Top
  <2>1. depth \in Int
    BY DEF OgrInv, TypeOK
  <2> QED BY <1>1, <2>1 DEF Top
<1>3. ASSUME InRange(received), NEW m \in Sought PROVE Ahead(m)'
  <2>1. Later(m, mark, pos, Top)
    BY <1>1, <1>3 DEF MissInv, Ahead, JustFound
  <2> QED BY <1>1, <1>2, <2>1 DEF Ahead
<1> QED BY <1>1, <1>3, MissKept

\* The record written back is followed by the rulers the search has before it.
LEMMA RetrieveMiss == ASSUME OgrInv, OgrInv', MissInv, Retrieve PROVE MissInv'
<1> DEFINE w == getresult(depth)
<1>1. pc = "ready" /\ workstub' = w /\ pc' = "stored" /\ received' = received
  BY DEF Retrieve
<1>2. /\ received \in Stubs /\ InRange(received) /\ maxdepth = received.marks
      /\ maxdepth \in OGR_NG_MIN .. OGR_NG_MAX /\ maxdepth \in Nat /\ mark \in Marks
  BY <1>1, InCore
<1>3. /\ ReplayLength(w) = depth /\ DiffsOf(w.diffs, mark, depth) /\ w \in WorkStub
      /\ depth \in 0 .. maxdepth - 2 /\ Top = depth + 1 /\ pos = mark[depth]
  BY <1>1, RetrievedRecord
<1> HIDE DEF w
<1>4. \A k \in 1 .. depth : w.diffs[k] = mark[k] - mark[k - 1]
  <2> TAKE k \in 1 .. depth
  <2>1. mark[k] \in Nat /\ mark[k - 1] \in Nat
    <3>1. k \in 0 .. maxdepth /\ k - 1 \in 0 .. maxdepth
      BY <1>2, <1>3
    <3> QED BY <1>2, <3>1, MarkNat
  <2>2. mark[k] = mark[k - 1] + w.diffs[k]
    BY <1>3 DEF DiffsOf
  <2>3. w.diffs[k] \in Nat
    <3>1. w.diffs \in [1 .. OGR_STUB_MAX -> Nat]
      BY <1>3, StubTypes
    <3>2. k \in 1 .. OGR_STUB_MAX
      BY <1>2, <1>3, SizeAssumption
    <3> QED BY <3>1, <3>2
  <2> QED BY <2>1, <2>2, <2>3
<1>5. ASSUME NEW m \in Sought PROVE Follows(m, w)
  <2>1. Later(m, mark, pos, depth + 1)
    BY <1>1, <1>2, <1>3 DEF MissInv, Ahead, JustFound
  <2>2. PICK k \in 1 .. depth + 1 :
          (\A i \in 0 .. k - 1 : m[i] = mark[i]) /\ m[k] > Where(mark, pos, depth + 1, k)
    BY <2>1 DEF Later
  <2>3. \A i \in 1 .. k - 1 : m[i] - m[i - 1] = w.diffs[i]
    <3> TAKE i \in 1 .. k - 1
    <3>1. i \in 1 .. depth /\ i \in 0 .. k - 1 /\ i - 1 \in 0 .. k - 1
      BY <1>3
    <3> QED BY <1>4, <2>2, <3>1
  <2>4. ASSUME k <= depth PROVE m[k] - m[k - 1] > w.diffs[k]
    <3>1. /\ k \in 1 .. depth /\ k - 1 \in 0 .. k - 1 /\ k # depth + 1
          /\ k \in 0 .. maxdepth /\ k - 1 \in 0 .. maxdepth
      BY <1>2, <1>3, <2>4
    <3>2. m[k] > mark[k] /\ m[k - 1] = mark[k - 1] /\ w.diffs[k] = mark[k] - mark[k - 1]
      BY <1>4, <2>2, <3>1 DEF Where
    <3>3. m \in Marks
      BY <1>2, SoughtMarks
    <3>4. m[k] \in Nat /\ mark[k] \in Nat /\ mark[k - 1] \in Nat
      BY <1>2, <3>1, <3>3, MarkNat
    <3> QED BY <3>2, <3>4
  <2> QED BY <1>3, <2>3, <2>4 DEF Follows
<1>6. ASSUME NEW m \in Sought PROVE Ahead(m)'
  <2>1. Follows(m, w)
    BY <1>5
  <2> QED BY <1>1, <2>1 DEF Ahead
<1> QED BY <1>1, <1>6, MissKept

\* The search has come back to the marks of the stub: no ruler that begins with
\* them is before it any more.
LEMMA ExhaustedMiss == ASSUME OgrInv, MissInv, Exhausted PROVE MissInv'
<1>1. /\ pc = "exit" /\ ~RulerFound /\ depth <= stopdepth /\ pc' = "done" /\ received' = received
  BY DEF Exhausted, Finish
<1>2. /\ received \in Stubs /\ InRange(received) /\ maxdepth = received.marks
      /\ maxdepth \in OGR_NG_MIN .. OGR_NG_MAX /\ maxdepth \in Nat /\ mark \in Marks
      /\ received.length \in Nat /\ received.length < maxdepth - 1 /\ Top \in 0 .. maxdepth - 1
      /\ stopdepth = (IF received.collapsed # 0 THEN received.length - 1 ELSE received.length)
      /\ stopdepth \in 0 .. received.length /\ Running
  BY <1>1, InCore
<1>3. Top = depth /\ pos = mark[depth]
  BY <1>1 DEF Top, MissInv
<1>4. ASSUME NEW m \in Sought PROVE FALSE
  <2>1. Later(m, mark, pos, depth)
    BY <1>1, <1>2, <1>3 DEF MissInv, Ahead, JustFound
  <2>2. PICK k \in 1 .. depth :
          (\A i \in 0 .. k - 1 : m[i] = mark[i]) /\ m[k] > Where(mark, pos, depth, k)
    BY <2>1 DEF Later
  <2>3. Where(mark, pos, depth, k) = mark[k]
    BY <1>3 DEF Where
  <2>4. /\ k \in 1 .. stopdepth /\ k \in 1 .. received.length /\ k - 1 \in 0 .. k - 1
        /\ k \in 0 .. maxdepth /\ (k = received.length => received.collapsed = 0)
        /\ k # received.length => k \in 1 .. received.length - 1
    BY <1>1, <1>2, <1>3
  <2>5. mark[k] = mark[k - 1] + received.diffs[k]
    BY <1>1, <1>2, <2>4 DEF OgrInv, StubPlaced
  <2>6. m[k] = m[k - 1] + received.diffs[k]
    <3>1. CASE k = received.length
      BY <1>2, <2>4, <3>1, SoughtMarks
    <3>2. CASE k # received.length
      BY <1>2, <2>4, <3>2, SoughtMarks
    <3> QED BY <3>1, <3>2
  <2>7. mark[k] \in Nat
    BY <1>2, <2>4, MarkNat
  <2> QED BY <2>2, <2>3, <2>4, <2>5, <2>6, <2>7
<1>5. NothingMissed'
  <2>1. \A r \in Rulers[received.marks] : ~StandsFor(received, r)
    BY <1>4 DEF Sought
  <2> QED BY <1>1, <2>1 DEF NothingMissed, StandsFor
<1> QED BY <1>1, <1>5, MissOver

\* A state that does not change.
LEMMA StutterMiss == ASSUME MissInv, UNCHANGED vars PROVE MissInv'
  BY DEF vars, file, bounds, levels, MissInv, Sought, StandsFor, InRange, Ahead, Follows,
         JustFound, RulerFound, maxdepthm1, Top, NothingMissed

\* No ruler is passed: each one that is sought is ahead of the search until it is found.
THEOREM OgrComplete == Spec => []NothingMissed
<1>1. Init => OgrInv /\ MissInv
  BY OgrInit, MissInit
<1>2. ASSUME OgrInv, OgrInv', MissInv, [Next]_vars PROVE MissInv'
  <2>1. CASE Load
    BY <1>2, <2>1, LoadMiss
  <2>2. CASE LoadReset
    BY <1>2, <2>2, LoadResetMiss
  <2>3. CASE Replay
    BY <1>2, <2>3, ReplayMiss
  <2>4. CASE ReplayError
    <3>1. pc' = "done" /\ retval' = "CORE_E_STUB"
      BY <2>4 DEF ReplayError
    <3> QED BY <3>1, MissOver DEF NothingMissed
  <2>5. CASE Created
    BY <1>2, <2>5, CreatedMiss
  <2>6. CASE Run
    BY <1>2, <2>6, EnterMiss DEF Run
  <2>7. CASE Complete
    BY <1>2, <2>7, CompleteMiss
  <2>8. CASE Place
    BY <1>2, <2>8, PlaceMiss
  <2>9. CASE SkipWord
    BY <1>2, <2>9, SkipWordMiss
  <2>10. CASE Back
    BY <1>2, <2>10, BackMiss
  <2>11. CASE Continue
    BY <1>2, <2>11, ContinueMiss
  <2>12. CASE Success
    <3>1. pc' = "done" /\ retval' = "CORE_S_SUCCESS"
      BY <2>12 DEF Success, Finish
    <3> QED BY <3>1, MissOver DEF NothingMissed
  <2>13. CASE Exhausted
    BY <1>2, <2>13, ExhaustedMiss
  <2>14. CASE SliceDone
    BY <1>2, <2>14, SliceDoneMiss
  <2>15. CASE Retrieve
    BY <1>2, <2>15, RetrieveMiss
  <2>16. CASE Over \/ UNCHANGED vars
    BY <1>2, <2>16, StutterMiss DEF Over
  <2> QED BY <1>2, <2>1, <2>2, <2>3, <2>4, <2>5, <2>6, <2>7, <2>8, <2>9, <2>10, <2>11, <2>12,
             <2>13, <2>14, <2>15, <2>16 DEF Next, Cycle
<1>3. MissInv => NothingMissed
  BY DEF MissInv
<1> QED BY <1>1, <1>2, <1>3, OgrSafety, PTL DEF Spec
=============================================================================
