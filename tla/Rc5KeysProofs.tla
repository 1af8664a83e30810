--------------------------- MODULE Rc5KeysProofs ----------------------------
(* Any packet, any widths of a byte and any set of partial matches: however   *)
(* the slices are cut, and however often a packet is saved, loaded again,      *)
(* reset by another core or answered wrongly, the core stands where the count  *)
(* of the record says (KeysExact), the check names what was found on the way   *)
(* (CheckExact), and no key of a finished packet was left out (NoKeySkipped).  *)
EXTENDS Rc5Keys, FiniteSetTheorems, FunctionTheorems, WellFoundedInduction, TLAPS

-----------------------------------------------------------------------------
(* Numbers modulo a word, and keys as numbers.                               *)

(* Arithmetic of words *)

\* Quotient and remainder.
LEMMA DivMod ==
  ASSUME NEW m \in Nat \ {0}, NEW x \in Int
  PROVE  /\ x % m \in 0 .. m - 1 /\ x \div m \in Int
         /\ x = m * (x \div m) + (x % m)
OBVIOUS

\* A sum modulo m, when one term is reduced first.
LEMMA ModOfSum ==
  ASSUME NEW m \in Nat \ {0}, NEW x \in 0 .. m - 1, NEW q \in Int
  PROVE  (q * m + x) % m = x /\ (q * m + x) \div m = q
OBVIOUS

\* A number below m is its own remainder, with or without a multiple of m.
LEMMA ModSmall ==
  ASSUME NEW m \in Nat \ {0}, NEW x \in 0 .. m - 1
  PROVE  x % m = x /\ (x + m) % m = x
OBVIOUS

\* Numbers that differ by multiples of m have the same remainder.
LEMMA ModShift ==
  ASSUME NEW m \in Nat \ {0}, NEW a \in Int, NEW b \in Int, NEW q \in Int,
         b = q * m + a
  PROVE  a % m = b % m
<1> DEFINE r == a % m
           d == a \div m
<1>1. r \in 0 .. m - 1 /\ d \in Int /\ a = m * d + r
  BY DivMod
<1> HIDE DEF r, d
<1>2. b = (q + d) * m + r /\ q + d \in Int
  BY <1>1
<1>3. b % m = r
  BY <1>1, <1>2, ModOfSum
<1> QED BY <1>3 DEF r

\* A sum of remainders.
LEMMA ModAdd ==
  ASSUME NEW m \in Nat \ {0}, NEW a \in Int, NEW b \in Int
  PROVE  ((a % m) + b) % m = (a + b) % m
<1> DEFINE r == a % m
           d == a \div m
<1>1. r \in 0 .. m - 1 /\ d \in Int /\ a = m * d + r
  BY DivMod
<1> HIDE DEF r, d
<1>2. a + b = d * m + (r + b) /\ r + b \in Int /\ a + b \in Int
  BY <1>1
<1>3. (r + b) % m = (a + b) % m
  BY <1>1, <1>2, ModShift
<1> QED BY <1>3 DEF r

\* Two numbers less than m, added modulo m: one carry, seen from the sum.
LEMMA CarryOut ==
  ASSUME NEW m \in Nat \ {0}, NEW a \in 0 .. m - 1, NEW b \in 0 .. m - 1
  PROVE  /\ (a + b) % m \in 0 .. m - 1
         /\ (a + b) % m = a + b \/ (a + b) % m = a + b - m
         /\ ((a + b) % m < b) <=> ((a + b) % m = a + b - m)
         /\ ((a + b) % m < a) <=> ((a + b) % m = a + b - m)
<1>1. CASE a + b < m
  <2>1. (a + b) % m = a + b
    BY <1>1, ModSmall
  <2> QED BY <1>1, <2>1
<1>2. CASE a + b >= m
  <2>1. a + b - m \in 0 .. m - 1 /\ (a + b - m) + m = a + b
    BY <1>2
  <2>2. (a + b) % m = a + b - m
    BY <2>1, ModSmall
  <2> QED BY <1>2, <2>1, <2>2
<1> QED BY <1>1, <1>2

(* The key space *)

\* The sizes: B >= 2, W >= 16 ...
LEMMA Sizes ==
  /\ BYTE \in Nat /\ BYTE >= 2
  /\ WORD \in Nat /\ WORD > BYTE + 1 /\ WORD > 1
  /\ SPACE \in Nat /\ SPACE > WORD * WORD + WORD
  /\ MINIMUM_ITERATIONS \in Nat /\ 0 < MINIMUM_ITERATIONS /\ MINIMUM_ITERATIONS < WORD
<1> DEFINE B2 == BYTE * BYTE
           B3 == B2 * BYTE
           W == B3 * BYTE
           WW == W * W
<1>0. BYTE \in Nat /\ BYTE >= 2
  BY Rc5Assumption
<1>1. B2 \in Nat /\ B2 >= 2 * BYTE
  BY <1>0
<1> HIDE DEF B2
<1>2. B3 \in Nat /\ B3 >= 2 * B2
  BY <1>0, <1>1 DEF B3
<1> HIDE DEF B3
<1>3. W \in Nat /\ W >= 2 * B3
  BY <1>0, <1>2 DEF W
<1> HIDE DEF W
<1>4. W >= 8 * BYTE
  BY <1>0, <1>1, <1>2, <1>3
<1>5. W = WORD
  BY DEF W, B3, B2, WORD
<1>6. WW \in Nat /\ WW >= 2 * W
  BY <1>0, <1>3, <1>4 DEF WW
<1> HIDE DEF WW
<1>7. BYTE * WW \in Nat /\ BYTE * WW >= 2 * WW
  BY <1>0, <1>6
<1>8. WORD \in Nat /\ SPACE = BYTE * WW /\ WW = WORD * WORD
  BY <1>0, <1>3, <1>5 DEF SPACE, WW
<1> QED BY <1>0, <1>3, <1>4, <1>5, <1>6, <1>7, <1>8, Rc5Assumption DEF Words

Bytes == 0 .. BYTE - 1
ProperKeys == {k \in Keys : k.hi \in Bytes}

\* The keys that are reached by searching: the high word is a byte.
LEMMA ProperKey ==
  ASSUME NEW h \in Bytes, NEW m \in Words, NEW l \in Words
  PROVE  /\ [hi |-> h, mid |-> m, lo |-> l] \in ProperKeys
         /\ [lo |-> l, mid |-> m, hi |-> h] \in ProperKeys
BY Sizes DEF ProperKeys, Keys, Bytes, Words

\* A word is put together from its bytes and taken apart into them.
LEMMA Less ==
  ASSUME NEW B \in Nat, B >= 2, NEW m \in Nat \ {0},
         NEW x \in 0 .. m - 1, NEW y \in 0 .. B - 1
  PROVE  y * m + x \in 0 .. B * m - 1 /\ B * m \in Nat \ {0}
<1>1. y * m <= (B - 1) * m
  <2> DEFINE z == B - 1 - y
  <2>1. z \in Nat /\ B - 1 = y + z
    OBVIOUS
  <2> HIDE DEF z
  <2>2. z * m >= 0 /\ z * m \in Int /\ (y + z) * m = y * m + z * m
    BY <2>1
  <2> QED BY <2>1, <2>2
<1>2. (B - 1) * m = B * m - m /\ y * m \in Nat /\ B * m \in Nat
  OBVIOUS
<1> QED BY <1>1, <1>2

\* A word is made of its four bytes.
LEMMA WordOfBytes ==
  ASSUME NEW a \in Bytes, NEW b \in Bytes, NEW c \in Bytes, NEW d \in Bytes
  PROVE  /\ WordOf(a, b, c, d) \in Words
         /\ Byte(WordOf(a, b, c, d), 0) = a
         /\ Byte(WordOf(a, b, c, d), 1) = b
         /\ Byte(WordOf(a, b, c, d), 2) = c
         /\ Byte(WordOf(a, b, c, d), 3) = d
<1> DEFINE B2 == BYTE * BYTE
           B3 == B2 * BYTE
           w == WordOf(a, b, c, d)
           ab == b * BYTE + a
           abc == c * B2 + ab
           bcd == (d * BYTE + c) * BYTE + b
           cd == d * BYTE + c
<1>0. BYTE \in Nat /\ BYTE >= 2 /\ BYTE # 0 /\ Bytes = 0 .. BYTE - 1
  BY Sizes DEF Bytes
<1>a. a \in 0 .. BYTE - 1 /\ b \in 0 .. BYTE - 1
  BY DEF Bytes
<1>1. ab \in 0 .. B2 - 1 /\ B2 \in Nat \ {0}
  BY <1>0, Less
<1>2. abc \in 0 .. BYTE * B2 - 1 /\ BYTE * B2 \in Nat \ {0}
  <2> HIDE DEF ab, B2
  <2> QED BY <1>0, <1>1, Less
<1>3. BYTE * B2 = B3 /\ B3 \in Nat \ {0}
  BY <1>0, <1>1
<1>4. d * B3 + abc \in 0 .. BYTE * B3 - 1 /\ BYTE * B3 \in Nat
  <2> HIDE DEF abc, B3
  <2> QED BY <1>0, <1>2, <1>3, Less
<1>5. BYTE * B3 = WORD
  BY <1>0 DEF WORD
<1>6. /\ w = bcd * BYTE + a /\ w = cd * B2 + ab /\ w = d * B3 + abc
      /\ bcd = cd * BYTE + b /\ bcd \in Int /\ cd \in Int
  BY <1>0 DEF WordOf, Bytes
<1>7. w % BYTE = a /\ w \div BYTE = bcd /\ bcd % BYTE = b
  <2> HIDE DEF w, bcd, cd
  <2>1. w % BYTE = a /\ w \div BYTE = bcd
    <3>1. BYTE \in Nat \ {0} /\ a \in 0 .. BYTE - 1 /\ bcd \in Int
      BY <1>0, <1>a, <1>6
    <3>2. (bcd * BYTE + a) % BYTE = a /\ (bcd * BYTE + a) \div BYTE = bcd
      BY <3>1, ModOfSum
    <3> QED BY <1>6, <3>2
  <2>2. bcd % BYTE = b
    BY <1>0, <1>a, <1>6, ModOfSum
  <2> QED BY <2>1, <2>2
<1>8. w \div B2 = cd
  <2> HIDE DEF w, bcd, cd, ab, B2
  <2> QED BY <1>1, <1>6, ModOfSum
<1>9. w \div B3 = d
  <2> HIDE DEF w, bcd, cd, abc, B3
  <2> QED BY <1>0, <1>2, <1>3, <1>6, ModOfSum
<1>10. cd % BYTE = c /\ d % BYTE = d
  BY <1>0, ModOfSum, ModSmall
<1>11. w \in Words /\ w \div 1 = w
  <2>1. w \in Words
    <3> HIDE DEF w, abc, B3
    <3> QED BY <1>4, <1>5, <1>6, Sizes DEF Words
  <2> HIDE DEF w
  <2> QED BY <2>1, Sizes DEF Words
<1>12. Weight[1] = 1 /\ Weight[2] = BYTE /\ Weight[3] = B2 /\ Weight[4] = B3
  BY DEF Weight
<1> HIDE DEF w, bcd, cd, abc, ab, B3, B2
<1>13. /\ Byte(w, 0) = (w \div 1) % BYTE
       /\ Byte(w, 1) = (w \div BYTE) % BYTE
       /\ Byte(w, 2) = (w \div B2) % BYTE
       /\ Byte(w, 3) = (w \div B3) % BYTE
  BY <1>12 DEF Byte
<1> QED BY <1>7, <1>8, <1>9, <1>10, <1>11, <1>13 DEF w

\* The bytes of a word are those it was made of.
LEMMA BytesOfWord ==
  ASSUME NEW w \in Words
  PROVE  /\ Byte(w, 0) \in Bytes /\ Byte(w, 1) \in Bytes
         /\ Byte(w, 2) \in Bytes /\ Byte(w, 3) \in Bytes
         /\ w = WordOf(Byte(w, 0), Byte(w, 1), Byte(w, 2), Byte(w, 3))
<1> DEFINE a == w % BYTE
           p == w \div BYTE
           b == p % BYTE
           q == p \div BYTE
           c == q % BYTE
           d == q \div BYTE
<1>0. BYTE \in Nat \ {0} /\ w \in Int /\ w >= 0
  BY Sizes DEF Words
<1>1. a \in Bytes /\ p \in Int /\ w = BYTE * p + a
  BY <1>0, DivMod DEF Bytes
<1>2. b \in Bytes /\ q \in Int /\ p = BYTE * q + b
  BY <1>0, <1>1, DivMod DEF Bytes
<1>3. c \in Bytes /\ d \in Int /\ q = BYTE * d + c
  BY <1>0, <1>2, DivMod DEF Bytes
<1> HIDE DEF a, p, b, q, c, d
<1>4. w = WordOf(a, b, c, d)
  BY <1>0, <1>1, <1>2, <1>3 DEF WordOf, Bytes
<1>5. d \in Bytes
  <2>1. p >= 0 /\ p < BYTE * (BYTE * BYTE)
    <3> DEFINE m == BYTE * (BYTE * BYTE)
    <3>1. m \in Int /\ WORD = BYTE * m /\ w < WORD
      BY <1>0 DEF WORD, Words
    <3> HIDE DEF m
    <3>2. p < m
      BY <1>0, <1>1, <3>1 DEF Bytes
    <3>3. p >= 0
      BY <1>0, <1>1 DEF Bytes
    <3> QED BY <3>2, <3>3 DEF m
  <2>2. q >= 0 /\ q < BYTE * BYTE
    <3> DEFINE m == BYTE * BYTE
    <3>1. m \in Int /\ p < BYTE * m /\ p >= 0
      BY <1>0, <2>1
    <3> HIDE DEF m
    <3>2. q < m /\ q >= 0
      BY <1>0, <1>2, <3>1 DEF Bytes
    <3> QED BY <3>2 DEF m
  <2> QED BY <1>0, <1>3, <2>2 DEF Bytes
<1>6. Byte(w, 0) = a /\ Byte(w, 1) = b /\ Byte(w, 2) = c /\ Byte(w, 3) = d
  BY <1>1, <1>2, <1>3, <1>4, <1>5, WordOfBytes
<1> QED BY <1>1, <1>2, <1>3, <1>4, <1>5, <1>6

\* The byte order is its own inverse.
LEMMA SwitchSwitch ==
  ASSUME NEW k \in ProperKeys
  PROVE  /\ SwitchRC572Format(k) \in ProperKeys
         /\ SwitchRC572Format(SwitchRC572Format(k)) = k
<1> DEFINE s == SwitchRC572Format(k)
<1>1. /\ k.hi \in Bytes /\ k.hi \in Words /\ k.mid \in Words /\ k.lo \in Words
      /\ k = [hi |-> k.hi, mid |-> k.mid, lo |-> k.lo]
  BY DEF ProperKeys, Keys
<1>2. Byte(k.hi, 0) = k.hi
  <2>1. k.hi \div 1 = k.hi
    BY <1>1, Sizes DEF Words
  <2>2. Weight[1] = 1
    BY DEF Weight
  <2> QED BY <1>1, <2>1, <2>2, ModSmall, Sizes DEF Byte, Bytes
<1>3. /\ s.lo  = WordOf(k.hi, Byte(k.mid, 3), Byte(k.mid, 2), Byte(k.mid, 1))
      /\ s.mid = WordOf(Byte(k.mid, 0), Byte(k.lo, 3), Byte(k.lo, 2), Byte(k.lo, 1))
      /\ s.hi  = Byte(k.lo, 0)
      /\ s = [lo |-> s.lo, mid |-> s.mid, hi |-> s.hi]
  BY <1>2 DEF SwitchRC572Format
<1>4. s.lo \in Words /\ s.mid \in Words /\ s.hi \in Bytes
  BY <1>1, <1>3, BytesOfWord, WordOfBytes
<1>5. /\ Byte(s.lo, 0) = k.hi /\ Byte(s.lo, 1) = Byte(k.mid, 3)
      /\ Byte(s.lo, 2) = Byte(k.mid, 2) /\ Byte(s.lo, 3) = Byte(k.mid, 1)
  BY <1>1, <1>3, BytesOfWord, WordOfBytes
<1>6. /\ Byte(s.mid, 0) = Byte(k.mid, 0) /\ Byte(s.mid, 1) = Byte(k.lo, 3)
      /\ Byte(s.mid, 2) = Byte(k.lo, 2) /\ Byte(s.mid, 3) = Byte(k.lo, 1)
  BY <1>1, <1>3, BytesOfWord, WordOfBytes
<1>7. Byte(s.hi, 0) = Byte(k.lo, 0)
  <2>1. s.hi \div 1 = s.hi /\ Weight[1] = 1
    BY <1>4, Sizes DEF Bytes, Weight
  <2> QED BY <1>3, <1>4, <2>1, ModSmall, Sizes DEF Byte, Bytes
<1>8. SwitchRC572Format(s) = [lo |-> k.lo, mid |-> k.mid, hi |-> k.hi]
  <2>1. k.lo = WordOf(Byte(k.lo, 0), Byte(k.lo, 1), Byte(k.lo, 2), Byte(k.lo, 3))
    BY <1>1, BytesOfWord
  <2>2. k.mid = WordOf(Byte(k.mid, 0), Byte(k.mid, 1), Byte(k.mid, 2), Byte(k.mid, 3))
    BY <1>1, BytesOfWord
  <2> HIDE DEF s
  <2> QED BY <2>1, <2>2, <1>5, <1>6, <1>7, Zenon DEF SwitchRC572Format
<1>9. s \in ProperKeys
  <2> HIDE DEF s
  <2> QED BY <1>3, <1>4, ProperKey
<1> QED BY <1>1, <1>8, <1>9
(* Keys as numbers *)

\* A key is a number below the size of the key space.
LEMMA NumType ==
  ASSUME NEW k \in Keys
  PROVE  Num(k) \in 0 .. SPACE - 1
<1> DEFINE h == k.hi % BYTE
           hm == h * WORD + k.mid
           WW == BYTE * WORD
<1>1. h \in 0 .. BYTE - 1 /\ k.mid \in 0 .. WORD - 1 /\ k.lo \in 0 .. WORD - 1
  <2>1. k.hi \in Int /\ BYTE \in Nat \ {0}
    BY Sizes DEF Keys, Words
  <2> QED BY <2>1, DivMod DEF Keys, Words
<1>2. BYTE >= 2 /\ WORD >= 2 /\ BYTE \in Nat /\ WORD \in Nat \ {0}
  BY Sizes
<1> HIDE DEF h
<1>3. hm \in 0 .. WW - 1 /\ WW \in Nat \ {0} /\ WW >= 2
  <2>1. hm \in 0 .. BYTE * WORD - 1 /\ BYTE * WORD \in Nat \ {0}
    BY <1>1, <1>2, Less
  <2>2. WW >= 2 * WORD
    BY <1>2
  <2> QED BY <1>2, <2>1, <2>2
<1> HIDE DEF hm, WW
<1>4. hm * WORD + k.lo \in 0 .. WW * WORD - 1
  BY <1>1, <1>2, <1>3, Less
<1>5. WW * WORD = SPACE
  BY <1>2 DEF WW, SPACE
<1> QED BY <1>4, <1>5 DEF Num, hm, h

\* n keys on, with the carries between the words, is n more in the key space.
Ahead(k, n) ==
  LET lo == (k.lo + n) % WORD
      mid == (k.mid + Carry(lo, n)) % WORD
      hi == k.hi + IF lo < n /\ mid = 0 THEN 1 ELSE 0
  IN [hi |-> hi, mid |-> mid, lo |-> lo]

\* The key that lies n ahead has the number that is n more.
LEMMA AheadAdds ==
  ASSUME NEW k \in ProperKeys, NEW n \in Words
  PROVE  /\ Ahead(k, n).hi \in 0 .. BYTE
         /\ Ahead(k, n).mid \in Words /\ Ahead(k, n).lo \in Words
         /\ Num(Ahead(k, n)) = (Num(k) + n) % SPACE
<1> DEFINE lo == (k.lo + n) % WORD
           mid == (k.mid + Carry(lo, n)) % WORD
           hi == k.hi + IF lo < n /\ mid = 0 THEN 1 ELSE 0
           P == (k.hi * WORD + k.mid) * WORD
<1>0. /\ k.hi \in 0 .. BYTE - 1 /\ k.mid \in 0 .. WORD - 1 /\ k.lo \in 0 .. WORD - 1
      /\ n \in 0 .. WORD - 1 /\ WORD \in Nat \ {0} /\ WORD > 1 /\ BYTE \in Nat \ {0} /\ SPACE \in Nat \ {0}
  BY Sizes DEF ProperKeys, Keys, Words, Bytes
<1>1. /\ lo \in 0 .. WORD - 1
      /\ \/ ~(lo < n) /\ lo = k.lo + n
         \/ lo < n /\ lo + WORD = k.lo + n
  <2>1. /\ lo \in 0 .. WORD - 1
        /\ lo = k.lo + n \/ lo = k.lo + n - WORD
        /\ (lo < n) <=> (lo = k.lo + n - WORD)
    BY <1>0, CarryOut
  <2> HIDE DEF lo
  <2> QED BY <1>0, <2>1
<1> HIDE DEF lo
<1>2. Carry(lo, n) = IF lo < n THEN 1 ELSE 0
  BY DEF Carry
<1>3. /\ mid \in 0 .. WORD - 1
      /\ \/ mid = k.mid + Carry(lo, n)
         \/ lo < n /\ mid = 0 /\ WORD = k.mid + 1
  <2>1. Carry(lo, n) \in 0 .. 1
    BY <1>2
  <2>2. CASE k.mid + Carry(lo, n) < WORD
    <3>1. mid = k.mid + Carry(lo, n)
      BY <1>0, <2>1, <2>2, ModSmall
    <3> QED BY <1>0, <2>1, <2>2, <3>1
  <2>3. CASE k.mid + Carry(lo, n) >= WORD
    <3>1. Carry(lo, n) = 1 /\ k.mid + 1 = WORD /\ lo < n
      BY <1>0, <1>2, <2>1, <2>3
    <3>2. WORD % WORD = 0
      BY <1>0, ModSmall
    <3> QED BY <1>0, <3>1, <3>2
  <2> QED BY <1>0, <2>1, <2>2, <2>3
<1>4. lo < n /\ mid = 0 => WORD = k.mid + 1
  BY <1>0, <1>2, <1>3
<1> HIDE DEF mid
<1>5. Ahead(k, n) = [hi |-> hi, mid |-> mid, lo |-> lo]
  BY DEF Ahead, lo, mid
<1>6. hi \in 0 .. BYTE
  BY <1>0
<1>7. k.hi % BYTE = k.hi /\ Num(k) = P + k.lo /\ P \in Int
  BY <1>0, ModSmall DEF Num
<1>8. Num(Ahead(k, n)) = ((hi % BYTE) * WORD + mid) * WORD + lo
  BY <1>5 DEF Num
<1>9. Num(k) \in 0 .. SPACE - 1 /\ Num(k) \in Int
  BY NumType DEF ProperKeys
<1>a. Ahead(k, n) \in Keys
  BY <1>0, <1>1, <1>3, <1>5, <1>6, Sizes DEF Keys, Words
<1>b. Num(Ahead(k, n)) % SPACE = Num(Ahead(k, n))
  BY <1>a, <1>0, NumType, ModSmall
<1>c. /\ (k.hi * WORD + (k.mid + 1)) * WORD = P + WORD
      /\ WORD = k.mid + 1 => (k.hi + 1) * WORD * WORD = P + WORD
  BY <1>0
<1>10. CASE ~(lo < n)
  <2>1. Num(Ahead(k, n)) = P + (k.lo + n)
    BY <1>0, <1>1, <1>2, <1>3, <1>7, <1>8, <1>10
  <2> HIDE DEF P
  <2>2. Num(Ahead(k, n)) = Num(k) + n
    BY <1>0, <1>7, <2>1
  <2> QED BY <1>b, <2>2, <1>5, <1>6, <1>0, <1>1, <1>3 DEF Words
<1>11. CASE lo < n /\ mid # 0
  <2>1. Num(Ahead(k, n)) = (k.hi * WORD + (k.mid + 1)) * WORD + lo
    BY <1>0, <1>1, <1>2, <1>3, <1>7, <1>8, <1>11
  <2>2. Num(Ahead(k, n)) = P + WORD + lo
    BY <1>c, <2>1
  <2> HIDE DEF P
  <2>3. Num(Ahead(k, n)) = Num(k) + n
    BY <1>0, <1>1, <1>7, <1>11, <2>2
  <2> QED BY <1>b, <2>3, <1>5, <1>6, <1>0, <1>1, <1>3 DEF Words
<1>12. CASE lo < n /\ mid = 0
  <2>1. WORD = k.mid + 1 /\ hi = k.hi + 1 /\ lo + WORD = k.lo + n
    BY <1>1, <1>4, <1>12
  <2>2. (k.hi + 1) * WORD * WORD = P + WORD
    BY <1>c, <2>1
  <2>3. CASE k.hi + 1 < BYTE
    <3>1. hi % BYTE = k.hi + 1
      BY <1>0, <2>1, <2>3, ModSmall
    <3>2. Num(Ahead(k, n)) = P + WORD + lo
      BY <1>0, <1>8, <1>12, <2>2, <3>1
    <3> HIDE DEF P
    <3>3. Num(Ahead(k, n)) = Num(k) + n
      BY <1>0, <1>1, <1>7, <2>1, <2>2, <3>2
    <3> QED BY <1>b, <3>3, <1>5, <1>6, <1>0, <1>1, <1>3 DEF Words
  <2>4. CASE k.hi + 1 = BYTE
    <3>1. hi % BYTE = 0
      BY <1>0, <2>1, <2>4, ModSmall
    <3>a. 0 * WORD = 0 /\ (0 + 0) * WORD = 0
      BY <1>0
    <3>2. Num(Ahead(k, n)) = lo
      BY <1>0, <1>1, <1>8, <1>12, <3>1, <3>a
    <3>b. SPACE = P + WORD
      BY <2>2, <2>4 DEF SPACE
    <3> HIDE DEF P
    <3>3. Num(k) + n = lo + SPACE
      BY <1>0, <1>1, <1>7, <2>1, <3>b
    <3>4. (lo + SPACE) % SPACE = lo
      <4>1. lo \in 0 .. SPACE - 1
        BY <1>0, <1>1, <3>b, Sizes
      <4> QED BY <1>0, <4>1, ModSmall
    <3> QED BY <1>0, <1>1, <1>3, <1>5, <1>6, <3>2, <3>3, <3>4 DEF Words
  <2> QED BY <1>0, <2>3, <2>4
<1> QED BY <1>10, <1>11, <1>12

\* Only the lowest byte of the high word counts.
LEMMA HighByte ==
  ASSUME NEW k \in Keys
  PROVE  /\ [k EXCEPT !.hi = @ % BYTE] \in ProperKeys
         /\ Num([k EXCEPT !.hi = @ % BYTE]) = Num(k)
         /\ SwitchRC572Format([k EXCEPT !.hi = @ % BYTE]) = SwitchRC572Format(k)
<1> DEFINE h == k.hi % BYTE
           p == [k EXCEPT !.hi = @ % BYTE]
<1>1. k.hi \in Int /\ k.mid \in Words /\ k.lo \in Words /\ BYTE \in Nat \ {0}
  BY Sizes DEF Keys, Words
<1>2. h \in Bytes /\ h % BYTE = h
  BY <1>1, DivMod, ModSmall DEF Bytes
<1>3. p = [hi |-> h, mid |-> k.mid, lo |-> k.lo]
  BY DEF Keys
<1>4. p \in ProperKeys
  BY <1>1, <1>2, <1>3, ProperKey
<1>5. Num(p) = Num(k)
  BY <1>2, <1>3 DEF Num
<1>6. Byte(p.hi, 0) = Byte(k.hi, 0)
  <2>1. p.hi = h /\ h \div 1 = h /\ k.hi \div 1 = k.hi /\ Weight[1] = 1
    BY <1>1, <1>2, <1>3, Sizes DEF Weight, Bytes
  <2> QED BY <1>2, <2>1 DEF Byte
<1>7. SwitchRC572Format(p) = SwitchRC572Format(k)
  BY <1>3, <1>6 DEF SwitchRC572Format
<1> QED BY <1>4, <1>5, <1>7

\* The core's key, n keys on.
LEMMA IncrementAdds ==
  ASSUME NEW k \in ProperKeys, NEW n \in Words
  PROVE  /\ IncrementKey(k, n) \in ProperKeys
         /\ Num(SwitchRC572Format(IncrementKey(k, n)))
              = (Num(SwitchRC572Format(k)) + n) % SPACE
<1> DEFINE s == SwitchRC572Format(k)
           a == Ahead(s, n)
           p == [a EXCEPT !.hi = @ % BYTE]
<1>1. s \in ProperKeys
  BY SwitchSwitch
<1>2. IncrementKey(k, n) = SwitchRC572Format(a)
  BY DEF IncrementKey, Ahead
<1> HIDE DEF s
<1>3. a \in Keys /\ Num(a) = (Num(s) + n) % SPACE
  <2>1. a = [hi |-> a.hi, mid |-> a.mid, lo |-> a.lo]
    BY DEF Ahead
  <2>2. a.hi \in Words
    BY <1>1, AheadAdds, Sizes DEF Words
  <2> QED BY <1>1, <2>1, <2>2, AheadAdds DEF Keys
<1> HIDE DEF a
<1>4. p \in ProperKeys /\ Num(p) = Num(a) /\ SwitchRC572Format(p) = SwitchRC572Format(a)
  BY <1>3, HighByte
<1> HIDE DEF p
<1>5. SwitchRC572Format(p) \in ProperKeys /\ SwitchRC572Format(SwitchRC572Format(p)) = p
  BY <1>4, SwitchSwitch
<1> QED BY <1>2, <1>3, <1>4, <1>5 DEF s

\* Adding to the middle word adds so many words.
Middle(k, n) ==
  LET mid == (k.mid + n) % WORD
  IN [hi |-> (k.hi + Carry(mid, n)) % BYTE, mid |-> mid, lo |-> k.lo]

\* The carry through the middle word adds as many keys.
LEMMA MiddleAdds ==
  ASSUME NEW k \in ProperKeys, NEW n \in Words
  PROVE  /\ Middle(k, n) \in ProperKeys
         /\ Num(Middle(k, n)) = (Num(k) + n * WORD) % SPACE
<1> DEFINE mid == (k.mid + n) % WORD
           c == Carry(mid, n)
           hi == (k.hi + c) % BYTE
           P == (k.hi * WORD + k.mid) * WORD
           N == n * WORD
           x == Num(Middle(k, n))
<1>0. /\ k.hi \in 0 .. BYTE - 1 /\ k.mid \in 0 .. WORD - 1 /\ k.lo \in 0 .. WORD - 1
      /\ n \in 0 .. WORD - 1 /\ WORD \in Nat \ {0} /\ WORD > 1
      /\ BYTE \in Nat \ {0} /\ BYTE >= 2 /\ SPACE \in Nat \ {0}
  BY Sizes DEF ProperKeys, Keys, Words, Bytes
<1>1. /\ mid \in 0 .. WORD - 1
      /\ mid = k.mid + n \/ mid = k.mid + n - WORD
      /\ (mid < n) <=> (mid = k.mid + n - WORD)
  BY <1>0, CarryOut
<1>2. Middle(k, n) = [hi |-> hi, mid |-> mid, lo |-> k.lo]
  BY DEF Middle
<1> HIDE DEF mid
<1>3. c = (IF mid < n THEN 1 ELSE 0) /\ c \in 0 .. 1
  BY DEF Carry
<1> HIDE DEF c
<1>4. hi \in 0 .. BYTE - 1 /\ hi % BYTE = hi /\ (hi = k.hi + c \/ hi = k.hi + c - BYTE)
      /\ hi = (k.hi + c) % BYTE
  <2>1. hi \in 0 .. BYTE - 1 /\ (hi = k.hi + c \/ hi = k.hi + c - BYTE)
    <3>1. c \in 0 .. BYTE - 1
      BY <1>0, <1>3
    <3> QED BY <1>0, <3>1, CarryOut
  <2> QED BY <1>0, <2>1, ModSmall
<1> HIDE DEF hi
<1>5. x = (hi * WORD + mid) * WORD + k.lo
  BY <1>2, <1>4 DEF Num
<1>6. Middle(k, n) \in ProperKeys
  BY <1>0, <1>1, <1>2, <1>4, ProperKey DEF Bytes, Words
<1>7. x \in 0 .. SPACE - 1 /\ Num(k) = P + k.lo
  BY <1>0, <1>6, NumType, ModSmall DEF ProperKeys, Num
<1>8. x = Num(k) + N \/ x = Num(k) + N - SPACE
  <2>1. mid * WORD = IF mid < n THEN k.mid * WORD + n * WORD - WORD * WORD
                     ELSE k.mid * WORD + n * WORD
    <3>1. /\ (k.mid + n) * WORD = k.mid * WORD + n * WORD
          /\ (k.mid + n - WORD) * WORD = k.mid * WORD + n * WORD - WORD * WORD
      BY <1>0
    <3>2. IF mid < n THEN mid = k.mid + n - WORD ELSE mid = k.mid + n
      BY <1>0, <1>1
    <3> QED BY <3>1, <3>2
  <2>2. (hi * WORD + mid) * WORD = hi * (WORD * WORD) + mid * WORD
    BY <1>0, <1>1, <1>4
  <2>3. P = k.hi * (WORD * WORD) + k.mid * WORD
    BY <1>0
  <2>4. \/ hi * (WORD * WORD) = k.hi * (WORD * WORD) + c * (WORD * WORD)
        \/ hi * (WORD * WORD) = k.hi * (WORD * WORD) + c * (WORD * WORD) - BYTE * (WORD * WORD)
    <3> DEFINE WW == WORD * WORD
    <3>1. WW \in Int /\ k.hi \in Int /\ BYTE \in Int /\ c \in Int
      BY <1>0, <1>3
    <3> HIDE DEF WW
    <3>2. /\ (k.hi + c) * WW = k.hi * WW + c * WW
          /\ (k.hi + c - BYTE) * WW = k.hi * WW + c * WW - BYTE * WW
      BY <3>1
    <3>3. hi * WW = k.hi * WW + c * WW \/ hi * WW = k.hi * WW + c * WW - BYTE * WW
      BY <1>4, <3>2
    <3> QED BY <3>3 DEF WW
  <2>5. BYTE * (WORD * WORD) = SPACE
    BY <1>0 DEF SPACE
  <2>6. c * (WORD * WORD) = IF mid < n THEN WORD * WORD ELSE 0
    BY <1>0, <1>3
  <2> DEFINE WW == WORD * WORD
             A == hi * WW
             M == mid * WORD
             H == k.hi * WW
             K == k.mid * WORD
             C == c * WW
  <2>7. /\ WW \in Int /\ A \in Int /\ M \in Int /\ H \in Int /\ K \in Int /\ C \in Int
        /\ N \in Int /\ P = H + K /\ x = A + M + k.lo /\ Num(k) = H + K + k.lo
        /\ M = IF mid < n THEN K + N - WW ELSE K + N
        /\ A = H + C \/ A = H + C - SPACE
        /\ C = IF mid < n THEN WW ELSE 0
    BY <1>0, <1>1, <1>3, <1>4, <1>5, <1>7, <2>1, <2>2, <2>3, <2>4, <2>5, <2>6
  <2> HIDE DEF WW, A, M, H, K, C, N, P
  <2> QED BY <1>0, <2>7
<1>9. x = (Num(k) + N) % SPACE
  <2>1. N \in Int /\ Num(k) \in Int
    BY <1>0, NumType DEF ProperKeys
  <2> HIDE DEF N, x
  <2>2. \A y \in 0 .. SPACE - 1 : y % SPACE = y /\ (y + SPACE) % SPACE = y
    BY <1>0, ModSmall
  <2>3. CASE x = Num(k) + N
    BY <1>7, <2>2, <2>3
  <2>4. CASE x = Num(k) + N - SPACE
    <3>1. x + SPACE = Num(k) + N
      BY <1>0, <1>7, <2>1, <2>4
    <3> QED BY <1>7, <2>2, <3>1
  <2> QED BY <1>8, <2>3, <2>4
<1> QED BY <1>6, <1>9

\* The keys done, as a number.
LEMMA CountType ==
  ASSUME NEW c \in Counts
  PROVE  Count(c) \in Nat /\ c.hi \in 0 .. WORD - 1 /\ c.lo \in 0 .. WORD - 1
BY Sizes DEF Count, Counts, Words

\* AddKeysDone() adds to the 64-bit count.
LEMMA AddKeysDoneAdds ==
  ASSUME NEW c \in Counts, NEW n \in Words, c.hi < WORD - 1
  PROVE  /\ AddKeysDone(c, n) \in Counts
         /\ Count(AddKeysDone(c, n)) = Count(c) + n
<1> DEFINE lo == (c.lo + n) % WORD
<1>0. /\ c.hi \in 0 .. WORD - 1 /\ c.lo \in 0 .. WORD - 1 /\ n \in 0 .. WORD - 1
      /\ WORD \in Nat \ {0} /\ WORD > 1
  BY Sizes DEF Counts, Words
<1>1. /\ lo \in 0 .. WORD - 1
      /\ lo = c.lo + n \/ lo = c.lo + n - WORD
      /\ (lo < n) <=> (lo = c.lo + n - WORD)
  BY <1>0, CarryOut
<1>2. AddKeysDone(c, n) = [hi |-> (c.hi + Carry(lo, n)) % WORD, lo |-> lo]
  BY DEF AddKeysDone
<1> HIDE DEF lo
<1>3. Carry(lo, n) = (IF lo < n THEN 1 ELSE 0) /\ Carry(lo, n) \in 0 .. 1
  BY DEF Carry
<1>4. (c.hi + Carry(lo, n)) % WORD = c.hi + Carry(lo, n)
  BY <1>0, <1>3, ModSmall
<1>5. /\ (c.hi + 1) * WORD = c.hi * WORD + WORD /\ (c.hi + 0) * WORD = c.hi * WORD
      /\ c.hi * WORD \in Int
  BY <1>0
<1>6. AddKeysDone(c, n) \in Counts
  BY <1>0, <1>1, <1>2, <1>3, <1>4 DEF Counts, Words
<1>7. Count(AddKeysDone(c, n)) = (c.hi + Carry(lo, n)) * WORD + lo
  BY <1>2, <1>4 DEF Count
<1>8. Count(AddKeysDone(c, n)) = Count(c) + n
  <2>1. Count(c) = c.hi * WORD + c.lo
    BY DEF Count
  <2>2. CASE lo < n
    <3>1. Count(AddKeysDone(c, n)) = c.hi * WORD + WORD + lo
      BY <1>3, <1>5, <1>7, <2>2
    <3> QED BY <1>0, <1>1, <1>5, <2>1, <2>2, <3>1
  <2>3. CASE ~(lo < n)
    <3>1. Count(AddKeysDone(c, n)) = c.hi * WORD + lo
      BY <1>3, <1>5, <1>7, <2>3
    <3> QED BY <1>0, <1>1, <1>5, <2>1, <2>3, <3>1
  <2> QED BY <2>2, <2>3
<1> QED BY <1>6, <1>8

\* The remainder of any number is a number.
LEMMA ModNat ==
  ASSUME NEW x \in Int
  PROVE  x % SPACE \in 0 .. SPACE - 1 /\ (x % SPACE) % SPACE = x % SPACE
<1>1. SPACE \in Nat \ {0}
  BY Sizes
<1>2. x % SPACE \in 0 .. SPACE - 1
  BY <1>1, DivMod
<1> QED BY <1>1, <1>2, ModSmall

\* Two additions in the key space.
LEMMA TwoSums ==
  ASSUME NEW k \in Int, NEW a \in Int, NEW b \in Int
  PROVE  (((k + a) % SPACE) + b) % SPACE = (k + (a + b)) % SPACE
<1>1. SPACE \in Nat \ {0} /\ k + a \in Int /\ (k + a) + b = k + (a + b)
  BY Sizes
<1>2. (((k + a) % SPACE) + b) % SPACE = ((k + a) + b) % SPACE
  <2> DEFINE ka == k + a
             S == SPACE
  <2>1. ka \in Int /\ S \in Nat \ {0}
    BY <1>1
  <2> HIDE DEF ka, S
  <2>2. ((ka % S) + b) % S = (ka + b) % S
    BY <2>1, ModAdd
  <2> QED BY <2>2 DEF ka, S
<1> QED BY <1>1, <1>2

\* The next key of a packet, as InternalLoadState() computes it.
LEMMA StartKeyAdds ==
  ASSUME NEW w, w.key \in ProperKeys, w.keysdone \in Counts
  PROVE  /\ StartKey(w) \in ProperKeys
         /\ Num(StartKey(w)) = (Num(w.key) + Count(w.keysdone)) % SPACE
<1> DEFINE k == w.key
           d == w.keysdone
           p == Middle(k, d.hi)
           a == Ahead(p, d.lo)
           e == IF a.lo < d.lo /\ a.mid = 0 THEN 1 ELSE 0
           q == [a EXCEPT !.hi = @ % BYTE]
<1>1. d.hi \in Words /\ d.lo \in Words /\ k \in ProperKeys
  BY DEF Counts
<1>2. p \in ProperKeys /\ Num(p) = (Num(k) + d.hi * WORD) % SPACE
  BY <1>1, MiddleAdds
<1>3. /\ p.mid = (k.mid + d.hi) % WORD /\ p.lo = k.lo
      /\ p.hi = (k.hi + Carry(p.mid, d.hi)) % BYTE
  BY DEF Middle
<1> HIDE DEF p
<1>4. /\ a.lo = (p.lo + d.lo) % WORD /\ a.mid = (p.mid + Carry(a.lo, d.lo)) % WORD
      /\ a.hi = p.hi + e /\ a = [hi |-> a.hi, mid |-> a.mid, lo |-> a.lo]
  BY DEF Ahead
<1>5. /\ a.hi \in 0 .. BYTE /\ a.mid \in Words /\ a.lo \in Words
      /\ Num(a) = (Num(p) + d.lo) % SPACE
  BY <1>1, <1>2, AheadAdds
<1>6. a \in Keys
  BY <1>4, <1>5, Sizes DEF Keys, Words
<1>7. q \in ProperKeys /\ Num(q) = Num(a)
  BY <1>6, HighByte
<1>8. StartKey(w) = [hi |-> (k.hi + Carry(p.mid, d.hi) + e) % BYTE, mid |-> a.mid, lo |-> a.lo]
  <2> HIDE DEF a
  <2> QED BY <1>3, <1>4 DEF StartKey
<1>9. (k.hi + Carry(p.mid, d.hi) + e) % BYTE = a.hi % BYTE
  <2>1. k.hi + Carry(p.mid, d.hi) \in Int /\ e \in Int /\ BYTE \in Nat \ {0}
    BY <1>1, Sizes DEF Carry, ProperKeys, Keys, Words
  <2> HIDE DEF a, e
  <2> QED BY <1>3, <1>4, <2>1, ModAdd
<1>10. StartKey(w) = q
  <2> HIDE DEF a, e
  <2> QED BY <1>4, <1>8, <1>9
<1>11. Num(q) = (Num(k) + (d.hi * WORD + d.lo)) % SPACE
  <2>1. Num(k) \in Int /\ d.hi * WORD \in Int /\ d.lo \in Int
    BY <1>1, NumType, Sizes DEF ProperKeys, Words
  <2> HIDE DEF q, a
  <2> QED BY <1>2, <1>5, <1>7, <2>1, TwoSums
<1> QED BY <1>7, <1>10, <1>11 DEF Count

\* The key that is reported, as Run_RC5_72() computes it.
LEMMA FoundKeyAdds ==
  ASSUME NEW w, w.key \in ProperKeys, w.keysdone \in Counts
  PROVE  /\ FoundKey(w) \in Keys
         /\ Num(FoundKey(w)) = (Num(w.key) + Count(w.keysdone)) % SPACE
<1> DEFINE k == w.key
           d == w.keysdone
           a == Ahead(k, d.lo)
           p == [a EXCEPT !.hi = @ % BYTE]
           q == Middle(p, d.hi)
           c == IF q.mid < a.mid THEN 1 ELSE 0
           f == [hi |-> a.hi + c, mid |-> q.mid, lo |-> a.lo]
<1>1. d.hi \in Words /\ d.lo \in Words /\ k \in ProperKeys /\ k.lo \in Words
  BY DEF Counts, ProperKeys, Keys
<1>2. /\ a.lo = (k.lo + d.lo) % WORD /\ a.mid = (k.mid + Carry(a.lo, d.lo)) % WORD
      /\ a.hi = k.hi + (IF a.lo < d.lo /\ a.mid = 0 THEN 1 ELSE 0)
      /\ a = [hi |-> a.hi, mid |-> a.mid, lo |-> a.lo]
  BY DEF Ahead
<1>3. /\ a.hi \in 0 .. BYTE /\ a.mid \in Words /\ a.lo \in Words
      /\ Num(a) = (Num(k) + d.lo) % SPACE
  BY <1>1, AheadAdds
<1>4. a \in Keys
  BY <1>2, <1>3, Sizes DEF Keys, Words
<1>5. a.lo < k.lo <=> a.lo < d.lo
  <2>1. k.lo \in 0 .. WORD - 1 /\ d.lo \in 0 .. WORD - 1 /\ WORD \in Nat \ {0}
    BY <1>1, Sizes DEF Words
  <2> HIDE DEF a
  <2> QED BY <1>2, <2>1, CarryOut
<1> HIDE DEF a
<1>6. p \in ProperKeys /\ Num(p) = Num(a) /\ p.mid = a.mid /\ p.lo = a.lo /\ p.hi = a.hi % BYTE
  BY <1>2, <1>4, HighByte
<1> HIDE DEF p
<1>7. q \in ProperKeys /\ Num(q) = (Num(p) + d.hi * WORD) % SPACE
  BY <1>1, <1>6, MiddleAdds
<1>8. /\ q.mid = (a.mid + d.hi) % WORD /\ q.lo = a.lo
      /\ q.hi = (p.hi + Carry(q.mid, d.hi)) % BYTE
      /\ q = [hi |-> q.hi, mid |-> q.mid, lo |-> q.lo]
  BY <1>6 DEF Middle
<1> HIDE DEF q
<1>9. c = Carry(q.mid, d.hi)
  <2>1. a.mid \in 0 .. WORD - 1 /\ d.hi \in 0 .. WORD - 1 /\ WORD \in Nat \ {0}
    BY <1>1, <1>3, Sizes DEF Words
  <2>2. q.mid < a.mid <=> q.mid < d.hi
    BY <1>8, <2>1, CarryOut
  <2> QED BY <2>2 DEF Carry
<1>10. FoundKey(w) = f
  <2>1. (IF a.lo < k.lo THEN 1 ELSE 0) = Carry(a.lo, d.lo)
    BY <1>5 DEF Carry
  <2>2. (IF a.lo < k.lo THEN 1 ELSE 0) = 1 <=> a.lo < d.lo
    BY <1>5
  <2>3. /\ a.mid = (k.mid + (IF a.lo < k.lo THEN 1 ELSE 0)) % WORD
        /\ a.hi = k.hi + (IF (IF a.lo < k.lo THEN 1 ELSE 0) = 1 /\ a.mid = 0 THEN 1 ELSE 0)
    BY <1>2, <2>1, <2>2
  <2> QED BY <1>2, <1>8, <2>3 DEF FoundKey
<1>11. c \in 0 .. 1 /\ f \in Keys
  <2>1. c \in 0 .. 1
    OBVIOUS
  <2>2. a.hi + c \in Words
    BY <1>3, <2>1, Sizes DEF Words
  <2>3. q.mid \in Words
    BY <1>7 DEF ProperKeys, Keys
  <2> QED BY <1>3, <2>1, <2>2, <2>3 DEF Keys
<1>12. [f EXCEPT !.hi = @ % BYTE] = q
  <2>1. (a.hi + c) % BYTE = q.hi
    <3>1. a.hi \in Int /\ c \in Int /\ BYTE \in Nat \ {0}
      BY <1>3, <1>11, Sizes
    <3> HIDE DEF c
    <3> QED BY <1>6, <1>8, <1>9, <3>1, ModAdd
  <2> QED BY <1>8, <2>1
<1>13. Num(f) = (Num(k) + (d.lo + d.hi * WORD)) % SPACE
  <2>1. Num(f) = Num(q)
    BY <1>11, <1>12, HighByte
  <2>2. Num(k) \in Int /\ d.hi * WORD \in Int /\ d.lo \in Int
    BY <1>1, NumType, Sizes DEF ProperKeys, Words
  <2> HIDE DEF f
  <2> QED BY <1>3, <1>6, <1>7, <2>1, <2>2, TwoSums
<1>14. d.lo + d.hi * WORD = Count(d)
  BY <1>1, Sizes DEF Count, Words
<1> QED BY <1>10, <1>11, <1>13, <1>14

-----------------------------------------------------------------------------
(* The keys a core notes on its way.                                         *)

(* Distances in the key space *)

\* The distance of a key from the first one, and back.
LEMMA Distances ==
  ASSUME NEW f \in 0 .. SPACE - 1, NEW k \in 0 .. SPACE - 1
  PROVE  /\ Distance(f, k) \in 0 .. SPACE - 1
         /\ (f + Distance(f, k)) % SPACE = k
         /\ \A d \in 0 .. SPACE - 1 : (f + d) % SPACE = k => d = Distance(f, k)
<1> DEFINE S == SPACE
           D == Distance(f, k)
<1>0. S \in Nat \ {0} /\ f \in 0 .. S - 1 /\ k \in 0 .. S - 1
  BY Sizes
<1> HIDE DEF S
<1>1. D = IF k >= f THEN k - f ELSE k - f + S
  <2>1. D = (S + k - f) % S
    BY DEF Distance, S
  <2>2. CASE k >= f
    <3>1. k - f \in 0 .. S - 1 /\ S + k - f = (k - f) + S
      BY <1>0, <2>2
    <3>2. ((k - f) + S) % S = k - f
      BY <1>0, <3>1, ModSmall
    <3> QED BY <2>1, <2>2, <3>1, <3>2
  <2>3. CASE k < f
    <3>1. S + k - f \in 0 .. S - 1 /\ S + k - f = k - f + S
      BY <1>0, <2>3
    <3>2. (S + k - f) % S = S + k - f
      BY <1>0, <3>1, ModSmall
    <3> QED BY <1>0, <2>1, <2>3, <3>1, <3>2
  <2> QED BY <1>0, <2>2, <2>3
<1> HIDE DEF D
<1>2. D \in 0 .. S - 1
  BY <1>0, <1>1
<1>3. \A d \in 0 .. S - 1 : /\ (f + d) % S = f + d \/ (f + d) % S = f + d - S
                            /\ (f + d) % S \in 0 .. S - 1
  BY <1>0, CarryOut
<1>4. (f + D) % S = k
  BY <1>0, <1>1, <1>2, <1>3
<1>5. ASSUME NEW d \in 0 .. S - 1, (f + d) % S = k
      PROVE  d = D
  BY <1>0, <1>1, <1>3, <1>5
<1> QED BY <1>2, <1>4, <1>5 DEF S, D

\* n keys on, the distance to a key ahead is n less.
LEMMA Nearer ==
  ASSUME NEW f \in 0 .. SPACE - 1, NEW k \in 0 .. SPACE - 1,
         NEW n \in Nat, n <= Distance(f, k)
  PROVE  Distance((f + n) % SPACE, k) = Distance(f, k) - n
<1> DEFINE D == Distance(f, k)
           g == (f + n) % SPACE
<1>1. D \in 0 .. SPACE - 1 /\ (f + D) % SPACE = k
  BY Distances
<1>2. SPACE \in Nat \ {0} /\ n <= D
  BY Sizes
<1> HIDE DEF D
<1>3. D - n \in 0 .. SPACE - 1 /\ n + (D - n) = D
  BY <1>1, <1>2
<1>4. g \in 0 .. SPACE - 1
  BY ModNat
<1>5. (g + (D - n)) % SPACE = (f + (n + (D - n))) % SPACE
  <2>1. f \in Int /\ n \in Int /\ D - n \in Int
    BY <1>3
  <2> QED BY <2>1, TwoSums
<1> HIDE DEF g
<1> QED BY <1>1, <1>3, <1>4, <1>5, Distances DEF g, D

(* The keys among the first n from f on that are in a set M *)

Noted(M, f, n) == {d \in 0 .. n - 1 : (f + d) % SPACE \in M}
LastOf(S) == CHOOSE d \in S : \A e \in S : e <= d

\* A finite set of distances that is not empty has a last one.
LEMMA LastExists ==
  ASSUME NEW n \in Nat, NEW S \in SUBSET (0 .. n - 1), S # {}
  PROVE  LastOf(S) \in S /\ \A e \in S : e <= LastOf(S)
<1>1. \E x \in S : \A y \in S : y <= x
  <2> DEFINE T == {k \in Nat : n - k \in S}
  <2>1. PICK s \in S : TRUE
    OBVIOUS
  <2>2. n - s \in T /\ T \in SUBSET Nat
    OBVIOUS
  <2>3. PICK x \in T : \A y \in T : ~(<<y, x>> \in OpToRel(<, Nat))
    <3> HIDE DEF T
    <3> QED BY <2>2, NatLessThanWellFounded, WFMin
  <2>4. \A y \in T : ~(y < x)
    BY <2>2, <2>3, Zenon DEF OpToRel
  <2>5. ASSUME NEW y \in S PROVE y <= n - x
    <3>1. n - y \in T
      OBVIOUS
    <3> QED BY <3>1, <2>4
  <2> QED BY <2>5
<1> QED BY <1>1 DEF LastOf

\* What is noted within a number of keys is a finite set.
LEMMA NotedFinite ==
  ASSUME NEW M, NEW f, NEW n \in Nat
  PROVE  IsFiniteSet(Noted(M, f, n)) /\ Cardinality(Noted(M, f, n)) \in Nat
<1>1. IsFiniteSet(0 .. n - 1)
  BY FS_Interval
<1>2. IsFiniteSet(Noted(M, f, n))
  BY <1>1, FS_Subset DEF Noted
<1> QED BY <1>2, FS_CardinalityType

\* What is noted of n + e keys is what is noted of n, and of e more.
LEMMA NotedAdds ==
  ASSUME NEW M, NEW f \in Int, NEW n \in Nat, NEW e \in Nat
  PROVE  LET A == Noted(M, f, n)
             B == Noted(M, (f + n) % SPACE, e)
             C == Noted(M, f, n + e)
         IN /\ Cardinality(C) = Cardinality(A) + Cardinality(B)
            /\ B = {} => C = A
            /\ B # {} => C # {} /\ LastOf(C) = n + LastOf(B)
<1> DEFINE A == Noted(M, f, n)
           g == (f + n) % SPACE
           B == Noted(M, g, e)
           C == Noted(M, f, n + e)
           H == {n + d : d \in B}
<1>1. \A d \in Int : (g + d) % SPACE = (f + (n + d)) % SPACE
  BY TwoSums
<1>2. C = A \cup H
  <2>1. ASSUME NEW x \in C PROVE x \in A \cup H
    <3>1. CASE x < n
      BY <3>1 DEF Noted
    <3>2. CASE x >= n
      <4>1. x - n \in 0 .. e - 1 /\ x = n + (x - n)
        BY <3>2 DEF Noted
      <4>2. (g + (x - n)) % SPACE = (f + x) % SPACE
        BY <1>1, <4>1
      <4>3. x - n \in B
        <5> HIDE DEF g
        <5> QED BY <4>1, <4>2 DEF Noted
      <4> QED BY <4>1, <4>3
    <3> QED BY <3>1, <3>2 DEF Noted
  <2>2. ASSUME NEW x \in A PROVE x \in C
    BY DEF Noted
  <2>3. ASSUME NEW d \in B PROVE n + d \in C
    <3>1. d \in 0 .. e - 1 /\ (g + d) % SPACE \in M
      <4> HIDE DEF g
      <4> QED BY DEF Noted
    <3>2. (f + (n + d)) % SPACE \in M /\ n + d \in 0 .. (n + e) - 1
      BY <1>1, <3>1
    <3> QED BY <3>2 DEF Noted
  <2> QED BY <2>1, <2>2, <2>3
<1>3. A \subseteq 0 .. n - 1 /\ B \subseteq 0 .. e - 1
  BY DEF Noted
<1>4. IsFiniteSet(A) /\ IsFiniteSet(B) /\ Cardinality(A) \in Nat /\ Cardinality(B) \in Nat
  BY NotedFinite
<1>5. C \subseteq 0 .. (n + e) - 1
  BY DEF Noted
<1> HIDE DEF A, B, C, g
<1>6. IsFiniteSet(H) /\ Cardinality(H) = Cardinality(B)
  <2> DEFINE F == [d \in B |-> n + d]
  <2>1. F \in Bijection(B, H)
    <3>1. F \in [B -> H]
      OBVIOUS
    <3>2. \A a, b \in B : F[a] = F[b] => a = b
      BY <1>3
    <3>3. \A t \in H : \E d \in B : F[d] = t
      OBVIOUS
    <3> HIDE DEF F, H
    <3>4. F \in Injection(B, H)
      BY <3>1, <3>2, Fun_IsInj
    <3>5. F \in Surjection(B, H)
      BY <3>1, <3>3, Fun_IsSurj
    <3> QED BY <3>4, <3>5 DEF Bijection
  <2> HIDE DEF F, H
  <2>2. ExistsBijection(B, H)
    BY <2>1 DEF ExistsBijection
  <2> QED BY <1>4, <2>2, FS_Bijection, FS_SameCardinalityBij
<1>7. A \cap H = {}
  BY <1>3
<1>8. Cardinality(C) = Cardinality(A) + Cardinality(B)
  <2> HIDE DEF H
  <2>1. Cardinality(A \cup H) = Cardinality(A) + Cardinality(H) - Cardinality(A \cap H)
    BY <1>4, <1>6, FS_Union
  <2> QED BY <1>2, <1>4, <1>6, <1>7, <2>1, FS_EmptySet
<1>9. B = {} => C = A
  BY <1>2
<1>10. ASSUME B # {} PROVE C # {} /\ LastOf(C) = n + LastOf(B)
  <2>1. LastOf(B) \in B /\ \A d \in B : d <= LastOf(B)
    BY <1>3, <1>10, LastExists
  <2>2. n + LastOf(B) \in C
    BY <1>2, <2>1
  <2>3. n + e \in Nat /\ C \in SUBSET (0 .. (n + e) - 1)
    BY <1>5
  <2>4. LastOf(C) \in C /\ \A d \in C : d <= LastOf(C)
    <3> DEFINE ne == n + e
    <3> HIDE DEF ne
    <3> QED BY <2>2, <2>3, LastExists DEF ne
  <2>5. LastOf(B) \in Nat /\ LastOf(C) \in Int
    <3>1. LastOf(B) \in 0 .. e - 1 /\ LastOf(C) \in 0 .. (n + e) - 1
      BY <1>3, <1>5, <2>1, <2>4, Zenon
    <3> QED BY <3>1
  <2>6. ASSUME NEW d \in C PROVE d <= n + LastOf(B)
    <3>1. CASE d \in A
      <4>1. d \in Int /\ d < n
        BY <1>3, <3>1
      <4> QED BY <4>1, <2>5
    <3>2. CASE d \in H
      <4>1. PICK x \in B : d = n + x
        BY <3>2
      <4>2. x \in Int /\ x <= LastOf(B)
        BY <1>3, <2>1, <4>1
      <4> QED BY <4>1, <4>2, <2>5
    <3> QED BY <1>2, <3>1, <3>2
  <2>7. LastOf(C) = n + LastOf(B)
    <3>1. LastOf(C) <= n + LastOf(B) /\ n + LastOf(B) <= LastOf(C)
      BY <2>2, <2>4, <2>6
    <3> QED BY <2>5, <3>1
  <2> QED BY <2>2, <2>7
<1> QED BY <1>8, <1>9, <1>10 DEF A, B, C, g

(* Slices *)

\* The keys of a slice fit a word.
LEMMA WordOfSlice ==
  ASSUME NEW w, w.iterations \in Counts, w.keysdone \in Counts, NEW t \in Suggested
  PROVE  RoundedUp(Clamped(w, t)) \in Words
<1>0. WORD \in Nat \ {0} /\ MINIMUM_ITERATIONS \in 1 .. WORD - 1 /\ t \in Words
  BY Sizes, Rc5Assumption DEF Words
<1>1. Clamped(w, t) \in Words
  <2>1. WORD + w.iterations.lo - w.keysdone.lo \in Int
    BY <1>0, CountType
  <2>2. (WORD + w.iterations.lo - w.keysdone.lo) % WORD \in Words
    BY <1>0, <2>1, DivMod DEF Words
  <2> QED BY <1>0, <2>2 DEF Clamped
<1>2. \A n \in Words : RoundedUp(n) \in Words
  <2> TAKE n \in Words
  <2> DEFINE over == n % MINIMUM_ITERATIONS
  <2>1. over \in Int
    BY <1>0, DivMod DEF Words
  <2> HIDE DEF over
  <2>2. (n + MINIMUM_ITERATIONS - over) % WORD \in Words
    BY <1>0, <2>1, DivMod DEF Words
  <2>3. RoundedUp(n) \in {MINIMUM_ITERATIONS, n, (n + MINIMUM_ITERATIONS - over) % WORD}
    BY DEF RoundedUp, over
  <2> QED BY <1>0, <2>2, <2>3 DEF Words
<1> QED BY <1>1, <1>2

\* The count of a record after a slice is that of its keys done.
LEMMA DoneCount ==
  ASSUME NEW w, w.iterations \in Counts, w.keysdone \in Counts
  PROVE  /\ AllDone(w) <=> Count(w.keysdone) >= Count(w.iterations)
         /\ Count(w.keysdone) < Count(w.iterations) =>
              w.keysdone.hi <= w.iterations.hi
<1> DEFINE a == w.keysdone.hi
           b == w.keysdone.lo
           c == w.iterations.hi
           d == w.iterations.lo
           W == WORD
<1>0. /\ W \in Nat \ {0} /\ a \in 0 .. W - 1 /\ b \in 0 .. W - 1
      /\ c \in 0 .. W - 1 /\ d \in 0 .. W - 1
  BY Sizes, CountType
<1>1. Count(w.keysdone) = a * W + b /\ Count(w.iterations) = c * W + d
  BY DEF Count
<1>2. AllDone(w) <=> (a > c \/ (a = c /\ b >= d))
  BY DEF AllDone
<1> HIDE DEF a, b, c, d, W
<1>3. \A x, y \in Int : x < y => x * W + W <= y * W /\ x * W \in Int /\ y * W \in Int
  <2> TAKE x, y \in Int
  <2> HAVE x < y
  <2>1. (y - x - 1) * W >= 0 /\ (y - x - 1) * W = y * W - x * W - W
    BY <1>0
  <2> QED BY <1>0, <2>1
<1>4. a * W \in Int /\ c * W \in Int
  BY <1>0
<1>5. CASE a > c
  <2>1. c * W + W <= a * W
    BY <1>0, <1>3, <1>5
  <2> QED BY <1>0, <1>1, <1>2, <1>4, <1>5, <2>1
<1>6. CASE a < c
  <2>1. a * W + W <= c * W
    BY <1>0, <1>3, <1>6
  <2> QED BY <1>0, <1>1, <1>2, <1>4, <1>6, <2>1 DEF a, c
<1>7. CASE a = c
  BY <1>0, <1>1, <1>2, <1>4, <1>7 DEF a, c
<1> QED BY <1>0, <1>5, <1>6, <1>7

\* A slice of a server's packet ends less than MINIMUM_ITERATIONS beyond it.
LEMMA SliceEnds ==
  ASSUME NEW w, w.iterations \in Counts, w.keysdone \in Counts, NEW t \in Suggested,
         w.iterations.lo = 0, Count(w.keysdone) < Count(w.iterations)
  PROVE  Count(w.keysdone) + RoundedUp(Clamped(w, t)) < Count(w.iterations) + MINIMUM_ITERATIONS
<1> DEFINE a == w.keysdone.hi
           b == w.keysdone.lo
           c == w.iterations.hi
           W == WORD
           n == Clamped(w, t)
           N == RoundedUp(n)
           MIN == MINIMUM_ITERATIONS
<1>0. /\ W \in Nat \ {0} /\ a \in 0 .. W - 1 /\ b \in 0 .. W - 1 /\ c \in 0 .. W - 1
      /\ t \in Nat /\ t + MIN < W /\ MIN \in 1 .. W - 1
  BY Sizes, CountType, Rc5Assumption
<1>1. Count(w.keysdone) = a * W + b /\ Count(w.iterations) = c * W
  BY Sizes, CountType DEF Count
<1>2. a * W + b < c * W
  BY <1>1
<1>3. n = IF (W + c - a) % W <= 1 /\ (b + t) % W < t THEN (W + 0 - b) % W ELSE t
  BY DEF Clamped
<1>4. N = IF n < MIN THEN MIN
          ELSE IF n % MIN = 0 THEN n ELSE (n + MIN - (n % MIN)) % W
  BY DEF RoundedUp
<1> HIDE DEF a, b, c, W, n, N, MIN
<1>5. a < c
  <2>1. (a - c) * W = a * W - c * W /\ (a - c) * W \in Int /\ a * W \in Int /\ c * W \in Int
    BY <1>0
  <2>2. a >= c => (a - c) * W >= 0
    BY <1>0
  <2> QED BY <1>0, <1>2, <2>1, <2>2
<1>6. (W + c - a) % W = c - a
  <2>1. c - a \in 0 .. W - 1 /\ W + c - a = (c - a) + W
    BY <1>0, <1>5
  <2>2. ((c - a) + W) % W = c - a
    BY <1>0, <2>1, ModSmall
  <2> QED BY <2>1, <2>2
<1>7. (b + t) % W < t <=> b + t >= W
  <2>1. W \in Nat \ {0} /\ b \in 0 .. W - 1 /\ t \in 0 .. W - 1
    BY <1>0
  <2>2. /\ (b + t) % W \in 0 .. W - 1
        /\ (b + t) % W = b + t \/ (b + t) % W = b + t - W
        /\ ((b + t) % W < t) <=> ((b + t) % W = b + t - W)
    BY <2>1, CarryOut
  <2>3. CASE (b + t) % W = b + t
    BY <1>0, <2>2, <2>3
  <2>4. CASE (b + t) % W = b + t - W
    BY <1>0, <2>2, <2>4
  <2> QED BY <2>2, <2>3, <2>4
<1>8. n \in Nat /\ n + MIN <= W
  <2>1. CASE (W + c - a) % W <= 1 /\ (b + t) % W < t
    <3>1. b + t >= W /\ b > MIN /\ W + 0 - b \in 0 .. W - 1
      BY <1>0, <1>7, <2>1
    <3>2. n = W - b
      BY <1>0, <1>3, <2>1, <3>1, ModSmall
    <3> QED BY <1>0, <3>1, <3>2
  <2>2. CASE ~((W + c - a) % W <= 1 /\ (b + t) % W < t)
    BY <1>0, <1>3, <2>2
  <2> QED BY <2>1, <2>2
<1>9. N \in 0 .. W - 1 /\ (N = MIN \/ N < n + MIN)
  <2> DEFINE o == n % MIN
  <2>1. o \in 0 .. MIN - 1
    BY <1>0, <1>8, DivMod
  <2>2. N = IF n < MIN THEN MIN ELSE IF o = 0 THEN n ELSE (n + MIN - o) % W
    BY <1>4
  <2> HIDE DEF o
  <2>3. CASE n >= MIN /\ o # 0
    <3>1. n + MIN - o \in 0 .. W - 1
      BY <1>0, <1>8, <2>1, <2>3
    <3>2. (n + MIN - o) % W = n + MIN - o
      BY <1>0, <3>1, ModSmall
    <3> QED BY <1>0, <1>8, <2>1, <2>2, <2>3, <3>1, <3>2
  <2>4. CASE ~(n >= MIN /\ o # 0)
    BY <1>0, <1>8, <2>1, <2>2, <2>4
  <2> QED BY <2>3, <2>4
<1>10. CASE c - a >= 2
  <2>1. (c - a - 2) * W >= 0 /\ (c - a - 2) * W = c * W - a * W - 2 * W
    BY <1>0, <1>10
  <2>2. a * W \in Int /\ c * W \in Int /\ 2 * W = W + W
    BY <1>0
  <2>3. a * W + b + N < c * W + MIN
    BY <1>0, <1>9, <2>1, <2>2
  <2> QED BY <1>1, <2>3 DEF N, n, MIN
<1>11. CASE c - a = 1
  <2>1. c * W = a * W + W /\ a * W \in Int
    BY <1>0, <1>11
  <2>2. b + N < W + MIN
    <3>1. CASE b + t >= W
      <4>1. n = W - b
        <5>1. W + 0 - b \in 0 .. W - 1
          BY <1>0, <3>1
        <5> QED BY <1>0, <1>3, <1>6, <1>7, <1>11, <3>1, <5>1, ModSmall
      <4> QED BY <1>0, <1>8, <1>9, <4>1
    <3>2. CASE b + t < W
      <4>1. n = t
        BY <1>0, <1>3, <1>7, <3>2
      <4> QED BY <1>0, <1>8, <1>9, <3>2, <4>1
    <3> QED BY <1>0, <3>1, <3>2
  <2>3. a * W + b + N < c * W + MIN
    BY <1>0, <1>9, <2>1, <2>2
  <2> QED BY <1>1, <2>3 DEF N, n, MIN
<1> QED BY <1>0, <1>5, <1>10, <1>11

-----------------------------------------------------------------------------
(* The inductive invariant, and what loading and saving make of it.          *)

\* The keys a core notes: those that match by chance, and the one searched for.
Marks == (Partial \cup {secret}) \ {NoKey}

\* A check that names what was noted among the first n keys of the packet.
CheckIs(M, f, n, c) ==
  /\ c.count = Cardinality(Noted(M, f, n))
  /\ Noted(M, f, n) # {} => Num(c.key) = (f + LastOf(Noted(M, f, n))) % SPACE

\* What the work record of a packet says while the packet is in progress.
Progress(w) ==
  /\ w.key = packet.key /\ w.iterations = packet.iterations
  /\ Count(w.keysdone) < Count(w.iterations)
  /\ secret = NoKey \/ Distance(First, secret) >= Count(w.keysdone)
  /\ w.check.key \in ProperKeys
  /\ CheckIs(Marks, First, Count(w.keysdone), w.check)

\* The record in memory, and the core's copy of it.
InMemory ==
  /\ packet.key \in ProperKeys /\ work.iterations = packet.iterations
  /\ unit.L0 \in ProperKeys /\ unit.check.key \in ProperKeys
  /\ work.check = SwitchCheck(unit.check)
  /\ resultcode = "WORKING" => Progress(work)

RC5Inv ==
  /\ RC5TypeOK
  /\ state \in {"buffered", "refused"} => resultcode = "WORKING"
  /\ state = "buffered" => Progress(saved)
  /\ state = "loaded" => InMemory
  /\ KeysExact /\ CheckExact
  /\ NoKeySkipped /\ FoundIsKey /\ ServerPacketsEnd

\* The numbers a packet consists of.
LEMMA NumbersOfPacket ==
  ASSUME RC5TypeOK
  PROVE  /\ First \in 0 .. SPACE - 1 /\ packet.key \in Keys /\ packet.iterations \in Counts
         /\ Marks \subseteq 0 .. SPACE - 1
         /\ secret # NoKey => secret \in 0 .. SPACE - 1
         /\ Count(packet.iterations) > 0 /\ packet.iterations.hi < WORD - 1
<1>1. packet \in [key : Keys, iterations : Counts] /\ packet \in Packets
  BY Rc5Assumption DEF RC5TypeOK
<1>2. packet.key \in Keys /\ packet.iterations \in Counts
  BY <1>1
<1>3. First \in 0 .. SPACE - 1
  BY <1>2, NumType DEF First
<1>4. secret # NoKey => secret \in 0 .. SPACE - 1
  BY Sizes DEF RC5TypeOK, NoKey
<1>5. Marks \subseteq 0 .. SPACE - 1
  BY <1>4, Rc5Assumption DEF Marks
<1>6. packet.iterations # [hi |-> 0, lo |-> 0] /\ packet.iterations.hi < WORD - 1
  BY <1>1, Rc5Assumption
<1>7. Count(packet.iterations) > 0
  <2> DEFINE c == packet.iterations
  <2>1. c \in Counts /\ c # [hi |-> 0, lo |-> 0]
    BY <1>2, <1>6
  <2> HIDE DEF c
  <2>2. c = [hi |-> c.hi, lo |-> c.lo] /\ c.hi \in Nat /\ c.lo \in Nat
    BY <2>1, Sizes DEF Counts, Words
  <2>3. c.hi # 0 \/ c.lo # 0
    BY <2>1, <2>2
  <2>4. c.hi * WORD >= c.hi
    BY <2>2, Sizes
  <2>5. Count(c) > 0
    BY <2>2, <2>3, <2>4, Sizes DEF Count
  <2> QED BY <2>5 DEF c
<1> QED BY <1>2, <1>3, <1>4, <1>5, <1>6, <1>7

\* A record on which nothing is done yet.
LEMMA BeginsAnew ==
  ASSUME RC5TypeOK, NEW w, w.key = packet.key, w.iterations = packet.iterations,
         w.keysdone = [hi |-> 0, lo |-> 0], w.check = NoCheck
  PROVE  Progress(w)
<1>1. Count(w.keysdone) = 0
  BY Sizes DEF Count
<1>2. Zero \in ProperKeys
  BY Sizes, ProperKey DEF Zero, Bytes, Words
<1>3. Noted(Marks, First, 0) = {} /\ Cardinality({}) = 0
  BY FS_EmptySet DEF Noted
<1>4. secret # NoKey => Distance(First, secret) >= 0
  BY NumbersOfPacket, Distances
<1>5. w.check.count = 0 /\ w.check.key = Zero
  BY DEF NoCheck
<1>6. CheckIs(Marks, First, Count(w.keysdone), w.check)
  BY <1>1, <1>3, <1>5 DEF CheckIs
<1>7. secret = NoKey \/ Distance(First, secret) >= Count(w.keysdone)
  BY <1>1, <1>4
<1>8. Count(w.keysdone) < Count(w.iterations)
  BY <1>1, NumbersOfPacket
<1> QED BY <1>2, <1>5, <1>6, <1>7, <1>8 DEF Progress

\* The packets before their first load.
LEMMA InitInv == RC5Init => RC5Inv
<1> SUFFICES ASSUME RC5Init PROVE RC5Inv
  OBVIOUS
<1>1. packet \in Packets /\ packet \in [key : Keys, iterations : Counts]
  BY Rc5Assumption DEF RC5Init
<1>2. Zero \in Keys /\ [hi |-> 0, lo |-> 0] \in Counts
  BY Sizes DEF Zero, Keys, Counts, Words
<1>3. saved \in Works /\ saved = Fresh(packet) /\ work = saved
  BY <1>1, <1>2 DEF RC5Init, Fresh, Works, NoCheck
<1>4. secret \in 0 .. NoKey
  <2>1. CASE secret = NoKey
    BY <2>1, Sizes DEF NoKey
  <2>2. CASE secret # NoKey
    <3>1. PICK d \in 0 .. Count(packet.iterations) - 1 : secret = (Num(packet.key) + d) % SPACE
      BY <2>2 DEF RC5Init
    <3>2. Num(packet.key) + d \in Int
      BY <1>1, NumType
    <3>3. secret \in 0 .. SPACE - 1
      BY <3>1, <3>2, ModNat
    <3> QED BY <3>3, Sizes DEF NoKey
  <2> QED BY <2>1, <2>2
<1>5. RC5TypeOK
  BY <1>1, <1>2, <1>3, <1>4, Rc5Assumption DEF RC5Init, RC5TypeOK, NoCheck
<1>6. Progress(saved)
  BY <1>3, <1>5, BeginsAnew DEF Fresh
<1>7. state = "buffered" /\ resultcode = "WORKING"
  BY DEF RC5Init
<1> QED BY <1>5, <1>6, <1>7
        DEF RC5Inv, KeysExact, CheckExact, NoKeySkipped, FoundIsKey, ServerPacketsEnd, NoExtraKeys

\* Loading a packet, with the same core or another one.
LEMMA LoadInv ==
  ASSUME RC5Inv, NEW sameCore \in BOOLEAN, LoadState(sameCore)
  PROVE  RC5Inv'
<1> DEFINE w == IF sameCore THEN saved ELSE Reset(saved)
<1>1. /\ RC5TypeOK /\ Progress(saved) /\ state = "buffered" /\ resultcode = "WORKING"
      /\ NoKeySkipped /\ FoundIsKey
      /\ UNCHANGED <<packet, secret, saved, resultcode>> /\ loads' = loads + 1 /\ loads < MaxLoads
  BY DEF RC5Inv, LoadState
<1>2. w \in Works /\ Progress(w)
  <2>1. CASE sameCore
    BY <1>1, <2>1 DEF RC5TypeOK
  <2>2. CASE ~sameCore
    <3>1. saved \in Works /\ saved.key = packet.key /\ saved.iterations = packet.iterations
      BY <1>1 DEF RC5TypeOK, Progress
    <3>2. Zero \in Keys /\ [hi |-> 0, lo |-> 0] \in Counts
      BY Sizes DEF Zero, Keys, Counts, Words
    <3>3. w = [saved EXCEPT !.keysdone = [hi |-> 0, lo |-> 0], !.check = NoCheck]
      BY <2>2 DEF Reset
    <3>4. w \in Works
      <4>1. NoCheck \in [count : Nat, key : Keys]
        BY <3>2 DEF NoCheck
      <4> HIDE DEF w
      <4> QED BY <3>1, <3>2, <3>3, <4>1 DEF Works
    <3>5. /\ w.key = packet.key /\ w.iterations = packet.iterations
          /\ w.keysdone = [hi |-> 0, lo |-> 0] /\ w.check = NoCheck
      BY <3>1, <3>3 DEF Works
    <3> HIDE DEF w
    <3> QED BY <1>1, <3>4, <3>5, BeginsAnew
  <2> QED BY <2>1, <2>2
<1>3. \/ state' = "refused" /\ UNCHANGED <<work, unit, refL0>>
      \/ /\ ~Corrupted(w) /\ state' = "loaded" /\ work' = w
         /\ refL0' = SwitchRC572Format(StartKey(w))
         /\ unit' = [L0 |-> refL0', check |-> SwitchCheck(w.check)]
  BY DEF LoadState
<1> HIDE DEF w
<1>4. NoKeySkipped' /\ FoundIsKey'
  BY <1>1 DEF NoKeySkipped, FoundIsKey
<1>5. loads' \in 0 .. MaxLoads
  BY <1>1, Rc5Assumption DEF RC5TypeOK
<1>6. CASE state' = "refused" /\ UNCHANGED <<work, unit, refL0>>
  <2>1. RC5TypeOK'
    BY <1>1, <1>5, <1>6 DEF RC5TypeOK
  <2> QED BY <1>1, <1>4, <1>6, <2>1
          DEF RC5Inv, KeysExact, CheckExact, ServerPacketsEnd, NoExtraKeys
<1>7. CASE /\ ~Corrupted(w) /\ state' = "loaded" /\ work' = w
           /\ refL0' = SwitchRC572Format(StartKey(w))
           /\ unit' = [L0 |-> refL0', check |-> SwitchCheck(w.check)]
  <2>1. /\ w.key \in ProperKeys /\ w.keysdone \in Counts /\ w.iterations \in Counts
        /\ w.check \in [count : Nat, key : Keys] /\ w.check.key \in ProperKeys
        /\ w.key = packet.key /\ w.iterations = packet.iterations
    BY <1>2, <1>7, Sizes DEF Works, Corrupted, ProperKeys, Keys, Words, Bytes, Progress
  <2>2. /\ StartKey(w) \in ProperKeys
        /\ Num(StartKey(w)) = (First + Count(w.keysdone)) % SPACE
    BY <2>1, StartKeyAdds DEF First
  <2>3. refL0' \in ProperKeys /\ SwitchRC572Format(refL0') = StartKey(w) /\ unit'.L0 = refL0'
    BY <1>7, <2>2, SwitchSwitch
  <2>4. /\ unit'.check = [count |-> w.check.count, key |-> SwitchRC572Format(w.check.key)]
        /\ unit'.check.key \in ProperKeys
        /\ w.check = SwitchCheck(unit'.check)
    <3>1. SwitchCheck(w.check) = [count |-> w.check.count, key |-> SwitchRC572Format(w.check.key)]
      BY <2>1 DEF SwitchCheck
    <3>2. unit'.check = SwitchCheck(w.check)
      BY <1>7
    <3>3. /\ SwitchRC572Format(w.check.key) \in ProperKeys
          /\ SwitchRC572Format(SwitchRC572Format(w.check.key)) = w.check.key
      BY <2>1, SwitchSwitch
    <3>4. w.check = [count |-> w.check.count, key |-> w.check.key]
      BY <2>1
    <3> QED BY <3>1, <3>2, <3>3, <3>4 DEF SwitchCheck
  <2>5. RC5TypeOK'
    <3>1. unit' \in [L0 : Keys, check : [count : Nat, key : Keys]] /\ refL0' \in Keys
      BY <1>7, <2>1, <2>3, <2>4 DEF ProperKeys
    <3> QED BY <1>1, <1>2, <1>5, <1>7, <3>1 DEF RC5TypeOK
  <2>6. Progress(work)' /\ InMemory'
    <3>1. Progress(work)'
      BY <1>1, <1>2, <1>7 DEF Progress, CheckIs, Marks, First, Noted
    <3> QED BY <1>1, <1>7, <2>1, <2>3, <2>4, <3>1 DEF InMemory
  <2>7. KeysExact'
    BY <1>1, <1>7, <2>2, <2>3 DEF KeysExact, First
  <2>8. CheckExact'
    <3>1. CheckIs(Marks, First, Count(w.keysdone), w.check)
      BY <1>2 DEF Progress
    <3>2. Count(w.keysdone) - 1 = Count(w.keysdone) - (IF resultcode' = "FOUND" THEN 0 ELSE 1)
      BY <1>1
    <3> QED BY <1>1, <1>7, <3>1, <3>2 DEF CheckExact, CheckIs, Noted, LastOf, Marks, First
  <2>9. ServerPacketsEnd'
    <3>1. Count(w.keysdone) < Count(w.iterations) + MINIMUM_ITERATIONS
      BY <1>2, <2>1, CountType, Sizes DEF Progress
    <3> QED BY <1>1, <1>7, <3>1 DEF ServerPacketsEnd, NoExtraKeys
  <2> QED BY <1>1, <1>4, <1>7, <2>5, <2>6, <2>7, <2>8, <2>9 DEF RC5Inv
<1> QED BY <1>3, <1>6, <1>7

\* Writing a packet back.
LEMMA RetrieveInv ==
  ASSUME RC5Inv, RetrieveState
  PROVE  RC5Inv'
<1>1. /\ RC5TypeOK /\ NoKeySkipped /\ FoundIsKey /\ state = "loaded" /\ InMemory
      /\ UNCHANGED <<packet, secret, work, unit, refL0, resultcode, loads>>
      /\ saved' = work /\ state' = (IF resultcode = "WORKING" THEN "buffered" ELSE "done")
  BY DEF RC5Inv, RetrieveState
<1>2. RC5TypeOK'
  BY <1>1 DEF RC5TypeOK
<1>3. NoKeySkipped' /\ FoundIsKey'
  BY <1>1 DEF NoKeySkipped, FoundIsKey, First
<1>4. state' = "buffered" => Progress(saved)' /\ resultcode' = "WORKING"
  BY <1>1 DEF Progress, InMemory, CheckIs, Marks, First, Noted
<1>5. state' # "loaded" /\ state' # "refused"
  BY <1>1
<1> QED BY <1>2, <1>3, <1>4, <1>5
        DEF RC5Inv, KeysExact, CheckExact, ServerPacketsEnd, NoExtraKeys

(* A slice *)

\* What a credited answer of a slice of n keys says.
Good(r, n) ==
  LET f == Num(SwitchRC572Format(unit.L0))
      N == Noted(Marks, f, r.done + IF r.rescode = "FOUND" THEN 1 ELSE 0)
  IN /\ r.done \in 0 .. n /\ r.rescode \in {"FOUND", "NOTHING", "WORKING"}
     /\ r.L0 = IncrementKey(unit.L0, r.done)
     /\ r.rescode = "FOUND" => secret # NoKey /\ Distance(f, secret) = r.done
     /\ r.rescode # "FOUND" => secret = NoKey \/ Distance(f, secret) >= r.done
     /\ r.check = IF N = {} THEN unit.check
                  ELSE [count |-> unit.check.count + Cardinality(N),
                        key |-> IncrementKey(unit.L0, LastOf(N))]

\* The distances a core notes are those of the keys it passes.
LEMMA NotedDistances ==
  ASSUME NEW M, M \subseteq 0 .. SPACE - 1, NEW f \in 0 .. SPACE - 1,
         NEW n \in Nat, n <= SPACE
  PROVE  {Distance(f, k) : k \in M} \cap 0 .. n - 1 = Noted(M, f, n)
<1>1. ASSUME NEW k \in M, Distance(f, k) \in 0 .. n - 1
      PROVE  Distance(f, k) \in Noted(M, f, n)
  <2>1. (f + Distance(f, k)) % SPACE = k
    BY Distances
  <2> QED BY <1>1, <2>1 DEF Noted
<1>2. ASSUME NEW d \in Noted(M, f, n)
      PROVE  d \in 0 .. n - 1 /\ \E k \in M : d = Distance(f, k)
  <2>1. d \in 0 .. n - 1 /\ (f + d) % SPACE \in M
    BY DEF Noted
  <2>2. d \in 0 .. SPACE - 1
    BY <2>1, Sizes
  <2>3. d = Distance(f, (f + d) % SPACE)
    BY <2>1, <2>2, Distances
  <2> QED BY <2>1, <2>3
<1> QED BY <1>1, <1>2

\* What a core reports of a slice it tested is right.
LEMMA TestedGood ==
  ASSUME RC5TypeOK, unit.L0 \in ProperKeys, NEW n \in Words
  PROVE  /\ Good(Tested(unit, n), n)
         /\ Tested(unit, n).rescode # "FOUND" => Tested(unit, n).done = n
<1> DEFINE f == Num(SwitchRC572Format(unit.L0))
           found == secret # NoKey /\ Distance(f, secret) < n
           done == IF found THEN Distance(f, secret) ELSE n
           m == done + IF found THEN 1 ELSE 0
           noted == {Distance(f, k) : k \in Marks} \cap 0 .. IF found THEN done ELSE n - 1
           N == Noted(Marks, f, m)
           check == IF N = {} THEN unit.check
                    ELSE [count |-> unit.check.count + Cardinality(N),
                          key |-> IncrementKey(unit.L0, LastOf(N))]
           r == [rescode |-> IF found THEN "FOUND" ELSE "NOTHING", done |-> done,
                 L0 |-> IncrementKey(unit.L0, done), check |-> check]
<1>1. f \in 0 .. SPACE - 1
  BY SwitchSwitch, NumType DEF ProperKeys
<1>2. n \in Nat /\ n < SPACE /\ SPACE \in Nat
  <2>1. WORD * WORD >= 0
    BY Sizes
  <2> QED BY <2>1, Sizes DEF Words
<1>3. secret # NoKey => Distance(f, secret) \in 0 .. SPACE - 1
  BY <1>1, NumbersOfPacket, Distances
<1> HIDE DEF f
<1>4. done \in 0 .. n /\ m \in Nat /\ m <= SPACE
  BY <1>2, <1>3
<1>5. (IF found THEN done ELSE n - 1) = m - 1
  BY <1>2, <1>3
<1>6. noted = N
  <2>1. Marks \subseteq 0 .. SPACE - 1
    BY NumbersOfPacket
  <2> HIDE DEF m, done, found
  <2> QED BY <1>1, <1>4, <1>5, <2>1, NotedDistances
<1>7. Tested(unit, n) = r
  <2>1. Tested(unit, n) =
          [rescode |-> IF found THEN "FOUND" ELSE "NOTHING", done |-> done,
           L0 |-> IncrementKey(unit.L0, done),
           check |-> IF noted = {} THEN unit.check
                     ELSE [count |-> unit.check.count + Cardinality(noted),
                           key |-> IncrementKey(unit.L0, LastOf(noted))]]
    BY DEF Tested, Marks, LastOf, f
  <2> HIDE DEF noted, N
  <2> QED BY <1>6, <2>1
<1>8. Good(r, n)
  <2>1. /\ r.done = done /\ r.rescode = (IF found THEN "FOUND" ELSE "NOTHING")
        /\ r.L0 = IncrementKey(unit.L0, done) /\ r.check = check
    OBVIOUS
  <2>2. r.done + (IF r.rescode = "FOUND" THEN 1 ELSE 0) = m
    BY <2>1
  <2>3. /\ r.rescode = "FOUND" => secret # NoKey /\ Distance(f, secret) = r.done
        /\ r.rescode # "FOUND" => secret = NoKey \/ Distance(f, secret) >= r.done
    BY <1>2, <1>3, <2>1
  <2> HIDE DEF r, m, done
  <2> QED BY <1>4, <2>1, <2>2, <2>3 DEF Good, f
<1> QED BY <1>7, <1>8

\* What reaches Run_RC5_72() of it is right too.
LEMMA AnswerGood ==
  ASSUME RC5TypeOK, unit.L0 \in ProperKeys, refL0 = unit.L0, NEW n \in Words,
         NEW r \in Answers(unit, n), ~Mismatch(IncrementKey(refL0, r.done), r)
  PROVE  Good(r, n)
<1> DEFINE f == Num(SwitchRC572Format(unit.L0))
           idle == [rescode |-> "WORKING", done |-> 0, L0 |-> unit.L0, check |-> unit.check]
<1>1. f \in 0 .. SPACE - 1 /\ 0 \in Words
  BY SwitchSwitch, NumType, Sizes DEF ProperKeys, Words
<1>2. CASE r = Tested(unit, n)
  BY <1>2, TestedGood
<1>3. CASE r = idle
  <2>1. Noted(Marks, f, 0) = {}
    BY DEF Noted
  <2>2. secret = NoKey \/ Distance(f, secret) >= 0
    BY <1>1, NumbersOfPacket, Distances
  <2>3. /\ r.rescode = "WORKING" /\ r.done = 0 /\ r.L0 = unit.L0 /\ r.check = unit.check
        /\ r.done + (IF r.rescode = "FOUND" THEN 1 ELSE 0) = 0
    BY <1>3
  <2>4. r.L0 = IncrementKey(unit.L0, r.done)
    BY <2>3 DEF Mismatch
  <2>5. r.done \in 0 .. n
    BY <2>3, Sizes DEF Words
  <2> HIDE DEF f
  <2> QED BY <2>1, <2>2, <2>3, <2>4, <2>5 DEF Good, f
<1>4. ASSUME NEW m \in {1, n - 1}, 0 < m, m < n, Tested(unit, m).rescode = "NOTHING",
             r = [Tested(unit, m) EXCEPT !.done = n]
      PROVE  FALSE
  <2>1. m \in Words /\ m # n
    BY <1>4, Sizes DEF Words
  <2>2. Tested(unit, m).done = m /\ Tested(unit, m).L0 = IncrementKey(unit.L0, m)
    <3>1. Good(Tested(unit, m), m) /\ Tested(unit, m).done = m
      BY <1>4, <2>1, TestedGood
    <3> QED BY <3>1 DEF Good
  <2>3. r.rescode = "NOTHING" /\ r.done = n /\ r.L0 = IncrementKey(unit.L0, m)
    BY <1>4, <2>2 DEF Tested
  <2>4. IncrementKey(unit.L0, n) = IncrementKey(unit.L0, m)
    BY <2>3 DEF Mismatch
  <2>5. (f + n) % SPACE = (f + m) % SPACE
    BY <2>1, <2>4, IncrementAdds
  <2>6. n \in 0 .. SPACE - 1 /\ m \in 0 .. SPACE - 1 /\ f + n \in Int
    <3>1. WORD * WORD >= 0
      BY Sizes
    <3> QED BY <1>1, <2>1, <3>1, Sizes DEF Words
  <2>7. (f + n) % SPACE \in 0 .. SPACE - 1
    BY <2>6, ModNat
  <2> HIDE DEF f
  <2>8. n = m
    <3> DEFINE g == (f + n) % SPACE
    <3>1. n = Distance(f, g)
      <4>1. g \in 0 .. SPACE - 1 /\ (f + n) % SPACE = g
        BY <2>7
      <4> HIDE DEF g
      <4> QED BY <1>1, <2>6, <4>1, Distances
    <3>2. m = Distance(f, g)
      <4>1. g \in 0 .. SPACE - 1 /\ (f + m) % SPACE = g
        BY <2>5, <2>7
      <4> HIDE DEF g
      <4> QED BY <1>1, <2>6, <4>1, Distances
    <3> QED BY <3>1, <3>2
  <2> QED BY <2>1, <2>8
<1> QED BY <1>2, <1>3, <1>4 DEF Answers

-----------------------------------------------------------------------------
(* A slice, and the theorems.                                                *)

\* The check of a record after an answer names what was noted up to there.
LEMMA CheckGoesOn ==
  ASSUME RC5TypeOK, InMemory, Progress(work), KeysExact, state = "loaded",
         NEW n \in Words, NEW r, Good(r, n)
  PROVE  LET e == r.done + IF r.rescode = "FOUND" THEN 1 ELSE 0
         IN /\ r.check \in [count : Nat, key : Keys] /\ r.check.key \in ProperKeys
            /\ SwitchCheck(r.check) \in [count : Nat, key : Keys]
            /\ SwitchCheck(r.check).key \in ProperKeys
            /\ CheckIs(Marks, First, Count(work.keysdone) + e, SwitchCheck(r.check))
<1> DEFINE K == Count(work.keysdone)
           f == Num(SwitchRC572Format(unit.L0))
           e == r.done + IF r.rescode = "FOUND" THEN 1 ELSE 0
           N == Noted(Marks, f, e)
           C == Noted(Marks, First, K + e)
           c == SwitchCheck(r.check)
           last == LastOf(N)
<1>1. /\ K \in Nat /\ First \in Int /\ f = (First + K) % SPACE
      /\ unit.L0 \in ProperKeys /\ unit.check.key \in ProperKeys
      /\ unit.check \in [count : Nat, key : Keys]
      /\ work.check = SwitchCheck(unit.check) /\ CheckIs(Marks, First, K, work.check)
      /\ work.check \in [count : Nat, key : Keys] /\ work.check.key \in ProperKeys
  BY NumbersOfPacket, CountType DEF KeysExact, InMemory, Progress, RC5TypeOK, Works
<1>2. /\ r.done \in Nat /\ r.done <= n /\ e \in Nat /\ e - 1 <= n
      /\ r.check = IF N = {} THEN unit.check
                   ELSE [count |-> unit.check.count + Cardinality(N),
                         key |-> IncrementKey(unit.L0, last)]
  BY Sizes DEF Good, Words
<1>3. /\ Cardinality(C) = Cardinality(Noted(Marks, First, K)) + Cardinality(N)
      /\ N = {} => C = Noted(Marks, First, K)
      /\ N # {} => C # {} /\ LastOf(C) = K + last
  <2> DEFINE A == Noted(Marks, First, K)
             B == Noted(Marks, (First + K) % SPACE, e)
  <2>1. N = B
    BY <1>1
  <2> HIDE DEF K, e, f, N
  <2>2. /\ Cardinality(C) = Cardinality(A) + Cardinality(B)
        /\ B = {} => C = A
        /\ B # {} => C # {} /\ LastOf(C) = K + LastOf(B)
    <3>1. K \in Nat /\ e \in Nat /\ First \in Int
      BY <1>1, <1>2
    <3> HIDE DEF C
    <3>2. LET CC == Noted(Marks, First, K + e)
          IN /\ Cardinality(CC) = Cardinality(A) + Cardinality(B)
             /\ B = {} => CC = A
             /\ B # {} => CC # {} /\ LastOf(CC) = K + LastOf(B)
      BY <3>1, NotedAdds, ZenonT(40)
    <3> QED BY <3>2 DEF C
  <2> QED BY <2>1, <2>2
<1>4. c = [count |-> r.check.count, key |-> SwitchRC572Format(r.check.key)]
      \/ r.check \notin [count : Nat, key : Keys]
  BY DEF SwitchCheck
<1> HIDE DEF K, f, e
<1>5. CASE N = {}
  <2>1. r.check = unit.check /\ c = work.check
    BY <1>1, <1>2, <1>5
  <2>2. CheckIs(Marks, First, K + e, c)
    BY <1>1, <1>3, <1>5, <2>1 DEF CheckIs
  <2> QED BY <1>1, <2>1, <2>2 DEF K, e
<1>6. CASE N # {}
  <2>1. last \in 0 .. e - 1
    <3>1. N \in SUBSET (0 .. e - 1)
      BY DEF Noted
    <3> HIDE DEF N
    <3>2. LastOf(N) \in N
      BY <1>2, <1>6, <3>1, LastExists
    <3> QED BY <3>1, <3>2
  <2>2. last \in Words /\ last \in Int
    BY <1>2, <2>1, Sizes DEF Words
  <2>3. /\ IncrementKey(unit.L0, last) \in ProperKeys
        /\ Num(SwitchRC572Format(IncrementKey(unit.L0, last))) = (f + last) % SPACE
    BY <1>1, <2>2, IncrementAdds DEF f
  <2>4. Cardinality(N) \in Nat
    BY <1>2, NotedFinite
  <2> HIDE DEF N, C, last
  <2>5. r.check = [count |-> unit.check.count + Cardinality(N), key |-> IncrementKey(unit.L0, last)]
    BY <1>2, <1>6
  <2>6. r.check \in [count : Nat, key : Keys] /\ r.check.key \in ProperKeys
    BY <1>1, <2>3, <2>4, <2>5 DEF ProperKeys
  <2>7. /\ c.count = unit.check.count + Cardinality(N)
        /\ c.key = SwitchRC572Format(IncrementKey(unit.L0, last))
        /\ c \in [count : Nat, key : Keys] /\ c.key \in ProperKeys
    <3>1. SwitchRC572Format(r.check.key) \in ProperKeys
      BY <2>6, SwitchSwitch
    <3> QED BY <1>1, <1>4, <2>4, <2>5, <2>6, <3>1 DEF ProperKeys
  <2>8. Num(c.key) = (First + (K + last)) % SPACE
    BY <1>1, <2>2, <2>3, <2>7, TwoSums
  <2>9. work.check.count = unit.check.count
    BY <1>1 DEF SwitchCheck
  <2>10. CheckIs(Marks, First, K + e, c)
    <3>1. Cardinality(C) = c.count
      BY <1>1, <1>3, <2>7, <2>9 DEF CheckIs
    <3>2. LastOf(C) = K + last
      BY <1>3, <1>6
    <3> QED BY <2>8, <3>1, <3>2 DEF CheckIs, C
  <2> QED BY <2>6, <2>7, <2>10 DEF K, e
<1> QED BY <1>5, <1>6

\* The keys of a slice are credited to the record.
LEMMA CreditInv ==
  ASSUME RC5Inv, Searching, NEW t \in Suggested, NEW r, Good(r, SliceOf(t)), Credited(r)
  PROVE  RC5Inv'
<1> DEFINE K == Count(work.keysdone)
           I == Count(packet.iterations)
           f == Num(SwitchRC572Format(unit.L0))
           n == SliceOf(t)
           d == r.done
           found == r.rescode = "FOUND"
           kd == AddKeysDone(work.keysdone, d)
           c == SwitchCheck(r.check)
           w == [work EXCEPT !.keysdone = AddKeysDone(@, d), !.check = c]
           D == Distance(First, secret)
<1>1. /\ RC5TypeOK /\ InMemory /\ KeysExact /\ state = "loaded" /\ resultcode = "WORKING"
      /\ Progress(work) /\ refL0 = unit.L0
  BY DEF RC5Inv, Searching, InMemory, KeysExact
<1>2. /\ unit' = [L0 |-> r.L0, check |-> r.check]
      /\ refL0' = IncrementKey(refL0, d)
      /\ work' = IF found THEN [w EXCEPT !.key = FoundKey(w)] ELSE w
      /\ resultcode' = IF found THEN "FOUND" ELSE IF AllDone(w) THEN "NOTHING" ELSE "WORKING"
      /\ UNCHANGED <<packet, secret, saved, state, loads>>
  BY DEF Credited
<1>3. /\ work \in Works /\ work.keysdone \in Counts /\ work.iterations \in Counts
      /\ work.key = packet.key /\ work.iterations = packet.iterations
      /\ packet.key \in ProperKeys /\ unit.L0 \in ProperKeys
      /\ K < I /\ (secret = NoKey \/ D >= K)
  BY <1>1 DEF RC5TypeOK, Works, InMemory, Progress
<1>4. /\ First \in 0 .. SPACE - 1 /\ K \in Nat /\ I \in Nat /\ f = (First + K) % SPACE
      /\ secret # NoKey => secret \in 0 .. SPACE - 1
      /\ packet.iterations \in Counts
  BY <1>1, <1>3, NumbersOfPacket, CountType DEF KeysExact
<1>5. n \in Words
  BY <1>3, WordOfSlice DEF SliceOf
<1>6. /\ d \in 0 .. n /\ d \in Words /\ d \in Nat
      /\ r.rescode \in {"FOUND", "NOTHING", "WORKING"} /\ r.L0 = IncrementKey(unit.L0, d)
      /\ found => secret # NoKey /\ Distance(f, secret) = d
      /\ ~found => secret = NoKey \/ Distance(f, secret) >= d
  <2>1. d \in 0 .. n
    BY DEF Good
  <2> QED BY <1>5, <2>1, Sizes DEF Good, Words
<1>7. kd \in Counts /\ Count(kd) = K + d
  <2>1. work.keysdone.hi <= packet.iterations.hi
    BY <1>3, DoneCount
  <2>2. work.keysdone.hi < WORD - 1
    BY <1>1, <1>3, <1>4, <2>1, NumbersOfPacket, CountType, Sizes
  <2> QED BY <1>3, <1>6, <2>2, AddKeysDoneAdds
<1>8. /\ r.L0 \in ProperKeys
      /\ Num(SwitchRC572Format(r.L0)) = (First + (K + d)) % SPACE
      /\ refL0' = r.L0
  <2>1. IncrementKey(unit.L0, d) \in ProperKeys
        /\ Num(SwitchRC572Format(IncrementKey(unit.L0, d))) = (f + d) % SPACE
    BY <1>3, <1>6, IncrementAdds
  <2>2. (f + d) % SPACE = (First + (K + d)) % SPACE
    BY <1>4, <1>6, TwoSums
  <2> QED BY <1>1, <1>2, <1>6, <2>1, <2>2
<1>9. secret # NoKey => Distance(f, secret) = D - K
  BY <1>3, <1>4, Nearer
<1>10. secret # NoKey => D \in Nat
  BY <1>4, Distances
<1>11. ~found => secret = NoKey \/ D >= K + d
  BY <1>3, <1>4, <1>6, <1>9, <1>10
<1>12. found => secret # NoKey /\ (First + (K + d)) % SPACE = secret
  <2> SUFFICES ASSUME found PROVE secret # NoKey /\ (First + (K + d)) % SPACE = secret
    OBVIOUS
  <2>1. K + d = D
    BY <1>3, <1>4, <1>6, <1>9, <1>10
  <2> QED BY <1>4, <1>6, <2>1, Distances
<1> DEFINE e == d + IF found THEN 1 ELSE 0
<1>13. /\ r.check \in [count : Nat, key : Keys] /\ r.check.key \in ProperKeys
       /\ c \in [count : Nat, key : Keys] /\ c.key \in ProperKeys
       /\ CheckIs(Marks, First, K + e, c)
  BY <1>1, <1>5, CheckGoesOn
<1>14. /\ w \in Works /\ w.key = packet.key /\ w.iterations = packet.iterations
       /\ w.keysdone = kd /\ w.check = c
  <2> HIDE DEF c, kd
  <2>1. w = [work EXCEPT !.keysdone = kd, !.check = c]
    BY <1>3 DEF Works, kd
  <2> QED BY <1>3, <1>7, <1>13, <2>1 DEF Works
<1> HIDE DEF w, c, kd, K, f, D, I
<1>15. /\ FoundKey(w) \in Keys
       /\ Num(FoundKey(w)) = (First + (K + d)) % SPACE
  BY <1>3, <1>7, <1>14, FoundKeyAdds DEF First
<1>16. /\ work' \in Works /\ work'.iterations = packet.iterations
       /\ work'.keysdone = kd /\ work'.check = c
       /\ work'.key = IF found THEN FoundKey(w) ELSE packet.key
  BY <1>2, <1>14, <1>15 DEF Works
<1>17. AllDone(w) <=> K + d >= I
  BY <1>4, <1>7, <1>14, DoneCount DEF I
<1>18. RC5TypeOK'
  <2>1. unit' \in [L0 : Keys, check : [count : Nat, key : Keys]] /\ refL0' \in Keys
    BY <1>2, <1>8, <1>13 DEF ProperKeys
  <2> QED BY <1>1, <1>2, <1>16, <2>1 DEF RC5TypeOK
<1>19. KeysExact'
  BY <1>2, <1>7, <1>8, <1>16 DEF KeysExact, First
<1>20. First' = First /\ Marks' = Marks /\ packet' = packet /\ secret' = secret /\ state' = "loaded"
  BY <1>1, <1>2 DEF First, Marks
<1>21. Count(work.keysdone)' = K + d
  BY <1>7, <1>16
<1>22. CheckExact'
  <2>1. (K + e) - 1 = (K + d) - (IF resultcode' = "FOUND" THEN 0 ELSE 1)
    BY <1>2, <1>4, <1>6
  <2>2. CheckIs(Marks, First, K + e, work'.check)
    BY <1>13, <1>16
  <2>3. ((Partial \cup {secret}) \ {NoKey})' = Marks
    BY <1>20 DEF Marks
  <2> HIDE DEF e
  <2>4. CheckExact' =
          LET noted == Noted(Marks, First, K + e)
          IN /\ work'.check.count = Cardinality(noted)
             /\ noted # {} => Num(work'.check.key) = (First + LastOf(noted)) % SPACE
    <3> DEFINE ends == Count(work.keysdone)' - (IF resultcode' = "FOUND" THEN 0 ELSE 1)
               set == {x \in 0 .. ends : (First' + x) % SPACE \in ((Partial \cup {secret}) \ {NoKey})'}
    <3>1. set = Noted(Marks, First, K + e)
      <4>1. ends = (K + e) - 1
        BY <1>21, <2>1
      <4> HIDE DEF ends
      <4>2. Noted(Marks, First, K + e) = {x \in 0 .. (K + e) - 1 : (First + x) % SPACE \in Marks}
        BY Zenon DEF Noted
      <4>3. First' = First
        BY <1>20
      <4> QED BY <4>1, <4>2, <4>3, <2>3, Zenon
    <3>2. CheckExact' =
            (state' = "loaded" =>
               /\ work'.check.count = Cardinality(set)
               /\ set # {} => Num(work'.check.key) =
                    (First' + CHOOSE x \in set : \A y \in set : y <= x) % SPACE)
      BY Zenon DEF CheckExact
    <3> HIDE DEF set
    <3> QED BY <1>20, <3>1, <3>2 DEF LastOf
  <2> QED BY <2>2, <2>4 DEF CheckIs
<1>23. NoKeySkipped'
  <2> SUFFICES ASSUME resultcode' = "NOTHING"
               PROVE  secret = NoKey \/ D >= I
    BY <1>20 DEF NoKeySkipped, D, I
  <2>1. ~found /\ AllDone(w)
    BY <1>2
  <2> QED BY <1>4, <1>6, <1>10, <1>11, <1>17, <2>1
<1>24. FoundIsKey'
  BY <1>2, <1>12, <1>15, <1>16, <1>20 DEF FoundIsKey
<1>25. ServerPacketsEnd'
  <2> SUFFICES ASSUME packet.iterations.lo = 0
               PROVE  K + d < I + MINIMUM_ITERATIONS
    BY <1>16, <1>20, <1>21 DEF ServerPacketsEnd, NoExtraKeys, I
  <2>1. K + n < I + MINIMUM_ITERATIONS
    BY <1>3, SliceEnds DEF SliceOf, K, I
  <2> QED BY <1>4, <1>5, <1>6, <2>1, Sizes DEF Words
<1>26. resultcode' = "WORKING" => Progress(work)'
  <2> SUFFICES ASSUME resultcode' = "WORKING" PROVE Progress(work)'
    OBVIOUS
  <2>1. ~found /\ ~AllDone(w)
    BY <1>2
  <2>2. K + d < I /\ (secret = NoKey \/ D >= K + d) /\ e = d
    BY <1>4, <1>6, <1>11, <1>17, <2>1
  <2>3. CheckIs(Marks, First, K + d, c)
    BY <1>13, <2>2
  <2>4. CheckIs(Marks, First, Count(work.keysdone), work.check)'
    <3>1. \A m : Noted(Marks, First, m)' = Noted(Marks, First, m')
      BY <1>20 DEF Noted
    <3> QED BY <1>16, <1>20, <1>21, <2>3 DEF CheckIs, Noted
  <2> QED BY <1>13, <1>16, <1>20, <1>21, <2>1, <2>2, <2>4 DEF Progress, D, I
<1>27. InMemory'
  BY <1>2, <1>3, <1>8, <1>13, <1>16, <1>20, <1>26 DEF InMemory, c
<1> QED BY <1>18, <1>19, <1>20, <1>22, <1>23, <1>24, <1>25, <1>27 DEF RC5Inv

\* A state that does not change.
LEMMA UnchangedInv ==
  ASSUME RC5Inv, UNCHANGED rc5vars
  PROVE  RC5Inv'
<1>1. /\ packet' = packet /\ secret' = secret /\ saved' = saved /\ work' = work
      /\ unit' = unit /\ refL0' = refL0 /\ state' = state /\ resultcode' = resultcode
      /\ loads' = loads
  BY DEF rc5vars
<1> QED BY <1>1, Zenon
        DEF RC5Inv, RC5TypeOK, InMemory, Progress, CheckIs, Marks, Noted, First, KeysExact,
            CheckExact, NoKeySkipped, FoundIsKey, ServerPacketsEnd, NoExtraKeys

\* A slice, whatever its answer.
LEMMA RunInv ==
  ASSUME RC5Inv, RunRC572
  PROVE  RC5Inv'
<1>1. RC5TypeOK /\ Searching /\ state = "loaded" /\ InMemory /\ KeysExact
  BY DEF RC5Inv, RunRC572, Searching
<1>2. unit.L0 \in ProperKeys /\ refL0 = unit.L0
      /\ work.iterations \in Counts /\ work.keysdone \in Counts
  BY <1>1 DEF InMemory, KeysExact, RC5TypeOK, Works
<1>3. PICK t \in Suggested : \E r \in Answers(unit, SliceOf(t)) :
        IF Mismatch(IncrementKey(refL0, r.done), r) THEN UNCHANGED rc5vars ELSE Credited(r)
  BY DEF RunRC572
<1>4. PICK r \in Answers(unit, SliceOf(t)) :
        IF Mismatch(IncrementKey(refL0, r.done), r) THEN UNCHANGED rc5vars ELSE Credited(r)
  BY <1>3
<1>5. CASE UNCHANGED rc5vars
  BY <1>5, UnchangedInv
<1>6. CASE ~Mismatch(IncrementKey(refL0, r.done), r) /\ Credited(r)
  <2>1. SliceOf(t) \in Words
    BY <1>2, WordOfSlice DEF SliceOf
  <2>2. Good(r, SliceOf(t))
    BY <1>1, <1>2, <1>6, <2>1, AnswerGood
  <2> QED BY <1>1, <1>6, <2>2, CreditInv
<1> QED BY <1>4, <1>5, <1>6

\* The inductive invariant of the RC5-72 packets.
THEOREM RC5Safety == RC5Spec => []RC5Inv
<1>1. RC5Init => RC5Inv
  BY InitInv
<1>2. RC5Inv /\ [RC5Next]_rc5vars => RC5Inv'
  <2> SUFFICES ASSUME RC5Inv, [RC5Next]_rc5vars PROVE RC5Inv'
    OBVIOUS
  <2>1. CASE \E sameCore \in BOOLEAN : LoadState(sameCore)
    BY <2>1, LoadInv
  <2>2. CASE RunRC572
    BY <2>2, RunInv
  <2>3. CASE RetrieveState
    BY <2>3, RetrieveInv
  <2>4. CASE UNCHANGED rc5vars
    BY <2>4, UnchangedInv
  <2> QED BY <2>1, <2>2, <2>3, <2>4 DEF RC5Next
<1> QED BY <1>1, <1>2, PTL DEF RC5Spec

\* The words of a key and of a count keep their width in every state: the carries of
\* IncrementKeyHi(), AddKeysDone() and the byte orders never leave it.
THEOREM RC5Types == RC5Spec => []RC5TypeOK
<1>1. RC5Inv => RC5TypeOK
  BY DEF RC5Inv
<1> QED BY <1>1, RC5Safety, PTL

\* The next key of the core is the packet's first key plus the keys done of its
\* record, whatever slices, carries, byte orders, saves, resets and bad answers came before.
THEOREM KeysStayExact == RC5Spec => []KeysExact
<1>1. RC5Inv => KeysExact
  BY DEF RC5Inv
<1> QED BY <1>1, RC5Safety, PTL

\* The check of a record counts the partial matches among exactly the keys done, and
\* names the last of them, also when Run_RC5_72() is entered again in between.
THEOREM ChecksStayExact == RC5Spec => []CheckExact
<1>1. RC5Inv => CheckExact
  BY DEF RC5Inv
<1> QED BY <1>1, RC5Safety, PTL

\* A packet that is reported as searched without success does not hold the key: no
\* sequence of slices, saves and resets leaves a key out.
THEOREM NothingSkipped == RC5Spec => []NoKeySkipped
<1>1. RC5Inv => NoKeySkipped
  BY DEF RC5Inv
<1> QED BY <1>1, RC5Safety, PTL

\* The key of a record that is reported as found is the one that solves the packet,
\* although it is computed from the keys done and not taken from the core.
THEOREM FoundKeyRight == RC5Spec => []FoundIsKey
<1>1. RC5Inv => FoundIsKey
  BY DEF RC5Inv
<1> QED BY <1>1, RC5Safety, PTL

\* The last slice of a packet of the servers goes no further beyond its end than the
\* rounding of Run_RC5_72().
THEOREM PacketsEnd == RC5Spec => []ServerPacketsEnd
<1>1. RC5Inv => ServerPacketsEnd
  BY DEF RC5Inv
<1> QED BY <1>1, RC5Safety, PTL
=============================================================================
