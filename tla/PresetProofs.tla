---------------------------- MODULE PresetProofs ----------------------------
(***************************************************************************)
(* Lemmas about the fields of a preset (module Presets): setting one       *)
(* leaves the others alone, what a setter stores is what the getter gives  *)
(* and what the setter stores again, and _modify_preset settles.           *)
(***************************************************************************)
EXTENDS Presets, WellFoundedInduction, TLAPS

(* Induction over numbers, in the form of a set without a least element.   *)
LEMMA LeastNumber ==
  ASSUME NEW T, T \subseteq Nat, T # {}
  PROVE  \E x \in T : \A y \in T : x <= y
<1>1. \E x \in T : \A y \in T : ~ (<<y, x>> \in OpToRel(<, Nat))
  BY NatLessThanWellFounded, WFMin
<1>2. PICK x \in T : \A y \in T : ~ (<<y, x>> \in OpToRel(<, Nat))
  BY <1>1
<1>3. \A y \in T : ~ (y < x)
  BY <1>2 DEF OpToRel
<1>. QED
  BY <1>3

-----------------------------------------------------------------------------
(* Quotients and remainders.                                               *)
LEMMA Division ==
  ASSUME NEW d \in Nat \ {0}, NEW n \in Int
  PROVE  /\ n % d \in 0..(d - 1) /\ n \div d \in Int
         /\ n = d * (n \div d) + (n % d)
OBVIOUS

(* A factor keeps the order.                                               *)
LEMMA Product ==
  ASSUME NEW c \in Nat \ {0}, NEW d \in Int, NEW e \in Int
  PROVE  /\ c * (d - e) = c * d - c * e
         /\ c * (d + e) = c * d + c * e
         /\ d >= 1 => c * d >= c
         /\ d >= 0 => c * d >= 0
         /\ c * d \in Int
OBVIOUS

(* There is one quotient and one remainder.                                *)
LEMMA DivMod ==
  ASSUME NEW n \in Int, NEW d \in Nat \ {0}, NEW q \in Int, NEW r \in 0..(d - 1),
         n = d * q + r
  PROVE  n \div d = q /\ n % d = r
<1>1. /\ n = d * (n \div d) + (n % d)
      /\ n \div d \in Int /\ n % d \in 0..(d - 1)
  BY Division
<1>2. d * (n \div d - q) = r - (n % d)
  BY <1>1
<1>3. n \div d - q <= 0
  <2>. SUFFICES ASSUME n \div d - q >= 1 PROVE FALSE
    BY <1>1
  <2>1. d * (n \div d - q) >= d
    BY <1>1
  <2>. QED
    BY <1>1, <1>2, <2>1
<1>4. n \div d - q >= 0
  <2>. SUFFICES ASSUME n \div d - q <= -1 PROVE FALSE
    BY <1>1
  <2>1. d * (n \div d - q) <= -d
    BY <1>1
  <2>. QED
    BY <1>1, <1>2, <2>1
<1>. QED
  BY <1>1, <1>2, <1>3, <1>4

(* A digit of a word is what is between two of its powers: the one of      *)
(* weight P and below N.  Above it is q, below it r.                       *)
Split(n, P, N, q, d, r) ==
  /\ q \in Int /\ d \in 0..(N - 1) /\ r \in 0..(P - 1)
  /\ n = P * (N * q + d) + r

(* Every number is split by two weights, and by what the digit operators   *)
(* give.                                                                   *)
LEMMA SplitWord ==
  ASSUME NEW n \in Int, NEW P \in Nat \ {0}, NEW N \in Nat \ {0}
  PROVE  Split(n, P, N, (n \div P) \div N, (n \div P) % N, n % P)
<1>. DEFINE a == n \div P
            r == n % P
<1>1. a \in Int /\ r \in 0..(P - 1) /\ n = P * a + r
  BY Division
<1>. HIDE DEF a, r
<1>2. a \div N \in Int /\ a % N \in 0..(N - 1) /\ a = N * (a \div N) + (a % N)
  BY <1>1, Division
<1>3. Split(n, P, N, a \div N, a % N, r)
  BY <1>1, <1>2 DEF Split
<1>. QED
  BY <1>3 DEF a, r

(* There is no other way to split it.                                      *)
LEMMA SplitsOnce ==
  ASSUME NEW n \in Int, NEW P \in Nat \ {0}, NEW N \in Nat \ {0},
         NEW q, NEW d, NEW r, Split(n, P, N, q, d, r)
  PROVE  n \div P = N * q + d /\ (n \div P) % N = d /\ (n \div P) \div N = q /\ n % P = r
<1>. DEFINE a == N * q + d
<1>1. /\ q \in Int /\ d \in 0..(N - 1) /\ r \in 0..(P - 1)
      /\ a \in Int /\ n = P * a + r
  BY DEF Split
<1>2. a % N = d /\ a \div N = q
  BY <1>1, DivMod
<1>. HIDE DEF a
<1>3. n \div P = a /\ n % P = r
  BY <1>1, DivMod
<1>. QED
  BY <1>2, <1>3 DEF a

(* Putting c there keeps what is above and below, and a word of a          *)
(* positive length is as long as it was.                                   *)
LEMMA PutInSplit ==
  ASSUME NEW w \in Nat, NEW P \in Nat \ {0}, NEW N \in Nat \ {0},
         NEW q, NEW b, NEW r, Split(w, P, N, q, b, r), NEW c \in 0..(N - 1)
  PROVE  /\ Split(w + (c - b) * P, P, N, q, c, r)
         /\ w + (c - b) * P \in Nat
         /\ \A R \in Nat : w < P * N * R => w + (c - b) * P < P * N * R
<1>1. /\ q \in Int /\ b \in 0..(N - 1) /\ r \in 0..(P - 1)
      /\ w = P * (N * q + b) + r
  BY DEF Split
<1>. DEFINE m == N * q
            v == w + (c - b) * P
<1>2. m \in Int
  BY <1>1
<1>3. P * (m + b) = P * m + P * b /\ P * (m + c) = P * m + P * c /\ (c - b) * P = P * c - P * b
  BY <1>1, <1>2
<1>4. v = P * (m + c) + r /\ v \in Int
  BY <1>1, <1>2, <1>3
<1>5. Split(v, P, N, q, c, r)
  BY <1>1, <1>4 DEF Split
<1>6. q >= 0
  <2>1. SUFFICES ASSUME q <= -1 PROVE FALSE
    BY <1>1
  <2>2. m + b <= -1
    <3>1. N * q <= -N
      BY <1>1, <2>1
    <3>. QED
      BY <1>1, <3>1
  <2>3. P * (m + b) <= -P
    BY <1>1, <1>2, <2>2
  <2>. QED
    BY <1>1, <1>2, <2>3
<1>7. v \in Nat
  <2>1. m + c >= 0
    <3>1. N * q >= 0
      BY <1>1, <1>6
    <3>. QED
      BY <1>1, <3>1
  <2>2. P * (m + c) >= 0
    BY <1>2, <2>1
  <2>. QED
    BY <1>1, <1>4, <2>2
<1>8. ASSUME NEW R \in Nat, w < P * N * R PROVE v < P * N * R
  <2>. DEFINE k == N * R
  <2>1. k \in Int /\ P * N * R = P * k
    OBVIOUS
  <2>2. P * (m + b) < P * k
    BY <1>1, <1>8, <2>1
  <2>3. m + b < k
    <3>. HIDE DEF m, k
    <3>1. m + b >= k => P * (m + b) >= P * k
      BY <1>1, <1>2, <2>1
    <3>. QED
      BY <1>1, <1>2, <2>1, <2>2, <3>1
  <2>4. q < R
    <3>1. q >= R => N * q >= N * R
      BY <1>1
    <3>. QED
      BY <1>1, <2>3, <3>1
  <2>5. m + c + 1 <= k
    <3>1. N * (q + 1) <= N * R
      BY <1>1, <2>4
    <3>2. N * (q + 1) = m + N
      BY <1>1
    <3>. QED
      BY <1>1, <1>2, <2>1, <3>1, <3>2
  <2>6. P * (m + c + 1) <= P * k /\ P * (m + c + 1) = P * (m + c) + P
    <3>. HIDE DEF m, k
    <3>. QED
      BY <1>2, <2>1, <2>5
  <2>. QED
    BY <1>1, <1>2, <1>4, <2>1, <2>6
<1>. QED
  BY <1>5, <1>7, <1>8

(* Dividing by a product is dividing twice.                                *)
LEMMA DivTwice ==
  ASSUME NEW n \in Int, NEW P \in Nat \ {0}, NEW N \in Nat \ {0}
  PROVE  n \div (P * N) = (n \div P) \div N
<1>. DEFINE q == (n \div P) \div N
            d == (n \div P) % N
            r == n % P
<1>1. Split(n, P, N, q, d, r)
  BY SplitWord
<1>. HIDE DEF q, d, r
<1>2. q \in Int /\ d \in 0..(N - 1) /\ r \in 0..(P - 1) /\ n = P * (N * q + d) + r
  BY <1>1 DEF Split
<1>. DEFINE M == P * N
<1>3. M \in Nat \ {0}
  OBVIOUS
<1>4. P * (N * q + d) = M * q + P * d
  BY <1>2
<1>5. P * d + r \in 0..(M - 1)
  <2>1. P * d >= 0 /\ P * d <= P * (N - 1) /\ P * (N - 1) = M - P
    BY <1>2
  <2>. QED
    BY <1>2, <1>3, <2>1
<1>. HIDE DEF M
<1>6. n = M * q + (P * d + r)
  BY <1>2, <1>3, <1>4
<1>7. n \div M = q
  BY <1>2, <1>3, <1>5, <1>6, DivMod
<1>. QED
  BY <1>7 DEF M, q

(* Digits below it depend on the remainder only.                           *)
IsRest(r, w, P, N, K) == r = w % (P * (N * K))
SameDigit(v, w, P, N) == (v \div P) % N = (w \div P) % N

LEMMA DigitsBelow ==
  ASSUME NEW w \in Nat, NEW P \in Nat \ {0}, NEW N \in Nat \ {0}, NEW K \in Nat \ {0},
         NEW r, IsRest(r, w, P, N, K)
  PROVE  SameDigit(w, r, P, N)
<1>. DEFINE M == P * (N * K)
            q == w \div M
            s == r \div P
            t == r % P
            u == K * q
            d == s \div N
<1>1. M \in Nat \ {0} /\ w \in Int
  OBVIOUS
<1>2. q \in Int /\ r \in 0..(M - 1) /\ w = M * q + r
  BY <1>1, Division, Zenon DEF IsRest
<1>. HIDE DEF q
<1>3. r \in Int /\ s \in Int /\ t \in 0..(P - 1) /\ r = P * s + t
  <2>1. r \in Int
    BY <1>1, <1>2
  <2>. QED
    BY <2>1, Division, Zenon
<1>. HIDE DEF s, t
<1>4. u \in Int /\ M * q = P * (N * u) /\ N * u \in Int
  BY <1>2
<1>. HIDE DEF M
<1>5. P * (N * u) + P * s = P * (N * u + s)
  BY <1>3, <1>4
<1>6. w = P * (N * u + s) + t /\ N * u + s \in Int
  BY <1>2, <1>3, <1>4, <1>5
<1>7. w \div P = N * u + s
  BY <1>1, <1>3, <1>6, DivMod, Zenon
<1>. DEFINE m == s % N
<1>8. m \in 0..(N - 1) /\ d \in Int /\ s = N * d + m
  BY <1>3, Division
<1>. HIDE DEF u, d, m
<1>9. N * u + N * d = N * (u + d)
  BY <1>4, <1>8, Product
<1>10. N * u + s = N * (u + d) + m /\ u + d \in Int
  BY <1>3, <1>4, <1>8, <1>9
<1>11. (N * u + s) % N = m
  BY <1>6, <1>8, <1>10, DivMod, Zenon
<1>. QED
  BY <1>7, <1>11 DEF s, m, SameDigit

-----------------------------------------------------------------------------
(* Powers of two.                                                          *)
LEMMA NextPower ==
  ASSUME NEW a \in 0..16
  PROVE  2 ^ a \in Nat \ {0} /\ (a < 16 => 2 ^ (a + 1) = 2 * 2 ^ a)
<1>1. \/ a = 0 \/ a = 1 \/ a = 2 \/ a = 3 \/ a = 4 \/ a = 5 \/ a = 6 \/ a = 7 \/ a = 8
      \/ a = 9 \/ a = 10 \/ a = 11 \/ a = 12 \/ a = 13 \/ a = 14 \/ a = 15 \/ a = 16
  OBVIOUS
<1>2. CASE a = 0
  BY <1>2, SMT
<1>3. CASE a = 1
  BY <1>3, SMT
<1>4. CASE a = 2
  BY <1>4, SMT
<1>5. CASE a = 3
  BY <1>5, SMT
<1>6. CASE a = 4
  BY <1>6, SMT
<1>7. CASE a = 5
  BY <1>7, SMT
<1>8. CASE a = 6
  BY <1>8, SMT
<1>9. CASE a = 7
  BY <1>9, SMT
<1>10. CASE a = 8
  BY <1>10, SMT
<1>11. CASE a = 9
  BY <1>11, SMT
<1>12. CASE a = 10
  BY <1>12, SMT
<1>13. CASE a = 11
  BY <1>13, SMT
<1>14. CASE a = 12
  BY <1>14, SMT
<1>15. CASE a = 13
  BY <1>15, SMT
<1>16. CASE a = 14
  BY <1>16, SMT
<1>17. CASE a = 15
  BY <1>17, SMT
<1>18. CASE a = 16
  BY <1>18, SMT
<1>. QED
  BY <1>1, <1>2, <1>3, <1>4, <1>5, <1>6, <1>7, <1>8, <1>9, <1>10,
     <1>11, <1>12, <1>13, <1>14, <1>15, <1>16, <1>17, <1>18

(* As far as 16 bits go.                                                   *)
LEMMA PowerOfSum ==
  ASSUME NEW a \in Nat, NEW b \in Nat, a + b <= 16
  PROVE  2 ^ (a + b) = 2 ^ a * 2 ^ b
<1>. DEFINE T == {x \in 0..(16 - a) : 2 ^ (a + x) # 2 ^ a * 2 ^ x}
<1>0. a \in 0..16 /\ b \in 0..(16 - a)
  OBVIOUS
<1>1. SUFFICES ASSUME T # {} PROVE FALSE
  BY <1>0
<1>2. PICK x \in T : \A y \in T : x <= y
  <2>1. T \subseteq Nat
    BY <1>0
  <2>. QED
    BY <1>1, <2>1, LeastNumber
<1>3. 2 ^ a \in Nat \ {0}
  BY <1>0, NextPower
<1>4. CASE x = 0
  <2>1. 2 ^ 0 = 1
    BY SMT
  <2>. QED
    BY <1>2, <1>3, <1>4, <2>1
<1>5. CASE x # 0
  <2>. DEFINE y == x - 1
  <2>1. y \in 0..(16 - a) /\ y \notin T /\ x = y + 1 /\ a + x = (a + y) + 1
    BY <1>2, <1>5
  <2>2. a + y \in 0..16 /\ a + y < 16 /\ y \in 0..16 /\ y < 16
    BY <2>1
  <2>3. /\ 2 ^ ((a + y) + 1) = 2 * 2 ^ (a + y) /\ 2 ^ (y + 1) = 2 * 2 ^ y
        /\ 2 ^ (a + y) \in Nat /\ 2 ^ y \in Nat
    BY <2>2, NextPower
  <2>4. 2 ^ (a + y) = 2 ^ a * 2 ^ y
    BY <2>1
  <2>. HIDE DEF y
  <2>5. 2 * (2 ^ a * 2 ^ y) = 2 ^ a * (2 * 2 ^ y)
    BY <1>3, <2>3
  <2>6. 2 ^ (a + x) = 2 ^ a * 2 ^ x
    BY <2>1, <2>3, <2>4, <2>5
  <2>. QED
    BY <1>2, <2>6
<1>. QED
  BY <1>4, <1>5

-----------------------------------------------------------------------------
(* Bits of words: setting some leaves a word a word, gives them back, and  *)
(* keeps those above and below.                                            *)
WordLimit == 65536

(* A word, without its bounds written out.                                 *)
LEMMA WordRange ==
  ASSUME NEW w
  PROVE  /\ w \in Word <=> w \in Nat /\ w < WordLimit
         /\ w \in Word => w \in Int
<1>1. ASSUME w \in Word PROVE w \in Int /\ w \in Nat /\ w < WordLimit
  BY <1>1 DEF Word, WordLimit
<1>2. \A n \in Nat : n < 65536 => n \in 0..(2 ^ 16 - 1)
  OBVIOUS
<1>3. ASSUME w \in Nat, w < WordLimit PROVE w \in Word
  BY <1>2, <1>3 DEF Word, WordLimit
<1>. QED
  BY <1>1, <1>3

(* The weights of bits lo to hi of a word, and of what is above them.      *)
LEMMA BitRange ==
  ASSUME NEW lo \in 0..15, NEW hi \in lo..15
  PROVE  /\ hi - lo + 1 \in 1..16 /\ 2 ^ lo \in Nat \ {0} /\ 2 ^ (hi - lo + 1) \in Nat \ {0}
         /\ 2 ^ (15 - hi) \in Nat \ {0}
         /\ WordLimit = 2 ^ lo * 2 ^ (hi - lo + 1) * 2 ^ (15 - hi)
<1>. DEFINE n == hi - lo + 1
            r == 15 - hi
<1>1. /\ lo \in Nat /\ n \in Nat /\ lo + n <= 16
      /\ lo + n \in Nat /\ r \in Nat /\ (lo + n) + r <= 16 /\ (lo + n) + r = 16
      /\ lo \in 0..16 /\ n \in 0..16 /\ r \in 0..16 /\ n \in 1..16
  OBVIOUS
<1>. HIDE DEF n, r
<1>2. 2 ^ (lo + n) = 2 ^ lo * 2 ^ n /\ 2 ^ ((lo + n) + r) = 2 ^ (lo + n) * 2 ^ r
  BY <1>1, PowerOfSum, Zenon
<1>3. 2 ^ 16 = WordLimit
  BY SMT DEF WordLimit
<1>4. 2 ^ lo \in Nat \ {0} /\ 2 ^ n \in Nat \ {0} /\ 2 ^ r \in Nat \ {0}
  BY <1>1, NextPower, Zenon
<1>. QED
  BY <1>1, <1>2, <1>3, <1>4 DEF n, r

PutAt(w, P, N, code) == w + (code - ((w \div P) % N)) * P

IsPutAt(v, w, P, N, code) ==
  /\ v \in Word /\ (v \div P) % N = code
  /\ v % P = w % P /\ (v \div P) \div N = (w \div P) \div N

(* SetBits for any two weights: the digit is put, what is around it stays. *)
LEMMA PutAtGives ==
  ASSUME NEW w \in Word, NEW P \in Nat \ {0}, NEW N \in Nat \ {0}, NEW R \in Nat \ {0},
         WordLimit = P * N * R, NEW code \in 0..(N - 1)
  PROVE  IsPutAt(PutAt(w, P, N, code), w, P, N, code)
<1>. DEFINE q == (w \div P) \div N
            b == (w \div P) % N
            r == w % P
            v == w + (code - b) * P
<1>1. w \in Nat /\ w \in Int /\ w < WordLimit
  BY WordRange, Zenon
<1>2. PutAt(w, P, N, code) = v
  BY Zenon DEF PutAt
<1>3. Split(w, P, N, q, b, r)
  BY <1>1, SplitWord, Zenon
<1>. HIDE DEF q, b, r
<1>4. Split(v, P, N, q, code, r) /\ v \in Nat /\ (w < P * N * R => v < P * N * R)
  <2>1. R \in Nat
    BY Zenon
  <2>. QED
    BY <1>1, <1>3, <2>1, PutInSplit, Zenon
<1>. HIDE DEF v
<1>5. v \in Word /\ v \in Int
  BY <1>1, <1>4, WordRange, Zenon
<1>6. (v \div P) % N = code /\ (v \div P) \div N = q /\ v % P = r
  BY <1>4, <1>5, SplitsOnce, Zenon
<1>. QED
  BY <1>2, <1>5, <1>6, Zenon DEF q, r, IsPutAt

(* A digit below depends on what is below.                                 *)
LEMMA PutAtKeepsBelow ==
  ASSUME NEW w \in Word, NEW v \in Word, NEW P \in Nat \ {0}, NEW N \in Nat \ {0},
         NEW K \in Nat \ {0}, NEW r, IsRest(r, w, P, N, K), IsRest(r, v, P, N, K)
  PROVE  SameDigit(v, w, P, N)
<1>1. w \in Nat /\ v \in Nat
  BY WordRange, Zenon
<1>2. SameDigit(w, r, P, N) /\ SameDigit(v, r, P, N)
  BY <1>1, DigitsBelow, Zenon
<1>. QED
  BY <1>2, Zenon DEF SameDigit

(* A digit above depends on what is above.                                 *)
LEMMA PutAtKeepsAbove ==
  ASSUME NEW w \in Word, NEW v \in Word, NEW P \in Nat \ {0}, NEW N \in Nat \ {0},
         (v \div P) \div N = (w \div P) \div N,
         NEW K \in Nat \ {0}
  PROVE  v \div ((P * N) * K) = w \div ((P * N) * K)
<1>1. w \in Int /\ v \in Int
  BY WordRange, Zenon
<1>0. P * N \in Nat \ {0}
  OBVIOUS
<1>2. w \div (P * N) = (w \div P) \div N /\ v \div (P * N) = (v \div P) \div N
  BY <1>1, DivTwice, Zenon
<1>. DEFINE M == P * N
<1>3. M \in Nat \ {0} /\ w \div M = v \div M
  BY <1>0, <1>2, Zenon
<1>. HIDE DEF M
<1>4. w \div (M * K) = (w \div M) \div K /\ v \div (M * K) = (v \div M) \div K
  BY <1>1, <1>3, DivTwice, Zenon
<1>. QED
  BY <1>3, <1>4, Zenon DEF M

(* int16_to_bits keeps a word a word, and bits_from_int16 gives the code   *)
(* back.                                                                   *)
LEMMA SetBitsGives ==
  ASSUME NEW w \in Word, NEW lo \in 0..15, NEW hi \in lo..15,
         NEW code \in 0..(2 ^ (hi - lo + 1) - 1)
  PROVE  /\ SetBits(w, lo, hi, code) \in Word
         /\ Bits(SetBits(w, lo, hi, code), lo, hi) = code
         /\ SetBits(w, lo, hi, code) % 2 ^ lo = w % 2 ^ lo
         /\ (SetBits(w, lo, hi, code) \div 2 ^ lo) \div 2 ^ (hi - lo + 1)
              = (w \div 2 ^ lo) \div 2 ^ (hi - lo + 1)
<1>1. SetBits(w, lo, hi, code) = PutAt(w, 2 ^ lo, 2 ^ (hi - lo + 1), code)
  BY Zenon DEF SetBits, Bits, PutAt
<1>. DEFINE P == 2 ^ lo
            N == 2 ^ (hi - lo + 1)
            R == 2 ^ (15 - hi)
            v == PutAt(w, P, N, code)
<1>2. P \in Nat \ {0} /\ N \in Nat \ {0} /\ R \in Nat \ {0} /\ WordLimit = P * N * R
  BY BitRange, Zenon
<1>3. code \in 0..(N - 1)
  BY Zenon
<1>4. Bits(v, lo, hi) = (v \div P) % N
  BY Zenon DEF Bits
<1>. HIDE DEF P, N, R, v
<1>5. IsPutAt(v, w, P, N, code)
  BY <1>2, <1>3, PutAtGives, Zenon DEF v
<1>. QED
  BY <1>1, <1>4, <1>5, Zenon DEF P, N, v, IsPutAt

(* Bits that are not among those that are set stay.                        *)
LEMMA SetBitsKeeps ==
  ASSUME NEW w \in Word, NEW lo \in 0..15, NEW hi \in lo..15,
         NEW code \in 0..(2 ^ (hi - lo + 1) - 1),
         NEW lo2 \in 0..15, NEW hi2 \in lo2..15, hi2 < lo \/ hi < lo2
  PROVE  Bits(SetBits(w, lo, hi, code), lo2, hi2) = Bits(w, lo2, hi2)
<1>. DEFINE P == 2 ^ lo
            n == hi - lo + 1
            N == 2 ^ n
            v == SetBits(w, lo, hi, code)
            P2 == 2 ^ lo2
            n2 == hi2 - lo2 + 1
            N2 == 2 ^ n2
<1>1. v \in Word /\ v % P = w % P /\ (v \div P) \div N = (w \div P) \div N
  BY SetBitsGives, Zenon
<1>2. /\ P \in Nat \ {0} /\ N \in Nat \ {0} /\ P2 \in Nat \ {0} /\ N2 \in Nat \ {0}
      /\ n \in 1..16 /\ n2 \in 1..16
  BY BitRange, Zenon
<1>3. Bits(w, lo2, hi2) = (w \div P2) % N2 /\ Bits(v, lo2, hi2) = (v \div P2) % N2
  BY Zenon DEF Bits
<1>4. CASE hi2 < lo
  <2>. DEFINE k == lo - hi2 - 1
              K == 2 ^ k
  <2>1. /\ k \in Nat /\ k \in 0..16 /\ n2 \in Nat /\ n2 + k \in Nat /\ n2 + k <= 16
        /\ lo2 \in Nat /\ lo2 + (n2 + k) = lo /\ lo2 + (n2 + k) <= 16
    BY <1>4
  <2>. HIDE DEF k, n2
  <2>2. K \in Nat \ {0} /\ 2 ^ (n2 + k) = N2 * K /\ 2 ^ (lo2 + (n2 + k)) = P2 * 2 ^ (n2 + k)
    BY <2>1, NextPower, PowerOfSum, Zenon
  <2>3. P = P2 * (N2 * K)
    BY <2>1, <2>2, Zenon
  <2>. DEFINE r == w % P
  <2>4. IsRest(r, w, P2, N2, K) /\ IsRest(r, v, P2, N2, K)
    BY <1>1, <2>3, Zenon DEF IsRest
  <2>. HIDE DEF K, P, P2, N2, v, r
  <2>5. SameDigit(v, w, P2, N2)
    BY <1>1, <1>2, <2>2, <2>4, PutAtKeepsBelow, Zenon
  <2>. QED
    BY <1>3, <2>5, Zenon DEF v, SameDigit
<1>5. CASE hi < lo2
  <2>. DEFINE k == lo2 - hi - 1
              K == 2 ^ k
  <2>1. /\ k \in Nat /\ k \in 0..16 /\ n \in Nat /\ lo + n \in Nat /\ lo + n <= 16
        /\ lo \in Nat /\ (lo + n) + k = lo2 /\ (lo + n) + k <= 16
    BY <1>5
  <2>. HIDE DEF k, n
  <2>2. K \in Nat \ {0} /\ 2 ^ (lo + n) = P * N /\ 2 ^ ((lo + n) + k) = 2 ^ (lo + n) * K
    BY <2>1, NextPower, PowerOfSum, Zenon
  <2>3. P2 = (P * N) * K
    BY <2>1, <2>2, Zenon
  <2>. HIDE DEF K, P, N, v
  <2>4. v \div ((P * N) * K) = w \div ((P * N) * K)
    BY <1>1, <1>2, <2>2, PutAtKeepsAbove
  <2>. QED
    BY <1>3, <2>3, <2>4, Zenon DEF v
<1>. QED
  BY <1>4, <1>5

-----------------------------------------------------------------------------
(* The words of a preset, and the code a field of it has.                  *)
Data == [Offsets -> Word]
CodeOf(data, f) == Bits(data[Layout[f][1]], Layout[f][2], Layout[f][3])

(* Every field is within a word, and none is in the checksum.              *)
LEMMA LayoutRange ==
  ASSUME NEW f \in Fields
  PROVE  /\ Layout[f][1] \in Offsets /\ Layout[f][1] # CHECKSUM
         /\ Layout[f][2] \in 0..15 /\ Layout[f][3] \in Layout[f][2]..15
BY DEF Layout, Fields, Offsets, CHECKSUM

(* No two fields of preset.py share a bit.                                 *)
LEMMA FieldsDisjoint ==
  ASSUME NEW f \in Fields, NEW g \in Fields, f # g, Layout[f][1] = Layout[g][1]
  PROVE  Layout[g][3] < Layout[f][2] \/ Layout[f][3] < Layout[g][2]
BY DEF Layout, Fields

(* The bits of a field are one of its codes.                               *)
LEMMA CodeRange ==
  ASSUME NEW data \in Data, NEW f \in Fields
  PROVE  CodeOf(data, f) \in Codes(f)
<1>. DEFINE lo == Layout[f][2]
            hi == Layout[f][3]
            w == data[Layout[f][1]]
            P == 2 ^ lo
            N == 2 ^ (hi - lo + 1)
<1>1. lo \in 0..15 /\ hi \in lo..15 /\ w \in Word
  BY LayoutRange DEF Data
<1>2. P \in Nat \ {0} /\ N \in Nat \ {0}
  BY <1>1, BitRange, Zenon
<1>3. CodeOf(data, f) = (w \div P) % N /\ Codes(f) = 0..(N - 1)
  BY Zenon DEF CodeOf, Bits, Codes
<1>. HIDE DEF P, N, w
<1>4. w \in Int
  BY <1>1, WordRange, Zenon
<1>5. w \div P \in Int
  BY <1>2, <1>4, Division, Zenon
<1>6. (w \div P) % N \in 0..(N - 1)
  BY <1>2, <1>5, Division, Zenon
<1>. QED
  BY <1>3, <1>6

(* Setting a field gives it the code of its value and leaves all the other *)
(* fields and words as they are.                                           *)
THEOREM FieldSet ==
  ASSUME NEW data \in Data, NEW f \in Fields, NEW value, ~Raises(f, value)
  PROVE  /\ SetField(data, f, value) \in Data
         /\ CodeOf(SetField(data, f, value), f) = Encode(f, value)
         /\ \A g \in Fields \ {f} : CodeOf(SetField(data, f, value), g) = CodeOf(data, g)
         /\ \A i \in Offsets \ {Layout[f][1]} : SetField(data, f, value)[i] = data[i]
<1>. DEFINE o == Layout[f][1]
            lo == Layout[f][2]
            hi == Layout[f][3]
            code == Encode(f, value)
            w == data[o]
            new == SetBits(w, lo, hi, code)
            res == SetField(data, f, value)
<1>1. o \in Offsets /\ lo \in 0..15 /\ hi \in lo..15 /\ w \in Word
  BY LayoutRange DEF Data
<1>2. code \in 0..(2 ^ (hi - lo + 1) - 1)
  BY Zenon DEF Raises, Codes
<1>3. res = [data EXCEPT ![o] = new]
  BY DEF SetField
<1>4. new \in Word /\ Bits(new, lo, hi) = code
  BY <1>1, <1>2, SetBitsGives, Zenon
<1>5. /\ res \in Data /\ res[o] = new
      /\ \A i \in Offsets \ {o} : res[i] = data[i]
  <2>. HIDE DEF o, new, res
  <2>. QED
    BY <1>1, <1>3, <1>4, Zenon DEF Data
<1>6. CodeOf(res, f) = code
  BY <1>4, <1>5, Zenon DEF CodeOf
<1>7. ASSUME NEW g \in Fields \ {f} PROVE CodeOf(res, g) = CodeOf(data, g)
  <2>. DEFINE o2 == Layout[g][1]
              lo2 == Layout[g][2]
              hi2 == Layout[g][3]
  <2>1. o2 \in Offsets /\ lo2 \in 0..15 /\ hi2 \in lo2..15
    BY LayoutRange
  <2>2. CASE o2 # o
    <3>1. res[o2] = data[o2]
      BY <1>5, <2>1, <2>2
    <3>. QED
      BY <3>1, Zenon DEF CodeOf
  <2>3. CASE o2 = o
    <3>1. hi2 < lo \/ hi < lo2
      BY <2>3, FieldsDisjoint
    <3>. HIDE DEF code
    <3>2. Bits(new, lo2, hi2) = Bits(w, lo2, hi2)
      BY <1>1, <1>2, <2>1, <3>1, SetBitsKeeps, Zenon
    <3>. QED
      BY <1>5, <2>3, <3>2, Zenon DEF CodeOf
  <2>. QED
    BY <2>2, <2>3
<1>. QED
  BY <1>5, <1>6, <1>7

(* A code that is there already is set without an effect.                  *)
LEMMA SameAgain ==
  ASSUME NEW data \in Data, NEW f \in Fields, NEW value, Encode(f, value) = CodeOf(data, f)
  PROVE  SetField(data, f, value) = data
<1>. DEFINE o == Layout[f][1]
            w == data[o]
            c == CodeOf(data, f)
            P == 2 ^ Layout[f][2]
<1>1. o \in Offsets /\ w \in Word /\ w \in Int
  BY LayoutRange, WordRange DEF Data
<1>2. c \in Int /\ P \in Int
  <2>1. c \in Codes(f) /\ P \in Nat \ {0}
    BY CodeRange, LayoutRange, BitRange, Zenon
  <2>. HIDE DEF c, P
  <2>. QED
    BY <2>1 DEF Codes
<1>3. SetBits(w, Layout[f][2], Layout[f][3], c) = w + (c - c) * P
  BY Zenon DEF SetBits, CodeOf
<1>4. SetBits(w, Layout[f][2], Layout[f][3], c) = w
  <2>. HIDE DEF c, P, w
  <2>. QED
    BY <1>1, <1>2, <1>3
<1>5. SetField(data, f, value) = [data EXCEPT ![o] = SetBits(w, Layout[f][2], Layout[f][3], c)]
  BY DEF SetField
<1>. HIDE DEF o, c
<1>. QED
  BY <1>1, <1>4, <1>5 DEF Data

-----------------------------------------------------------------------------
(* What the getter gives after the setter: it is stored again as it is,    *)
(* and there is no better one.                                             *)
Stored(f, value) == Decode(f, Encode(f, value))
StoredAgain(f, value) == Encode(f, Stored(f, value)) = Encode(f, value)
Closest(f, goal, got) ==
  \A code \in Codes(f) : Distance(got, goal) <= Distance(Decode(f, code), goal)

(* What div is, in inequalities.                                           *)
LEMMA Quotient ==
  ASSUME NEW n \in Int, NEW d \in Nat \ {0}
  PROVE  n \div d \in Int /\ d * (n \div d) <= n /\ n < d * (n \div d) + d
BY Division

(* And what is in these inequalities is div.                               *)
LEMMA IsQuotient ==
  ASSUME NEW n \in Int, NEW d \in Nat \ {0}, NEW q \in Int, d * q <= n, n < d * q + d
  PROVE  n \div d = q
<1>1. n - d * q \in 0..(d - 1) /\ n = d * q + (n - d * q)
  OBVIOUS
<1>. QED
  BY <1>1, DivMod

Highest(f, goal, got) ==
  got <= goal /\ \A code \in Codes(f) : Decode(f, code) \notin (got + 1)..goal

(* Each of the setters that computes: what it stores is nearest to what it *)
(* was given, and is stored again as it is.  Charging: steps of 5 mA to 1  *)
(* A, then of 50 mA to 40 A.                                               *)
LEMMA ChargeStored ==
  ASSUME NEW n \in Int, ~Raises("charge_mamps", n)
  PROVE  /\ StoredAgain("charge_mamps", n)
         /\ Nearest("charge_mamps", n, Stored("charge_mamps", n))
<1>. DEFINE E(v) == Encode("charge_mamps", v)
            D(k) == Decode("charge_mamps", k)
            c == E(n)
            goal == Goal("charge_mamps", n)
<1>1. \A k : k \in Codes("charge_mamps") <=> k \in Nat /\ k < 2048
  BY DEF Codes, Layout
<1>2. \A v \in Int : /\ v < 1000 => E(v) = (2 * v + 5) \div 10
                     /\ v >= 1000 /\ v < 40000 => E(v) = (v + 25) \div 50 + 180
                     /\ v >= 40000 => E(v) = 980
  BY DEF Encode, ChargeCode
<1>3. \A k \in Nat : /\ k < 200 => D(k) = 5 * k
                     /\ k >= 200 => D(k) = 1000 + 50 * (k - 200)
  BY DEF Decode
<1>4. goal = IF n > 40000 THEN 40000 ELSE n
  BY DEF Goal
<1>5. c \in Nat /\ c < 2048
  BY <1>1 DEF Raises
<1>6. "charge_mamps" \notin RoundsDown
  BY DEF RoundsDown
<1>7. \A v \in Int, k \in Int :
        /\ v < 1000 /\ 10 * k <= 2 * v + 5 /\ 2 * v + 5 < 10 * k + 10 => E(v) = k
        /\ v >= 1000 /\ v < 40000 /\ 50 * k <= v + 25 /\ v + 25 < 50 * k + 50 => E(v) = k + 180
  <2>. HIDE DEF E
  <2>. TAKE v \in Int, k \in Int
  <2>1. 2 * v + 5 \in Int /\ v + 25 \in Int
    OBVIOUS
  <2>2. ASSUME v < 1000, 10 * k <= 2 * v + 5, 2 * v + 5 < 10 * k + 10 PROVE E(v) = k
    BY <1>2, <2>1, <2>2, IsQuotient
  <2>3. ASSUME v >= 1000, v < 40000, 50 * k <= v + 25, v + 25 < 50 * k + 50 PROVE E(v) = k + 180
    <3>1. (v + 25) \div 50 = k
      BY <2>1, <2>3, IsQuotient
    <3>. QED
      BY <1>2, <2>3, <3>1
  <2>. QED
    BY <2>2, <2>3
<1>8. /\ n < 1000 => 10 * c <= 2 * n + 5 /\ 2 * n + 5 < 10 * c + 10
      /\ n >= 1000 /\ n < 40000 => 50 * (c - 180) <= n + 25 /\ n + 25 < 50 * (c - 180) + 50
      /\ n >= 40000 => c = 980
  BY <1>2, Quotient
<1>. SUFFICES E(D(c)) = c /\ Closest("charge_mamps", goal, D(c))
  BY <1>6, Zenon DEF StoredAgain, Stored, Nearest, Closest
<1>. HIDE DEF E, D, goal, c
<1>9. CASE n < 1000
  <2>1. c <= 200 /\ D(c) = 5 * c
    BY <1>3, <1>5, <1>8, <1>9
  <2>2. E(D(c)) = c
    <3>1. CASE c < 200
      <4>. DEFINE d == 5 * c
      <4>1. d \in Int /\ d < 1000 /\ 10 * c <= 2 * d + 5 /\ 2 * d + 5 < 10 * c + 10
        BY <1>5, <3>1
      <4>. QED
        BY <1>5, <1>7, <2>1, <4>1
    <3>2. CASE c = 200
      <4>1. E(1000) = 20 + 180
        BY <1>7
      <4>. QED
        BY <2>1, <3>2, <4>1
    <3>. QED
      BY <1>5, <2>1, <3>1, <3>2
  <2>3. Closest("charge_mamps", goal, D(c))
    <3>0. SUFFICES ASSUME NEW k \in Codes("charge_mamps")
                   PROVE  Distance(D(c), goal) <= Distance(D(k), goal)
      BY Zenon DEF Closest, D
    <3>1. k \in Nat /\ (k < 200 => D(k) = 5 * k) /\ (k >= 200 => D(k) = 1000 + 50 * (k - 200))
      BY <1>1, <1>3
    <3>2. goal = n
      BY <1>4, <1>9
    <3>. DEFINE d == D(k)
    <3>3. d \in Int /\ (d <= 5 * c - 5 \/ d = 5 * c \/ d >= 5 * c + 5)
      BY <1>5, <2>1, <3>1
    <3>. HIDE DEF d
    <3>4. Distance(5 * c, n) <= Distance(d, n)
      BY <1>5, <1>8, <1>9, <3>3 DEF Distance
    <3>. QED
      BY <2>1, <3>2, <3>4 DEF d
  <2>. QED
    BY <2>2, <2>3, Zenon
<1>10. CASE n >= 1000
  <2>. DEFINE g == 1000 + 50 * (c - 200)
  <2>1. c >= 200 /\ D(c) = g /\ g \in Int /\ goal \in Int /\ c <= 980
        /\ 2 * (goal - g) <= 50 /\ 2 * (g - goal) <= 50 /\ goal >= 1000 /\ (g = 1000 \/ g >= 1050)
    BY <1>3, <1>4, <1>5, <1>8, <1>10
  <2>2. E(D(c)) = c
    <3>1. CASE c < 980
      <4>1. g \in Int /\ g >= 1000 /\ g < 40000 /\ 50 * (c - 180) <= g + 25 /\ g + 25 < 50 * (c - 180) + 50
        BY <1>5, <2>1, <3>1
      <4>2. c - 180 \in Int /\ (c - 180) + 180 = c
        BY <1>5
      <4>. QED
        BY <1>7, <2>1, <4>1, <4>2
    <3>2. CASE c = 980
      <4>1. g = 40000
        BY <3>2
      <4>. QED
        BY <1>2, <2>1, <3>2, <4>1
    <3>. QED
      BY <1>5, <2>1, <3>1, <3>2
  <2>3. Closest("charge_mamps", goal, D(c))
    <3>0. SUFFICES ASSUME NEW k \in Codes("charge_mamps")
                   PROVE  Distance(D(c), goal) <= Distance(D(k), goal)
      BY Zenon DEF Closest, D
    <3>1. k \in Nat /\ (k < 200 => D(k) = 5 * k) /\ (k >= 200 => D(k) = 1000 + 50 * (k - 200))
      BY <1>1, <1>3
    <3>. DEFINE d == D(k)
    <3>3. d \in Int /\ (d <= g - 50 \/ d = g \/ d >= g + 50 \/ d < 1000)
      <4>1. k < 200 => d < 1000
        BY <3>1
      <4>2. k >= 200 => d \in Int /\ (d <= g - 50 \/ d = g \/ d >= g + 50)
        BY <1>5, <2>1, <3>1
      <4>. QED
        BY <2>1, <3>1, <4>1, <4>2
    <3>. HIDE DEF d, g
    <3>4. Distance(g, goal) <= Distance(d, goal)
      <4>1. CASE d < 1000
        BY <2>1, <3>3, <4>1 DEF Distance
      <4>2. CASE d <= g - 50 \/ d = g \/ d >= g + 50
        BY <2>1, <3>3, <4>2 DEF Distance
      <4>. QED
        BY <3>3, <4>1, <4>2
    <3>. QED
      BY <2>1, <3>4 DEF d
  <2>. QED
    BY <2>2, <2>3, Zenon
<1>. QED
  BY <1>9, <1>10

(* Discharging: steps of 10 mA to 1 A, then of 250 mA.                     *)
LEMMA DischargeStored ==
  ASSUME NEW n \in Int, ~Raises("discharge_mamps", n)
  PROVE  /\ StoredAgain("discharge_mamps", n)
         /\ Nearest("discharge_mamps", n, Stored("discharge_mamps", n))
<1>. DEFINE E(v) == Encode("discharge_mamps", v)
            D(k) == Decode("discharge_mamps", k)
            c == E(n)
<1>1. \A k : k \in Codes("discharge_mamps") <=> k \in Nat /\ k < 512
  BY DEF Codes, Layout
<1>2. \A v \in Int : /\ v <= 1000 => E(v) = (v + 5) \div 10
                     /\ v > 1000 => E(v) = (v + 125) \div 250 + 96
  BY DEF Encode, DischargeCode
<1>3. \A k \in Nat : /\ k <= 100 => D(k) = 10 * k
                     /\ k > 100 => D(k) = 1000 + 250 * (k - 100)
  BY DEF Decode
<1>4. Goal("discharge_mamps", n) = n /\ "discharge_mamps" \notin RoundsDown
  BY DEF Goal, RoundsDown
<1>5. c \in Nat /\ c < 512
  BY <1>1 DEF Raises
<1>6. \A v \in Int, k \in Int :
        /\ v <= 1000 /\ 10 * k <= v + 5 /\ v + 5 < 10 * k + 10 => E(v) = k
        /\ v > 1000 /\ 250 * k <= v + 125 /\ v + 125 < 250 * k + 250 => E(v) = k + 96
  <2>. HIDE DEF E
  <2>. TAKE v \in Int, k \in Int
  <2>1. ASSUME v <= 1000, 10 * k <= v + 5, v + 5 < 10 * k + 10 PROVE E(v) = k
    <3>1. (v + 5) \div 10 = k
      BY <2>1, IsQuotient
    <3>. QED
      BY <1>2, <2>1, <3>1
  <2>2. ASSUME v > 1000, 250 * k <= v + 125, v + 125 < 250 * k + 250 PROVE E(v) = k + 96
    <3>1. (v + 125) \div 250 = k
      BY <2>2, IsQuotient
    <3>. QED
      BY <1>2, <2>2, <3>1
  <2>. QED
    BY <2>1, <2>2
<1>7. /\ n <= 1000 => 10 * c <= n + 5 /\ n + 5 < 10 * c + 10
      /\ n > 1000 => 250 * (c - 96) <= n + 125 /\ n + 125 < 250 * (c - 96) + 250
  BY <1>2, Quotient
<1>. SUFFICES E(D(c)) = c /\ Closest("discharge_mamps", n, D(c))
  BY <1>4, Zenon DEF StoredAgain, Stored, Nearest, Closest
<1>. HIDE DEF E, D, c
<1>8. CASE n <= 1000
  <2>. DEFINE g == 10 * c
  <2>1. c <= 100 /\ D(c) = g /\ g \in Int /\ g <= 1000 /\ g <= n + 5 /\ n < g + 5
    BY <1>3, <1>5, <1>7, <1>8
  <2>2. E(D(c)) = c
    BY <1>5, <1>6, <2>1
  <2>3. Closest("discharge_mamps", n, D(c))
    <3>0. SUFFICES ASSUME NEW k \in Codes("discharge_mamps")
                   PROVE  Distance(D(c), n) <= Distance(D(k), n)
      BY Zenon DEF Closest, D
    <3>1. k \in Nat /\ (k <= 100 => D(k) = 10 * k) /\ (k > 100 => D(k) = 1000 + 250 * (k - 100))
      BY <1>1, <1>3
    <3>. DEFINE d == D(k)
    <3>2. d \in Int /\ (d <= g - 10 \/ d = g \/ d >= g + 10)
      BY <1>5, <2>1, <3>1
    <3>. HIDE DEF d, g
    <3>3. Distance(g, n) <= Distance(d, n)
      BY <2>1, <3>2 DEF Distance
    <3>. QED
      BY <2>1, <3>3 DEF d
  <2>. QED
    BY <2>2, <2>3
<1>9. CASE n > 1000
  <2>. DEFINE g == 1000 + 250 * (c - 100)
  <2>1. /\ c >= 100 /\ D(c) = g /\ g \in Int /\ g <= n + 125 /\ n < g + 125
        /\ (g = 1000 \/ g >= 1250)
    BY <1>3, <1>5, <1>7, <1>9
  <2>2. E(D(c)) = c
    <3>1. CASE c = 100
      <4>1. g = 1000 /\ E(1000) = 100
        BY <1>6, <3>1
      <4>. QED
        BY <2>1, <3>1, <4>1
    <3>2. CASE c > 100
      <4>1. g > 1000 /\ 250 * (c - 96) <= g + 125 /\ g + 125 < 250 * (c - 96) + 250
        BY <1>5, <3>2
      <4>2. c - 96 \in Int /\ (c - 96) + 96 = c
        BY <1>5
      <4>. QED
        BY <1>6, <2>1, <4>1, <4>2
    <3>. QED
      BY <1>5, <2>1, <3>1, <3>2
  <2>3. Closest("discharge_mamps", n, D(c))
    <3>0. SUFFICES ASSUME NEW k \in Codes("discharge_mamps")
                   PROVE  Distance(D(c), n) <= Distance(D(k), n)
      BY Zenon DEF Closest, D
    <3>1. k \in Nat /\ (k <= 100 => D(k) = 10 * k) /\ (k > 100 => D(k) = 1000 + 250 * (k - 100))
      BY <1>1, <1>3
    <3>. DEFINE d == D(k)
    <3>2. d \in Int /\ (d < 1000 \/ d <= g - 250 \/ d = g \/ d >= g + 250)
      <4>1. k < 100 => d < 1000
        BY <3>1
      <4>2. k >= 100 => d \in Int /\ (d <= g - 250 \/ d = g \/ d >= g + 250)
        BY <1>5, <2>1, <3>1
      <4>. QED
        BY <2>1, <3>1, <4>1, <4>2
    <3>. HIDE DEF d, g
    <3>3. Distance(g, n) <= Distance(d, n)
      <4>1. CASE d < 1000
        BY <1>9, <2>1, <3>2, <4>1 DEF Distance
      <4>2. CASE d <= g - 250 \/ d = g \/ d >= g + 250
        BY <2>1, <3>2, <4>2 DEF Distance
      <4>. QED
        BY <3>2, <4>1, <4>2
    <3>. QED
      BY <2>1, <3>3 DEF d
  <2>. QED
    BY <2>2, <2>3
<1>. QED
  BY <1>8, <1>9

(* Steps of 5 mV.                                                          *)
LEMMA ChargeVoltsStored ==
  ASSUME NEW n \in Int, ~Raises("charge_volts", n)
  PROVE  /\ StoredAgain("charge_volts", n)
         /\ Nearest("charge_volts", n, Stored("charge_volts", n))
<1>. DEFINE E(v) == Encode("charge_volts", v)
            D(k) == Decode("charge_volts", k)
            c == E(n)
<1>1. \A k : k \in Codes("charge_volts") <=> k \in Nat /\ k < 1024
  BY DEF Codes, Layout
<1>2. \A v \in Int : E(v) = (2 * v + 5) \div 10
  BY DEF Encode
<1>3. \A k \in Nat : D(k) = 5 * k
  BY DEF Decode
<1>4. Goal("charge_volts", n) = n /\ "charge_volts" \notin RoundsDown
  BY DEF Goal, RoundsDown
<1>5. c \in Nat
  BY <1>1 DEF Raises
<1>6. 10 * c <= 2 * n + 5 /\ 2 * n + 5 < 10 * c + 10
  BY <1>2, Quotient
<1>. SUFFICES E(D(c)) = c /\ Closest("charge_volts", n, D(c))
  BY <1>4, Zenon DEF StoredAgain, Stored, Nearest, Closest
<1>. HIDE DEF E, D, c
<1>7. E(D(c)) = c
  <2>1. (2 * (5 * c) + 5) \div 10 = c
    BY <1>5, IsQuotient
  <2>. QED
    BY <1>2, <1>3, <1>5, <2>1
<1>8. Closest("charge_volts", n, D(c))
  <2>. SUFFICES ASSUME NEW k \in Codes("charge_volts")
                PROVE  Distance(D(c), n) <= Distance(D(k), n)
    BY Zenon DEF Closest, D
  <2>1. k \in Nat /\ D(k) = 5 * k /\ D(c) = 5 * c
    BY <1>1, <1>3, <1>5
  <2>2. Distance(5 * c, n) <= Distance(5 * k, n)
    BY <1>5, <1>6, <2>1 DEF Distance
  <2>. QED
    BY <2>1, <2>2
<1>. QED
  BY <1>7, <1>8

(* Steps of 10 mV.                                                         *)
LEMMA DischargeVoltsStored ==
  ASSUME NEW n \in Int, ~Raises("discharge_volts", n)
  PROVE  /\ StoredAgain("discharge_volts", n)
         /\ Nearest("discharge_volts", n, Stored("discharge_volts", n))
<1>. DEFINE E(v) == Encode("discharge_volts", v)
            D(k) == Decode("discharge_volts", k)
            c == E(n)
<1>1. \A k : k \in Codes("discharge_volts") <=> k \in Nat /\ k < 512
  BY DEF Codes, Layout
<1>2. \A v \in Int : E(v) = (v + 5) \div 10
  BY DEF Encode
<1>3. \A k \in Nat : D(k) = 10 * k
  BY DEF Decode
<1>4. Goal("discharge_volts", n) = n /\ "discharge_volts" \notin RoundsDown
  BY DEF Goal, RoundsDown
<1>5. c \in Nat
  BY <1>1 DEF Raises
<1>6. 10 * c <= n + 5 /\ n + 5 < 10 * c + 10
  BY <1>2, Quotient
<1>. SUFFICES E(D(c)) = c /\ Closest("discharge_volts", n, D(c))
  BY <1>4, Zenon DEF StoredAgain, Stored, Nearest, Closest
<1>. HIDE DEF E, D, c
<1>7. E(D(c)) = c
  <2>1. (10 * c + 5) \div 10 = c
    BY <1>5, IsQuotient
  <2>. QED
    BY <1>2, <1>3, <1>5, <2>1
<1>8. Closest("discharge_volts", n, D(c))
  <2>. SUFFICES ASSUME NEW k \in Codes("discharge_volts")
                PROVE  Distance(D(c), n) <= Distance(D(k), n)
    BY Zenon DEF Closest, D
  <2>1. k \in Nat /\ D(k) = 10 * k /\ D(c) = 10 * c
    BY <1>1, <1>3, <1>5
  <2>2. Distance(10 * c, n) <= Distance(10 * k, n)
    BY <1>5, <1>6, <2>1 DEF Distance
  <2>. QED
    BY <2>1, <2>2
<1>. QED
  BY <1>7, <1>8

(* Steps of 5 mA to 620 mA, then 1, 2 and 3 A.                             *)
LEMMA TrickleStored ==
  ASSUME NEW n \in Int, ~Raises("trickle_current_mamps", n)
  PROVE  /\ StoredAgain("trickle_current_mamps", n)
         /\ Nearest("trickle_current_mamps", n, Stored("trickle_current_mamps", n))
<1>. DEFINE E(v) == Encode("trickle_current_mamps", v)
            D(k) == Decode("trickle_current_mamps", k)
            c == E(n)
<1>1. \A k : k \in Codes("trickle_current_mamps") <=> k \in Nat /\ k < 128
  BY DEF Codes, Layout
<1>2. /\ E(1000) = 125 /\ E(2000) = 126 /\ E(3000) = 127
      /\ \A v \in Int : v <= 620 => E(v) = v \div 5
      /\ \A v \in Int : v > 620 /\ v \notin {1000, 2000, 3000} => E(v) = -1
  BY DEF Encode, TrickleCode, Invalid
<1>3. \A k \in Nat : /\ k < 125 => D(k) = 5 * k
                     /\ k >= 125 => D(k) = 1000 * (k - 124)
  BY DEF Decode
<1>4. Goal("trickle_current_mamps", n) = n /\ "trickle_current_mamps" \in RoundsDown
  BY DEF Goal, RoundsDown
<1>5. c \in Nat
  BY <1>1 DEF Raises
<1>6. n <= 620 => 5 * c <= n /\ n < 5 * c + 5
  BY <1>2, Quotient
<1>7. n <= 620 \/ n \in {1000, 2000, 3000}
  BY <1>2, <1>5
<1>. SUFFICES E(D(c)) = c /\ Highest("trickle_current_mamps", n, D(c))
  BY <1>4, Zenon DEF StoredAgain, Stored, Nearest, Highest
<1>. HIDE DEF E, D, c
<1>8. CASE n <= 620
  <2>1. c < 125 /\ D(c) = 5 * c /\ 5 * c <= 620 /\ 5 * c \in Int
    BY <1>3, <1>5, <1>6, <1>8
  <2>2. (5 * c) \div 5 = c
    BY <1>5, IsQuotient
  <2>3. E(D(c)) = c
    BY <1>2, <2>1, <2>2
  <2>4. ASSUME NEW k \in Codes("trickle_current_mamps") PROVE D(k) \notin (D(c) + 1)..n
    <3>1. k \in Nat /\ (k < 125 => D(k) = 5 * k) /\ (k >= 125 => D(k) = 1000 * (k - 124))
      BY <1>1, <1>3
    <3>. QED
      BY <1>5, <1>6, <1>8, <2>1, <3>1
  <2>5. D(c) <= n
    BY <1>6, <1>8, <2>1
  <2>. QED
    BY <2>3, <2>4, <2>5, Zenon DEF Highest, D
<1>9. CASE n \in {1000, 2000, 3000}
  <2>1. D(125) = 1000 /\ D(126) = 2000 /\ D(127) = 3000
    BY <1>3
  <2>2. D(c) = n
    BY <1>2, <1>9, <2>1 DEF c
  <2>3. ASSUME NEW k \in Codes("trickle_current_mamps") PROVE D(k) \notin (D(c) + 1)..n
    BY <2>2
  <2>4. D(c) <= n
    BY <2>2
  <2>5. E(D(c)) = c
    BY <2>2, Zenon DEF c
  <2>. QED
    BY <2>3, <2>4, <2>5, Zenon DEF Highest, D
<1>. QED
  BY <1>7, <1>8, <1>9

(* Steps of 2 from 38.                                                     *)
LEMMA BeepStored ==
  ASSUME NEW n \in Int, ~Raises("beep_at_percent", n)
  PROVE  /\ StoredAgain("beep_at_percent", n)
         /\ Nearest("beep_at_percent", n, Stored("beep_at_percent", n))
<1>. DEFINE E(v) == Encode("beep_at_percent", v)
            D(k) == Decode("beep_at_percent", k)
            c == E(n)
<1>1. \A k : k \in Codes("beep_at_percent") <=> k \in Nat /\ k < 32
  BY DEF Codes, Layout
<1>2. \A v \in Int : E(v) = (v - 38) \div 2
  BY DEF Encode
<1>3. \A k \in Nat : D(k) = 2 * k + 38
  BY DEF Decode
<1>4. Goal("beep_at_percent", n) = n /\ "beep_at_percent" \in RoundsDown
  BY DEF Goal, RoundsDown
<1>5. c \in Nat
  BY <1>1 DEF Raises
<1>6. 2 * c <= n - 38 /\ n - 38 < 2 * c + 2
  <2>1. \A m \in Int : 2 * (m \div 2) <= m /\ m < 2 * (m \div 2) + 2
    BY Quotient
  <2>2. n - 38 \in Int /\ c = (n - 38) \div 2
    BY <1>2
  <2>. HIDE DEF c
  <2>. QED
    BY <2>1, <2>2
<1>. SUFFICES E(D(c)) = c /\ Highest("beep_at_percent", n, D(c))
  BY <1>4, Zenon DEF StoredAgain, Stored, Nearest, Highest
<1>. HIDE DEF E, D, c
<1>7. E(D(c)) = c
  <2>1. ((2 * c + 38) - 38) \div 2 = c
    BY <1>5, IsQuotient
  <2>. QED
    BY <1>2, <1>3, <1>5, <2>1
<1>8. ASSUME NEW k \in Codes("beep_at_percent") PROVE D(k) \notin (D(c) + 1)..n
  <2>1. k \in Nat /\ D(k) = 2 * k + 38 /\ D(c) = 2 * c + 38
    BY <1>1, <1>3, <1>5
  <2>. QED
    BY <1>5, <1>6, <2>1
<1>9. D(c) <= n
  BY <1>3, <1>5, <1>6
<1>. QED
  BY <1>7, <1>8, <1>9, Zenon DEF Highest, D

(* A quarter, half an ampere, then steps of 1 A to 40 A.                   *)
LEMMA MaxAmpsStored ==
  ASSUME NEW n \in Int, ~Raises("max_charge_amps", n)
  PROVE  /\ StoredAgain("max_charge_amps", n)
         /\ Nearest("max_charge_amps", n, Stored("max_charge_amps", n))
<1>. DEFINE E(v) == Encode("max_charge_amps", v)
            D(k) == Decode("max_charge_amps", k)
            c == E(n)
            goal == Goal("max_charge_amps", n)
<1>1. \A k : k \in Codes("max_charge_amps") <=> k \in Nat /\ k < 64
  BY DEF Codes, Layout
<1>2. \A v \in Int : /\ v <= 37 => E(v) = 0
                     /\ v > 37 /\ v <= 62 => E(v) = 1
                     /\ v > 62 /\ v < 100 => E(v) = 2
                     /\ v >= 100 => E(v) = IF (v + 50) \div 100 + 1 < 41
                                             THEN (v + 50) \div 100 + 1 ELSE 41
  <2>. TAKE v \in Int
  <2>. DEFINE q == (2 * v + 25) \div 50
  <2>1. E(v) = IF v < 100 THEN (IF q <= 1 THEN 0 ELSE IF q = 2 THEN 1 ELSE 2)
               ELSE IF (v + 50) \div 100 + 1 < 41 THEN (v + 50) \div 100 + 1 ELSE 41
    BY DEF Encode, MaxAmpsCode
  <2>2. q \in Int /\ 50 * q <= 2 * v + 25 /\ 2 * v + 25 < 50 * q + 50
    BY Quotient
  <2>. HIDE DEF E, q
  <2>. QED
    BY <2>1, <2>2
<1>3. \A k \in Nat : /\ k = 0 => D(k) = 25
                     /\ k = 1 => D(k) = 50
                     /\ k >= 2 => D(k) = 100 * (k - 1)
  BY DEF Decode
<1>4. /\ goal = IF n > 4000 THEN 4000 ELSE IF n \in 63..74 THEN 100 ELSE n
      /\ "max_charge_amps" \notin RoundsDown
  BY DEF Goal, RoundsDown
<1>5. \A v \in Int, k \in Int :
        v >= 100 /\ 100 * k <= v + 50 /\ v + 50 < 100 * k + 100 =>
          E(v) = IF k + 1 < 41 THEN k + 1 ELSE 41
  <2>. HIDE DEF E
  <2>. TAKE v \in Int, k \in Int
  <2>. HAVE v >= 100 /\ 100 * k <= v + 50 /\ v + 50 < 100 * k + 100
  <2>1. (v + 50) \div 100 = k
    BY IsQuotient
  <2>. QED
    BY <1>2, <2>1
<1>. SUFFICES E(D(c)) = c /\ Closest("max_charge_amps", goal, D(c))
  BY <1>4, Zenon DEF StoredAgain, Stored, Nearest, Closest
<1>. HIDE DEF E, D, c, goal
<1>6. \A k \in Codes("max_charge_amps") :
        D(k) \in Int /\ (D(k) = 25 \/ D(k) = 50 \/ \E j \in Nat : D(k) = 100 + 100 * j)
  <2>. TAKE k \in Codes("max_charge_amps")
  <2>1. k \in Nat
    BY <1>1
  <2>2. CASE k <= 1
    BY <1>3, <2>1, <2>2
  <2>3. CASE k >= 2
    <3>1. k - 2 \in Nat /\ D(k) = 100 + 100 * (k - 2)
      BY <1>3, <2>1, <2>3
    <3>. QED
      BY <3>1
  <2>. QED
    BY <2>1, <2>2, <2>3
<1>7. CASE n <= 37
  <2>1. c = 0 /\ D(c) = 25 /\ goal = n
    BY <1>2, <1>3, <1>4, <1>7 DEF c
  <2>2. E(D(c)) = c
    BY <1>2, <2>1
  <2>3. \A d \in Int : (d = 25 \/ d = 50 \/ \E j \in Nat : d = 100 + 100 * j) =>
          Distance(25, n) <= Distance(d, n)
    BY <1>7 DEF Distance
  <2>. QED
    BY <1>6, <2>1, <2>2, <2>3, Zenon DEF Closest, D
<1>8. CASE n > 37 /\ n <= 62
  <2>1. c = 1 /\ D(c) = 50 /\ goal = n
    BY <1>2, <1>3, <1>4, <1>8 DEF c
  <2>2. E(D(c)) = c
    BY <1>2, <2>1
  <2>3. \A d \in Int : (d = 25 \/ d = 50 \/ \E j \in Nat : d = 100 + 100 * j) =>
          Distance(50, n) <= Distance(d, n)
    BY <1>8 DEF Distance
  <2>. QED
    BY <1>6, <2>1, <2>2, <2>3, Zenon DEF Closest, D
<1>9. CASE n > 62 /\ n < 100
  <2>1. c = 2 /\ D(c) = 100 /\ goal \in Int /\ goal > 74 /\ goal <= 100
    BY <1>2, <1>3, <1>4, <1>9 DEF c
  <2>2. E(100) = 2
    <3>1. 100 * 1 <= 100 + 50 /\ 100 + 50 < 100 * 1 + 100
      OBVIOUS
    <3>2. E(100) = IF 1 + 1 < 41 THEN 1 + 1 ELSE 41
      BY <1>5, <3>1
    <3>. QED
      BY <3>2
  <2>3. \A d \in Int : (d = 25 \/ d = 50 \/ \E j \in Nat : d = 100 + 100 * j) =>
          Distance(100, goal) <= Distance(d, goal)
    BY <2>1 DEF Distance
  <2>. QED
    BY <1>6, <2>1, <2>2, <2>3, Zenon DEF Closest, D
<1>10. CASE n >= 100
  <2>. DEFINE q == (n + 50) \div 100
              g == 100 * (c - 1)
  <2>1. q \in Int /\ 100 * q <= n + 50 /\ n + 50 < 100 * q + 100
    BY Quotient
  <2>2. c = IF q + 1 < 41 THEN q + 1 ELSE 41
    BY <1>2, <1>10 DEF c
  <2>. HIDE DEF q
  <2>3. c \in Nat /\ c >= 2 /\ c <= 41 /\ D(c) = g /\ g \in Int /\ g >= 100
    BY <1>3, <1>10, <2>1, <2>2
  <2>4. goal \in Int /\ goal >= 100 /\ g <= goal + 50 /\ goal <= g + 50
    BY <1>4, <1>10, <2>1, <2>2
  <2>5. E(D(c)) = c
    <3>1. 100 * (c - 1) <= g + 50 /\ g + 50 < 100 * (c - 1) + 100 /\ c - 1 \in Int
      BY <2>3
    <3>2. E(g) = IF (c - 1) + 1 < 41 THEN (c - 1) + 1 ELSE 41
      BY <1>5, <2>3, <3>1
    <3>. QED
      BY <2>3, <3>2
  <2>6. \A d \in Int : (d = 25 \/ d = 50 \/ \E j \in Nat : d = 100 + 100 * j) =>
          Distance(g, goal) <= Distance(d, goal)
    <3>. SUFFICES ASSUME NEW d \in Int, d < 100 \/ \E j \in Nat : d = 100 + 100 * j
                  PROVE  Distance(g, goal) <= Distance(d, goal)
      OBVIOUS
    <3>1. CASE d < 100
      <4>1. g = 100 \/ g >= 200
        BY <2>3
      <4>. HIDE DEF g
      <4>. QED
        BY <2>3, <2>4, <3>1, <4>1 DEF Distance
    <3>2. CASE \E j \in Nat : d = 100 + 100 * j
      <4>1. d <= g - 100 \/ d = g \/ d >= g + 100
        BY <2>3, <3>2
      <4>. HIDE DEF g
      <4>. QED
        BY <2>3, <2>4, <4>1 DEF Distance
    <3>. QED
      BY <3>1, <3>2
  <2>. QED
    BY <1>6, <2>3, <2>5, <2>6, Zenon DEF Closest, D
<1>. QED
  BY <1>7, <1>8, <1>9, <1>10

(* Eight counts, one of them endless.                                      *)
LEMMA CyclesStored ==
  ASSUME NEW n \in Int, ~Raises("num_cycles", n)
  PROVE  /\ StoredAgain("num_cycles", n)
         /\ Nearest("num_cycles", n, Stored("num_cycles", n))
<1>1. \A k : k \in Codes("num_cycles") <=> k \in 0..7
  BY DEF Codes, Layout
<1>2. /\ \E code \in 0..7 : CycleCounts[code] = n
      /\ Encode("num_cycles", n) = CHOOSE code \in 0..7 : CycleCounts[code] = n
  BY <1>1 DEF Raises, Encode, CyclesCode, Invalid
<1>3. CycleCounts[Encode("num_cycles", n)] = n
  BY <1>2
<1>4. \A k \in 0..7 : Decode("num_cycles", k) = CycleCounts[k]
  BY DEF Decode
<1>5. Encode("num_cycles", n) \in 0..7
  BY <1>2
<1>6. Stored("num_cycles", n) = n
  BY <1>3, <1>4, <1>5, Zenon DEF Stored
<1>7. Goal("num_cycles", n) = n /\ "num_cycles" \notin RoundsDown
  BY DEF Goal, RoundsDown
<1>8. \A k \in Codes("num_cycles") : Decode("num_cycles", k) \in Int
  BY <1>1, <1>4, EndlessAssumption DEF CycleCounts
<1>9. \A m \in Int : Distance(n, n) <= Distance(m, n)
  BY DEF Distance
<1>. QED
  BY <1>6, <1>7, <1>8, <1>9, Zenon DEF StoredAgain, Nearest

(* Fields that hold what they are given or raise an exception.             *)
LEMMA ExactStored ==
  ASSUME NEW f \in {"num_parallel", "chemistry"}, NEW n \in Int, ~Raises(f, n)
  PROVE  StoredAgain(f, n) /\ Nearest(f, n, Stored(f, n))
<1>1. Stored(f, n) = n
  <2>1. ASSUME ~Raises("num_parallel", n) PROVE Stored("num_parallel", n) = n
    BY DEF Stored, Encode, Decode
  <2>2. ASSUME ~Raises("chemistry", n) PROVE Stored("chemistry", n) = n
    <3>1. \A k : k \in Codes("chemistry") <=> k \in 0..31
      BY DEF Codes, Layout
    <3>. QED
      BY <2>2, <3>1 DEF Raises, Stored, Encode, Decode, Invalid
  <2>. QED
    BY <2>1, <2>2
<1>2. Goal(f, n) = n /\ f \notin RoundsDown
  BY DEF Goal, RoundsDown
<1>3. \A k \in Codes(f) : Decode(f, k) \in Int
  <2>1. \A k \in Codes("num_parallel") : Decode("num_parallel", k) \in Int
    BY DEF Decode, Codes, Layout
  <2>2. \A k \in Codes("chemistry") : Decode("chemistry", k) \in Int
    BY DEF Decode, Codes, Layout
  <2>. QED
    BY <2>1, <2>2
<1>4. \A m \in Int : Distance(n, n) <= Distance(m, n)
  BY DEF Distance
<1>. QED
  BY <1>1, <1>2, <1>3, <1>4, Zenon DEF StoredAgain, Nearest

Special ==
  {"charge_mamps", "discharge_mamps", "charge_volts", "discharge_volts",
   "trickle_current_mamps", "max_charge_amps", "beep_at_percent", "num_parallel",
   "num_cycles", "chemistry", "is_validated"}

(* The fields whose value is their code.                                   *)
LEMMA PlainField ==
  ASSUME NEW f \in Fields, f \notin Special
  PROVE  /\ \A v : Encode(f, v) = v
         /\ \A k : Decode(f, k) = k
         /\ \A v : Goal(f, v) = v
         /\ f \notin RoundsDown
BY DEF Encode, Decode, Goal, RoundsDown, Special

(* Codes are natural numbers, from 0.                                      *)
LEMMA CodesAreNumbers ==
  ASSUME NEW f \in Fields
  PROVE  /\ Codes(f) \subseteq Nat /\ 0 \in Codes(f)
         /\ \A k \in Codes(f) : k > 0 => 1 \in Codes(f)
<1>. DEFINE N == 2 ^ (Layout[f][3] - Layout[f][2] + 1)
<1>1. N \in Nat \ {0} /\ Codes(f) = 0..(N - 1)
  BY LayoutRange, BitRange, Zenon DEF Codes
<1>. HIDE DEF N
<1>. QED
  BY <1>1

(* Two bits that are read as one.                                          *)
LEMMA ValidatedStored ==
  ASSUME NEW n \in Int, ~Raises("is_validated", n)
  PROVE  /\ Holds("is_validated", Stored("is_validated", n))
         /\ Nearest("is_validated", n, Stored("is_validated", n))
<1>1. \A k : k \in Codes("is_validated") <=> k \in 0..3
  BY DEF Codes, Layout
<1>2. \A v : Encode("is_validated", v) = v
  BY DEF Encode
<1>3. \A k : Decode("is_validated", k) = IF k > 0 THEN 1 ELSE 0
  BY DEF Decode
<1>4. Goal("is_validated", n) = n /\ "is_validated" \notin RoundsDown
  BY DEF Goal, RoundsDown
<1>5. n \in 0..3
  BY <1>1, <1>2, Zenon DEF Raises
<1>6. Stored("is_validated", n) = IF n > 0 THEN 1 ELSE 0
  BY <1>2, <1>3, Zenon DEF Stored
<1>7. Holds("is_validated", 0) /\ Holds("is_validated", 1)
  BY <1>1, <1>2, <1>3 DEF Holds, Raises
<1>8. Closest("is_validated", n, Stored("is_validated", n))
  <2>. SUFFICES ASSUME NEW k \in Codes("is_validated")
                PROVE  Distance(Stored("is_validated", n), n)
                         <= Distance(Decode("is_validated", k), n)
    BY Zenon DEF Closest
  <2>1. Decode("is_validated", k) \in {0, 1}
    BY <1>3
  <2>. QED
    BY <1>5, <1>6, <2>1 DEF Distance
<1>. QED
  BY <1>4, <1>5, <1>6, <1>7, <1>8 DEF Nearest, Closest

(* A plain field holds what it is given.                                   *)
LEMMA PlainStored ==
  ASSUME NEW f \in Fields, f \notin Special, NEW n \in Int, ~Raises(f, n)
  PROVE  StoredAgain(f, n) /\ Nearest(f, n, Stored(f, n))
<1>1. Stored(f, n) = n /\ Goal(f, n) = n /\ f \notin RoundsDown
  BY PlainField, Zenon DEF Stored
<1>2. \A k \in Codes(f) : Decode(f, k) \in Int
  BY PlainField, CodesAreNumbers
<1>3. \A m \in Int : Distance(n, n) <= Distance(m, n)
  BY DEF Distance
<1>. QED
  BY <1>1, <1>2, <1>3, Zenon DEF StoredAgain, Nearest

(* What a setter stores is nearest to what it was given, and can be set as *)
(* it is.                                                                  *)
THEOREM SetterStores ==
  ASSUME NEW f \in Fields, NEW n \in Int, ~Raises(f, n)
  PROVE  Holds(f, Stored(f, n)) /\ Nearest(f, n, Stored(f, n))
<1>1. CASE f = "is_validated"
  BY <1>1, ValidatedStored
<1>2. CASE f # "is_validated"
  <2>1. StoredAgain(f, n) /\ Nearest(f, n, Stored(f, n))
    <3>1. CASE f \notin Special
      BY <3>1, PlainStored
    <3>2. CASE f \in {"num_parallel", "chemistry"}
      BY <3>2, ExactStored
    <3>3. CASE f = "charge_mamps"
      BY <3>3, ChargeStored
    <3>4. CASE f = "discharge_mamps"
      BY <3>4, DischargeStored
    <3>5. CASE f = "charge_volts"
      BY <3>5, ChargeVoltsStored
    <3>6. CASE f = "discharge_volts"
      BY <3>6, DischargeVoltsStored
    <3>7. CASE f = "trickle_current_mamps"
      BY <3>7, TrickleStored
    <3>8. CASE f = "max_charge_amps"
      BY <3>8, MaxAmpsStored
    <3>9. CASE f = "beep_at_percent"
      BY <3>9, BeepStored
    <3>10. CASE f = "num_cycles"
      BY <3>10, CyclesStored
    <3>. QED
      BY <1>2, <3>1, <3>2, <3>3, <3>4, <3>5, <3>6, <3>7, <3>8, <3>9, <3>10, Zenon DEF Special
  <2>2. Encode(f, Stored(f, n)) = Encode(f, n) /\ Encode(f, n) \in Codes(f)
    BY <2>1, Zenon DEF StoredAgain, Raises
  <2>3. Holds(f, Stored(f, n))
    BY <2>2, Zenon DEF Holds, Raises, Stored
  <2>. QED
    BY <2>1, <2>3
<1>. QED
  BY <1>1, <1>2

(* So are the values of a preset whose bits are all 0.                     *)
LEMMA ZeroHolds ==
  ASSUME NEW f \in Fields
  PROVE  Holds(f, Decode(f, 0))
<1>0. 0 \in Codes(f)
  BY CodesAreNumbers
<1>1. SUFFICES Encode(f, Decode(f, 0)) = 0
  BY <1>0, <1>1, Zenon DEF Holds, Raises
<1>2. CASE f \notin Special
  BY <1>2, PlainField, Zenon
<1>3. Encode("charge_mamps", Decode("charge_mamps", 0)) = 0
  BY DEF Encode, Decode, ChargeCode
<1>4. Encode("discharge_mamps", Decode("discharge_mamps", 0)) = 0
  BY DEF Encode, Decode, DischargeCode
<1>5. Encode("charge_volts", Decode("charge_volts", 0)) = 0
  BY DEF Encode, Decode
<1>6. Encode("discharge_volts", Decode("discharge_volts", 0)) = 0
  BY DEF Encode, Decode
<1>7. Encode("trickle_current_mamps", Decode("trickle_current_mamps", 0)) = 0
  BY DEF Encode, Decode, TrickleCode
<1>8. Encode("max_charge_amps", Decode("max_charge_amps", 0)) = 0
  BY DEF Encode, Decode, MaxAmpsCode
<1>9. Encode("beep_at_percent", Decode("beep_at_percent", 0)) = 0
  BY DEF Encode, Decode
<1>10. Encode("num_parallel", Decode("num_parallel", 0)) = 0
  BY DEF Encode, Decode
<1>11. Encode("num_cycles", Decode("num_cycles", 0)) = 0
  <2>1. CycleCounts[0] = 0 /\ \A k \in 0..7 : CycleCounts[k] = 0 => k = 0
    BY EndlessAssumption DEF CycleCounts
  <2>2. Decode("num_cycles", 0) = 0
    BY <2>1 DEF Decode
  <2>3. CyclesCode(0) = 0
    BY <2>1 DEF CyclesCode
  <2>. QED
    BY <2>2, <2>3 DEF Encode
<1>12. Encode("chemistry", Decode("chemistry", 0)) = 0
  BY DEF Encode, Decode
<1>13. Encode("is_validated", Decode("is_validated", 0)) = 0
  BY DEF Encode, Decode
<1>. QED
  BY <1>2, <1>3, <1>4, <1>5, <1>6, <1>7, <1>8, <1>9, <1>10, <1>11, <1>12, <1>13, Zenon DEF Special

-----------------------------------------------------------------------------
(* A preset whose values can all be set as they are.                       *)
Sound(data) == \A f \in Fields : Holds(f, ValueOf(data, f))

(* A setter that does not raise an exception keeps it so.                  *)
LEMMA SetterKeepsSound ==
  ASSUME NEW data \in Data, Sound(data), NEW f \in Fields, NEW value \in Int, ~Raises(f, value)
  PROVE  /\ SetField(data, f, value) \in Data /\ Sound(SetField(data, f, value))
         /\ CodeOf(SetField(data, f, value), f) = Encode(f, value)
         /\ ValueOf(SetField(data, f, value), f) = Stored(f, value)
         /\ \A g \in Fields \ {f} : CodeOf(SetField(data, f, value), g) = CodeOf(data, g)
<1>. DEFINE res == SetField(data, f, value)
<1>1. /\ res \in Data /\ CodeOf(res, f) = Encode(f, value)
      /\ \A g \in Fields \ {f} : CodeOf(res, g) = CodeOf(data, g)
  BY FieldSet, Zenon
<1>2. \A g \in Fields : /\ ValueOf(res, g) = Decode(g, CodeOf(res, g))
                        /\ ValueOf(data, g) = Decode(g, CodeOf(data, g))
  BY Zenon DEF ValueOf, CodeOf
<1>. HIDE DEF res
<1>3. ValueOf(res, f) = Stored(f, value)
  BY <1>1, <1>2, Zenon DEF Stored
<1>4. ASSUME NEW g \in Fields PROVE Holds(g, ValueOf(res, g))
  <2>1. CASE g = f
    BY <1>3, <2>1, SetterStores, Zenon
  <2>2. CASE g # f
    <3>1. ValueOf(res, g) = ValueOf(data, g)
      BY <1>1, <1>2, <2>2
    <3>. QED
      BY <3>1, Zenon DEF Sound
  <2>. QED
    BY <2>1, <2>2
<1>. QED
  BY <1>1, <1>3, <1>4, Zenon DEF Sound, res

-----------------------------------------------------------------------------
(* _modify_preset.  A field is settled if it has the value it should have  *)
(* or the code the setter makes of it.                                     *)
Modification == [data : Data, update : BOOLEAN, raised : BOOLEAN]

Settled(data, new) ==
  /\ ~Raises(new[1], new[2])
  /\ ValueOf(data, new[1]) = new[2] \/ CodeOf(data, new[1]) = Encode(new[1], new[2])

(* One value of _modify_preset settles its field and leaves the others.    *)
LEMMA Adjusted ==
  ASSUME NEW m \in Modification, Sound(m.data), NEW new \in Fields \X Int
  PROVE  /\ Adjust(m, new) \in Modification /\ Sound(Adjust(m, new).data)
         /\ \A g \in Fields : g # new[1] => CodeOf(Adjust(m, new).data, g) = CodeOf(m.data, g)
         /\ ~Adjust(m, new).raised => ~m.raised /\ Settled(Adjust(m, new).data, new)
<1>. DEFINE f == new[1]
            v == new[2]
            res == Adjust(m, new)
<1>1. f \in Fields /\ v \in Int /\ m.data \in Data /\ m.raised \in BOOLEAN /\ m.update \in BOOLEAN
  BY DEF Modification
<1>2. CASE m.raised
  <2>1. res = m
    BY <1>2, Zenon DEF Adjust
  <2>. QED
    BY <1>2, <2>1
<1>3. CASE ~m.raised /\ ValueOf(m.data, f) = v
  <2>1. res = m
    BY <1>3, Zenon DEF Adjust
  <2>2. Holds(f, v)
    BY <1>1, <1>3, Zenon DEF Sound
  <2>3. Settled(m.data, new)
    BY <1>3, <2>2, Zenon DEF Settled, Holds
  <2>. QED
    BY <1>3, <2>1, <2>3
<1>4. CASE ~m.raised /\ ValueOf(m.data, f) # v /\ Raises(f, v)
  <2>1. res = [m EXCEPT !.raised = TRUE]
    BY <1>4, Zenon DEF Adjust, Assign
  <2>2. res \in Modification /\ res.data = m.data /\ res.raised = TRUE
    BY <1>1, <2>1 DEF Modification
  <2>. QED
    BY <2>2
<1>5. CASE ~m.raised /\ ValueOf(m.data, f) # v /\ ~Raises(f, v)
  <2>1. res = [data |-> SetField(m.data, f, v), update |-> TRUE, raised |-> FALSE]
    BY <1>5, Zenon DEF Adjust, Assign
  <2>2. /\ SetField(m.data, f, v) \in Data /\ Sound(SetField(m.data, f, v))
        /\ CodeOf(SetField(m.data, f, v), f) = Encode(f, v)
        /\ \A g \in Fields \ {f} : CodeOf(SetField(m.data, f, v), g) = CodeOf(m.data, g)
    BY <1>1, <1>5, SetterKeepsSound, Zenon
  <2>3. res \in Modification /\ res.data = SetField(m.data, f, v)
    BY <2>1, <2>2 DEF Modification
  <2>. HIDE DEF res, f
  <2>4. Settled(res.data, new)
    BY <1>5, <2>2, <2>3, Zenon DEF Settled, f
  <2>. QED
    BY <1>5, <2>2, <2>3, <2>4 DEF f, res
<1>. QED
  BY <1>1, <1>2, <1>3, <1>4, <1>5

(* A settled field is left as it is.                                       *)
LEMMA AdjustedAgain ==
  ASSUME NEW m \in Modification, NEW new \in Fields \X Int,
         Settled(m.data, new), ~m.raised
  PROVE  /\ Adjust(m, new).data = m.data /\ ~Adjust(m, new).raised
         /\ Adjust(m, new) \in Modification
         /\ Adjust(m, new).update <=> m.update \/ ValueOf(m.data, new[1]) # new[2]
<1>. DEFINE f == new[1]
            v == new[2]
            res == Adjust(m, new)
<1>1. f \in Fields /\ v \in Int /\ m.data \in Data /\ m.update \in BOOLEAN
  BY DEF Modification
<1>2. CASE ValueOf(m.data, f) = v
  <2>1. res = m
    BY <1>2, Zenon DEF Adjust
  <2>. QED
    BY <1>2, <2>1
<1>3. CASE ValueOf(m.data, f) # v
  <2>1. ~Raises(f, v) /\ CodeOf(m.data, f) = Encode(f, v)
    BY <1>3, Zenon DEF Settled
  <2>2. res = [data |-> SetField(m.data, f, v), update |-> TRUE, raised |-> FALSE]
    BY <1>3, <2>1, Zenon DEF Adjust, Assign
  <2>3. SetField(m.data, f, v) = m.data
    BY <1>1, <2>1, SameAgain, Zenon
  <2>. QED
    BY <1>1, <1>3, <2>2, <2>3 DEF Modification
<1>. QED
  BY <1>2, <1>3

(* The values a preset is given: of one field each.                        *)
Asked(all) ==
  /\ all \in Seq(Fields \X Int)
  /\ \A j, k \in 1..Len(all) : all[j][1] = all[k][1] => j = k

Untouched(data) == [data |-> data, update |-> FALSE, raised |-> FALSE]

(* The recursive function of Modified, which there is.                     *)
IsAfter(after, len, data, all) ==
  after = [n \in 0..len |-> IF n = 0 THEN Untouched(data) ELSE Adjust(after[n - 1], all[n])]

(* By induction over the number of values.                                 *)
LEMMA AfterExists ==
  ASSUME NEW N \in Nat, NEW data, NEW all
  PROVE  \E after : IsAfter(after, N, data, all)
<1>. DEFINE T == {k \in Nat : ~ \E after : IsAfter(after, k, data, all)}
<1>1. SUFFICES ASSUME T # {} PROVE FALSE
  OBVIOUS
<1>2. PICK k \in T : \A j \in T : k <= j
  <2>1. T \subseteq Nat
    OBVIOUS
  <2>. HIDE DEF T
  <2>. QED
    BY <1>1, <2>1, LeastNumber
<1>3. CASE k = 0
  <2>. DEFINE g == [n \in 0..0 |-> Untouched(data)]
  <2>1. IsAfter(g, 0, data, all)
    BY DEF IsAfter
  <2>. QED
    BY <1>2, <1>3, <2>1
<1>4. CASE k # 0
  <2>1. k \in Nat /\ k - 1 \in Nat /\ k - 1 \notin T
    BY <1>2, <1>4
  <2>2. PICK g : IsAfter(g, k - 1, data, all)
    BY <2>1
  <2>. DEFINE h == [n \in 0..k |-> IF n = k THEN Adjust(g[k - 1], all[k]) ELSE g[n]]
  <2>3. \A n \in 0..(k - 1) : g[n] = IF n = 0 THEN Untouched(data) ELSE Adjust(g[n - 1], all[n])
    BY <2>2, Zenon DEF IsAfter
  <2>4. \A n \in 0..k : h[n] = IF n = 0 THEN Untouched(data) ELSE Adjust(h[n - 1], all[n])
    <3>. TAKE n \in 0..k
    <3>1. CASE n = k
      <4>1. k - 1 \in 0..k /\ k - 1 # k /\ k \in 0..k
        BY <2>1
      <4>2. h[k - 1] = g[k - 1] /\ h[k] = Adjust(g[k - 1], all[k])
        BY <2>1, <4>1, Zenon
      <4>. QED
        BY <1>4, <3>1, <4>2, Zenon
    <3>2. CASE n # k
      <4>1. n \in 0..(k - 1) /\ (n # 0 => n - 1 \in 0..k /\ n - 1 # k)
        BY <2>1, <3>2
      <4>2. h[n] = g[n] /\ (n # 0 => h[n - 1] = g[n - 1])
        BY <3>2, <4>1, Zenon
      <4>. QED
        BY <2>3, <4>1, <4>2, Zenon
    <3>. QED
      BY <3>1, <3>2
  <2>5. IsAfter(h, k, data, all)
    <3>. DEFINE e(n) == IF n = 0 THEN Untouched(data) ELSE Adjust(h[n - 1], all[n])
    <3>1. \A n \in 0..k : h[n] = e(n)
      BY <2>4, Zenon
    <3>2. h = [n \in 0..k |-> h[n]]
      BY Zenon
    <3>. HIDE DEF h, e
    <3>3. h = [n \in 0..k |-> e(n)]
      BY <3>1, <3>2
    <3>. QED
      BY <3>3, Zenon DEF e, IsAfter
  <2>. QED
    BY <1>2, <2>5
<1>. QED
  BY <1>3, <1>4

(* _modify_preset is the last of it.                                       *)
LEMMA ModifiedIs ==
  ASSUME NEW data, NEW new, AllNew(new) \in Seq(Fields \X Int)
  PROVE  \E after : /\ IsAfter(after, Len(AllNew(new)), data, AllNew(new))
                    /\ Modified(data, new) = after[Len(AllNew(new))]
<1>. DEFINE all == AllNew(new)
            after[n \in 0..Len(all)] ==
              IF n = 0 THEN [data |-> data, update |-> FALSE, raised |-> FALSE]
              ELSE Adjust(after[n - 1], all[n])
<1>1. Len(all) \in Nat
  OBVIOUS
<1>2. Modified(data, new) = after[Len(all)]
  BY Zenon DEF Modified
<1>3. \E g : IsAfter(g, Len(all), data, all)
  BY <1>1, AfterExists, Zenon
<1>4. after = CHOOSE g : IsAfter(g, Len(all), data, all)
  BY Zenon DEF IsAfter, Untouched
<1>5. IsAfter(after, Len(all), data, all)
  <2>. HIDE DEF after
  <2>. QED
    BY <1>3, <1>4, Zenon
<1>. QED
  BY <1>2, <1>5, Zenon

(* What the first k of the values have made of a preset.                   *)
HasTaken(m, k, data, all) ==
  /\ m \in Modification /\ Sound(m.data)
  /\ \A g \in Fields : (\A j \in 1..k : all[j][1] # g) => CodeOf(m.data, g) = CodeOf(data, g)
  /\ ~m.raised => \A j \in 1..k : Settled(m.data, all[j])

(* One value more.                                                         *)
LEMMA Taking ==
  ASSUME NEW data \in Data, Sound(data), NEW all, Asked(all), NEW k \in 0..(Len(all) - 1),
         NEW m, HasTaken(m, k, data, all)
  PROVE  HasTaken(Adjust(m, all[k + 1]), k + 1, data, all)
<1>. DEFINE new == all[k + 1]
            res == Adjust(m, new)
<1>0. Len(all) \in Nat
  BY DEF Asked
<1>1. k \in Nat /\ k + 1 \in 1..Len(all) /\ new \in Fields \X Int
  BY <1>0 DEF Asked
<1>2. m \in Modification /\ Sound(m.data)
  BY DEF HasTaken
<1>3. /\ res \in Modification /\ Sound(res.data)
      /\ \A g \in Fields : g # new[1] => CodeOf(res.data, g) = CodeOf(m.data, g)
      /\ ~res.raised => ~m.raised /\ Settled(res.data, new)
  BY <1>1, <1>2, Adjusted, Zenon
<1>. HIDE DEF res
<1>4. ASSUME NEW g \in Fields, \A j \in 1..(k + 1) : all[j][1] # g
      PROVE  CodeOf(res.data, g) = CodeOf(data, g)
  <2>1. g # new[1] /\ \A j \in 1..k : all[j][1] # g
    BY <1>1, <1>4
  <2>. QED
    BY <1>3, <2>1 DEF HasTaken
<1>5. ASSUME ~res.raised, NEW j \in 1..(k + 1) PROVE Settled(res.data, all[j])
  <2>1. CASE j = k + 1
    BY <1>3, <1>5, <2>1
  <2>2. CASE j # k + 1
    <3>1. j \in 1..k /\ j \in 1..Len(all)
      BY <1>0, <1>1, <2>2
    <3>2. all[j] \in Fields \X Int /\ all[j][1] # new[1]
      BY <1>1, <2>2, <3>1 DEF Asked
    <3>3. CodeOf(res.data, all[j][1]) = CodeOf(m.data, all[j][1])
      BY <1>3, <3>2
    <3>4. Settled(m.data, all[j])
      BY <1>3, <1>5, <3>1 DEF HasTaken
    <3>5. ValueOf(res.data, all[j][1]) = ValueOf(m.data, all[j][1])
      BY <3>3, Zenon DEF ValueOf, CodeOf
    <3>. QED
      BY <3>3, <3>4, <3>5, Zenon DEF Settled
  <2>. QED
    BY <2>1, <2>2
<1>. QED
  BY <1>3, <1>4, <1>5, Zenon DEF HasTaken, res

(* All of them, by induction.                                              *)
LEMMA AllTaken ==
  ASSUME NEW data \in Data, Sound(data), NEW all, Asked(all),
         NEW after, IsAfter(after, Len(all), data, all)
  PROVE  \A k \in 0..Len(all) : HasTaken(after[k], k, data, all)
<1>. DEFINE T == {k \in 0..Len(all) : ~HasTaken(after[k], k, data, all)}
<1>0. Len(all) \in Nat
  BY DEF Asked
<1>1. SUFFICES ASSUME T # {} PROVE FALSE
  OBVIOUS
<1>2. PICK k \in T : \A j \in T : k <= j
  <2>1. T \subseteq Nat
    BY <1>0
  <2>. HIDE DEF T
  <2>. QED
    BY <1>1, <2>1, LeastNumber
<1>3. after[0] = Untouched(data)
  BY <1>0 DEF IsAfter
<1>4. CASE k = 0
  <2>1. /\ Untouched(data) \in Modification /\ Untouched(data).data = data
        /\ \A j \in 1..0 : FALSE
    BY DEF Untouched, Modification
  <2>. HIDE DEF Untouched
  <2>2. HasTaken(after[0], 0, data, all)
    BY <1>3, <2>1 DEF HasTaken
  <2>. QED
    BY <1>2, <1>4, <2>2
<1>5. CASE k # 0
  <2>. DEFINE j == k - 1
  <2>1. j \in 0..(Len(all) - 1) /\ j \notin T /\ j \in 0..Len(all) /\ j + 1 = k /\ k \in 0..Len(all)
    BY <1>0, <1>2, <1>5
  <2>2. after[k] = Adjust(after[j], all[j + 1])
    BY <1>5, <2>1, Zenon DEF IsAfter
  <2>3. HasTaken(after[j], j, data, all)
    BY <2>1
  <2>. HIDE DEF j
  <2>4. HasTaken(after[k], k, data, all)
    BY <2>1, <2>2, <2>3, Taking, Zenon
  <2>. QED
    BY <1>2, <2>4
<1>. QED
  BY <1>4, <1>5

StillIs(m, k, data, all) ==
  /\ m \in Modification /\ m.data = data /\ ~m.raised
  /\ m.update <=> \E j \in 1..k : ValueOf(data, all[j][1]) # all[j][2]

(* Values that are settled already change nothing, by induction.           *)
LEMMA NothingTaken ==
  ASSUME NEW data \in Data, NEW all, Asked(all),
         \A k \in 1..Len(all) : Settled(data, all[k]),
         NEW after, IsAfter(after, Len(all), data, all)
  PROVE  \A k \in 0..Len(all) : StillIs(after[k], k, data, all)
<1>. DEFINE T == {k \in 0..Len(all) : ~StillIs(after[k], k, data, all)}
<1>0. Len(all) \in Nat
  BY DEF Asked
<1>1. SUFFICES ASSUME T # {} PROVE FALSE
  OBVIOUS
<1>2. PICK k \in T : \A j \in T : k <= j
  <2>1. T \subseteq Nat
    BY <1>0
  <2>. HIDE DEF T
  <2>. QED
    BY <1>1, <2>1, LeastNumber
<1>3. after[0] = Untouched(data)
  BY <1>0 DEF IsAfter
<1>4. CASE k = 0
  <2>1. /\ Untouched(data) \in Modification /\ Untouched(data).data = data
        /\ Untouched(data).update = FALSE /\ Untouched(data).raised = FALSE
    BY DEF Untouched, Modification
  <2>2. \A j \in 1..0 : FALSE
    OBVIOUS
  <2>. HIDE DEF Untouched
  <2>3. StillIs(after[0], 0, data, all)
    BY <1>3, <2>1, <2>2 DEF StillIs
  <2>. QED
    BY <1>2, <1>4, <2>3
<1>5. CASE k # 0
  <2>. DEFINE j == k - 1
  <2>1. j \in 0..(Len(all) - 1) /\ j \notin T /\ j \in 0..Len(all) /\ j + 1 = k /\ k \in 1..Len(all)
        /\ k \in 0..Len(all)
    BY <1>0, <1>2, <1>5
  <2>2. after[k] = Adjust(after[j], all[k])
    BY <1>5, <2>1, Zenon DEF IsAfter
  <2>3. StillIs(after[j], j, data, all)
    BY <2>1
  <2>4. all[k] \in Fields \X Int /\ Settled(data, all[k])
    BY <2>1 DEF Asked
  <2>5. /\ after[k].data = data /\ ~after[k].raised /\ after[k] \in Modification
        /\ after[k].update <=> after[j].update \/ ValueOf(data, all[k][1]) # all[k][2]
    BY <2>2, <2>3, <2>4, AdjustedAgain DEF StillIs
  <2>6. \A i : i \in 1..k <=> i \in 1..j \/ i = k
    BY <2>1
  <2>7. StillIs(after[k], k, data, all)
    BY <2>3, <2>5, <2>6 DEF StillIs
  <2>. QED
    BY <1>2, <2>7
<1>. QED
  BY <1>4, <1>5

-----------------------------------------------------------------------------
(* The values of a battery and the 40 A after them are of one field each.  *)
LEMMA AllNewAsked ==
  ASSUME NEW new \in Seq((Fields \ {"max_charge_amps"}) \X Int),
         \A j, k \in DOMAIN new : new[j][1] = new[k][1] => j = k
  PROVE  /\ Asked(AllNew(new)) /\ Len(AllNew(new)) = Len(new) + 1 /\ Len(new) \in Nat
         /\ \A k \in 1..Len(new) : AllNew(new)[k] = new[k] /\ k \in DOMAIN new
         /\ AllNew(new)[Len(new) + 1] = <<"max_charge_amps", 4000>>
<1>. DEFINE all == AllNew(new)
            last == <<"max_charge_amps", 4000>>
<1>1. "max_charge_amps" \in Fields
  BY DEF Fields, Layout
<1>2. last \in Fields \X Int
  BY <1>1
<1>3. new \in Seq(Fields \X Int)
  OBVIOUS
<1>4. /\ all \in Seq(Fields \X Int) /\ Len(all) = Len(new) + 1 /\ Len(new) \in Nat
      /\ \A k \in 1..Len(new) : all[k] = new[k] /\ k \in DOMAIN new
      /\ all[Len(new) + 1] = last
  BY <1>2, <1>3 DEF AllNew
<1>5. \A k \in 1..Len(new) : new[k][1] # "max_charge_amps"
  OBVIOUS
<1>. HIDE DEF all
<1>6. ASSUME NEW j \in 1..Len(all), NEW k \in 1..Len(all), all[j][1] = all[k][1] PROVE j = k
  <2>1. \A i \in 1..Len(all) : i \in 1..Len(new) \/ i = Len(new) + 1
    BY <1>4
  <2>2. last[1] = "max_charge_amps"
    OBVIOUS
  <2>3. CASE j \in 1..Len(new) /\ k \in 1..Len(new)
    <3>1. all[j] = new[j] /\ all[k] = new[k] /\ j \in DOMAIN new /\ k \in DOMAIN new
      BY <1>4, <2>3
    <3>. QED
      BY <1>6, <3>1, Zenon
  <2>4. CASE j \in 1..Len(new) /\ k = Len(new) + 1
    BY <1>4, <1>5, <1>6, <2>2, <2>4
  <2>5. CASE k \in 1..Len(new) /\ j = Len(new) + 1
    BY <1>4, <1>5, <1>6, <2>2, <2>5
  <2>. QED
    BY <2>1, <2>3, <2>4, <2>5
<1>. QED
  BY <1>4, <1>6 DEF Asked, all

(* A preset given values settles; and again changes nothing, and needs an  *)
(* update exactly if one of them is not held as it is.                     *)
THEOREM ModifiedSettles ==
  ASSUME NEW data \in Data, Sound(data),
         NEW new \in Seq((Fields \ {"max_charge_amps"}) \X Int),
         \A j, k \in DOMAIN new : new[j][1] = new[k][1] => j = k
  PROVE  /\ Modified(data, new) \in Modification /\ Sound(Modified(data, new).data)
         /\ \A g \in Fields : (\A k \in DOMAIN AllNew(new) : AllNew(new)[k][1] # g) =>
              CodeOf(Modified(data, new).data, g) = CodeOf(data, g)
         /\ ~Modified(data, new).raised =>
              /\ Modified(Modified(data, new).data, new).data = Modified(data, new).data
              /\ ~Modified(Modified(data, new).data, new).raised
              /\ Modified(Modified(data, new).data, new).update
                   <=> \E k \in DOMAIN new : ~Holds(new[k][1], new[k][2])
<1>. DEFINE all == AllNew(new)
            N == Len(all)
            res == Modified(data, new)
<1>1. /\ Asked(all) /\ N = Len(new) + 1 /\ Len(new) \in Nat
      /\ \A k \in 1..Len(new) : all[k] = new[k] /\ k \in DOMAIN new
      /\ all[Len(new) + 1] = <<"max_charge_amps", 4000>>
  BY AllNewAsked
<1>2. all \in Seq(Fields \X Int) /\ N \in 0..N /\ DOMAIN all = 1..N /\ DOMAIN new = 1..Len(new)
  BY <1>1 DEF Asked
<1>3. HasTaken(res, N, data, all)
  <2>1. PICK after : IsAfter(after, N, data, all) /\ res = after[N]
    BY <1>2, ModifiedIs, Zenon
  <2>2. \A k \in 0..N : HasTaken(after[k], k, data, all)
    BY <1>1, <2>1, AllTaken
  <2>. QED
    BY <1>2, <2>1, <2>2, Zenon
<1>. HIDE DEF res, all
<1>4. ASSUME ~res.raised
      PROVE  LET again == Modified(res.data, new) IN
             /\ again.data = res.data /\ ~again.raised
             /\ again.update <=> \E k \in DOMAIN new : ~Holds(new[k][1], new[k][2])
  <2>. DEFINE again == Modified(res.data, new)
  <2>1. res.data \in Data /\ Sound(res.data) /\ \A k \in 1..N : Settled(res.data, all[k])
    BY <1>3, <1>4 DEF HasTaken, Modification
  <2>2. PICK after : IsAfter(after, N, res.data, all) /\ again = after[N]
    BY <1>2, ModifiedIs, Zenon DEF all
  <2>3. /\ again.data = res.data /\ ~again.raised
        /\ again.update <=> \E k \in 1..N : ValueOf(res.data, all[k][1]) # all[k][2]
    <3>. DEFINE d == res.data
    <3>0. d \in Data /\ Asked(all) /\ IsAfter(after, Len(all), d, all)
          /\ \A k \in 1..Len(all) : Settled(d, all[k])
      BY <1>1, <2>1, <2>2
    <3>. HIDE DEF d, again
    <3>1. \A k \in 0..N : StillIs(after[k], k, d, all)
      BY <3>0, NothingTaken
    <3>2. StillIs(again, N, d, all)
      BY <1>2, <2>2, <3>1, Zenon
    <3>. QED
      BY <3>2, Zenon DEF StillIs, d
  <2>. HIDE DEF again, N
  <2>4. ASSUME NEW k \in 1..N
        PROVE  ValueOf(res.data, all[k][1]) # all[k][2] <=> ~Holds(all[k][1], all[k][2])
    <3>. DEFINE f == all[k][1]
                v == all[k][2]
    <3>1. f \in Fields /\ Settled(res.data, all[k])
      BY <1>2, <2>1
    <3>2. CASE ValueOf(res.data, f) = v
      BY <2>1, <3>1, <3>2, Zenon DEF Sound
    <3>3. CASE ValueOf(res.data, f) # v /\ CodeOf(res.data, f) = Encode(f, v)
      <4>1. ValueOf(res.data, f) = Decode(f, Encode(f, v))
        BY <3>3, Zenon DEF ValueOf, CodeOf
      <4>. QED
        BY <3>3, <4>1, Zenon DEF Holds
    <3>. QED
      BY <3>1, <3>2, <3>3, Zenon DEF Settled
  <2>5. Holds("max_charge_amps", 4000)
    BY DEF Holds, Raises, Encode, MaxAmpsCode, Decode, Codes, Layout
  <2>6. (\E k \in 1..N : ~Holds(all[k][1], all[k][2]))
          <=> \E k \in DOMAIN new : ~Holds(new[k][1], new[k][2])
    <3>1. ASSUME NEW k \in 1..N, ~Holds(all[k][1], all[k][2])
          PROVE  \E j \in DOMAIN new : ~Holds(new[j][1], new[j][2])
      <4>1. k \in 1..Len(new) \/ k = Len(new) + 1
        BY <1>1
      <4>2. k # Len(new) + 1
        BY <1>1, <2>5, <3>1
      <4>. QED
        BY <1>1, <3>1, <4>1, <4>2
    <3>2. ASSUME NEW k \in DOMAIN new, ~Holds(new[k][1], new[k][2])
          PROVE  \E j \in 1..N : ~Holds(all[j][1], all[j][2])
      <4>1. k \in 1..N /\ all[k] = new[k]
        BY <1>1, <1>2
      <4>. QED
        BY <3>2, <4>1
    <3>. QED
      BY <3>1, <3>2
  <2>. QED
    BY <2>3, <2>4, <2>6 DEF again
<1>5. \A g \in Fields : (\A k \in DOMAIN all : all[k][1] # g) => CodeOf(res.data, g) = CodeOf(data, g)
  BY <1>2, <1>3 DEF HasTaken
<1>. QED
  BY <1>3, <1>4, <1>5 DEF HasTaken, res, all
=============================================================================
