-------------------------- MODULE PresetStoreProofs --------------------------
(***************************************************************************)
(* Proofs about module PresetStore: what util.checksum tells apart, that   *)
(* an image holds the presets it was made of, and from the invariant Inv   *)
(* the properties that the run PresetStore checks.                         *)
(***************************************************************************)
EXTENDS PresetStore, PresetProofs

(* A word added to the sum, which is then rotated.                         *)
NextSum(sum, word) == RotateLeft2((sum + word) % 2 ^ 16)

(* One step of util.checksum: words are added and rotated without a loss.  *)
LEMMA Rotates ==
  ASSUME NEW w \in Word, NEW v \in Word
  PROVE  RotateLeft2(w) \in Word /\ (RotateLeft2(w) = RotateLeft2(v) => w = v)
BY DEF Word, RotateLeft2

(* The sum of two words, cut to 16 bits, tells one of them by the other.   *)
LEMMA AddsUp ==
  ASSUME NEW w \in Word, NEW v \in Word, NEW x \in Word
  PROVE  /\ (x + w) % 2 ^ 16 \in Word
         /\ (x + w) % 2 ^ 16 = (x + v) % 2 ^ 16 => w = v
         /\ (w + x) % 2 ^ 16 = (v + x) % 2 ^ 16 => w = v
BY DEF Word

(* So a step tells the word, and what it began with.                       *)
LEMMA NextSums ==
  ASSUME NEW w \in Word, NEW v \in Word, NEW x \in Word
  PROVE  /\ NextSum(x, w) \in Word
         /\ NextSum(x, w) = NextSum(x, v) => w = v
         /\ NextSum(w, x) = NextSum(v, x) => w = v
BY AddsUp, Rotates DEF NextSum

(* The length of a sequence that is given as a function.                   *)
LEMMA LenOfWords ==
  ASSUME NEW n \in Nat, NEW words \in [1..n -> Word]
  PROVE  Len(words) = n
OBVIOUS

-----------------------------------------------------------------------------
(* The loop over the words, which is a recursive function: there is one,   *)
(* because each half of a run is shorter than the run.                     *)
Words == UNION {[1..n -> Word] : n \in Nat \ {0}}

Middle(a, b) == (a + b) \div 2

Upto(words, k) == {run \in Runs(words) : run[2] - run[1] <= k}

Body(g, words, run) ==
  IF run[1] = run[2] THEN NextSum(run[3], words[run[1]])
  ELSE g[<<Middle(run[1], run[2]) + 1, run[2],
           g[<<run[1], Middle(run[1], run[2]), run[3]>>]>>]

IsLoop(g, words, k) == g = [run \in Upto(words, k) |-> Body(g, words, run)]

(* Runs of a given length.                                                 *)
LEMMA IsRun ==
  ASSUME NEW words, NEW k \in Int, NEW a \in 1..Len(words), NEW b \in 1..Len(words), NEW x \in Word,
         a <= b, b - a <= k
  PROVE  /\ <<a, b, x>> \in Upto(words, k)
         /\ <<a, b, x>>[1] = a /\ <<a, b, x>>[2] = b /\ <<a, b, x>>[3] = x
BY DEF Upto, Runs

(* And what they are made of.                                              *)
LEMMA RunIs ==
  ASSUME NEW words, Len(words) \in Nat, NEW k \in Int, NEW run \in Upto(words, k)
  PROVE  /\ run[1] \in 1..Len(words) /\ run[2] \in 1..Len(words) /\ run[3] \in Word
         /\ run[1] <= run[2] /\ run[2] - run[1] <= k /\ run[1] \in Int /\ run[2] \in Int
         /\ run = <<run[1], run[2], run[3]>>
BY DEF Upto, Runs

(* Both halves of a run are shorter.                                       *)
LEMMA MiddleIs ==
  ASSUME NEW N \in Nat, NEW a \in 1..N, NEW b \in 1..N, a < b
  PROVE  /\ Middle(a, b) \in 1..N /\ Middle(a, b) + 1 \in 1..N
         /\ a <= Middle(a, b) /\ Middle(a, b) + 1 <= b
         /\ Middle(a, b) - a < b - a /\ b - (Middle(a, b) + 1) < b - a
BY DEF Middle

(* Words are a sequence that is not empty.                                 *)
LEMMA WordsAre ==
  ASSUME NEW words \in Words
  PROVE  Len(words) \in Nat \ {0} /\ words \in [1..Len(words) -> Word]
<1>1. PICK n \in Nat \ {0} : words \in [1..n -> Word]
  BY DEF Words
<1>2. Len(words) = n
  BY <1>1, LenOfWords
<1>. QED
  BY <1>1, <1>2

(* Runs no longer than k: the loop is defined for them, and gives words.   *)
LoopExists(words, k) == \E g : IsLoop(g, words, k) /\ g \in [Upto(words, k) -> Word]

(* A loop that is right for runs of up to k words is all that runs of one  *)
(* more need.                                                              *)
LEMMA BodyExtends ==
  ASSUME NEW words \in Words, NEW k \in Nat, NEW g, g \in [Upto(words, k) -> Word],
         NEW h, \A run \in Upto(words, k) : h[run] = g[run],
         NEW run \in Upto(words, k + 1)
  PROVE  Body(h, words, run) = Body(g, words, run) /\ Body(g, words, run) \in Word
<1>. DEFINE a == run[1]
            b == run[2]
            x == run[3]
            m == Middle(a, b)
<1>1. Len(words) \in Nat /\ words \in [1..Len(words) -> Word]
  BY WordsAre
<1>2. /\ a \in 1..Len(words) /\ b \in 1..Len(words) /\ x \in Word /\ a <= b /\ b - a <= k + 1
      /\ a \in Int /\ b \in Int
  BY <1>1, RunIs
<1>. HIDE DEF a, b, x
<1>3. CASE a = b
  <2>1. NextSum(x, words[a]) \in Word
    BY <1>1, <1>2, NextSums
  <2>. QED
    BY <1>3, <2>1, Zenon DEF Body, a, b, x
<1>4. CASE a # b
  <2>1. /\ m \in 1..Len(words) /\ m + 1 \in 1..Len(words) /\ a <= m /\ m + 1 <= b
        /\ m - a <= k /\ b - (m + 1) <= k
    <3>1. a < b
      BY <1>2, <1>4
    <3>2. /\ m \in 1..Len(words) /\ m + 1 \in 1..Len(words) /\ a <= m /\ m + 1 <= b
          /\ m - a < b - a /\ b - (m + 1) < b - a
      BY <1>1, <1>2, <3>1, MiddleIs, Zenon
    <3>. HIDE DEF m
    <3>. QED
      BY <1>1, <1>2, <3>2
  <2>. HIDE DEF m
  <2>2. <<a, m, x>> \in Upto(words, k)
    BY <1>2, <2>1, IsRun
  <2>. DEFINE y == g[<<a, m, x>>]
  <2>3. y \in Word /\ h[<<a, m, x>>] = y
    BY <2>2, Zenon
  <2>. HIDE DEF y
  <2>4. <<m + 1, b, y>> \in Upto(words, k)
    BY <1>2, <2>1, <2>3, IsRun
  <2>5. g[<<m + 1, b, y>>] \in Word /\ h[<<m + 1, b, y>>] = g[<<m + 1, b, y>>]
    BY <2>4, Zenon
  <2>6. /\ Body(g, words, run) = g[<<m + 1, b, y>>]
        /\ Body(h, words, run) = h[<<m + 1, b, h[<<a, m, x>>]>>]
    BY <1>4, Zenon DEF Body, a, b, x, m, y
  <2>. QED
    BY <2>3, <2>5, <2>6, Zenon
<1>. QED
  BY <1>3, <1>4

(* Runs of one word.                                                       *)
LEMMA LoopBegins ==
  ASSUME NEW words \in Words
  PROVE  LoopExists(words, 0)
<1>. DEFINE U == Upto(words, 0)
            e(run) == NextSum(run[3], words[run[1]])
            g == [run \in U |-> e(run)]
<1>1. Len(words) \in Nat /\ words \in [1..Len(words) -> Word]
  BY WordsAre
<1>2. ASSUME NEW run \in U PROVE e(run) \in Word /\ Body(g, words, run) = e(run)
  <2>1. run[1] = run[2] /\ run[1] \in 1..Len(words) /\ run[3] \in Word
    BY <1>1, RunIs
  <2>2. words[run[1]] \in Word
    BY <1>1, <2>1
  <2>3. e(run) \in Word
    BY <2>1, <2>2, NextSums, Zenon
  <2>. QED
    BY <2>1, <2>3, Zenon DEF Body
<1>3. IsLoop(g, words, 0)
  <2>. DEFINE e2(run) == Body(g, words, run)
  <2>1. \A run \in U : e(run) = e2(run)
    BY <1>2, Zenon
  <2>2. g = [run \in U |-> e(run)]
    OBVIOUS
  <2>. HIDE DEF g, U, e, e2
  <2>3. g = [run \in U |-> e2(run)]
    BY <2>1, <2>2
  <2>. QED
    BY <2>3, Zenon DEF IsLoop, e2, U
<1>4. g \in [U -> Word]
  <2>. HIDE DEF U, e
  <2>. QED
    BY <1>2
<1>. QED
  BY <1>3, <1>4, Zenon DEF LoopExists

(* Runs of one word more.                                                  *)
LEMMA LoopGoesOn ==
  ASSUME NEW words \in Words, NEW k \in Nat, LoopExists(words, k)
  PROVE  LoopExists(words, k + 1)
<1>1. PICK g : IsLoop(g, words, k) /\ g \in [Upto(words, k) -> Word]
  BY DEF LoopExists
<1>. DEFINE U == Upto(words, k + 1)
            e(run) == Body(g, words, run)
            h == [run \in U |-> e(run)]
<1>2. \A run \in Upto(words, k) : run \in U /\ h[run] = g[run]
  <2>. TAKE run \in Upto(words, k)
  <2>1. run \in U
    BY WordsAre, RunIs DEF Upto
  <2>2. g[run] = Body(g, words, run)
    BY <1>1, Zenon DEF IsLoop
  <2>. QED
    BY <2>1, <2>2, Zenon
<1>. HIDE DEF h
<1>3. \A run \in U : Body(h, words, run) = e(run) /\ e(run) \in Word
  BY <1>1, <1>2, BodyExtends
<1>4. h \in [U -> Word]
  <2>. HIDE DEF U, e
  <2>. QED
    BY <1>3 DEF h
<1>5. IsLoop(h, words, k + 1)
  <2>. DEFINE e2(run) == Body(h, words, run)
  <2>1. \A run \in U : e(run) = e2(run)
    BY <1>3, Zenon
  <2>2. h = [run \in U |-> e(run)]
    BY DEF h
  <2>. HIDE DEF U, e, e2
  <2>3. h = [run \in U |-> e2(run)]
    BY <2>1, <2>2
  <2>. QED
    BY <2>3, Zenon DEF IsLoop, e2, U
<1>. QED
  BY <1>4, <1>5, Zenon DEF LoopExists

(* By induction over the length.                                           *)
LEMMA LoopForAll ==
  ASSUME NEW words \in Words, NEW n \in Nat
  PROVE  LoopExists(words, n)
<1>. DEFINE T == {k \in Nat : ~LoopExists(words, k)}
<1>1. SUFFICES ASSUME T # {} PROVE FALSE
  OBVIOUS
<1>2. PICK k \in T : \A j \in T : k <= j
  <2>1. T \subseteq Nat
    OBVIOUS
  <2>. HIDE DEF T
  <2>. QED
    BY <1>1, <2>1, LeastNumber
<1>3. CASE k = 0
  BY <1>2, <1>3, LoopBegins
<1>4. CASE k # 0
  <2>1. k - 1 \in Nat /\ k - 1 \notin T /\ (k - 1) + 1 = k
    BY <1>2, <1>4
  <2>2. LoopExists(words, k - 1)
    BY <2>1
  <2>3. LoopExists(words, (k - 1) + 1)
    BY <2>1, <2>2, LoopGoesOn, Zenon
  <2>. QED
    BY <1>2, <2>1, <2>3
<1>. QED
  BY <1>3, <1>4

Solves(g, words) == \A run \in Runs(words) : g[run] = Body(g, words, run)

(* util.checksum is the whole run of a loop that solves the equation.      *)
LEMMA ChecksumIs ==
  ASSUME NEW words \in Words
  PROVE  \E g : Solves(g, words) /\ \A init : Checksum(words, init) = g[<<1, Len(words), init>>]
<1>. DEFINE IsL(l) == l = [run \in Runs(words) |-> Body(l, words, run)]
            loop == CHOOSE l : IsL(l)
            N == Len(words)
<1>1. N \in Nat
  BY WordsAre
<1>2. Upto(words, N) = Runs(words)
  <2>. HIDE DEF N
  <2>1. \A run \in Runs(words) : run[2] - run[1] <= N
    BY <1>1 DEF Runs, N
  <2>. QED
    BY <2>1 DEF Upto
<1>3. \E l : IsL(l)
  BY <1>1, <1>2, LoopForAll, Zenon DEF LoopExists, IsLoop
<1>4. IsL(loop)
  <2>. HIDE DEF IsL
  <2>. QED
    BY <1>3, Zenon
<1>5. \A init : Checksum(words, init) = loop[<<1, N, init>>]
  BY DEF Checksum, Body, NextSum, Middle
<1>6. Solves(loop, words)
  <2>. HIDE DEF loop
  <2>. QED
    BY <1>4, Zenon DEF Solves
<1>. QED
  BY <1>5, <1>6

(* Two runs over words that are the same, or of which one is not.          *)
Agree(words, others, a, b) == \A i \in a..b : words[i] = others[i]
DifferOnce(words, others, a, b) ==
  \E j \in a..b : /\ words[j] # others[j]
                  /\ \A i \in a..b : i # j => words[i] = others[i]

Compared(g, words, h, others, a, b) ==
  \A x, y \in Word :
    /\ g[<<a, b, x>>] \in Word /\ h[<<a, b, x>>] \in Word
    /\ g[<<a, b, x>>] = g[<<a, b, y>>] => x = y
    /\ Agree(words, others, a, b) => h[<<a, b, x>>] = g[<<a, b, x>>]
    /\ DifferOnce(words, others, a, b) => h[<<a, b, x>>] # g[<<a, b, x>>]

(* Where words differ once, they differ in one half and agree in the       *)
(* other.                                                                  *)
LEMMA HalvesDiffer ==
  ASSUME NEW a \in Int, NEW m \in Int, NEW b \in Int, a <= m, m < b, NEW words, NEW others
  PROVE  /\ Agree(words, others, a, b) =>
              Agree(words, others, a, m) /\ Agree(words, others, m + 1, b)
         /\ DifferOnce(words, others, a, b) =>
              \/ DifferOnce(words, others, a, m) /\ Agree(words, others, m + 1, b)
              \/ Agree(words, others, a, m) /\ DifferOnce(words, others, m + 1, b)
<1>1. \A i : i \in a..b <=> i \in a..m \/ i \in (m + 1)..b
  OBVIOUS
<1>2. \A i : ~(i \in a..m /\ i \in (m + 1)..b)
  OBVIOUS
<1>3. ASSUME Agree(words, others, a, b)
      PROVE  Agree(words, others, a, m) /\ Agree(words, others, m + 1, b)
  BY <1>1, <1>3, Zenon DEF Agree
<1>4. ASSUME NEW j \in a..b, words[j] # others[j], \A i \in a..b : i # j => words[i] = others[i]
      PROVE  \/ DifferOnce(words, others, a, m) /\ Agree(words, others, m + 1, b)
             \/ Agree(words, others, a, m) /\ DifferOnce(words, others, m + 1, b)
  <2>0. /\ \A i \in a..m : i # j => words[i] = others[i]
        /\ \A i \in (m + 1)..b : i # j => words[i] = others[i]
    BY <1>1, <1>4, Zenon
  <2>1. CASE j \in a..m
    <3>1. \A i \in (m + 1)..b : i # j
      BY <1>2, <2>1, Zenon
    <3>. QED
      BY <1>4, <2>0, <2>1, <3>1, Zenon DEF Agree, DifferOnce
  <2>2. CASE j \in (m + 1)..b
    <3>1. \A i \in a..m : i # j
      BY <1>2, <2>2, Zenon
    <3>. QED
      BY <1>4, <2>0, <2>2, <3>1, Zenon DEF Agree, DifferOnce
  <2>. QED
    BY <1>1, <2>1, <2>2, Zenon
<1>. QED
  BY <1>3, <1>4, Zenon DEF DifferOnce

(* What holds of the halves holds of the run.                              *)
LEMMA ComparedHalves ==
  ASSUME NEW N \in Nat, NEW a \in 1..N, NEW b \in 1..N, a < b,
         NEW words, NEW others, NEW g, NEW h,
         \A x \in Word : /\ g[<<a, b, x>>] = Body(g, words, <<a, b, x>>)
                         /\ h[<<a, b, x>>] = Body(h, others, <<a, b, x>>),
         Compared(g, words, h, others, a, Middle(a, b)),
         Compared(g, words, h, others, Middle(a, b) + 1, b)
  PROVE  Compared(g, words, h, others, a, b)
<1>. DEFINE m == Middle(a, b)
<1>0. m \in 1..N /\ a <= m /\ m + 1 <= b
  BY MiddleIs, Zenon
<1>. HIDE DEF m
<1>1. /\ a \in Int /\ b \in Int /\ m \in Int /\ a <= m /\ m < b /\ a # b
  BY <1>0
<1>2. /\ Agree(words, others, a, b) =>
            Agree(words, others, a, m) /\ Agree(words, others, m + 1, b)
      /\ DifferOnce(words, others, a, b) =>
            \/ DifferOnce(words, others, a, m) /\ Agree(words, others, m + 1, b)
            \/ Agree(words, others, a, m) /\ DifferOnce(words, others, m + 1, b)
  BY <1>1, HalvesDiffer, Zenon
<1>3. \A x \in Word : /\ g[<<a, b, x>>] = g[<<m + 1, b, g[<<a, m, x>>]>>]
                      /\ h[<<a, b, x>>] = h[<<m + 1, b, h[<<a, m, x>>]>>]
  <2>. TAKE x \in Word
  <2>1. <<a, b, x>>[1] = a /\ <<a, b, x>>[2] = b /\ <<a, b, x>>[3] = x
    OBVIOUS
  <2>2. \A l, ws : Body(l, ws, <<a, b, x>>) = l[<<m + 1, b, l[<<a, m, x>>]>>]
    BY <1>1, <2>1, Zenon DEF Body, m
  <2>. QED
    BY <2>2, Zenon
<1>4. Compared(g, words, h, others, a, m) /\ Compared(g, words, h, others, m + 1, b)
  BY Zenon DEF m
<1>. SUFFICES ASSUME NEW x \in Word, NEW y \in Word
              PROVE  /\ g[<<a, b, x>>] \in Word /\ h[<<a, b, x>>] \in Word
                     /\ g[<<a, b, x>>] = g[<<a, b, y>>] => x = y
                     /\ Agree(words, others, a, b) => h[<<a, b, x>>] = g[<<a, b, x>>]
                     /\ DifferOnce(words, others, a, b) => h[<<a, b, x>>] # g[<<a, b, x>>]
  BY Zenon DEF Compared
<1>. DEFINE gx == g[<<a, m, x>>]
            gy == g[<<a, m, y>>]
            hx == h[<<a, m, x>>]
<1>5. /\ gx \in Word /\ gy \in Word /\ hx \in Word /\ (gx = gy => x = y)
      /\ Agree(words, others, a, m) => hx = gx
      /\ DifferOnce(words, others, a, m) => hx # gx
  BY <1>4, Zenon DEF Compared
<1>6. /\ g[<<a, b, x>>] = g[<<m + 1, b, gx>>] /\ g[<<a, b, y>>] = g[<<m + 1, b, gy>>]
      /\ h[<<a, b, x>>] = h[<<m + 1, b, hx>>]
  BY <1>3, Zenon
<1>. HIDE DEF gx, gy, hx
<1>7. /\ g[<<m + 1, b, gx>>] \in Word /\ h[<<m + 1, b, hx>>] \in Word
      /\ g[<<m + 1, b, gx>>] = g[<<m + 1, b, gy>>] => gx = gy
      /\ g[<<m + 1, b, hx>>] = g[<<m + 1, b, gx>>] => hx = gx
      /\ Agree(words, others, m + 1, b) => h[<<m + 1, b, hx>>] = g[<<m + 1, b, hx>>]
      /\ DifferOnce(words, others, m + 1, b) => h[<<m + 1, b, hx>>] # g[<<m + 1, b, hx>>]
  BY <1>4, <1>5, Zenon DEF Compared
<1>. QED
  BY <1>2, <1>5, <1>6, <1>7, Zenon

(* It holds of one word.                                                   *)
LEMMA ComparedOne ==
  ASSUME NEW a, NEW words, NEW others, NEW g, NEW h, words[a] \in Word, others[a] \in Word,
         a \in Int,
         \A x \in Word : /\ g[<<a, a, x>>] = Body(g, words, <<a, a, x>>)
                         /\ h[<<a, a, x>>] = Body(h, others, <<a, a, x>>)
  PROVE  Compared(g, words, h, others, a, a)
<1>1. \A x \in Word : /\ g[<<a, a, x>>] = NextSum(x, words[a])
                      /\ h[<<a, a, x>>] = NextSum(x, others[a])
  <2>. TAKE x \in Word
  <2>1. <<a, a, x>>[1] = a /\ <<a, a, x>>[2] = a /\ <<a, a, x>>[3] = x
    OBVIOUS
  <2>2. \A l, ws : Body(l, ws, <<a, a, x>>) = NextSum(x, ws[a])
    BY <2>1, Zenon DEF Body
  <2>. QED
    BY <2>2, Zenon
<1>2. a..a = {a}
  OBVIOUS
<1>3. /\ Agree(words, others, a, a) => words[a] = others[a]
      /\ DifferOnce(words, others, a, a) => words[a] # others[a]
  BY <1>2, Zenon DEF Agree, DifferOnce
<1>. SUFFICES ASSUME NEW x \in Word, NEW y \in Word
              PROVE  /\ g[<<a, a, x>>] \in Word /\ h[<<a, a, x>>] \in Word
                     /\ g[<<a, a, x>>] = g[<<a, a, y>>] => x = y
                     /\ Agree(words, others, a, a) => h[<<a, a, x>>] = g[<<a, a, x>>]
                     /\ DifferOnce(words, others, a, a) => h[<<a, a, x>>] # g[<<a, a, x>>]
  BY Zenon DEF Compared
<1>4. /\ NextSum(x, words[a]) \in Word /\ NextSum(x, others[a]) \in Word
      /\ NextSum(x, words[a]) = NextSum(y, words[a]) => x = y
      /\ NextSum(x, words[a]) = NextSum(x, others[a]) => words[a] = others[a]
  BY NextSums, Zenon
<1>5. /\ g[<<a, a, x>>] = NextSum(x, words[a]) /\ g[<<a, a, y>>] = NextSum(y, words[a])
      /\ h[<<a, a, x>>] = NextSum(x, others[a])
  BY <1>1, Zenon
<1>6. Agree(words, others, a, a) => NextSum(x, others[a]) = NextSum(x, words[a])
  BY <1>3, Zenon
<1>7. DifferOnce(words, others, a, a) => NextSum(x, others[a]) # NextSum(x, words[a])
  BY <1>3, <1>4, Zenon
<1>. QED
  BY <1>4, <1>5, <1>6, <1>7

(* It holds of all runs, by induction over the length.                     *)
LEMMA ComparedAll ==
  ASSUME NEW words \in Words, NEW others \in Words, Len(others) = Len(words),
         NEW g, Solves(g, words), NEW h, Solves(h, others)
  PROVE  \A a, b \in 1..Len(words) : a <= b => Compared(g, words, h, others, a, b)
<1>. DEFINE N == Len(words)
            T == {k \in Nat : \E a, b \in 1..N :
                    a <= b /\ b - a = k /\ ~Compared(g, words, h, others, a, b)}
<1>1. N \in Nat /\ words \in [1..N -> Word] /\ others \in [1..N -> Word]
  BY WordsAre
<1>2. SUFFICES ASSUME T # {} PROVE FALSE
  <2>1. ASSUME NEW a \in 1..N, NEW b \in 1..N, a <= b, ~Compared(g, words, h, others, a, b)
        PROVE  b - a \in T
    <3>1. b - a \in Nat
      BY <1>1, <2>1
    <3>. QED
      BY <2>1, <3>1
  <2>. HIDE DEF T, N
  <2>. QED
    BY <2>1, Zenon DEF N
<1>3. PICK k \in T : \A j \in T : k <= j
  <2>1. T \subseteq Nat
    OBVIOUS
  <2>. HIDE DEF T
  <2>. QED
    BY <1>2, <2>1, LeastNumber
<1>4. PICK a \in 1..N, b \in 1..N :
        a <= b /\ b - a = k /\ ~Compared(g, words, h, others, a, b)
  BY <1>3
<1>5. \A x \in Word : /\ g[<<a, b, x>>] = Body(g, words, <<a, b, x>>)
                      /\ h[<<a, b, x>>] = Body(h, others, <<a, b, x>>)
  <2>1. \A x \in Word : <<a, b, x>> \in Runs(words) /\ <<a, b, x>> \in Runs(others)
    BY <1>4 DEF Runs
  <2>. QED
    BY <2>1, Zenon DEF Solves
<1>6. CASE a = b
  <2>1. a \in Int /\ words[a] \in Word /\ others[a] \in Word
    BY <1>1
  <2>2. Compared(g, words, h, others, a, a)
    BY <1>5, <1>6, <2>1, ComparedOne, Zenon
  <2>. QED
    BY <1>4, <1>6, <2>2
<1>7. CASE a # b
  <2>. DEFINE m == Middle(a, b)
  <2>1. a < b
    BY <1>4, <1>7
  <2>2. /\ m \in 1..N /\ m + 1 \in 1..N /\ a <= m /\ m + 1 <= b
        /\ m - a < b - a /\ b - (m + 1) < b - a
    BY <1>1, <2>1, MiddleIs, Zenon
  <2>. HIDE DEF m, N
  <2>3. /\ m - a \in Nat /\ m - a \notin T /\ b - (m + 1) \in Nat /\ b - (m + 1) \notin T
    <3>. HIDE DEF T
    <3>. QED
      BY <1>1, <1>3, <1>4, <2>2
  <2>4. Compared(g, words, h, others, a, m) /\ Compared(g, words, h, others, m + 1, b)
    BY <2>2, <2>3
  <2>5. Compared(g, words, h, others, a, b)
    BY <1>1, <1>5, <2>1, <2>4, ComparedHalves, Zenon DEF m
  <2>. QED
    BY <1>4, <2>5
<1>. QED
  BY <1>6, <1>7

(* A checksum is a word, and another when one of the words is another.     *)
THEOREM ChecksumTells ==
  ASSUME NEW words \in Words, NEW init \in Word
  PROVE  /\ Checksum(words, init) \in Word
         /\ \A others \in Words, j \in 1..Len(words) :
              /\ Len(others) = Len(words) /\ others[j] # words[j]
              /\ \A i \in 1..Len(words) : i # j => others[i] = words[i]
              => Checksum(others, init) # Checksum(words, init)
<1>. DEFINE N == Len(words)
<1>1. N \in Nat \ {0} /\ 1 \in 1..N /\ N \in 1..N /\ 1 <= N
  BY WordsAre
<1>2. PICK g : Solves(g, words) /\ Checksum(words, init) = g[<<1, N, init>>]
  BY ChecksumIs, Zenon
<1>3. Checksum(words, init) \in Word
  <2>1. Compared(g, words, g, words, 1, N)
    BY <1>1, <1>2, ComparedAll, Zenon
  <2>. QED
    BY <1>2, <2>1, Zenon DEF Compared
<1>4. ASSUME NEW others \in Words, NEW j \in 1..N,
             Len(others) = N, others[j] # words[j],
             \A i \in 1..N : i # j => others[i] = words[i]
      PROVE  Checksum(others, init) # Checksum(words, init)
  <2>1. PICK h : Solves(h, others) /\ Checksum(others, init) = h[<<1, N, init>>]
    BY <1>4, ChecksumIs, Zenon
  <2>2. Compared(g, words, h, others, 1, N)
    BY <1>1, <1>2, <1>4, <2>1, ComparedAll, Zenon
  <2>3. DifferOnce(words, others, 1, N)
    BY <1>4, Zenon DEF DifferOnce
  <2>. QED
    BY <1>2, <2>1, <2>2, <2>3, Zenon DEF Compared
<1>. QED
  BY <1>3, <1>4

(* Places of an image: a number and a digit.                               *)
LEMMA TwoDigits ==
  ASSUME NEW N \in Nat \ {0}, NEW Q \in Nat \ {0}, NEW q \in 0..(Q - 1), NEW r \in 0..(N - 1)
  PROVE  q * N + r \in 0..(N * Q - 1) /\ (q * N + r) \div N = q /\ (q * N + r) % N = r
<1>1. q * N + r \in Int /\ q * N + r = N * q + r /\ q \in Int /\ N * q >= 0
  OBVIOUS
<1>2. (q * N + r) \div N = q /\ (q * N + r) % N = r
  BY <1>1, DivMod
<1>3. N * q + r <= N * Q - 1
  <2>1. N * (Q - 1) = N * Q - N /\ N * Q \in Int
    OBVIOUS
  <2>2. N * q <= N * (Q - 1)
    OBVIOUS
  <2>. QED
    BY <1>1, <2>1, <2>2
<1>4. N * Q \in Int
  OBVIOUS
<1>. DEFINE v == q * N
            M == N * Q
            u == N * q
<1>5. v \in Int /\ M \in Int /\ u \in Int
  OBVIOUS
<1>. HIDE DEF v, M, u
<1>6. v + r \in 0..(M - 1)
  BY <1>1, <1>3, <1>5 DEF v, M, u
<1>. QED
  BY <1>2, <1>6 DEF v, M

(* And back.                                                               *)
LEMMA Digits ==
  ASSUME NEW N \in Nat \ {0}, NEW Q \in Nat \ {0}, NEW n \in 0..(N * Q - 1)
  PROVE  /\ n \div N \in 0..(Q - 1) /\ n % N \in 0..(N - 1)
         /\ n = (n \div N) * N + (n % N)
<1>. DEFINE q == n \div N
            r == n % N
            M == N * Q
<1>1. M \in Nat /\ n \in Int /\ n >= 0 /\ n < M
  OBVIOUS
<1>2. r \in 0..(N - 1) /\ q \in Int /\ n = N * q + r
  BY <1>1, Division
<1>. HIDE DEF q, r
<1>3. N * q = q * N /\ N * q \in Int
  BY <1>2
<1>4. q >= 0
  <2>. SUFFICES ASSUME q <= -1 PROVE FALSE
    BY <1>2
  <2>1. N * q <= -N
    BY <1>2
  <2>. QED
    BY <1>1, <1>2, <1>3, <2>1
<1>5. q <= Q - 1
  <2>. SUFFICES ASSUME q >= Q PROVE FALSE
    BY <1>2
  <2>1. N * q >= M
    BY <1>2
  <2>. HIDE DEF M
  <2>. QED
    BY <1>1, <1>2, <1>3, <2>1
<1>. QED
  BY <1>2, <1>3, <1>4, <1>5 DEF q, r

(* The constants, as numbers.                                              *)
LEMMA Sizes ==
  /\ PerBlock \in Nat \ {0} /\ Blocks \in Nat \ {0}
  /\ BlockWords \in Nat \ {0} /\ BlockWords = 51 * PerBlock + 1
  /\ BlockWords - 1 \in Nat \ {0} /\ BlockWords - 1 = 51 * PerBlock
BY StoreAssumption DEF BlockWords

At(block, i) == block * BlockWords + i

(* The place of word i of a block.                                         *)
LEMMA PlacesAre ==
  ASSUME NEW block \in 0..(Blocks - 1), NEW i \in 0..(BlockWords - 1)
  PROVE  /\ At(block, i) \in Places
         /\ At(block, i) \div BlockWords = block /\ At(block, i) % BlockWords = i
<1>1. BlockWords \in Nat \ {0} /\ Blocks \in Nat \ {0}
  BY Sizes
<1>. QED
  BY <1>1, TwoDigits, Zenon DEF At, Places

(* Every place is one.                                                     *)
LEMMA PlaceHas ==
  ASSUME NEW a \in Places
  PROVE  /\ a \div BlockWords \in 0..(Blocks - 1) /\ a % BlockWords \in 0..(BlockWords - 1)
         /\ a = At(a \div BlockWords, a % BlockWords)
<1>1. BlockWords \in Nat \ {0} /\ Blocks \in Nat \ {0}
  BY Sizes
<1>. QED
  BY <1>1, Digits, Zenon DEF At, Places

(* The last one of a block is that of its checksum.                        *)
LEMMA SumPlaceIs ==
  ASSUME NEW block \in 0..(Blocks - 1)
  PROVE  SumPlace(block) = At(block, BlockWords - 1) /\ SumPlace(block) \in Places
<1>. DEFINE B == BlockWords
<1>1. B \in Nat \ {0} /\ block \in Int /\ B - 1 \in 0..(B - 1)
  BY Sizes
<1>2. SumPlace(block) = (block + 1) * B - 1 /\ At(block, B - 1) = block * B + (B - 1)
  BY Zenon DEF SumPlace, At
<1>. HIDE DEF B
<1>3. (block + 1) * B - 1 = block * B + (B - 1)
  BY <1>1
<1>4. SumPlace(block) = At(block, B - 1)
  BY <1>2, <1>3
<1>. QED
  BY <1>1, <1>4, PlacesAre, Zenon DEF B

(* The place after a is that of a new block exactly if a is of a checksum. *)
LEMMA IsSumPlace ==
  ASSUME NEW block \in 0..(Blocks - 1), NEW i \in 0..(BlockWords - 1)
  PROVE  (At(block, i) + 1) % BlockWords = 0 <=> i = BlockWords - 1
<1>. DEFINE B == BlockWords
            a == At(block, i)
<1>1. B \in Nat \ {0} /\ B - 1 \in Nat \ {0} /\ block \in Int /\ i \in 0..(B - 1) /\ i \in Int
  BY Sizes
<1>2. a = block * B + i
  BY Zenon DEF At
<1>. HIDE DEF B, a
<1>3. ASSUME i = B - 1 PROVE (a + 1) % B = 0
  <2>1. a + 1 = B * (block + 1) + 0 /\ a + 1 \in Int /\ block + 1 \in Int /\ 0 \in 0..(B - 1)
    BY <1>1, <1>2, <1>3
  <2>. QED
    BY <1>1, <2>1, DivMod
<1>4. ASSUME i # B - 1 PROVE (a + 1) % B = i + 1
  <2>1. a + 1 = B * block + (i + 1) /\ a + 1 \in Int /\ i + 1 \in 0..(B - 1)
    BY <1>1, <1>2, <1>4
  <2>. QED
    BY <1>1, <2>1, DivMod
<1>. QED
  BY <1>1, <1>3, <1>4 DEF B, a

-----------------------------------------------------------------------------
(* The words of a block that are not its checksum.                         *)
Store == [PresetNums -> Data]

InBlock(ps, block, i) == WordOf(ps, block * PerBlock + i \div 51, i % 51)
BlockOf(ps, block) == [i \in 1..(BlockWords - 1) |-> InBlock(ps, block, i - 1)]

(* They are words.                                                         *)
LEMMA InBlockTyped ==
  ASSUME NEW ps \in Store, NEW block \in 0..(Blocks - 1), NEW i \in 0..(BlockWords - 2)
  PROVE  InBlock(ps, block, i) \in Word
<1>. DEFINE num == block * PerBlock + i \div 51
            o == 2 * (i % 51)
<1>1. BlockWords - 2 = 51 * PerBlock - 1
  BY Sizes
<1>2. i \div 51 \in 0..(PerBlock - 1) /\ i % 51 \in 0..50
  <2>1. i \in 0..(51 * PerBlock - 1)
    BY <1>1, Zenon
  <2>2. 51 \in Nat \ {0} /\ 51 - 1 = 50
    OBVIOUS
  <2>. QED
    BY <2>1, <2>2, Sizes, Digits
<1>3. num \in PresetNums
  BY <1>2, Sizes, TwoDigits, Zenon DEF PresetNums
<1>4. o \in Offsets
  BY <1>2 DEF Offsets
<1>. HIDE DEF num, o
<1>5. ps[num][o] \in Word
  BY <1>3, <1>4 DEF Store, Data
<1>. QED
  BY <1>5, Zenon DEF InBlock, WordOf, num, o

(* As a sequence, too.                                                     *)
LEMMA BlockTyped ==
  ASSUME NEW ps \in Store, NEW block \in 0..(Blocks - 1)
  PROVE  BlockOf(ps, block) \in Words /\ Len(BlockOf(ps, block)) = BlockWords - 1
<1>. DEFINE n == BlockWords - 1
            ws == BlockOf(ps, block)
<1>1. n \in Nat \ {0} /\ \A i \in 1..n : i - 1 \in 0..(BlockWords - 2)
  BY Sizes
<1>2. \A i \in 1..n : InBlock(ps, block, i - 1) \in Word
  BY <1>1, InBlockTyped, Zenon
<1>3. ws \in [1..n -> Word]
  BY <1>2 DEF BlockOf
<1>. HIDE DEF n, ws
<1>4. Len(ws) = n
  BY <1>1, <1>3, LenOfWords
<1>. QED
  BY <1>1, <1>3, <1>4 DEF Words, n, ws

(* What the checksums begin with are words.                                *)
LEMMA SumStart == 200 \in Word /\ 45 \in Word
BY DEF Word

(* Image, place by place.                                                  *)
LEMMA ImageIs ==
  ASSUME NEW ps \in Store, NEW block \in 0..(Blocks - 1)
  PROVE  /\ \A i \in 0..(BlockWords - 2) : Image(ps)[At(block, i)] = InBlock(ps, block, i)
         /\ Image(ps)[SumPlace(block)] = Checksum(BlockOf(ps, block), 200)
<1>1. \A a \in Places :
        Image(ps)[a] = IF (a + 1) % BlockWords = 0 THEN Checksum(BlockOf(ps, a \div BlockWords), 200)
                       ELSE InBlock(ps, a \div BlockWords, a % BlockWords)
  BY Zenon DEF Image, BlockOf, InBlock
<1>2. ASSUME NEW i \in 0..(BlockWords - 2) PROVE Image(ps)[At(block, i)] = InBlock(ps, block, i)
  <2>1. i \in 0..(BlockWords - 1) /\ i # BlockWords - 1
    BY Sizes
  <2>. QED
    BY <1>1, <2>1, PlacesAre, IsSumPlace, Zenon
<1>3. Image(ps)[SumPlace(block)] = Checksum(BlockOf(ps, block), 200)
  <2>1. BlockWords - 1 \in 0..(BlockWords - 1)
    BY Sizes
  <2>. DEFINE a == At(block, BlockWords - 1)
  <2>2. a \in Places /\ a \div BlockWords = block /\ (a + 1) % BlockWords = 0
    BY <2>1, PlacesAre, IsSumPlace, Zenon
  <2>3. SumPlace(block) = a
    BY SumPlaceIs, Zenon
  <2>. HIDE DEF a
  <2>. QED
    BY <1>1, <2>2, <2>3, Zenon
<1>. QED
  BY <1>2, <1>3

(* An image is made of words.                                              *)
LEMMA ImageTyped ==
  ASSUME NEW ps \in Store
  PROVE  Image(ps) \in [Places -> Word]
<1>1. ASSUME NEW a \in Places PROVE Image(ps)[a] \in Word
  <2>. DEFINE b == a \div BlockWords
              i == a % BlockWords
  <2>1. b \in 0..(Blocks - 1) /\ i \in 0..(BlockWords - 1) /\ a = At(b, i)
    BY PlaceHas, Zenon
  <2>. HIDE DEF b, i
  <2>2. CASE i = BlockWords - 1
    <3>1. a = SumPlace(b)
      BY <2>1, <2>2, SumPlaceIs, Zenon
    <3>2. Checksum(BlockOf(ps, b), 200) \in Word
      BY <2>1, BlockTyped, ChecksumTells, SumStart, Zenon
    <3>. QED
      BY <2>1, <3>1, <3>2, ImageIs, Zenon
  <2>3. CASE i # BlockWords - 1
    <3>1. i \in 0..(BlockWords - 2)
      BY <2>1, <2>3, Sizes
    <3>2. Image(ps)[At(b, i)] = InBlock(ps, b, i) /\ InBlock(ps, b, i) \in Word
      BY <2>1, <3>1, ImageIs, InBlockTyped
    <3>. QED
      BY <2>1, <3>2
  <2>. QED
    BY <2>2, <2>3
<1>. DEFINE im == Image(ps)
<1>2. im = [a \in Places |-> im[a]]
  BY Zenon DEF Image
<1>. HIDE DEF im
<1>. QED
  BY <1>1, <1>2, Zenon DEF im

(* The words that are summed of a block of an image.                       *)
Summed(image, block) == [i \in 1..(BlockWords - 1) |-> image[At(block, i - 1)]]

(* _verify_preset_checksums sums them up.                                  *)
LEMMA BlockSumIs ==
  ASSUME NEW image \in [Places -> Word], NEW block \in 0..(Blocks - 1)
  PROVE  /\ BlockSum(image, block) = Checksum(Summed(image, block), 200)
         /\ Summed(image, block) \in Words /\ Len(Summed(image, block)) = BlockWords - 1
<1>. DEFINE n == BlockWords - 1
            ws == Summed(image, block)
            e(i) == image[block * BlockWords + i - 1]
            e2(i) == image[At(block, i - 1)]
<1>1. n \in Nat \ {0} /\ \A i \in 1..n : i - 1 \in 0..(BlockWords - 1)
  BY Sizes
<1>2. \A i \in 1..n : e(i) = e2(i)
  <2>1. block * BlockWords \in Int
    BY Sizes
  <2>2. \A k \in Int, i \in 1..n : k + i - 1 = k + (i - 1)
    BY <1>1
  <2>. QED
    BY <2>1, <2>2, Zenon DEF At
<1>3. [i \in 1..n |-> e(i)] = ws
  <2>1. ws = [i \in 1..n |-> e2(i)]
    BY DEF Summed
  <2>. HIDE DEF e, e2, ws, n
  <2>. QED
    BY <1>2, <2>1
<1>4. BlockSum(image, block) = Checksum(ws, 200)
  BY <1>3, Zenon DEF BlockSum
<1>5. \A i \in 1..n : e2(i) \in Word
  BY <1>1, PlacesAre
<1>6. ws \in [1..n -> Word]
  BY <1>5 DEF Summed
<1>. HIDE DEF n, ws
<1>7. Len(ws) = n
  BY <1>1, <1>6, LenOfWords
<1>. QED
  BY <1>1, <1>4, <1>6, <1>7 DEF Words, n, ws

(* What was written is verified, and its contents are what was written.    *)
LEMMA WrittenVerified ==
  ASSUME NEW ps \in Store
  PROVE  Verified(Image(ps))
<1>. SUFFICES ASSUME NEW block \in 0..(Blocks - 1)
              PROVE  Image(ps)[SumPlace(block)] = BlockSum(Image(ps), block)
  BY Zenon DEF Verified
<1>. DEFINE n == BlockWords - 1
            e(i) == InBlock(ps, block, i - 1)
            e2(i) == Image(ps)[At(block, i - 1)]
<1>1. \A i \in 1..n : i - 1 \in 0..(BlockWords - 2)
  BY Sizes
<1>2. \A i \in 1..n : e(i) = e2(i)
  BY <1>1, ImageIs, Zenon
<1>3. BlockOf(ps, block) = Summed(Image(ps), block)
  <2>1. BlockOf(ps, block) = [i \in 1..n |-> e(i)] /\ Summed(Image(ps), block) = [i \in 1..n |-> e2(i)]
    BY Zenon DEF BlockOf, Summed
  <2>. HIDE DEF e, e2, n
  <2>. QED
    BY <1>2, <2>1
<1>4. BlockSum(Image(ps), block) = Checksum(Summed(Image(ps), block), 200)
  BY ImageTyped, BlockSumIs, Zenon
<1>5. Image(ps)[SumPlace(block)] = Checksum(BlockOf(ps, block), 200)
  BY ImageIs, Zenon
<1>. QED
  BY <1>3, <1>4, <1>5

(* Where the words of a preset are (_prestart_offset).                     *)
LEMMA PlaceOfIs ==
  ASSUME NEW num \in PresetNums, NEW k \in 0..50
  PROVE  /\ num \div PerBlock \in 0..(Blocks - 1)
         /\ 51 * (num % PerBlock) + k \in 0..(BlockWords - 2)
         /\ PlaceOf(num) + k = At(num \div PerBlock, 51 * (num % PerBlock) + k)
         /\ (num \div PerBlock) * PerBlock + (51 * (num % PerBlock) + k) \div 51 = num
         /\ (51 * (num % PerBlock) + k) % 51 = k
<1>. DEFINE b == num \div PerBlock
            r == num % PerBlock
            i == 51 * r + k
<1>1. b \in 0..(Blocks - 1) /\ r \in 0..(PerBlock - 1) /\ num = b * PerBlock + r
  BY Sizes, Digits, Zenon DEF PresetNums
<1>. HIDE DEF b, r
<1>2. i \div 51 = r /\ i % 51 = k
  <2>1. i \in Int /\ 51 \in Nat \ {0} /\ r \in Int /\ k \in 0..(51 - 1)
    BY <1>1, Sizes
  <2>. QED
    BY <2>1, DivMod
<1>3. i \in 0..(BlockWords - 2)
  BY <1>1, Sizes
<1>4. PlaceOf(num) + k = At(b, i)
  <2>. DEFINE p == PerBlock
              B == BlockWords
  <2>1. p \in Int /\ B = 51 * p + 1 /\ b \in Int /\ r \in Int /\ num = b * p + r
    BY <1>1, Sizes
  <2>2. PlaceOf(num) = 51 * num + b /\ At(b, i) = b * B + i
    BY Zenon DEF PlaceOf, At, b
  <2>. HIDE DEF p, B
  <2>3. b * (51 * p + 1) = 51 * (b * p) + b /\ b * p \in Int
    BY <2>1
  <2>. QED
    BY <2>1, <2>2, <2>3
<1>. QED
  BY <1>1, <1>2, <1>3, <1>4, Zenon DEF b, r

(* The presets of an image are those it was made of.                       *)
THEOREM WrittenContents ==
  ASSUME NEW ps \in Store
  PROVE  Contents(Image(ps)) = ps
<1>1. ASSUME NEW num \in PresetNums, NEW o \in Offsets
      PROVE  Image(ps)[PlaceOf(num) + o \div 2] = ps[num][o]
  <2>1. o \div 2 \in 0..50 /\ 2 * (o \div 2) = o
    BY DEF Offsets
  <2>. DEFINE k == o \div 2
              b == num \div PerBlock
              i == 51 * (num % PerBlock) + k
  <2>2. /\ b \in 0..(Blocks - 1) /\ i \in 0..(BlockWords - 2) /\ PlaceOf(num) + k = At(b, i)
        /\ b * PerBlock + i \div 51 = num /\ i % 51 = k
    BY <2>1, PlaceOfIs, Zenon
  <2>3. 2 * k = o
    BY <2>1
  <2>. HIDE DEF k, b, i
  <2>4. Image(ps)[PlaceOf(num) + k] = InBlock(ps, b, i)
    BY <2>2, ImageIs, Zenon
  <2>5. InBlock(ps, b, i) = ps[num][o]
    BY <2>2, <2>3, Zenon DEF InBlock, WordOf
  <2>. QED
    BY <2>4, <2>5 DEF k
<1>2. \A num \in PresetNums : [o \in Offsets |-> Image(ps)[PlaceOf(num) + o \div 2]] = ps[num]
  <2>. TAKE num \in PresetNums
  <2>. DEFINE e(o) == Image(ps)[PlaceOf(num) + o \div 2]
              d == ps[num]
  <2>1. d = [o \in Offsets |-> d[o]]
    BY DEF Store, Data
  <2>2. \A o \in Offsets : e(o) = d[o]
    BY <1>1, Zenon
  <2>. HIDE DEF e, d
  <2>3. [o \in Offsets |-> e(o)] = d
    BY <2>1, <2>2
  <2>. QED
    BY <2>3, Zenon DEF e, d
<1>. DEFINE c(num) == [o \in Offsets |-> Image(ps)[PlaceOf(num) + o \div 2]]
<1>3. Contents(Image(ps)) = [num \in PresetNums |-> c(num)]
  BY Zenon DEF Contents
<1>4. ps = [num \in PresetNums |-> ps[num]]
  BY DEF Store
<1>5. \A num \in PresetNums : c(num) = ps[num]
  BY <1>2, Zenon
<1>. HIDE DEF c
<1>. QED
  BY <1>3, <1>4, <1>5

-----------------------------------------------------------------------------
(* A preset that is ready to be written: validated if it is not empty, and *)
(* with its checksum.                                                      *)
Validated(data) == SetField(data, "is_validated", IF IsEmpty(data) THEN 0 ELSE 1)

(* Both values of is_validated are codes of it, and its word is not the    *)
(* checksum.                                                               *)
LEMMA ValidatedField ==
  /\ "is_validated" \in Fields
  /\ Layout["is_validated"][1] = 36
  /\ \A v \in {0, 1} : /\ ~Raises("is_validated", v) /\ Encode("is_validated", v) = v
  /\ 36 \in Offsets /\ CHECKSUM \in Offsets /\ CHECKSUM # 36
BY DEF Fields, Layout, Raises, Encode, Codes, Offsets, CHECKSUM

(* The words of a preset that are summed up, and their sum.                *)
LEMMA SummedOfPreset ==
  ASSUME NEW data \in Data
  PROVE  /\ [i \in 1..50 |-> data[2 * (i - 1)]] \in Words
         /\ PresetSum(data) \in Word
<1>1. \A i \in 1..50 : 2 * (i - 1) \in Offsets
  BY DEF Offsets
<1>2. \A i \in 1..50 : data[2 * (i - 1)] \in Word
  BY <1>1 DEF Data
<1>3. [i \in 1..50 |-> data[2 * (i - 1)]] \in [1..50 -> Word]
  BY <1>2
<1>4. 50 \in Nat \ {0}
  OBVIOUS
<1>5. [i \in 1..50 |-> data[2 * (i - 1)]] \in Words
  BY <1>3, <1>4, Zenon DEF Words
<1>. QED
  BY <1>5, SumStart, ChecksumTells, Zenon DEF PresetSum

(* The sum does not depend on the checksum.                                *)
LEMMA SameSum ==
  ASSUME NEW data \in Data, NEW other \in Data,
         \A i \in Offsets \ {CHECKSUM} : data[i] = other[i]
  PROVE  PresetSum(data) = PresetSum(other)
<1>. DEFINE e(i) == data[2 * (i - 1)]
            e2(i) == other[2 * (i - 1)]
<1>1. \A i \in 1..50 : 2 * (i - 1) \in Offsets \ {CHECKSUM}
  BY DEF Offsets, CHECKSUM
<1>2. \A i \in 1..50 : e(i) = e2(i)
  BY <1>1, Zenon
<1>3. [i \in 1..50 |-> e(i)] = [i \in 1..50 |-> e2(i)]
  <2>. HIDE DEF e, e2
  <2>. QED
    BY <1>2
<1>. QED
  BY <1>3, Zenon DEF PresetSum

(* The checksum of a preset is no field of it.                             *)
IsSummed(res, data, sum) == res = [data EXCEPT ![CHECKSUM] = sum]

LEMMA ChecksumApart ==
  ASSUME NEW data \in Data, NEW sum \in Word, NEW res, IsSummed(res, data, sum)
  PROVE  /\ res \in Data /\ res[CHECKSUM] = sum
         /\ \A i \in Offsets \ {CHECKSUM} : res[i] = data[i]
         /\ \A f \in Fields : CodeOf(res, f) = CodeOf(data, f)
<1>1. CHECKSUM \in Offsets
  BY ValidatedField
<1>2. res \in Data /\ res[CHECKSUM] = sum /\ \A i \in Offsets \ {CHECKSUM} : res[i] = data[i]
  BY <1>1 DEF Data, IsSummed
<1>3. ASSUME NEW f \in Fields PROVE CodeOf(res, f) = CodeOf(data, f)
  <2>1. Layout[f][1] \in Offsets \ {CHECKSUM}
    BY LayoutRange
  <2>2. res[Layout[f][1]] = data[Layout[f][1]]
    BY <1>2, <2>1, Zenon
  <2>. QED
    BY <2>2, Zenon DEF CodeOf
<1>. QED
  BY <1>2, <1>3

(* Soundness is about the codes of the fields.                             *)
LEMMA SameCodesSound ==
  ASSUME NEW data, NEW other, Sound(data), \A f \in Fields : CodeOf(other, f) = CodeOf(data, f)
  PROVE  Sound(other)
<1>1. \A f \in Fields : ValueOf(other, f) = ValueOf(data, f)
  BY Zenon DEF ValueOf, CodeOf
<1>. QED
  BY <1>1, Zenon DEF Sound

(* Preparing keeps a preset sound, and empty or not; and its checksum is   *)
(* right.                                                                  *)
LEMMA PreparedIs ==
  ASSUME NEW data \in Data, Sound(data)
  PROVE  /\ Prepared(data) \in Data /\ Sound(Prepared(data))
         /\ IsEmpty(Prepared(data)) <=> IsEmpty(data)
         /\ CodeOf(Prepared(data), "is_validated") = IF IsEmpty(data) THEN 0 ELSE 1
         /\ PresetSum(Prepared(data)) = Prepared(data)[CHECKSUM]
<1>. DEFINE v == IF IsEmpty(data) THEN 0 ELSE 1
            d == Validated(data)
            p == Prepared(data)
<1>1. v \in {0, 1} /\ v \in Int /\ ~Raises("is_validated", v) /\ Encode("is_validated", v) = v
  BY ValidatedField
<1>2. "is_validated" \in Fields
  BY ValidatedField
<1>3. d = SetField(data, "is_validated", v)
  BY Zenon DEF Validated
<1>4. d \in Data /\ Sound(d) /\ CodeOf(d, "is_validated") = v
  BY <1>1, <1>2, <1>3, SetterKeepsSound
<1>5. \A i \in Offsets \ {36} : d[i] = data[i]
  BY <1>1, <1>2, <1>3, FieldSet, ValidatedField
<1>6. p = [d EXCEPT ![CHECKSUM] = PresetSum(d)]
  BY Zenon DEF Prepared, Validated
<1>7. PresetSum(d) \in Word
  BY <1>4, SummedOfPreset
<1>. HIDE DEF d, p, v
<1>8. /\ p \in Data /\ p[CHECKSUM] = PresetSum(d)
      /\ \A i \in Offsets \ {CHECKSUM} : p[i] = d[i]
      /\ \A f \in Fields : CodeOf(p, f) = CodeOf(d, f)
  <2>. DEFINE sum == PresetSum(d)
  <2>1. sum \in Word /\ IsSummed(p, d, sum)
    BY <1>6, <1>7, Zenon DEF IsSummed
  <2>. HIDE DEF sum
  <2>2. /\ p \in Data /\ p[CHECKSUM] = sum
        /\ \A i \in Offsets \ {CHECKSUM} : p[i] = d[i]
        /\ \A f \in Fields : CodeOf(p, f) = CodeOf(d, f)
    BY <1>4, <2>1, ChecksumApart, Zenon
  <2>. QED
    BY <2>2 DEF sum
<1>9. Sound(p) /\ CodeOf(p, "is_validated") = v
  BY <1>2, <1>4, <1>8, SameCodesSound, Zenon
<1>10. PresetSum(p) = p[CHECKSUM]
  BY <1>4, <1>8, SameSum, Zenon
<1>11. ASSUME IsEmpty(data) PROVE IsEmpty(p)
  <2>1. v = 0
    BY <1>11 DEF v
  <2>2. CodeOf(data, "is_validated") = 0
    <3>1. data[36] = 0
      BY <1>11, ValidatedField DEF IsEmpty
    <3>2. Bits(0, Layout["is_validated"][2], Layout["is_validated"][3]) = 0
      BY DEF Bits, Layout
    <3>. QED
      BY <3>1, <3>2, ValidatedField, Zenon DEF CodeOf
  <2>3. d = data
    BY <1>1, <1>2, <1>3, <2>1, <2>2, SameAgain
  <2>4. \A i \in Offsets \ {CHECKSUM} : p[i] = data[i]
    BY <1>8, <2>3
  <2>. QED
    BY <1>11, <2>4 DEF IsEmpty
<1>12. ASSUME ~IsEmpty(data) PROVE ~IsEmpty(p)
  <2>1. CodeOf(p, "is_validated") = 1
    BY <1>9, <1>12 DEF v
  <2>2. Bits(0, Layout["is_validated"][2], Layout["is_validated"][3]) # 1
    BY DEF Bits, Layout
  <2>3. p[36] # 0
    BY <2>1, <2>2, ValidatedField, Zenon DEF CodeOf
  <2>4. 36 \in Offsets \ {CHECKSUM} /\ 36 # 94
    BY ValidatedField
  <2>. QED
    BY <2>3, <2>4, Zenon DEF IsEmpty
<1>. QED
  BY <1>8, <1>9, <1>10, <1>11, <1>12 DEF v, p

(* Once is enough.                                                         *)
LEMMA PreparedOnce ==
  ASSUME NEW data \in Data, Sound(data)
  PROVE  Prepared(Prepared(data)) = Prepared(data)
<1>. DEFINE p == Prepared(data)
            v == IF IsEmpty(p) THEN 0 ELSE 1
<1>1. /\ p \in Data /\ CodeOf(p, "is_validated") = v /\ PresetSum(p) = p[CHECKSUM]
  BY PreparedIs
<1>2. Encode("is_validated", v) = v /\ "is_validated" \in Fields /\ CHECKSUM \in Offsets
  BY ValidatedField
<1>. HIDE DEF p
<1>3. SetField(p, "is_validated", v) = p
  BY <1>1, <1>2, SameAgain, Zenon
<1>4. Prepared(p) = [p EXCEPT ![CHECKSUM] = PresetSum(p)]
  BY <1>3, Zenon DEF Prepared
<1>5. [p EXCEPT ![CHECKSUM] = p[CHECKSUM]] = p
  BY <1>1, <1>2 DEF Data
<1>. QED
  BY <1>1, <1>4, <1>5 DEF p

(* A preset whose bits are all 0.                                          *)
LEMMA ZeroPreset ==
  [i \in Offsets |-> 0] \in Data /\ Sound([i \in Offsets |-> 0])
<1>. DEFINE z == [i \in Offsets |-> 0]
<1>1. 0 \in Word
  BY DEF Word
<1>2. z \in Data
  BY <1>1 DEF Data
<1>3. ASSUME NEW f \in Fields PROVE Holds(f, ValueOf(z, f))
  <2>. DEFINE lo == Layout[f][2]
              hi == Layout[f][3]
              P == 2 ^ lo
              N == 2 ^ (hi - lo + 1)
  <2>1. z[Layout[f][1]] = 0
    BY LayoutRange
  <2>2. P \in Nat \ {0} /\ N \in Nat \ {0}
    BY LayoutRange, BitRange, Zenon
  <2>3. Bits(0, lo, hi) = (0 \div P) % N
    BY Zenon DEF Bits
  <2>. HIDE DEF P, N
  <2>4. 0 \div P = 0 /\ 0 % N = 0
    <3>1. 0 = P * 0 + 0 /\ 0 \in 0..(P - 1) /\ 0 = N * 0 + 0 /\ 0 \in 0..(N - 1)
      BY <2>2
    <3>. QED
      BY <2>2, <3>1, DivMod
  <2>5. Bits(0, lo, hi) = 0
    BY <2>3, <2>4
  <2>6. ValueOf(z, f) = Decode(f, 0)
    BY <2>1, <2>5, Zenon DEF ValueOf
  <2>. QED
    BY <2>6, ZeroHolds, Zenon
<1>. QED
  BY <1>2, <1>3, Zenon DEF Sound

-----------------------------------------------------------------------------
(* An image that is not what was written.                                  *)
LEMMA AnotherWord ==
  ASSUME NEW w \in Word, NEW bit \in {0, 15}
  PROVE  (w + 2 ^ bit) % 2 ^ 16 \in Word /\ (w + 2 ^ bit) % 2 ^ 16 # w
<1>1. CASE bit = 0
  BY <1>1 DEF Word
<1>2. CASE bit = 15
  BY <1>2 DEF Word
<1>. QED
  BY <1>1, <1>2

(* A word that went bad, whichever it is, is told by the checksum of its   *)
(* block.                                                                  *)
LEMMA BadIsTold ==
  ASSUME NEW image \in [Places -> Word], Verified(image), NEW a \in Places,
         NEW w \in Word, w # image[a]
  PROVE  ~Verified([image EXCEPT ![a] = w])
<1>. DEFINE bad == [image EXCEPT ![a] = w]
            b == a \div BlockWords
            i == a % BlockWords
            s == SumPlace(b)
<1>1. b \in 0..(Blocks - 1) /\ i \in 0..(BlockWords - 1) /\ a = At(b, i)
  BY PlaceHas, Zenon
<1>2. bad \in [Places -> Word] /\ bad[a] = w /\ \A c \in Places \ {a} : bad[c] = image[c]
  OBVIOUS
<1>. HIDE DEF b, i, bad
<1>3. s = At(b, BlockWords - 1) /\ s \in Places /\ BlockWords - 1 \in 0..(BlockWords - 1)
  BY <1>1, Sizes, SumPlaceIs
<1>4. image[s] = BlockSum(image, b)
  BY <1>1, Zenon DEF Verified
<1>. HIDE DEF s
<1>. DEFINE ws == Summed(image, b)
            us == Summed(bad, b)
<1>5. /\ BlockSum(image, b) = Checksum(ws, 200) /\ BlockSum(bad, b) = Checksum(us, 200)
      /\ ws \in Words /\ us \in Words /\ Len(ws) = BlockWords - 1 /\ Len(us) = BlockWords - 1
  BY <1>1, <1>2, BlockSumIs, Zenon
<1>6. \A k \in 1..(BlockWords - 1) :
        /\ k - 1 \in 0..(BlockWords - 1) /\ At(b, k - 1) \in Places
        /\ ws[k] = image[At(b, k - 1)] /\ us[k] = bad[At(b, k - 1)]
        /\ At(b, k - 1) = a => i = k - 1
  <2>. TAKE k \in 1..(BlockWords - 1)
  <2>1. k - 1 \in 0..(BlockWords - 1)
    BY Sizes
  <2>2. At(b, k - 1) \in Places /\ At(b, k - 1) % BlockWords = k - 1
    BY <1>1, <2>1, PlacesAre, Zenon
  <2>3. ws[k] = image[At(b, k - 1)] /\ us[k] = bad[At(b, k - 1)]
    BY Zenon DEF Summed
  <2>. QED
    BY <2>1, <2>2, <2>3 DEF i
<1>. HIDE DEF ws, us
<1>7. SUFFICES bad[s] # BlockSum(bad, b)
  BY <1>1, Zenon DEF Verified, s, bad
<1>8. CASE i = BlockWords - 1
  <2>1. a = s
    BY <1>1, <1>3, <1>8, Zenon
  <2>2. \A k \in 1..(BlockWords - 1) : us[k] = ws[k]
    <3>. TAKE k \in 1..(BlockWords - 1)
    <3>0. k - 1 # BlockWords - 1
      BY Sizes
    <3>1. At(b, k - 1) # a
      BY <1>6, <1>8, <3>0
    <3>. QED
      BY <1>2, <1>6, <3>1
  <2>3. us = ws
    BY <1>5, <2>2, WordsAre
  <2>. QED
    BY <1>2, <1>4, <1>5, <2>1, <2>3
<1>9. CASE i # BlockWords - 1
  <2>1. s # a
    BY <1>1, <1>3, <1>9, PlacesAre
  <2>2. bad[s] = image[s]
    BY <1>2, <1>3, <2>1
  <2>. DEFINE j == i + 1
  <2>3. j \in 1..(BlockWords - 1) /\ j - 1 = i
    BY <1>1, <1>9, Sizes
  <2>. HIDE DEF j
  <2>4. us[j] # ws[j]
    BY <1>1, <1>2, <1>6, <2>3
  <2>5. \A k \in 1..(BlockWords - 1) : k # j => us[k] = ws[k]
    <3>. SUFFICES ASSUME NEW k \in 1..(BlockWords - 1), k # j PROVE us[k] = ws[k]
      OBVIOUS
    <3>1. k - 1 # i
      BY <2>3, Sizes
    <3>. QED
      BY <1>2, <1>6, <3>1
  <2>6. Checksum(us, 200) # Checksum(ws, 200)
    <3>. DEFINE n == BlockWords - 1
    <3>1. /\ us \in Words /\ ws \in Words /\ Len(us) = n /\ Len(ws) = n /\ j \in 1..n
          /\ us[j] # ws[j] /\ \A k \in 1..n : j # k => us[k] = ws[k]
      BY <1>5, <2>3, <2>4, <2>5, Zenon
    <3>2. \A others \in Words, l \in 1..Len(ws) :
              /\ Len(others) = Len(ws) /\ others[l] # ws[l]
              /\ \A k \in 1..Len(ws) : k # l => others[k] = ws[k]
              => Checksum(others, 200) # Checksum(ws, 200)
      BY <3>1, SumStart, ChecksumTells, Zenon
    <3>. HIDE DEF n
    <3>. QED
      BY <3>1, <3>2
  <2>. QED
    BY <1>4, <1>5, <2>2, <2>6
<1>. QED
  BY <1>8, <1>9

(* Erased memory is told by the first block.                               *)
LEMMA ErasedIsTold ==
  /\ [a \in Places |-> 65535] \in [Places -> Word]
  /\ ~Verified([a \in Places |-> 65535])
<1>. DEFINE erased == 65535
            im == [a \in Places |-> erased]
<1>1. erased \in Word
  BY DEF Word
<1>2. Checksum([k \in 1..(BlockWords - 1) |-> erased], 200) # erased
  BY ErasedAssumption
<1>. HIDE DEF erased
<1>3. im \in [Places -> Word]
  BY <1>1
<1>4. 0 \in 0..(Blocks - 1)
  BY Sizes
<1>5. im[SumPlace(0)] = erased
  BY <1>4, SumPlaceIs
<1>6. Summed(im, 0) = [k \in 1..(BlockWords - 1) |-> erased]
  <2>1. \A k \in 1..(BlockWords - 1) : im[At(0, k - 1)] = erased
    <3>. TAKE k \in 1..(BlockWords - 1)
    <3>1. k - 1 \in 0..(BlockWords - 1)
      BY Sizes
    <3>2. At(0, k - 1) \in Places
      BY <1>4, <3>1, PlacesAre, Zenon
    <3>. QED
      BY <3>2
  <2>. HIDE DEF im
  <2>. QED
    BY <2>1 DEF Summed
<1>7. BlockSum(im, 0) = Checksum(Summed(im, 0), 200)
  BY <1>3, <1>4, BlockSumIs, Zenon
<1>8. im[SumPlace(0)] # BlockSum(im, 0)
  BY <1>2, <1>5, <1>6, <1>7
<1>9. ~Verified(im)
  BY <1>4, <1>8, Zenon DEF Verified
<1>. QED
  BY <1>3, <1>9 DEF erased

-----------------------------------------------------------------------------
(* The invariant: presets hold values that can be set as they are; what is *)
(* not damaged is the image of such presets, ready to be written again,    *)
(* and what is damaged is not verified.                                    *)
Ready(data) == Sound(data) /\ Prepared(data) = data

Kept ==
  /\ \A num \in PresetNums : Sound(presets[num])
  /\ ~damaged => /\ flash = Image(Contents(flash))
                 /\ \A num \in PresetNums : Ready(Contents(flash)[num])
  /\ last.op \in {"write", "read"} /\ ~last.raised /\ ~damaged => presets = Contents(flash)
  /\ last.op = "write" => ~last.raised
  /\ damaged => ~Verified(flash)

Inv == TypeOK /\ Kept /\ StoresNearest /\ ModifySettles

(* What is read of an image is presets.                                    *)
LEMMA ContentsTyped ==
  ASSUME NEW image \in [Places -> Word]
  PROVE  Contents(image) \in Store
<1>1. ASSUME NEW num \in PresetNums, NEW o \in Offsets
      PROVE  image[PlaceOf(num) + o \div 2] \in Word
  <2>. DEFINE k == o \div 2
              b == num \div PerBlock
              i == 51 * (num % PerBlock) + k
  <2>1. k \in 0..50
    BY DEF Offsets
  <2>. HIDE DEF k
  <2>2. b \in 0..(Blocks - 1) /\ i \in 0..(BlockWords - 2) /\ PlaceOf(num) + k = At(b, i)
    BY <2>1, PlaceOfIs, Zenon
  <2>. HIDE DEF b, i
  <2>3. i \in 0..(BlockWords - 1)
    BY <2>2, Sizes
  <2>4. PlaceOf(num) + k \in Places
    BY <2>2, <2>3, PlacesAre, Zenon
  <2>. QED
    BY <2>4 DEF k
<1>. DEFINE e(num, o) == image[PlaceOf(num) + o \div 2]
<1>2. \A num \in PresetNums, o \in Offsets : e(num, o) \in Word
  BY <1>1, Zenon
<1>3. Contents(image) = [num \in PresetNums |-> [o \in Offsets |-> e(num, o)]]
  BY Zenon DEF Contents
<1>. HIDE DEF e
<1>4. \A num \in PresetNums : [o \in Offsets |-> e(num, o)] \in Data
  BY <1>2 DEF Data
<1>. QED
  BY <1>3, <1>4, Zenon DEF Store

(* As the type invariant says it.                                          *)
LEMMA StoreIs == Store = [PresetNums -> [Offsets -> Word]]
BY DEF Store, Data

(* Presets that are ready, written.                                        *)
LEMMA Written ==
  ASSUME NEW ps \in Store, \A num \in PresetNums : Sound(ps[num]),
         NEW new, new = [num \in PresetNums |-> Prepared(ps[num])]
  PROVE  /\ new \in Store /\ \A num \in PresetNums : Ready(new[num])
         /\ Image(new) \in [Places -> Word] /\ Verified(Image(new))
         /\ Contents(Image(new)) = new
<1>1. \A num \in PresetNums : ps[num] \in Data
  BY DEF Store
<1>2. \A num \in PresetNums : new[num] \in Data /\ Ready(new[num])
  <2>. TAKE num \in PresetNums
  <2>. DEFINE d == ps[num]
  <2>1. d \in Data /\ Sound(d) /\ new[num] = Prepared(d)
    BY <1>1, Zenon
  <2>. HIDE DEF d
  <2>2. Prepared(d) \in Data /\ Ready(Prepared(d))
    BY <2>1, PreparedIs, PreparedOnce, Zenon DEF Ready
  <2>. QED
    BY <2>1, <2>2, Zenon
<1>3. new \in Store
  BY <1>2 DEF Store
<1>. QED
  BY <1>2, <1>3, ImageTyped, WrittenVerified, WrittenContents, Zenon

(* The invariant holds at the start.                                       *)
LEMMA Starts ==
  ASSUME Init
  PROVE  Inv
<1>. DEFINE z == [i \in Offsets |-> 0]
            ps == [num \in PresetNums |-> z]
<1>1. z \in Data /\ Sound(z)
  BY ZeroPreset
<1>. HIDE DEF z
<1>2. ps \in Store /\ \A num \in PresetNums : Sound(ps[num])
  BY <1>1 DEF Store
<1>3. presets = [num \in PresetNums |-> Prepared(ps[num])]
  BY DEF Init, z
<1>. HIDE DEF ps
<1>4. /\ presets \in Store /\ \A num \in PresetNums : Ready(presets[num])
      /\ Image(presets) \in [Places -> Word] /\ Verified(Image(presets))
      /\ Contents(Image(presets)) = presets
  BY <1>2, <1>3, Written, Zenon
<1>5. flash = Image(presets) /\ damaged = FALSE /\ changes = 0
  BY DEF Init
<1>6. last.op = "read" /\ last.raised = FALSE
  BY DEF Init, Call
<1>7. TypeOK
  <2>1. changes \in 0..MaxChanges
    BY <1>5, StoreAssumption
  <2>. QED
    BY <1>4, <1>5, <1>6, <2>1, StoreIs DEF TypeOK
<1>8. Kept
  BY <1>4, <1>5, <1>6 DEF Kept, Ready
<1>. QED
  BY <1>6, <1>7, <1>8 DEF Inv, StoresNearest, ModifySettles

-----------------------------------------------------------------------------
(* One lemma for every action.                                             *)
LEMMA InputIs ==
  ASSUME NEW i \in Inputs
  PROVE  i[1] \in Fields /\ i[2] \in Int
BY StoreAssumption

(* Values that _update_presets may compute.                                *)
LEMMA NewValueIs ==
  ASSUME NEW new \in NewValues
  PROVE  /\ new \in Seq((Fields \ {"max_charge_amps"}) \X Int)
         /\ \A j, k \in DOMAIN new : new[j][1] = new[k][1] => j = k
BY StoreAssumption

(* A setter stores the nearest value, and keeps the preset sound.          *)
LEMMA SetKeeps ==
  ASSUME Inv, NEW num \in Touched, NEW i \in Inputs, Set(num, i[1], i[2])
  PROVE  Inv'
<1>. DEFINE f == i[1]
            v == i[2]
            d == presets[num]
<1>1. f \in Fields /\ v \in Int /\ num \in PresetNums /\ MaxChanges \in Nat
  BY InputIs, StoreAssumption
<1>2. presets \in Store /\ d \in Data /\ Sound(d)
  BY <1>1, StoreIs DEF Inv, TypeOK, Kept, Store
<1>3. /\ presets' = IF Raises(f, v) THEN presets ELSE [presets EXCEPT ![num] = SetField(d, f, v)]
      /\ last'.op = "set" /\ last'.raised = Raises(f, v) /\ last'.num = num
      /\ last'.asked[1][1] = f /\ last'.asked[1][2] = v
      /\ changes < MaxChanges /\ changes' = changes + 1 /\ ~damaged
      /\ flash' = flash /\ damaged' = damaged
  BY DEF Set, Call
<1>4. Raises(f, v) \in BOOLEAN
  BY DEF Raises
<1>. HIDE DEF f, v, d
<1>5. CASE Raises(f, v)
  <2>1. presets' = presets /\ last'.raised = TRUE
    BY <1>3, <1>4, <1>5
  <2>2. TypeOK'
    BY <1>1, <1>3, <2>1 DEF Inv, TypeOK
  <2>3. Kept'
    BY <1>3, <2>1 DEF Inv, Kept
  <2>. QED
    BY <1>3, <2>1, <2>2, <2>3 DEF Inv, StoresNearest, ModifySettles
<1>6. CASE ~Raises(f, v)
  <2>. DEFINE e == SetField(d, f, v)
  <2>1. e \in Data /\ Sound(e) /\ ValueOf(e, f) = Stored(f, v)
    BY <1>1, <1>2, <1>6, SetterKeepsSound, Zenon
  <2>. HIDE DEF e
  <2>2. presets' = [presets EXCEPT ![num] = e]
    BY <1>3, <1>6 DEF e
  <2>3. presets' \in Store /\ presets'[num] = e /\ \A n \in PresetNums : Sound(presets'[n])
    BY <1>1, <1>2, <2>1, <2>2 DEF Store, Inv, Kept
  <2>4. TypeOK'
    BY <1>1, <1>3, <1>4, <2>3, StoreIs DEF Inv, TypeOK
  <2>5. Kept'
    BY <1>3, <2>3 DEF Inv, Kept
  <2>6. Nearest(f, v, ValueOf(presets'[num], f))
    BY <1>1, <1>6, <2>1, <2>3, SetterStores
  <2>7. StoresNearest'
    BY <1>3, <2>6 DEF StoresNearest
  <2>. QED
    BY <1>3, <2>4, <2>5, <2>7 DEF Inv, ModifySettles
<1>. QED
  BY <1>5, <1>6

(* A modified preset is settled.                                           *)
LEMMA ModifyKeeps ==
  ASSUME Inv, NEW num \in Touched, NEW new \in NewValues, Modify(num, new)
  PROVE  Inv'
<1>. DEFINE d == presets[num]
            m == Modified(d, new)
            again == Modified(m.data, new)
<1>1. num \in PresetNums /\ MaxChanges \in Nat
  BY StoreAssumption
<1>2. presets \in Store /\ d \in Data /\ Sound(d)
  BY <1>1, StoreIs DEF Inv, TypeOK, Kept, Store
<1>3. /\ presets' = [presets EXCEPT ![num] = m.data]
      /\ last'.op = "modify" /\ last'.raised = m.raised /\ last'.num = num /\ last'.asked = new
      /\ changes < MaxChanges /\ changes' = changes + 1 /\ ~damaged
      /\ flash' = flash /\ damaged' = damaged
  BY DEF Modify, Call
<1>4. /\ m \in Modification /\ Sound(m.data)
      /\ ~m.raised => /\ again.data = m.data /\ ~again.raised
                      /\ again.update <=> \E k \in DOMAIN new : ~Holds(new[k][1], new[k][2])
  <2>. HIDE DEF d
  <2>. QED
    BY <1>2, NewValueIs, ModifiedSettles
<1>. HIDE DEF d, m
<1>5. m.data \in Data /\ m.raised \in BOOLEAN
  BY <1>4 DEF Modification
<1>6. presets' \in Store /\ presets'[num] = m.data /\ \A n \in PresetNums : Sound(presets'[n])
  BY <1>1, <1>2, <1>3, <1>4, <1>5 DEF Store, Inv, Kept
<1>7. TypeOK'
  BY <1>1, <1>3, <1>5, <1>6, StoreIs DEF Inv, TypeOK
<1>8. Kept'
  BY <1>3, <1>6 DEF Inv, Kept
<1>9. ModifySettles'
  BY <1>3, <1>4, <1>6 DEF ModifySettles
<1>. QED
  BY <1>3, <1>7, <1>8, <1>9 DEF Inv, StoresNearest

(* What is written is an image of presets that are ready.                  *)
LEMMA WriteKeeps ==
  ASSUME Inv, WritePresets
  PROVE  Inv'
<1>1. presets \in Store /\ \A num \in PresetNums : Sound(presets[num])
  BY StoreIs DEF Inv, TypeOK, Kept
<1>2. /\ presets' = [num \in PresetNums |-> Prepared(presets[num])]
      /\ flash' = Image(presets') /\ damaged' = FALSE /\ changes' = changes
      /\ last'.op = "write" /\ last'.raised = FALSE
  BY DEF WritePresets, Call
<1>3. /\ presets' \in Store /\ \A num \in PresetNums : Ready(presets'[num])
      /\ flash' \in [Places -> Word] /\ Contents(flash') = presets'
  BY <1>1, <1>2, Written
<1>4. TypeOK'
  BY <1>2, <1>3, StoreIs DEF Inv, TypeOK
<1>5. Kept'
  BY <1>2, <1>3 DEF Kept, Ready
<1>. QED
  BY <1>2, <1>4, <1>5 DEF Inv, StoresNearest, ModifySettles

(* What is verified is what was written.                                   *)
LEMMA VerifiedIfKept ==
  ASSUME TypeOK, Kept
  PROVE  Verified(flash) <=> ~damaged
<1>1. Contents(flash) \in Store
  BY ContentsTyped DEF TypeOK
<1>2. ASSUME ~damaged PROVE Verified(flash)
  <2>1. flash = Image(Contents(flash))
    BY <1>2 DEF Kept
  <2>2. Verified(Image(Contents(flash)))
    BY <1>1, WrittenVerified, Zenon
  <2>. QED
    BY <2>1, <2>2
<1>. QED
  BY <1>2 DEF Kept, TypeOK

(* So reading gives presets that are ready, or leaves those there are.     *)
LEMMA ReadKeeps ==
  ASSUME Inv, ReadPresets
  PROVE  Inv'
<1>1. Verified(flash) <=> ~damaged
  BY VerifiedIfKept DEF Inv
<1>2. /\ presets' = IF Verified(flash) THEN Contents(flash) ELSE presets
      /\ flash' = flash /\ damaged' = damaged /\ changes' = changes
      /\ last'.op = "read" /\ last'.raised = ~Verified(flash)
  BY DEF ReadPresets, Call
<1>3. presets' \in Store /\ \A num \in PresetNums : Sound(presets'[num])
  <2>1. Contents(flash) \in Store
    BY ContentsTyped DEF Inv, TypeOK
  <2>2. CASE Verified(flash)
    BY <1>1, <1>2, <2>1, <2>2 DEF Inv, Kept, Ready
  <2>3. CASE ~Verified(flash)
    BY <1>2, <2>3, StoreIs DEF Inv, TypeOK, Kept
  <2>. QED
    BY <2>2, <2>3
<1>4. last'.raised \in BOOLEAN
  BY <1>2 DEF Verified
<1>5. TypeOK'
  BY <1>2, <1>3, <1>4, StoreIs DEF Inv, TypeOK
<1>6. Kept'
  BY <1>1, <1>2, <1>3 DEF Inv, Kept
<1>. QED
  BY <1>2, <1>5, <1>6 DEF Inv, StoresNearest, ModifySettles

(* Damage is not verified.                                                 *)
LEMMA DamageKeeps ==
  ASSUME Inv, last.op = "write", flash' \in [Places -> Word], ~Verified(flash'),
         damaged' = TRUE, UNCHANGED <<presets, last, changes>>
  PROVE  Inv'
<1>1. TypeOK'
  BY DEF Inv, TypeOK
<1>2. Kept'
  BY DEF Inv, Kept
<1>. QED
  BY <1>1, <1>2 DEF Inv, StoresNearest, ModifySettles

(* An erased memory.                                                       *)
LEMMA EraseKeeps ==
  ASSUME Inv, Erase
  PROVE  Inv'
<1>1. /\ last.op = "write" /\ damaged' = TRUE /\ UNCHANGED <<presets, last, changes>>
      /\ flash' = [a \in Places |-> 65535]
  BY DEF Erase
<1>2. flash' \in [Places -> Word] /\ ~Verified(flash')
  BY <1>1, ErasedIsTold
<1>. QED
  BY <1>1, <1>2, DamageKeeps

(* And one bad word.                                                       *)
LEMMA GoBadKeeps ==
  ASSUME Inv, NEW a \in Harmed, GoBad(a)
  PROVE  Inv'
<1>1. a \in Places /\ flash \in [Places -> Word]
  BY StoreAssumption DEF Inv, TypeOK
<1>2. /\ last.op = "write" /\ damaged' = TRUE /\ UNCHANGED <<presets, last, changes>> /\ ~damaged
  BY DEF GoBad
<1>3. PICK bit \in {0, 15} : flash' = [flash EXCEPT ![a] = (flash[a] + 2 ^ bit) % 2 ^ 16]
  BY DEF GoBad
<1>. DEFINE w == (flash[a] + 2 ^ bit) % 2 ^ 16
<1>4. w \in Word /\ w # flash[a]
  BY <1>1, AnotherWord
<1>5. Verified(flash)
  BY <1>2, VerifiedIfKept DEF Inv
<1>. HIDE DEF w
<1>6. flash' = [flash EXCEPT ![a] = w]
  BY <1>3 DEF w
<1>7. flash' \in [Places -> Word]
  BY <1>1, <1>4, <1>6
<1>8. ~Verified(flash')
  BY <1>1, <1>4, <1>5, <1>6, BadIsTold
<1>. QED
  BY <1>2, <1>7, <1>8, DamageKeeps

(* The invariant holds in every state of every behaviour.                  *)
THEOREM InvariantHolds == Spec => []Inv
<1>1. Init => Inv
  BY Starts
<1>2. Inv /\ [Next]_vars => Inv'
  <2>. SUFFICES ASSUME Inv, [Next]_vars PROVE Inv'
    OBVIOUS
  <2>1. ASSUME NEW num \in Touched, NEW i \in Inputs, Set(num, i[1], i[2]) PROVE Inv'
    BY <2>1, SetKeeps
  <2>2. ASSUME NEW num \in Touched, NEW new \in NewValues, Modify(num, new) PROVE Inv'
    BY <2>2, ModifyKeeps
  <2>3. CASE WritePresets
    BY <2>3, WriteKeeps
  <2>4. CASE ReadPresets
    BY <2>4, ReadKeeps
  <2>5. CASE Erase
    BY <2>5, EraseKeeps
  <2>6. ASSUME NEW a \in Harmed, GoBad(a) PROVE Inv'
    BY <2>6, GoBadKeeps
  <2>7. CASE UNCHANGED vars
    BY <2>7 DEF vars, Inv, TypeOK, Kept, StoresNearest, ModifySettles
  <2>. QED
    BY <2>1, <2>2, <2>3, <2>4, <2>5, <2>6, <2>7, Zenon DEF Next
<1>. QED
  BY <1>1, <1>2, PTL DEF Spec

(* Every word keeps its 16 bits, whatever the setters are called with.     *)
THEOREM TypeCorrect == Spec => []TypeOK
<1>1. Inv => TypeOK
  BY DEF Inv
<1>. QED
  BY <1>1, InvariantHolds, PTL

(* Whatever value a setter is called with, it stores the nearest the field *)
(* can hold, or raises an exception.                                       *)
THEOREM SettersStoreNearest == Spec => []StoresNearest
<1>1. Inv => StoresNearest
  BY DEF Inv
<1>. QED
  BY <1>1, InvariantHolds, PTL

(* Whatever values a battery has, giving a preset the same ones again      *)
(* changes nothing, and whether it is said to need an update is whether it *)
(* can hold them.                                                          *)
THEOREM ModificationSettles == Spec => []ModifySettles
<1>1. Inv => ModifySettles
  BY DEF Inv
<1>. QED
  BY <1>1, InvariantHolds, PTL

(* For every number of presets and blocks: what was written is read, and   *)
(* neither an erased memory nor one with a bad word is.                    *)
THEOREM ReadsWhatWasWritten == Spec => []OnlyWrittenIsRead
<1>1. Inv => OnlyWrittenIsRead
  BY VerifiedIfKept DEF Inv, Kept, OnlyWrittenIsRead
<1>. QED
  BY <1>1, InvariantHolds, PTL

(* No call changes a field it was not asked to, of any preset.             *)
THEOREM FieldsStayApart == Spec => FieldsApart
<1>. DEFINE A == last'.op \in {"set", "modify"} =>
       \A num \in PresetNums, f \in Fields :
         presets'[num] # presets[num]
           /\ ValueOf(presets'[num], f) # ValueOf(presets[num], f) =>
           /\ num = last'.num /\ ~(last'.op = "set" /\ last'.raised)
           /\ \E k \in DOMAIN AllNew(last'.asked) : AllNew(last'.asked)[k][1] = f
<1>1. Inv /\ [Next]_vars => [A]_vars
  <2>. SUFFICES ASSUME Inv, Next PROVE A
    OBVIOUS
  <2>0. presets \in Store
    BY StoreIs DEF Inv, TypeOK
  <2>1. ASSUME NEW num \in Touched, NEW i \in Inputs, Set(num, i[1], i[2]) PROVE A
    <3>. DEFINE f == i[1]
                v == i[2]
                d == presets[num]
    <3>1. f \in Fields /\ v \in Int /\ num \in PresetNums
      BY InputIs, StoreAssumption
    <3>2. /\ presets' = IF Raises(f, v) THEN presets ELSE [presets EXCEPT ![num] = SetField(d, f, v)]
          /\ last'.raised = Raises(f, v) /\ last'.num = num
          /\ last'.asked = << <<f, v>> >> /\ last'.asked[1] = <<f, v>>
      BY <2>1 DEF Set, Call
    <3>3. d \in Data /\ Sound(d)
      BY <2>0, <3>1 DEF Inv, Kept, Store
    <3>. HIDE DEF f, v, d
    <3>4. CASE Raises(f, v)
      BY <3>2, <3>4
    <3>5. CASE ~Raises(f, v)
      <4>. DEFINE e == SetField(d, f, v)
      <4>1. \A g \in Fields \ {f} : CodeOf(e, g) = CodeOf(d, g)
        BY <3>1, <3>3, <3>5, SetterKeepsSound, Zenon
      <4>2. \A g \in Fields \ {f} : ValueOf(e, g) = ValueOf(d, g)
        BY <4>1, Zenon DEF ValueOf, CodeOf
      <4>. HIDE DEF e
      <4>3. presets' = [presets EXCEPT ![num] = e] /\ last'.raised = FALSE
        BY <3>2, <3>5 DEF e, Raises
      <4>4. /\ \A n \in PresetNums \ {num} : presets'[n] = presets[n]
            /\ presets'[num] = e
        BY <2>0, <3>1, <4>3 DEF Store
      <4>5. 1 \in DOMAIN AllNew(last'.asked) /\ AllNew(last'.asked)[1][1] = f
        BY <3>2 DEF AllNew
      <4>. QED
        BY <3>2, <4>2, <4>3, <4>4, <4>5 DEF d
    <3>. QED
      BY <3>4, <3>5
  <2>2. ASSUME NEW num \in Touched, NEW new \in NewValues, Modify(num, new) PROVE A
    <3>. DEFINE d == presets[num]
                m == Modified(d, new)
                all == AllNew(new)
    <3>1. num \in PresetNums
      BY StoreAssumption
    <3>2. presets' = [presets EXCEPT ![num] = m.data] /\ last'.num = num /\ last'.asked = new
          /\ last'.op = "modify"
      BY <2>2 DEF Modify, Call
    <3>3. d \in Data /\ Sound(d)
      BY <2>0, <3>1 DEF Inv, Kept, Store
    <3>. HIDE DEF d
    <3>4. \A g \in Fields : (\A k \in DOMAIN all : all[k][1] # g) => CodeOf(m.data, g) = CodeOf(d, g)
      BY <3>3, NewValueIs, ModifiedSettles
    <3>5. \A g \in Fields : (\A k \in DOMAIN all : all[k][1] # g) => ValueOf(m.data, g) = ValueOf(d, g)
      BY <3>4, Zenon DEF ValueOf, CodeOf
    <3>. HIDE DEF m, all
    <3>6. /\ \A n \in PresetNums \ {num} : presets'[n] = presets[n]
          /\ presets'[num] = m.data
      BY <2>0, <3>1, <3>2 DEF Store
    <3>. QED
      BY <3>2, <3>5, <3>6 DEF d, all
  <2>3. CASE WritePresets \/ ReadPresets
    BY <2>3 DEF WritePresets, ReadPresets, Call
  <2>4. CASE Erase
    BY <2>4 DEF Erase
  <2>5. ASSUME NEW a \in Harmed, GoBad(a) PROVE A
    BY <2>5 DEF GoBad
  <2>. HIDE DEF A
  <2>. QED
    BY <2>1, <2>2, <2>3, <2>4, <2>5, Zenon DEF Next
<1>. QED
  BY <1>1, InvariantHolds, PTL DEF Spec, FieldsApart

(* Presets that are read and written back leave the image as it is.        *)
THEOREM RewritingIsStable == Spec => RewriteIsStable
<1>. DEFINE A == last.op = "read" /\ ~last.raised /\ ~damaged /\ last'.op = "write"
                   => flash' = flash
<1>1. Inv /\ [Next]_vars => [A]_vars
  <2>. SUFFICES ASSUME Inv, Next, last.op = "read", ~last.raised, ~damaged, last'.op = "write"
                PROVE  flash' = flash
    OBVIOUS
  <2>1. WritePresets
    <3>1. \A num \in Touched, i \in Inputs : ~Set(num, i[1], i[2])
      BY DEF Set, Call
    <3>2. \A num \in Touched, new \in NewValues : ~Modify(num, new)
      BY DEF Modify, Call
    <3>3. ~ReadPresets
      BY DEF ReadPresets, Call
    <3>4. ~Erase /\ \A a \in Harmed : ~GoBad(a)
      BY DEF Erase, GoBad
    <3>. QED
      BY <3>1, <3>2, <3>3, <3>4, Zenon DEF Next
  <2>2. /\ presets = Contents(flash) /\ flash = Image(presets)
        /\ \A num \in PresetNums : Prepared(presets[num]) = presets[num]
    BY DEF Inv, Kept, Ready
  <2>3. presets \in Store
    BY StoreIs DEF Inv, TypeOK
  <2>4. [num \in PresetNums |-> Prepared(presets[num])] = presets
    BY <2>2, <2>3 DEF Store
  <2>. QED
    BY <2>1, <2>2, <2>4 DEF WritePresets
<1>. QED
  BY <1>1, InvariantHolds, PTL DEF Spec, RewriteIsStable
=============================================================================
