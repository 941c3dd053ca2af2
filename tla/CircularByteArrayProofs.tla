----------------------- MODULE CircularByteArrayProofs ----------------------
(***************************************************************************)
(* Proofs about the circular buffer, for every capacity: its indices never *)
(* cross and never drift further apart than the array is long, and it is   *)
(* the queue of module BoundedFifo.                                        *)
(***************************************************************************)
EXTENDS CircularByteArray, SequenceTheorems, TLAPS

(* The empty buffer.                                                       *)
LEMMA InitBounded == Init => SizeBounded
BY CapacityAssumption DEF Init, SizeBounded, Size

(* Every operation: appending asks for room, consuming for bytes, and      *)
(* clearing makes the read index catch up.                                 *)
LEMMA StepBounded == SizeBounded /\ [Next]_vars => SizeBounded'
<1>. SUFFICES ASSUME SizeBounded, [Next]_vars PROVE SizeBounded'
  OBVIOUS
<1>. USE CapacityAssumption DEF SizeBounded, Size
<1>1. ASSUME NEW n \in 0..MaxChunk, NEW data \in [1..n -> Bytes], AppendData(data)
      PROVE  SizeBounded'
  <2>1. Len(data) \in Nat
    OBVIOUS
  <2>. QED
    BY <1>1, <2>1 DEF AppendData, Available
<1>2. ASSUME NEW n \in 1..MaxRead, Consume(n) PROVE SizeBounded'
  BY <1>2 DEF Consume
<1>3. ASSUME NEW n \in 1..Capacity, Advance(n) PROVE SizeBounded'
  BY <1>3 DEF Advance
<1>4. CASE Clear
  BY <1>4 DEF Clear
<1>5. CASE UNCHANGED vars
  BY <1>5 DEF vars
<1>. QED
  BY <1>1, <1>2, <1>3, <1>4, <1>5 DEF Next

(* No unread byte is ever overwritten, and none is read that was not put   *)
(* there: what the buffer holds is between nothing and its capacity.       *)
THEOREM SizeAlwaysBounded == Spec => []SizeBounded
BY InitBounded, StepBounded, PTL DEF Spec

-----------------------------------------------------------------------------
(* Reduced indices.                                                        *)

(* Quotient and remainder, and that they are unique.                       *)
LEMMA Division ==
  ASSUME NEW c \in Nat \ {0}, NEW i \in Int
  PROVE  /\ i % c \in 0..(c - 1) /\ i \div c \in Int
         /\ i = c * (i \div c) + (i % c)
OBVIOUS

LEMMA Product ==
  ASSUME NEW c \in Nat \ {0}, NEW d \in Int, NEW e \in Int
  PROVE  /\ c * (d - e) = c * d - c * e
         /\ d >= 1 => c * d >= c
OBVIOUS

LEMMA UniqueRemainder ==
  ASSUME NEW c \in Nat \ {0}, NEW q \in Int, NEW p \in Int,
         NEW s \in 0..(c - 1), NEW t \in 0..(c - 1), c * q + s = c * p + t
  PROVE  s = t
<1>1. c * (q - p) = t - s /\ c * (p - q) = s - t
  BY Product
<1>2. (q - p >= 1 => c * (q - p) >= c) /\ (p - q >= 1 => c * (p - q) >= c)
  BY Product
<1>3. q = p
  BY <1>1, <1>2
<1>. QED
  BY <1>3

(* Where in the array the k-th byte after the one at r is.                 *)
Place(r, k) == IF r + k < Capacity THEN r + k ELSE r + k - Capacity

LEMMA RealIndexShift ==
  ASSUME NEW i \in Int, NEW k \in 0..Capacity
  PROVE  RealIndex(i) \in Positions /\ RealIndex(i + k) = Place(RealIndex(i), k)
<1>. DEFINE c == Capacity
<1>0. c \in Nat \ {0}
  BY CapacityAssumption
<1>. HIDE DEF c
<1>1. PICK q \in Int, r \in 0..(c - 1) : i = c * q + r /\ r = i % c
  BY <1>0, Division
<1>2. PICK p \in Int, t \in 0..(c - 1) : i + k = c * p + t /\ t = (i + k) % c
  <2>1. i + k \in Int
    OBVIOUS
  <2>. QED
    BY <1>0, <2>1, Division
<1>3. k \in 0..c
  BY DEF c
<1>4. t = IF r + k < c THEN r + k ELSE r + k - c
  <2>1. CASE r + k < c
    <3>1. c * q + (r + k) = c * p + t /\ r + k \in 0..(c - 1)
      BY <1>0, <1>1, <1>2, <1>3, <2>1
    <3>2. r + k = t
      BY <1>0, <3>1, UniqueRemainder
    <3>. QED
      BY <2>1, <3>2
  <2>2. CASE ~(r + k < c)
    <3>1. c * (q + 1) = c * q + c /\ q + 1 \in Int
      BY <1>0
    <3>2. c * (q + 1) + (r + k - c) = c * p + t /\ r + k - c \in 0..(c - 1)
      BY <1>0, <1>1, <1>2, <1>3, <2>2, <3>1
    <3>3. r + k - c = t
      BY <1>0, <3>1, <3>2, UniqueRemainder
    <3>. QED
      BY <2>2, <3>3
  <2>. QED
    BY <2>1, <2>2
<1>5. RealIndex(i) = r /\ RealIndex(i + k) = t
  BY <1>1, <1>2 DEF RealIndex, c
<1>. QED
  BY <1>0, <1>4, <1>5 DEF Place, Positions, c

-----------------------------------------------------------------------------
(* What the array holds.                                                   *)
Holds == SizeBounded /\ buf \in [Positions -> Bytes] /\ out \in Seq(Bytes)

(* A tuple written as a function.                                          *)
LEMMA FunctionIsSequence ==
  ASSUME NEW n \in Nat, NEW S, NEW f \in [1..n -> S]
  PROVE  f \in Seq(S) /\ Len(f) = n
<1>1. f \in Seq(S)
  BY SeqDef
<1>. QED
  BY <1>1, LenProperties

First == RealIndex(ReadIndex)

(* The bytes held are at the places from First on, and the next one goes   *)
(* to the place behind them: for any values of the indices, for those they *)
(* have and for those they have after a step.                              *)
ByPlace(w, r, size, first) ==
  /\ first \in Positions
  /\ RealIndex(w) = Place(first, size)
  /\ \A i \in 1..size : /\ RealIndex(r + i) = Place(first, i - 1)
                       /\ Place(first, i - 1) \in Positions

LEMMA IndicesByPlace ==
  ASSUME NEW w \in Nat, NEW r \in Int,
         NEW size, size = w - (r + 1), size \in 0..Capacity,
         NEW first, first = RealIndex(r + 1)
  PROVE  ByPlace(w, r, size, first)
<1>0. Capacity \in Nat \ {0} /\ size \in Nat
  BY CapacityAssumption
<1>1. first \in Positions /\ RealIndex(w) = Place(first, size)
  <2>1. w = (r + 1) + size /\ r + 1 \in Int
    BY <1>0
  <2>. QED
    BY <2>1, RealIndexShift
<1>2. ASSUME NEW i \in 1..size
      PROVE  RealIndex(r + i) = Place(first, i - 1) /\ Place(first, i - 1) \in Positions
  <2>1. i - 1 \in 0..Capacity /\ r + i = (r + 1) + (i - 1) /\ r + 1 \in Int
    BY <1>0
  <2>2. RealIndex(r + i) = Place(first, i - 1)
    BY <2>1, RealIndexShift
  <2>3. Place(first, i - 1) \in Positions
    BY <1>0, <1>1, <2>1 DEF Place, Positions
  <2>. QED
    BY <2>2, <2>3
<1>. QED
  BY <1>1, <1>2 DEF ByPlace

LEMMA ContentsByPlace ==
  ASSUME Holds
  PROVE  /\ First \in Positions /\ Size \in 0..Capacity
         /\ RealIndex(write_idx) = Place(First, Size)
         /\ Contents = [i \in 1..Size |-> buf[Place(First, i - 1)]]
         /\ Contents \in Seq(Bytes) /\ Len(Contents) = Size
<1>1. /\ buf \in [Positions -> Bytes] /\ write_idx \in Nat /\ read_idx \in Int
      /\ Size = write_idx - (read_idx + 1) /\ Size \in 0..Capacity /\ Size \in Nat
      /\ First = RealIndex(read_idx + 1)
  BY CapacityAssumption DEF Holds, SizeBounded, Size, First, ReadIndex
<1>0. ByPlace(write_idx, read_idx, Size, First)
  BY <1>1, IndicesByPlace
<1>2. /\ First \in Positions
      /\ RealIndex(write_idx) = Place(First, Size)
      /\ \A i \in 1..Size : /\ RealIndex(read_idx + i) = Place(First, i - 1)
                           /\ Place(First, i - 1) \in Positions
  BY <1>0 DEF ByPlace
<1>3. Contents = [i \in 1..Size |-> buf[Place(First, i - 1)]]
  BY <1>2 DEF Contents
<1>4. Contents \in [1..Size -> Bytes]
  BY <1>1, <1>2, <1>3
<1>. QED
  BY <1>1, <1>2, <1>3, <1>4, FunctionIsSequence

LEMMA ContentsByPlaceAfter ==
  ASSUME Holds'
  PROVE  /\ Contents' = [i \in 1..Size' |-> buf'[Place(First', i - 1)]]
         /\ Contents' \in Seq(Bytes) /\ Len(Contents') = Size'
<1>1. /\ buf' \in [Positions -> Bytes] /\ write_idx' \in Nat /\ read_idx' \in Int
      /\ Size' = write_idx' - (read_idx' + 1) /\ Size' \in 0..Capacity /\ Size' \in Nat
      /\ First' = RealIndex(read_idx' + 1)
  BY CapacityAssumption, SMTT(20) DEF Holds, SizeBounded, Size, First, ReadIndex, Positions, RealIndex
<1>0. ByPlace(write_idx', read_idx', Size', First')
  BY <1>1, IndicesByPlace
<1>2. \A i \in 1..Size' : /\ RealIndex(read_idx' + i) = Place(First', i - 1)
                         /\ Place(First', i - 1) \in Positions
  BY <1>0 DEF ByPlace
<1>3. Contents' = [i \in 1..Size' |-> buf'[RealIndex(read_idx' + i)]]
  BY DEF Contents, RealIndex
<1>4. Contents' = [i \in 1..Size' |-> buf'[Place(First', i - 1)]]
  BY <1>2, <1>3
<1>5. Contents' \in [1..Size' -> Bytes]
  BY <1>1, <1>2, <1>4
<1>. QED
  BY <1>1, <1>4, <1>5, FunctionIsSequence

-----------------------------------------------------------------------------
(* The operations, one by one.                                             *)
LEMMA StoredByPlace ==
  ASSUME Holds, NEW n \in 0..(Capacity - Size), NEW data \in [1..n -> Bytes]
  PROVE  /\ Stored(data) \in [Positions -> Bytes]
         /\ \A i \in 1..(Size + n) :
              Stored(data)[Place(First, i - 1)] =
                IF i <= Size THEN buf[Place(First, i - 1)] ELSE data[i - Size]
<1>1. /\ First \in 0..(Capacity - 1) /\ Size \in 0..Capacity /\ Capacity \in Nat \ {0}
      /\ RealIndex(write_idx) = Place(First, Size)
  BY ContentsByPlace, CapacityAssumption DEF Positions
<1>2. Len(data) = n
  BY <1>1, FunctionIsSequence
<1>. DEFINE w == Place(First, Size)
<1>3. w \in 0..(Capacity - 1)
  BY <1>1 DEF Place
<1>4. Stored(data) =
        [i \in Positions |->
           CASE i >= w /\ i < w + n -> data[i - w + 1]
             [] i < n - (Capacity - w) -> data[Capacity - w + i + 1]
             [] OTHER -> buf[i]]
  BY <1>1, <1>2 DEF Stored
<1>7. ASSUME NEW i \in Positions
      PROVE  /\ i >= w /\ i < w + n => Stored(data)[i] = data[i - w + 1]
             /\ i < w /\ i < n - (Capacity - w) => Stored(data)[i] = data[Capacity - w + i + 1]
             /\ ~(i >= w /\ i < w + n) /\ ~(i < n - (Capacity - w)) => Stored(data)[i] = buf[i]
  <2>1. i \in Int
    BY <1>1 DEF Positions
  <2>2. n <= Capacity /\ n \in Int
    BY <1>1
  <2>. HIDE DEF w
  <2>3. Stored(data)[i] = CASE i >= w /\ i < w + n -> data[i - w + 1]
                            [] i < n - (Capacity - w) -> data[Capacity - w + i + 1]
                            [] OTHER -> buf[i]
    BY <1>4
  <2>4. w \in Int /\ ~(i >= w /\ i < n - (Capacity - w)) /\ ~(i >= w + n /\ i < w)
    BY <1>1, <1>3, <2>1, <2>2
  <2>. QED
    BY <2>3, <2>4, Zenon
<1>5. ASSUME NEW i \in Positions
      PROVE  (CASE i >= w /\ i < w + n -> data[i - w + 1]
                [] i < n - (Capacity - w) -> data[Capacity - w + i + 1]
                [] OTHER -> buf[i]) \in Bytes
  <2>. HIDE DEF w
  <2>1. i \in 0..(Capacity - 1) /\ n \in 0..Capacity /\ w \in 0..(Capacity - 1) /\ Capacity \in Nat
    BY <1>1, <1>3 DEF Positions
  <2>2. i >= w /\ i < w + n => i - w + 1 \in 1..n
    BY <2>1
  <2>3. i < n - (Capacity - w) => Capacity - w + i + 1 \in 1..n
    BY <2>1
  <2>4. /\ i >= w /\ i < w + n => data[i - w + 1] \in Bytes
        /\ i < n - (Capacity - w) => data[Capacity - w + i + 1] \in Bytes
    BY <2>2, <2>3
  <2>5. buf[i] \in Bytes
    BY DEF Holds
  <2>. QED
    BY <2>4, <2>5
<1>6. ASSUME NEW i \in 1..(Size + n)
      PROVE  Stored(data)[Place(First, i - 1)] =
               IF i <= Size THEN buf[Place(First, i - 1)] ELSE data[i - Size]
  <2>1. Place(First, i - 1) \in Positions
    BY <1>1 DEF Place, Positions
  <2>2. PICK p \in Positions : p = Place(First, i - 1)
    BY <2>1
  <2>3. CASE i <= Size
    <3>1. ~(p >= w /\ p < w + n) /\ ~(p < n - (Capacity - w))
      BY <1>1, <2>2, <2>3 DEF Place
    <3>. HIDE DEF w
    <3>. QED
      BY <1>7, <2>2, <2>3, <3>1
  <2>4. CASE ~(i <= Size)
    <3>1. \/ p >= w /\ p < w + n /\ p - w + 1 = i - Size
          \/ p < w /\ p < n - (Capacity - w) /\ Capacity - w + p + 1 = i - Size
      BY <1>1, <2>2, <2>4 DEF Place
    <3>. HIDE DEF w
    <3>2. Stored(data)[p] = data[i - Size]
      BY <1>7, <3>1
    <3>. QED
      BY <2>2, <2>4, <3>2
  <2>. QED
    BY <2>3, <2>4
<1>. HIDE DEF w
<1>. QED
  BY <1>4, <1>5, <1>6

(* append puts the data behind the bytes held.                             *)
LEMMA AppendContents ==
  ASSUME Holds, NEW n \in Nat, NEW data \in [1..n -> Bytes], AppendData(data),
         Available >= Len(data)
  PROVE  /\ n \in 0..Capacity /\ data \in Seq(Bytes) /\ Len(data) = n
         /\ Len(Contents) + Len(data) <= Capacity
         /\ Contents' = Contents \o data
         /\ Holds'
<1>1. Len(data) = n /\ data \in Seq(Bytes)
  BY FunctionIsSequence
<1>2. /\ Size \in 0..Capacity /\ n <= Capacity - Size /\ Capacity \in Nat
      /\ Contents \in Seq(Bytes) /\ Len(Contents) = Size
  BY <1>1, ContentsByPlace, CapacityAssumption DEF Available
<1>3. /\ buf' = Stored(data) /\ write_idx' = write_idx + n
      /\ UNCHANGED <<read_idx, out>>
  BY <1>1 DEF AppendData
<1>4. Size' = Size + n /\ First' = First
  BY <1>3 DEF Size, First, ReadIndex, RealIndex, Holds, SizeBounded
<1>5. /\ Stored(data) \in [Positions -> Bytes]
      /\ \A i \in 1..(Size + n) :
              Stored(data)[Place(First, i - 1)] =
                IF i <= Size THEN buf[Place(First, i - 1)] ELSE data[i - Size]
  BY <1>2, StoredByPlace
<1>6. Holds'
  BY <1>2, <1>3, <1>4, <1>5 DEF Holds, SizeBounded, Positions
<1>7. /\ Contents' = [i \in 1..Size' |-> buf'[Place(First', i - 1)]]
      /\ Contents' \in Seq(Bytes) /\ Len(Contents') = Size'
  BY <1>6, ContentsByPlaceAfter
<1>8. /\ Contents \o data \in Seq(Bytes) /\ Len(Contents \o data) = Size + n
      /\ \A i \in 1..(Size + n) :
           (Contents \o data)[i] = IF i <= Size THEN Contents[i] ELSE data[i - Size]
  BY <1>1, <1>2, ConcatProperties
<1>9. ASSUME NEW i \in 1..(Size + n) PROVE Contents'[i] = (Contents \o data)[i]
  <2>1. Contents'[i] = IF i <= Size THEN buf[Place(First, i - 1)] ELSE data[i - Size]
    BY <1>3, <1>4, <1>5, <1>7
  <2>2. i <= Size => Contents[i] = buf[Place(First, i - 1)]
    BY <1>2, ContentsByPlace
  <2>. QED
    BY <1>8, <2>1, <2>2
<1>10. Contents' = Contents \o data
  BY <1>4, <1>7, <1>8, <1>9, SeqEqual
<1>. QED
  BY <1>1, <1>2, <1>6, <1>10

(* Whatever moves the read index on by n removes the first n bytes.        *)
LEMMA RemoveContents ==
  ASSUME Holds, NEW n \in 0..Size, read_idx' = read_idx + n, UNCHANGED <<buf, write_idx>>,
         out' \in Seq(Bytes)
  PROVE  /\ n \in 0..Capacity /\ n <= Len(Contents)
         /\ Contents' = SubSeq(Contents, n + 1, Len(Contents))
         /\ Holds'
<1>1. /\ Size \in 0..Capacity /\ Capacity \in Nat /\ ReadIndex \in Int
      /\ Contents \in Seq(Bytes) /\ Len(Contents) = Size
      /\ First \in 0..(Capacity - 1)
  BY ContentsByPlace, CapacityAssumption DEF ReadIndex, Holds, SizeBounded, Positions
<1>2. Size' = Size - n /\ ReadIndex' = ReadIndex + n
  BY DEF Size, ReadIndex, Holds, SizeBounded
<1>3. First' = Place(First, n)
  <2>1. First' = RealIndex(ReadIndex + n)
    BY <1>2 DEF First, RealIndex
  <2>2. n \in 0..Capacity
    BY <1>1
  <2>. QED
    BY <1>1, <2>1, <2>2, RealIndexShift DEF First
<1>4. Holds'
  BY <1>1, <1>2 DEF Holds, SizeBounded, Positions
<1>5. /\ Contents' = [i \in 1..Size' |-> buf'[Place(First', i - 1)]]
      /\ Contents' \in Seq(Bytes) /\ Len(Contents') = Size'
  BY <1>4, ContentsByPlaceAfter
<1>. DEFINE rest == SubSeq(Contents, n + 1, Len(Contents))
<1>6. \A i \in (n + 1)..Len(Contents) : Contents[i] \in Bytes
  BY <1>1, ElementOfSeq
<1>7. /\ rest \in Seq(Bytes) /\ Len(rest) = Size - n
      /\ \A i \in 1..(Size - n) : rest[i] = Contents[n + i]
  BY <1>1, <1>6, SubSeqProperties
<1>8. ASSUME NEW i \in 1..(Size - n) PROVE Contents'[i] = rest[i]
  <2>1. Contents[n + i] = buf[Place(First, n + i - 1)]
    BY <1>1, ContentsByPlace
  <2>2. Place(First', i - 1) = Place(First, n + i - 1)
    BY <1>1, <1>3 DEF Place
  <2>. QED
    BY <1>2, <1>5, <1>7, <2>1, <2>2
<1>. HIDE DEF rest
<1>9. Contents' = rest
  BY <1>2, <1>5, <1>7, <1>8, SeqEqual
<1>. QED
  BY <1>1, <1>4, <1>9 DEF rest

(* What consume returns is the first n bytes.                              *)
LEMMA SliceContents ==
  ASSUME Holds, NEW n \in 1..MaxRead, Size >= n
  PROVE  Slice(ReadIndex, ReadIndex + n) = SubSeq(Contents, 1, n)
<1>1. /\ Size \in 0..Capacity /\ Capacity \in Nat /\ ReadIndex \in Int
      /\ n \in 1..(Capacity - 1)
      /\ Contents \in Seq(Bytes) /\ Len(Contents) = Size
      /\ First \in 0..(Capacity - 1)
  BY ContentsByPlace, CapacityAssumption DEF ReadIndex, Holds, SizeBounded, Positions
<1>2. RealIndex(ReadIndex + n) = Place(First, n)
  BY <1>1, RealIndexShift DEF First
<1>3. Slice(ReadIndex, ReadIndex + n) = [i \in 1..n |-> buf[Place(First, i - 1)]]
  <2>1. CASE First + n < Capacity
    <3>1. /\ Place(First, n) = First + n /\ First <= First + n /\ First + n - First = n
          /\ \A i \in 1..n : Place(First, i - 1) = First + i - 1
      BY <1>1, <2>1 DEF Place
    <3>2. Slice(ReadIndex, ReadIndex + n) = [i \in 1..n |-> buf[First + i - 1]]
      <4>1. RealIndex(ReadIndex) = First /\ RealIndex(ReadIndex + n) = First + n
        BY <1>2, <3>1 DEF First
      <4>2. /\ RealIndex(ReadIndex + n) - RealIndex(ReadIndex) = n
            /\ RealIndex(ReadIndex) <= RealIndex(ReadIndex + n)
        BY <1>1, <4>1
      <4>3. Slice(ReadIndex, ReadIndex + n) =
              [i \in 1..(RealIndex(ReadIndex + n) - RealIndex(ReadIndex)) |->
                 buf[RealIndex(ReadIndex) + i - 1]]
        BY <4>2 DEF Slice
      <4>. QED
        BY <4>1, <4>2, <4>3
    <3>. QED
      BY <3>1, <3>2
  <2>2. CASE ~(First + n < Capacity)
    <3>1. Place(First, n) = First + n - Capacity /\ First > First + n - Capacity
      BY <1>1, <2>2 DEF Place
    <3>2. ReadIndex + n - ReadIndex = n
      BY <1>1
    <3>3. Slice(ReadIndex, ReadIndex + n) =
            [i \in 1..n |-> IF First + i - 1 < Capacity
                              THEN buf[First + i - 1] ELSE buf[i - 1 - (Capacity - First)]]
      BY <1>1, <1>2, <3>1, <3>2 DEF Slice, First
    <3>4. \A i \in 1..n : Place(First, i - 1) = IF First + i - 1 < Capacity
                              THEN First + i - 1 ELSE i - 1 - (Capacity - First)
      BY <1>1 DEF Place
    <3>. QED
      BY <3>3, <3>4
  <2>. QED
    BY <2>1, <2>2
<1>. DEFINE front == SubSeq(Contents, 1, n)
<1>4. \A i \in 1..n : Contents[i] \in Bytes
  BY <1>1, ElementOfSeq
<1>5. front \in Seq(Bytes) /\ Len(front) = n /\ \A i \in 1..n : front[i] = Contents[i]
  BY <1>1, <1>4, SubSeqProperties
<1>6. \A i \in 1..n : Contents[i] = buf[Place(First, i - 1)]
  BY <1>1, ContentsByPlace
<1>. DEFINE read == [i \in 1..n |-> buf[Place(First, i - 1)]]
<1>7. read \in Seq(Bytes) /\ Len(read) = n
  <2>1. read \in [1..n -> Bytes]
    BY <1>4, <1>6
  <2>. HIDE DEF read
  <2>. QED
    BY <1>1, <2>1, FunctionIsSequence
<1>8. \A i \in 1..n : read[i] = front[i]
  BY <1>5, <1>6
<1>. HIDE DEF front, read
<1>9. read = front
  BY <1>5, <1>7, <1>8, SeqEqual
<1>. QED
  BY <1>3, <1>9 DEF front, read

-----------------------------------------------------------------------------
(* The empty array is the empty queue.                                     *)
LEMMA InitFifo == Init => Holds /\ Fifo!Init
<1>. SUFFICES ASSUME Init PROVE Holds /\ Fifo!Init
  OBVIOUS
<1>1. Holds
  <2>1. out \in Seq(Bytes)
    BY EmptySeq DEF Init
  <2>. QED
    BY <2>1, InitBounded DEF Init, Holds
<1>2. Contents = <<>>
  <2>1. Size = 0
    BY DEF Init, Size
  <2>2. Contents \in Seq(Bytes) /\ Len(Contents) = 0
    BY <1>1, <2>1, ContentsByPlace
  <2>. QED
    BY <2>2, EmptySeq
<1>. QED
  BY <1>1, <1>2 DEF Init, Fifo!Init

(* Every operation is one of the queue: append puts, consume takes,        *)
(* advance and clear drop.                                                 *)
LEMMA StepFifo ==
  ASSUME Holds, [Next]_vars
  PROVE  Holds' /\ [Fifo!Next]_(Fifo!vars)
<1>1. ASSUME UNCHANGED <<buf, write_idx, read_idx>>
      PROVE  UNCHANGED Contents /\ (out' \in Seq(Bytes) => Holds')
  BY <1>1 DEF Contents, Size, RealIndex, Holds, SizeBounded, Positions
<1>2. Len(Contents) = Size /\ Size \in 0..Capacity /\ Capacity \in Nat
  BY ContentsByPlace, CapacityAssumption
<1>3. out \in Seq(Bytes) /\ <<>> \in Seq(Bytes)
  BY EmptySeq DEF Holds
<1>4. CASE UNCHANGED vars
  BY <1>1, <1>3, <1>4 DEF vars, Fifo!vars
<1>5. ASSUME NEW n \in 0..MaxChunk, NEW data \in [1..n -> Bytes], AppendData(data)
      PROVE  Holds' /\ [Fifo!Next]_(Fifo!vars)
  <2>1. CASE Available >= Len(data)
    <3>1. n \in Nat
      BY CapacityAssumption
    <3>2. /\ n \in 0..Capacity /\ Len(Contents) + Len(data) <= Capacity
          /\ Contents' = Contents \o data /\ Holds'
      BY <1>5, <2>1, <3>1, AppendContents
    <3>3. Fifo!Put(data)
      BY <1>5, <2>1, <3>2 DEF AppendData, Fifo!Put
    <3>. QED
      BY <3>2, <3>3 DEF Fifo!Next
  <2>2. CASE ~(Available >= Len(data))
    BY <1>1, <1>3, <1>5, <2>2 DEF AppendData, Fifo!vars
  <2>. QED
    BY <2>1, <2>2
<1>6. ASSUME NEW n \in 1..MaxRead, Consume(n)
      PROVE  Holds' /\ [Fifo!Next]_(Fifo!vars)
  <2>1. CASE Size >= n
    <3>1. n \in 0..Size
      BY <1>2, <2>1, CapacityAssumption
    <3>2. out' = SubSeq(Contents, 1, n) /\ UNCHANGED <<buf, write_idx, in>>
          /\ read_idx' = read_idx + n
      BY <1>6, <2>1, SliceContents DEF Consume
    <3>3. out' \in Seq(Bytes)
      <4>1. Contents \in Seq(Bytes)
        BY ContentsByPlace
      <4>2. \A i \in 1..n : Contents[i] \in Bytes
        BY <1>2, <3>1, <4>1, ElementOfSeq
      <4>. QED
        BY <3>1, <3>2, <4>2, SubSeqProperties
    <3>4. /\ n \in 0..Capacity /\ n <= Len(Contents) /\ Holds'
          /\ Contents' = SubSeq(Contents, n + 1, Len(Contents))
      BY <3>1, <3>2, <3>3, RemoveContents
    <3>5. Fifo!Take(n)
      BY <3>2, <3>4 DEF Fifo!Take
    <3>. QED
      BY <3>4, <3>5 DEF Fifo!Next
  <2>2. CASE ~(Size >= n)
    <3>1. out' = <<>> /\ UNCHANGED <<buf, write_idx, read_idx, in>>
      BY <1>6, <2>2 DEF Consume
    <3>. QED
      BY <1>1, <1>3, <3>1 DEF Fifo!Next
  <2>. QED
    BY <2>1, <2>2
<1>7. ASSUME NEW n \in 0..Size, read_idx' = read_idx + n,
             UNCHANGED <<buf, write_idx, in, out>>
      PROVE  Holds' /\ [Fifo!Next]_(Fifo!vars)
  <2>1. /\ n \in 0..Capacity /\ n <= Len(Contents) /\ Holds'
        /\ Contents' = SubSeq(Contents, n + 1, Len(Contents))
    BY <1>3, <1>7, RemoveContents
  <2>2. Fifo!Drop(n)
    BY <1>7, <2>1 DEF Fifo!Drop
  <2>. QED
    BY <2>1, <2>2 DEF Fifo!Next
<1>8. ASSUME NEW n \in 1..Capacity, Advance(n)
      PROVE  Holds' /\ [Fifo!Next]_(Fifo!vars)
  <2>1. n \in 0..Size
    BY <1>2, <1>8 DEF Advance
  <2>. QED
    BY <1>7, <1>8, <2>1 DEF Advance
<1>9. ASSUME Clear
      PROVE  Holds' /\ [Fifo!Next]_(Fifo!vars)
  <2>1. Size \in 0..Size /\ read_idx' = read_idx + Size
    BY <1>2, <1>9 DEF Clear, Size, Holds, SizeBounded
  <2>. QED
    BY <1>7, <1>9, <2>1 DEF Clear
<1>. QED
  BY <1>4, <1>5, <1>6, <1>8, <1>9 DEF Next

(* The array is a queue of bytes whatever its capacity and wherever its    *)
(* contents wrap.                                                          *)
THEOREM AlwaysImplementsFifo == Spec => ImplementsFifo
BY InitFifo, StepFifo, PTL DEF Spec, ImplementsFifo, Fifo!Spec
=============================================================================
