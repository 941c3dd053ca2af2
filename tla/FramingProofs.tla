---------------------------- MODULE FramingProofs ---------------------------
(***************************************************************************)
(* Proofs about module Framing, for messages and pieces of any size and    *)
(* any number of them.  Whatever is lost, messages are handled in order    *)
(* and none twice; and if nothing is lost, every message is handled and    *)
(* the thread neither ends nor spins.                                      *)
(***************************************************************************)
EXTENDS Framing, SequenceTheorems, WellFoundedInduction, TLAPS

(* The order in which cells are written.                                   *)
Before(a, b) == a.msg < b.msg \/ (a.msg = b.msg /\ a.part < b.part)

Ordered(s) == \A i, j \in 1..Len(s) : i < j => Before(s[i], s[j])
AllBefore(s, t) == \A i \in 1..Len(s), j \in 1..Len(t) : Before(s[i], t[j])
AllAfter(m, s) == \A i \in 1..Len(s) : m < s[i].msg

(* A cell is one of the messages ss, and the first g cells of the last of   *)
(* these have been written.                                                *)
SentCell(c, ss, g) ==
  /\ c.msg \in 1..Len(ss) /\ c.part \in 1..ss[c.msg]
  /\ c.msg = Len(ss) => c.part <= g

AllSent(s, ss, g) == \A i \in 1..Len(s) : SentCell(s[i], ss, g)

Sending == IF sent = <<>> THEN gone = 0 ELSE gone <= sent[Len(sent)]

(* What is underway keeps its order, whatever is missing.                  *)
Underway ==
  /\ Ordered(buf) /\ AllSent(buf, sent, gone)
  /\ \A k \in 1..Len(queue) :
       /\ Ordered(queue[k]) /\ AllSent(queue[k], sent, gone) /\ AllBefore(buf, queue[k])
       /\ \A l \in 1..Len(queue) : k < l => AllBefore(queue[k], queue[l])

(* A message that has been handled was complete, and nothing of it, or of  *)
(* one before it, is left.                                                 *)
IsDone(m) ==
  /\ m \in 1..Len(sent) /\ (m = Len(sent) => gone = sent[m])
  /\ AllAfter(m, buf)
  /\ \A k \in 1..Len(queue) : AllAfter(m, queue[k])

Done == \A h \in 1..Len(handled) : IsDone(handled[h])

OrderInv == TypeOK /\ Sending /\ Underway /\ Done /\ HandledInOrder

(* The cell to be written after c, and cells that follow one another.      *)
After(c, ss) ==
  IF c.part < ss[c.msg] THEN [msg |-> c.msg, part |-> c.part + 1]
  ELSE [msg |-> c.msg + 1, part |-> 1]

Linked(s, ss) == \A i \in 1..Len(s) : i < Len(s) => s[i + 1] = After(s[i], ss)

(* The next message to handle, from its first cell, and the next cell to   *)
(* write.                                                                  *)
First(m) == [msg |-> m, part |-> 1]

NextCell ==
  IF Unfinished THEN [msg |-> Len(sent), part |-> gone + 1] ELSE First(Len(sent) + 1)

(* What follows the buffer b, for k = 0, or the k-th piece of q, if m is   *)
(* the next message to handle.                                             *)
Edge(b, q, m, ss, k) ==
  IF k # 0 THEN After(q[k][Len(q[k])], ss)
  ELSE IF b # <<>> THEN After(b[Len(b)], ss) ELSE First(m)

(* As long as nothing is lost, the buffer and the pieces are all of what   *)
(* has been written after the messages that are handled.                   *)
Whole ==
  /\ \A i \in 1..Len(handled) : handled[i] = i
  /\ Linked(buf, sent) /\ (buf # <<>> => buf[1] = First(Len(handled) + 1))
  /\ \A k \in 1..Len(queue) :
       /\ Len(queue[k]) \in 1..MaxPiece /\ Linked(queue[k], sent)
       /\ queue[k][1] = Edge(buf, queue, Len(handled) + 1, sent, k - 1)
  /\ Edge(buf, queue, Len(handled) + 1, sent, Len(queue)) = NextCell
  /\ thread \in {"idle", "handling"}
  /\ thread = "idle" /\ buf # <<>> => Len(buf) < sent[Len(handled) + 1]

WholeInv == OrderInv /\ (~damaged => Whole)

-----------------------------------------------------------------------------
(* Looking for a preamble.                                                 *)

(* A set of numbers that is not empty has a least one.                     *)
LEMMA LeastNumber ==
  ASSUME NEW T, T \subseteq Nat, T # {}
  PROVE  \E x \in T : \A y \in T : x <= y
<1>1. \E x \in T : \A y \in T : ~ (<<y, x>> \in OpToRel(<, Nat))
  BY NatLessThanWellFounded, WFMin
<1>2. PICK x \in T : \A y \in T : ~ (<<y, x>> \in OpToRel(<, Nat))
  BY <1>1
<1>3. \A y \in T : ~ (y < x)
  BY <1>2 DEF OpToRel
<1>. QED
  BY <1>3

(* s without its first d cells.                                            *)
Suffix(t, s, d) ==
  /\ d \in 0..Len(s) /\ Len(t) = Len(s) - d
  /\ \A i \in 1..Len(t) : t[i] = s[i + d]

LEMMA SubSeqSuffix ==
  ASSUME NEW s \in Seq(Cell), NEW k \in 1..(Len(s) + 1)
  PROVE  SubSeq(s, k, Len(s)) \in Seq(Cell) /\ Suffix(SubSeq(s, k, Len(s)), s, k - 1)
<1>1. Len(s) \in Nat /\ \A i \in k..Len(s) : s[i] \in Cell
  BY LenProperties, ElementOfSeq
<1>. DEFINE t == SubSeq(s, k, Len(s))
<1>2. /\ t \in Seq(Cell) /\ Len(t) = Len(s) - k + 1
      /\ \A i \in 1..(Len(s) - k + 1) : t[i] = s[k + i - 1]
  BY <1>1, SubSeqProperties
<1>. HIDE DEF t
<1>3. Suffix(t, s, k - 1)
  BY <1>1, <1>2 DEF Suffix
<1>. QED
  BY <1>2, <1>3 DEF t

(* What _advance_to_next_preamble leaves begins with a preamble, and is    *)
(* all there was if that did.                                              *)
LEMMA FromPreambleSuffix ==
  ASSUME NEW s \in Seq(Cell)
  PROVE  /\ FromPreamble(s) \in Seq(Cell)
         /\ \E d \in 0..Len(s) : Suffix(FromPreamble(s), s, d)
         /\ FromPreamble(s) # <<>> => IsPreamble(FromPreamble(s)[1])
         /\ s # <<>> /\ IsPreamble(s[1]) => FromPreamble(s) = s
         /\ s = <<>> => FromPreamble(s) = s
<1>. DEFINE found == {i \in 1..Len(s) : IsPreamble(s[i])}
<1>0. Len(s) \in Nat /\ DOMAIN s = 1..Len(s)
  BY LenProperties
<1>1. CASE found = {}
  <2>0. {i \in DOMAIN s : IsPreamble(s[i])} = {}
    BY <1>0, <1>1
  <2>1. FromPreamble(s) = <<>>
    BY <2>0 DEF FromPreamble
  <2>2. Suffix(<<>>, s, Len(s))
    BY <1>0, EmptySeq DEF Suffix
  <2>3. s # <<>> => Len(s) >= 1
    BY <1>0, EmptySeq
  <2>. QED
    BY <1>0, <1>1, <2>1, <2>2, <2>3, EmptySeq
<1>2. CASE found # {}
  <2>1. PICK k \in found : \A j \in found : k <= j
    <3>1. found \subseteq Nat
      BY <1>0
    <3>. HIDE DEF found
    <3>. QED
      BY <1>2, <3>1, LeastNumber
  <2>2. \A i \in found : (\A j \in found : i <= j) => i = k
    BY <2>1
  <2>3. (CHOOSE i \in found : \A j \in found : i <= j) = k
    BY <2>1, <2>2
  <2>4. FromPreamble(s) = SubSeq(s, k, Len(s))
    BY <1>0, <1>2, <2>3 DEF FromPreamble
  <2>5. /\ FromPreamble(s) \in Seq(Cell) /\ Suffix(FromPreamble(s), s, k - 1)
    BY <1>0, <2>4, SubSeqSuffix
  <2>6. IsPreamble(FromPreamble(s)[1])
    BY <1>0, <2>1, <2>5 DEF Suffix
  <2>7. s # <<>> /\ IsPreamble(s[1]) => FromPreamble(s) = s
    <3>1. SUFFICES ASSUME s # <<>>, IsPreamble(s[1]) PROVE SubSeq(s, k, Len(s)) = s
      BY <2>4
    <3>2. k = 1
      BY <1>0, <2>1, <3>1
    <3>. QED
      BY <3>2, SubSeqFull
  <2>8. s # <<>>
    BY <1>0, <2>1, EmptySeq
  <2>. QED
    BY <1>0, <2>1, <2>5, <2>6, <2>7, <2>8
<1>. QED
  BY <1>1, <1>2

-----------------------------------------------------------------------------
(* Order along a part of a sequence, and along two put together.           *)
LEMMA SuffixOrder ==
  ASSUME NEW s \in Seq(Cell), NEW t \in Seq(Cell), NEW d \in 0..Len(s), Suffix(t, s, d)
  PROVE  /\ Ordered(s) => Ordered(t)
         /\ \A u \in Seq(Cell) : AllBefore(s, u) => AllBefore(t, u)
         /\ \A m \in Nat : AllAfter(m, s) => AllAfter(m, t)
         /\ \A ss, g : AllSent(s, ss, g) => AllSent(t, ss, g)
         /\ Len(t) <= Len(s)
<1>1. Len(s) \in Nat /\ Len(t) \in Nat
  BY LenProperties
<1>2. \A i \in 1..Len(t) : i + d \in 1..Len(s) /\ t[i] = s[i + d]
  BY <1>1 DEF Suffix
<1>3. Ordered(s) => Ordered(t)
  BY <1>1, <1>2 DEF Ordered
<1>4. \A u \in Seq(Cell) : AllBefore(s, u) => AllBefore(t, u)
  BY <1>2 DEF AllBefore
<1>5. \A m \in Nat : AllAfter(m, s) => AllAfter(m, t)
  BY <1>2 DEF AllAfter
<1>6. \A ss, g : AllSent(s, ss, g) => AllSent(t, ss, g)
  BY <1>2 DEF AllSent
<1>7. Len(t) <= Len(s)
  BY <1>1 DEF Suffix
<1>. QED
  BY <1>3, <1>4, <1>5, <1>6, <1>7

LEMMA ConcatCells ==
  ASSUME NEW s \in Seq(Cell), NEW t \in Seq(Cell)
  PROVE  /\ s \o t \in Seq(Cell) /\ Len(s \o t) = Len(s) + Len(t)
         /\ \A i \in 1..Len(s \o t) :
              \/ i \in 1..Len(s) /\ (s \o t)[i] = s[i]
              \/ i - Len(s) \in 1..Len(t) /\ (s \o t)[i] = t[i - Len(s)]
<1>1. Len(s) \in Nat /\ Len(t) \in Nat
  BY LenProperties
<1>2. /\ s \o t \in Seq(Cell) /\ Len(s \o t) = Len(s) + Len(t)
      /\ \A i \in 1..(Len(s) + Len(t)) :
           (s \o t)[i] = IF i <= Len(s) THEN s[i] ELSE t[i - Len(s)]
  BY ConcatProperties
<1>. QED
  BY <1>1, <1>2

LEMMA ConcatOrder ==
  ASSUME NEW s \in Seq(Cell), NEW t \in Seq(Cell)
  PROVE  /\ Ordered(s) /\ Ordered(t) /\ AllBefore(s, t) => Ordered(s \o t)
         /\ \A u \in Seq(Cell) : AllBefore(s, u) /\ AllBefore(t, u) => AllBefore(s \o t, u)
         /\ \A m \in Nat : AllAfter(m, s) /\ AllAfter(m, t) => AllAfter(m, s \o t)
         /\ \A ss, g : AllSent(s, ss, g) /\ AllSent(t, ss, g) => AllSent(s \o t, ss, g)
<1>1. Len(s) \in Nat /\ Len(t) \in Nat
  BY LenProperties
<1>. DEFINE w == s \o t
<1>2. /\ Len(w) = Len(s) + Len(t)
      /\ \A i \in 1..Len(w) :
           \/ i \in 1..Len(s) /\ w[i] = s[i]
           \/ i - Len(s) \in 1..Len(t) /\ w[i] = t[i - Len(s)]
  BY ConcatCells
<1>. HIDE DEF w
<1>3. Ordered(s) /\ Ordered(t) /\ AllBefore(s, t) => Ordered(w)
  <2>. SUFFICES ASSUME Ordered(s), Ordered(t), AllBefore(s, t),
                       NEW i \in 1..Len(w), NEW j \in 1..Len(w), i < j
                PROVE  Before(w[i], w[j])
    BY DEF Ordered
  <2>1. CASE i \in 1..Len(s) /\ j \in 1..Len(s)
    BY <1>1, <1>2, <2>1 DEF Ordered
  <2>2. CASE i \in 1..Len(s) /\ j \notin 1..Len(s)
    BY <1>1, <1>2, <2>2 DEF AllBefore
  <2>3. CASE i \notin 1..Len(s)
    <3>1. i - Len(s) \in 1..Len(t) /\ j - Len(s) \in 1..Len(t) /\ i - Len(s) < j - Len(s)
      BY <1>1, <1>2, <2>3
    <3>2. Before(t[i - Len(s)], t[j - Len(s)])
      BY <3>1 DEF Ordered
    <3>3. w[i] = t[i - Len(s)] /\ w[j] = t[j - Len(s)]
      BY <1>1, <1>2, <2>3, <3>1
    <3>. QED
      BY <3>2, <3>3
  <2>. QED
    BY <2>1, <2>2, <2>3
<1>4. \A u \in Seq(Cell) : AllBefore(s, u) /\ AllBefore(t, u) => AllBefore(w, u)
  BY <1>1, <1>2 DEF AllBefore
<1>5. \A m \in Nat : AllAfter(m, s) /\ AllAfter(m, t) => AllAfter(m, w)
  BY <1>1, <1>2 DEF AllAfter
<1>6. \A ss, g : AllSent(s, ss, g) /\ AllSent(t, ss, g) => AllSent(w, ss, g)
  BY <1>1, <1>2 DEF AllSent
<1>. QED
  BY <1>3, <1>4, <1>5, <1>6 DEF w

-----------------------------------------------------------------------------
(* The order is kept by every step.                                        *)

LEMMA Types ==
  ASSUME OrderInv
  PROVE  /\ Len(sent) \in 0..MaxMessages /\ (sent # <<>> <=> Len(sent) >= 1)
         /\ \A i \in 1..Len(sent) : sent[i] \in Sizes /\ sent[i] \in Nat /\ sent[i] >= 3
         /\ gone \in Nat /\ buf \in Seq(Cell) /\ Len(buf) \in 0..Capacity
         /\ Len(queue) \in Nat /\ \A k \in 1..Len(queue) : queue[k] \in Seq(Cell)
         /\ Len(handled) \in Nat /\ \A h \in 1..Len(handled) : handled[h] \in 1..MaxMessages
         /\ Last(sent) = sent[Len(sent)]
<1>1. sent \in Seq(Sizes) /\ queue \in Seq(Seq(Cell)) /\ buf \in Seq(Cell)
      /\ handled \in Seq(1..MaxMessages) /\ gone \in Nat
      /\ Len(buf) <= Capacity /\ Len(sent) <= MaxMessages
  BY DEF OrderInv, TypeOK
<1>2. Len(sent) \in Nat /\ Len(queue) \in Nat /\ Len(buf) \in Nat /\ Len(handled) \in Nat
  BY <1>1, LenProperties
<1>3. MaxMessages \in Nat /\ Capacity \in Nat /\ \A x \in Sizes : x \in Nat /\ x >= 3
  BY FramingAssumption DEF Overhead
<1>4. \A i \in 1..Len(sent) : sent[i] \in Sizes /\ sent[i] \in Nat /\ sent[i] >= 3
  BY <1>1, <1>3, ElementOfSeq
<1>5. \A k \in 1..Len(queue) : queue[k] \in Seq(Cell)
  BY <1>1, ElementOfSeq
<1>6. \A h \in 1..Len(handled) : handled[h] \in 1..MaxMessages
  BY <1>1, ElementOfSeq
<1>7. sent # <<>> <=> Len(sent) >= 1
  BY <1>1, <1>2, EmptySeq
<1>8. Last(sent) = sent[Len(sent)]
  BY DEF Last
<1>. QED
  BY <1>1, <1>2, <1>3, <1>4, <1>5, <1>6, <1>7, <1>8

LEMMA BeginOrder ==
  ASSUME OrderInv, NEW size \in Sizes, BeginMessage(size)
  PROVE  OrderInv'
<1>1. /\ sent' = Append(sent, size) /\ gone' = 0 /\ Len(sent) < MaxMessages
      /\ damaged' = (damaged \/ Unfinished)
      /\ UNCHANGED <<queue, buf, thread, handled>>
  BY DEF BeginMessage
<1>2. sent \in Seq(Sizes) /\ damaged \in BOOLEAN
  BY DEF OrderInv, TypeOK
<1>3. /\ sent' \in Seq(Sizes) /\ Len(sent') = Len(sent) + 1 /\ sent' # <<>>
      /\ \A i \in 1..Len(sent) : sent'[i] = sent[i]
      /\ sent'[Len(sent')] = size
  BY <1>1, <1>2, Types, AppendProperties, SMTT(20)
<1>4. damaged' \in BOOLEAN
  BY <1>1, <1>2
<1>5. TypeOK'
  BY <1>1, <1>3, <1>4, Types, FramingAssumption DEF OrderInv, TypeOK
<1>6. Sending'
  BY <1>1, <1>3, Types, FramingAssumption DEF Sending
<1>7. \A c : SentCell(c, sent, gone) => SentCell(c, sent', gone')
  BY <1>3, Types DEF SentCell
<1>8. AllSent(buf, sent', gone') /\ \A k \in 1..Len(queue) : AllSent(queue[k], sent', gone')
  BY <1>1, <1>7 DEF AllSent, OrderInv, Underway
<1>9. Underway'
  BY <1>1, <1>8 DEF OrderInv, Underway
<1>10. Done'
  BY <1>1, <1>3, Types DEF OrderInv, Done, IsDone
<1>11. HandledInOrder'
  BY <1>1 DEF OrderInv, HandledInOrder
<1>. QED
  BY <1>5, <1>6, <1>9, <1>10, <1>11 DEF OrderInv

(* A piece that is written comes after everything written before.          *)
LEMMA PieceOrder ==
  ASSUME OrderInv, Unfinished, NEW n \in Nat \ {0}, gone + n <= Last(sent),
         sent' = sent, gone' = gone + n
  PROVE  /\ Piece(n) \in Seq(Cell) /\ Len(Piece(n)) = n
         /\ \A i \in 1..n : Piece(n)[i] = [msg |-> Len(sent), part |-> gone + i]
         /\ Ordered(Piece(n)) /\ AllSent(Piece(n), sent', gone')
         /\ \A s \in Seq(Cell) : AllSent(s, sent, gone) => AllSent(s, sent', gone') /\ AllBefore(s, Piece(n))
         /\ \A m \in 1..(Len(sent) - 1) : AllAfter(m, Piece(n))
         /\ Sending'
<1>1. /\ Len(sent) \in Nat /\ Len(sent) >= 1 /\ gone \in Nat
      /\ sent[Len(sent)] \in Nat /\ gone + n <= sent[Len(sent)] /\ sent # <<>>
  BY Types DEF Unfinished
<1>. DEFINE p == Piece(n)
<1>2. p = [i \in 1..n |-> [msg |-> Len(sent), part |-> gone + i]]
  BY DEF Piece
<1>3. \A i \in 1..n : [msg |-> Len(sent), part |-> gone + i] \in Cell
  BY <1>1 DEF Cell
<1>4. p \in Seq(Cell)
  BY <1>2, <1>3
<1>5. Len(p) = n
  BY <1>2
<1>6. \A i \in 1..n : p[i] = [msg |-> Len(sent), part |-> gone + i]
  BY <1>2
<1>0. \A i \in 1..n : p[i].msg = Len(sent) /\ p[i].part = gone + i
  BY <1>2
<1>. HIDE DEF p
<1>7. Ordered(p)
  BY <1>0, <1>1, <1>5 DEF Ordered, Before
<1>8. AllSent(p, sent', gone')
  <2>1. \A i \in 1..n : SentCell(p[i], sent', gone')
    BY <1>0, <1>1 DEF SentCell
  <2>. QED
    BY <1>5, <2>1 DEF AllSent
<1>9. ASSUME NEW s \in Seq(Cell), AllSent(s, sent, gone) PROVE AllSent(s, sent', gone') /\ AllBefore(s, p)
  <2>1. \A i \in 1..Len(s) : SentCell(s[i], sent, gone)
    BY <1>9 DEF AllSent
  <2>2. ASSUME NEW c, SentCell(c, sent, gone)
        PROVE  SentCell(c, sent', gone') /\ \A j \in 1..n : Before(c, p[j])
    <3>1. /\ c.msg \in 1..Len(sent) /\ c.part \in 1..sent[c.msg]
          /\ (c.msg = Len(sent) => c.part <= gone) /\ sent[c.msg] \in Nat
      BY <2>2, Types DEF SentCell
    <3>2. SentCell(c, sent', gone')
      BY <1>1, <3>1 DEF SentCell
    <3>3. \A j \in 1..n : Before(c, p[j])
      BY <1>0, <1>1, <3>1, SMTT(20) DEF Before
    <3>. QED
      BY <3>2, <3>3
  <2>. QED
    BY <1>5, <2>1, <2>2 DEF AllSent, AllBefore
<1>10. \A m \in 1..(Len(sent) - 1) : AllAfter(m, p)
  BY <1>1, <1>5, <1>6 DEF AllAfter
<1>11. Sending'
  BY <1>1 DEF Sending
<1>. QED
  BY <1>4, <1>5, <1>6, <1>7, <1>8, <1>9, <1>10, <1>11 DEF p

LEMMA WriteOrder ==
  ASSUME OrderInv, NEW n \in 1..MaxPiece, WriteValue(n)
  PROVE  OrderInv'
<1>. DEFINE p == Piece(n)
<1>1. /\ Unfinished /\ gone + n <= Last(sent)
      /\ queue' = Append(queue, p) /\ gone' = gone + n
      /\ sent' = sent /\ damaged' = damaged /\ buf' = buf /\ thread' = thread
      /\ handled' = handled /\ n \in Nat \ {0}
  BY FramingAssumption DEF WriteValue
<1>2. /\ p \in Seq(Cell) /\ Len(p) = n /\ Ordered(p) /\ AllSent(p, sent', gone')
      /\ \A s \in Seq(Cell) : AllSent(s, sent, gone) => AllSent(s, sent', gone') /\ AllBefore(s, p)
      /\ \A m \in 1..(Len(sent) - 1) : AllAfter(m, p)
      /\ Sending'
  BY <1>1, PieceOrder
<1>. HIDE DEF p
<1>3. queue \in Seq(Seq(Cell))
  BY DEF OrderInv, TypeOK
<1>4. /\ queue' \in Seq(Seq(Cell)) /\ Len(queue') = Len(queue) + 1
      /\ \A k \in 1..Len(queue) : queue'[k] = queue[k]
      /\ queue'[Len(queue')] = p
  BY <1>1, <1>2, <1>3, AppendProperties
<1>5. TypeOK'
  BY <1>1, <1>4, Types DEF OrderInv, TypeOK
<1>6. Ordered(buf) /\ AllSent(buf, sent', gone')
  BY <1>2, Types DEF OrderInv, Underway
<1>7. \A k \in 1..Len(queue') :
        /\ Ordered(queue'[k]) /\ AllSent(queue'[k], sent', gone') /\ AllBefore(buf, queue'[k])
        /\ \A l \in 1..Len(queue') : k < l => AllBefore(queue'[k], queue'[l])
  <2>1. \A k \in 1..Len(queue) :
          /\ Ordered(queue[k]) /\ AllSent(queue[k], sent, gone) /\ AllBefore(buf, queue[k])
          /\ \A l \in 1..Len(queue) : k < l => AllBefore(queue[k], queue[l])
    BY DEF OrderInv, Underway
  <2>2. \A k \in 1..Len(queue) : AllSent(queue[k], sent', gone') /\ AllBefore(queue[k], p)
    BY <1>2, <2>1, Types
  <2>3. AllBefore(buf, p)
    BY <1>2, Types DEF OrderInv, Underway
  <2>4. Len(queue) \in Nat
    BY Types
  <2>5. \A k \in 1..Len(queue') : k \in 1..Len(queue) \/ k = Len(queue')
    BY <1>4, <2>4
  <2>6. ASSUME NEW k \in 1..Len(queue')
        PROVE  /\ Ordered(queue'[k]) /\ AllSent(queue'[k], sent', gone')
               /\ AllBefore(buf, queue'[k])
    BY <1>2, <1>4, <2>1, <2>2, <2>3, <2>5
  <2>7. ASSUME NEW k \in 1..Len(queue'), NEW l \in 1..Len(queue'), k < l
        PROVE  AllBefore(queue'[k], queue'[l])
    <3>1. k \in 1..Len(queue)
      BY <1>4, <2>4, <2>7
    <3>. QED
      BY <1>4, <2>1, <2>2, <2>5, <2>7, <3>1
  <2>. QED
    BY <2>6, <2>7
<1>8. Underway'
  BY <1>1, <1>6, <1>7 DEF Underway
<1>9. ASSUME NEW m, IsDone(m) PROVE IsDone(m)'
  <2>1. m \in 1..(Len(sent) - 1)
    BY <1>1, <1>9, Types DEF IsDone, Unfinished
  <2>2. AllAfter(m, p)
    BY <1>2, <2>1
  <2>. QED
    BY <1>1, <1>4, <1>9, <2>1, <2>2, Types, SMTT(20) DEF IsDone
<1>10. Done'
  BY <1>1, <1>9 DEF OrderInv, Done
<1>11. HandledInOrder'
  BY <1>1 DEF OrderInv, HandledInOrder
<1>. QED
  BY <1>2, <1>5, <1>8, <1>10, <1>11 DEF OrderInv

LEMMA LoseOrder ==
  ASSUME OrderInv, NEW n \in 1..MaxPiece, LosePiece(n)
  PROVE  OrderInv'
<1>1. /\ Unfinished /\ gone + n <= Last(sent)
      /\ gone' = gone + n /\ damaged' = TRUE /\ sent' = sent
      /\ queue' = queue /\ buf' = buf /\ thread' = thread
      /\ handled' = handled /\ n \in Nat \ {0}
  BY FramingAssumption DEF LosePiece
<1>2. /\ \A s \in Seq(Cell) : AllSent(s, sent, gone) => AllSent(s, sent', gone')
      /\ Sending'
  BY <1>1, PieceOrder
<1>3. TypeOK'
  BY <1>1, Types DEF OrderInv, TypeOK
<1>4. AllSent(buf, sent', gone') /\ \A k \in 1..Len(queue) : AllSent(queue[k], sent', gone')
  BY <1>1, <1>2, Types DEF OrderInv, Underway
<1>5. Underway'
  BY <1>1, <1>4 DEF OrderInv, Underway
<1>6. \A m : IsDone(m) => IsDone(m)'
  BY <1>1, Types DEF IsDone, Unfinished
<1>7. Done'
  BY <1>1, <1>6 DEF OrderInv, Done
<1>8. HandledInOrder'
  BY <1>1 DEF OrderInv, HandledInOrder
<1>. QED
  BY <1>2, <1>3, <1>5, <1>7, <1>8 DEF OrderInv

(* What is taken next goes behind what is in the buffer.                   *)
LEMMA TakeOrder ==
  ASSUME OrderInv, TakePiece
  PROVE  OrderInv'
<1>. DEFINE w == buf \o Head(queue)
<1>1. /\ queue # <<>> /\ queue' = Tail(queue)
      /\ sent' = sent /\ gone' = gone /\ damaged' = damaged /\ handled' = handled
      /\ \/ Fits(Head(queue)) /\ thread' = "handling" /\ buf' = FromPreamble(w)
         \/ thread' = "dead" /\ buf' = buf
  BY DEF TakePiece
<1>2. queue \in Seq(Seq(Cell)) /\ Len(queue) \in Nat
  BY Types DEF OrderInv, TypeOK
<1>3. Len(queue) >= 1
  BY <1>1, <1>2, EmptySeq
<1>4. /\ Head(queue) = queue[1] /\ queue' \in Seq(Seq(Cell)) /\ Len(queue') = Len(queue) - 1
      /\ \A k \in 1..Len(queue') : k + 1 \in 1..Len(queue) /\ queue'[k] = queue[k + 1]
  BY <1>1, <1>2, <1>3, HeadTailProperties
<1>5. /\ Ordered(buf) /\ AllSent(buf, sent, gone)
      /\ \A k \in 1..Len(queue) :
           /\ Ordered(queue[k]) /\ AllSent(queue[k], sent, gone) /\ AllBefore(buf, queue[k])
           /\ \A l \in 1..Len(queue) : k < l => AllBefore(queue[k], queue[l])
  BY DEF OrderInv, Underway
<1>. DEFINE InPlace(b) ==
       /\ b \in Seq(Cell) /\ Ordered(b) /\ AllSent(b, sent, gone)
       /\ \A k \in 2..Len(queue) : AllBefore(b, queue[k])
       /\ \A m : IsDone(m) => AllAfter(m, b)
<1>6. InPlace(buf)
  BY <1>2, <1>5, Types DEF IsDone
<1>7. InPlace(w) /\ Len(w) = Len(buf) + Len(Head(queue))
  <2>1. buf \in Seq(Cell) /\ queue[1] \in Seq(Cell) /\ w = buf \o queue[1]
    BY <1>3, <1>4, Types, SMTT(20)
  <2>. HIDE DEF w
  <2>2. w \in Seq(Cell) /\ Len(w) = Len(buf) + Len(queue[1])
    BY <2>1, ConcatCells
  <2>3. Ordered(w) /\ AllSent(w, sent, gone)
    BY <1>2, <1>3, <1>5, <2>1, ConcatOrder
  <2>4. \A k \in 2..Len(queue) : AllBefore(w, queue[k])
    <3>1. SUFFICES ASSUME NEW k \in 2..Len(queue) PROVE AllBefore(w, queue[k])
      OBVIOUS
    <3>2. /\ k \in 1..Len(queue) /\ 1 \in 1..Len(queue) /\ 1 < k
          /\ queue[k] \in Seq(Cell)
      BY <1>2, <1>3, Types
    <3>3. AllBefore(buf, queue[k]) /\ AllBefore(queue[1], queue[k])
      BY <1>5, <3>2
    <3>. QED
      BY <2>1, <3>2, <3>3, ConcatOrder
  <2>5. ASSUME NEW m, IsDone(m) PROVE AllAfter(m, w)
    <3>1. m \in Nat /\ AllAfter(m, buf) /\ AllAfter(m, queue[1])
      BY <1>2, <1>3, <2>5, Types DEF IsDone
    <3>. QED
      BY <2>1, <3>1, ConcatOrder
  <2>. QED
    BY <1>4, <2>2, <2>3, <2>4, <2>5
<1>8. InPlace(buf') /\ Len(buf') <= Capacity /\ thread' \in {"handling", "dead"}
  <2>1. CASE thread' = "dead" /\ buf' = buf
    <3>. HIDE DEF InPlace
    <3>. QED
      BY <1>6, <2>1, Types
  <2>2. CASE Fits(Head(queue)) /\ thread' = "handling" /\ buf' = FromPreamble(w)
    <3>1. w \in Seq(Cell) /\ Len(w) <= Capacity
      BY <1>3, <1>4, <1>7, <2>2, Types, LenProperties, FramingAssumption DEF Fits
    <3>. HIDE DEF w
    <3>2. PICK d \in 0..Len(w) : Suffix(buf', w, d)
      BY <2>2, <3>1, FromPreambleSuffix
    <3>3. buf' \in Seq(Cell)
      BY <2>2, <3>1, FromPreambleSuffix
    <3>4. /\ Ordered(w) => Ordered(buf')
          /\ \A u \in Seq(Cell) : AllBefore(w, u) => AllBefore(buf', u)
          /\ \A m \in Nat : AllAfter(m, w) => AllAfter(m, buf')
          /\ \A ss, g : AllSent(w, ss, g) => AllSent(buf', ss, g)
          /\ Len(buf') <= Len(w)
      BY <3>1, <3>2, <3>3, SuffixOrder
    <3>5. \A k \in 2..Len(queue) : queue[k] \in Seq(Cell)
      BY <1>2, Types
    <3>6. \A m : IsDone(m) => m \in Nat
      BY Types DEF IsDone
    <3>7. Len(buf') <= Capacity
      BY <3>1, <3>3, <3>4, LenProperties, FramingAssumption
    <3>. QED
      BY <1>7, <2>2, <3>3, <3>4, <3>5, <3>6, <3>7
  <2>. QED
    BY <1>1, <2>1, <2>2
<1>. HIDE DEF w
<1>9. TypeOK'
  BY <1>1, <1>4, <1>8 DEF OrderInv, TypeOK
<1>10. Sending'
  BY <1>1 DEF OrderInv, Sending
<1>11. Underway'
  <2>1. \A k \in 1..Len(queue') :
          /\ Ordered(queue'[k]) /\ AllSent(queue'[k], sent, gone) /\ AllBefore(buf', queue'[k])
    <3>1. \A k \in 1..Len(queue') : k + 1 \in 1..Len(queue) /\ k + 1 \in 2..Len(queue)
      BY <1>2, <1>4
    <3>2. \A k \in 2..Len(queue) : AllBefore(buf', queue[k])
      BY <1>8
    <3>. HIDE DEF InPlace
    <3>. QED
      BY <1>4, <1>5, <3>1, <3>2
  <2>2. ASSUME NEW k \in 1..Len(queue'), NEW l \in 1..Len(queue'), k < l
        PROVE  AllBefore(queue'[k], queue'[l])
    <3>1. k + 1 \in 1..Len(queue) /\ l + 1 \in 1..Len(queue) /\ k + 1 < l + 1
      BY <1>4, <2>2
    <3>. QED
      BY <1>4, <1>5, <3>1
  <2>. QED
    BY <1>1, <1>8, <2>1, <2>2 DEF Underway
<1>12. ASSUME NEW m, IsDone(m) PROVE IsDone(m)'
  BY <1>1, <1>4, <1>8, <1>12 DEF IsDone
<1>13. Done'
  BY <1>1, <1>12 DEF OrderInv, Done
<1>14. HandledInOrder'
  BY <1>1 DEF OrderInv, HandledInOrder
<1>. QED
  BY <1>9, <1>10, <1>11, <1>13, <1>14 DEF OrderInv

(* The steps that only look for a preamble, or not even that.              *)
LEMMA LookOrder ==
  ASSUME OrderInv, NEW d \in 0..Len(buf), buf' \in Seq(Cell), Suffix(buf', buf, d),
         UNCHANGED <<sent, gone, damaged, queue>>,
         thread' \in {"idle", "handling", "spinning", "dead"}
  PROVE  /\ Underway'
         /\ handled' \in Seq(1..MaxMessages) => TypeOK'
         /\ Sending'
         /\ \A m : IsDone(m) => IsDone(m)'
<1>1. /\ Ordered(buf) => Ordered(buf')
      /\ \A u \in Seq(Cell) : AllBefore(buf, u) => AllBefore(buf', u)
      /\ \A m \in Nat : AllAfter(m, buf) => AllAfter(m, buf')
      /\ \A ss, g : AllSent(buf, ss, g) => AllSent(buf', ss, g)
      /\ Len(buf') <= Len(buf)
  BY Types, SuffixOrder
<1>2. Len(buf') <= Capacity
  BY <1>1, Types, LenProperties, FramingAssumption
<1>3. Underway'
  BY <1>1, Types DEF OrderInv, Underway
<1>4. handled' \in Seq(1..MaxMessages) => TypeOK'
  BY <1>2 DEF OrderInv, TypeOK
<1>5. Sending'
  BY DEF OrderInv, Sending
<1>6. \A m : IsDone(m) => m \in Nat
  BY Types DEF IsDone
<1>7. \A m : IsDone(m) => IsDone(m)'
  BY <1>1, <1>6 DEF IsDone
<1>. QED
  BY <1>3, <1>4, <1>5, <1>7

LEMMA RejectOrder ==
  ASSUME OrderInv, RejectMessage
  PROVE  OrderInv'
<1>1. /\ buf' = FromPreamble(buf) /\ handled' = handled
      /\ UNCHANGED <<sent, gone, damaged, queue>>
      /\ thread' \in {"idle", "handling", "spinning", "dead"}
  BY DEF RejectMessage
<1>2. PICK d \in 0..Len(buf) : Suffix(buf', buf, d)
  BY <1>1, Types, FromPreambleSuffix
<1>3. buf' \in Seq(Cell)
  BY <1>1, Types, FromPreambleSuffix
<1>4. handled' \in Seq(1..MaxMessages)
  BY <1>1 DEF OrderInv, TypeOK
<1>5. /\ Underway' /\ TypeOK' /\ Sending'
      /\ \A m : IsDone(m) => IsDone(m)'
  BY <1>1, <1>2, <1>3, <1>4, LookOrder
<1>6. Done'
  BY <1>1, <1>5 DEF OrderInv, Done
<1>7. HandledInOrder'
  BY <1>1 DEF OrderInv, HandledInOrder
<1>. QED
  BY <1>5, <1>6, <1>7 DEF OrderInv

LEMMA AwaitOrder ==
  ASSUME OrderInv, AwaitRest
  PROVE  OrderInv'
<1>1. /\ thread' = "idle" /\ UNCHANGED <<sent, gone, damaged, queue, buf, handled>>
  BY DEF AwaitRest
<1>2. TypeOK'
  BY <1>1 DEF OrderInv, TypeOK
<1>3. Sending' /\ Underway' /\ Done' /\ HandledInOrder'
  BY <1>1 DEF OrderInv, Sending, Underway, Done, IsDone, HandledInOrder
<1>. QED
  BY <1>2, <1>3 DEF OrderInv

(* A message that is complete, and its CRC right, is one the app has sent, *)
(* and what follows it in the buffer belongs to later ones.                *)
LEMMA MessageFound ==
  ASSUME OrderInv, AtMessage, MessageSize <= Capacity, Complete, CrcMatches
  PROVE  LET m == buf[1].msg
         IN  /\ m \in 1..Len(sent) /\ m \in 1..MaxMessages
             /\ MessageSize = sent[m] /\ sent[m] \in 3..Len(buf)
             /\ buf[sent[m]] = [msg |-> m, part |-> sent[m]]
             /\ m = Len(sent) => gone = sent[m]
             /\ \A i \in (sent[m] + 1)..Len(buf) : m < buf[i].msg
<1>. DEFINE m == buf[1].msg
            S == MessageSize
<1>1. Len(buf) >= 3 /\ Len(buf) \in Nat
  BY Types DEF AtMessage, Overhead
<1>2. \A i \in 1..Len(buf) : SentCell(buf[i], sent, gone)
  BY DEF OrderInv, Underway, AllSent
<1>3. m \in 1..Len(sent) /\ sent[m] \in Nat /\ sent[m] >= 3 /\ sent[m] \in Sizes
  BY <1>1, <1>2, Types DEF SentCell
<1>4. S \in Nat /\ S >= 3 /\ S <= Len(buf)
  <2>1. S <= Len(buf)
    BY DEF Complete
  <2>2. /\ buf[2].msg \in 1..Len(sent) /\ buf[2].part \in 1..sent[buf[2].msg]
    BY <1>1, <1>2 DEF SentCell
  <2>3. sent[buf[2].msg] \in Sizes
    BY <2>2, Types
  <2>4. Misread[buf[2].part] \in Nat /\ Misread[buf[2].part] >= 3
    BY <2>2, <2>3, FramingAssumption DEF Overhead
  <2>. QED
    BY <2>1, <2>2, <2>4, Types DEF MessageSize
<1>5. \A i \in 1..S : buf[i] = [msg |-> m, part |-> i]
  BY DEF CrcMatches
<1>. HIDE DEF S
<1>6. buf[2].msg = m /\ buf[2].part = 2
  <2>1. 2 \in 1..S
    BY <1>4
  <2>2. buf[2] = [msg |-> m, part |-> 2]
    BY <1>5, <2>1
  <2>. HIDE DEF m
  <2>. QED
    BY <2>2
<1>7. S = sent[m]
  BY <1>6 DEF MessageSize, S
<1>8. buf[S] = [msg |-> m, part |-> S]
  BY <1>4, <1>5
<1>9. m = Len(sent) => gone = sent[m]
  <2>1. SentCell(buf[S], sent, gone)
    BY <1>2, <1>4
  <2>2. m = Len(sent) => S <= gone
    BY <1>8, <2>1 DEF SentCell
  <2>3. m = Len(sent) => gone <= sent[m]
    BY <1>3, Types DEF OrderInv, Sending
  <2>. QED
    BY <1>3, <1>7, <2>2, <2>3, Types
<1>10. ASSUME NEW i \in (S + 1)..Len(buf) PROVE m < buf[i].msg
  <2>1. Before(buf[S], buf[i])
    BY <1>1, <1>4 DEF OrderInv, Underway, Ordered
  <2>2. m < buf[i].msg \/ (m = buf[i].msg /\ S < buf[i].part)
    BY <1>8, <2>1 DEF Before
  <2>3. buf[i].msg \in 1..Len(sent) /\ buf[i].part \in 1..sent[buf[i].msg]
    BY <1>1, <1>2, <1>4 DEF SentCell
  <2>. QED
    BY <1>3, <1>7, <2>2, <2>3, SMTT(20)
<1>11. m \in 1..MaxMessages
  BY <1>3, Types, FramingAssumption
<1>. QED
  BY <1>3, <1>4, <1>7, <1>8, <1>9, <1>10, <1>11 DEF S

LEMMA HandleOrder ==
  ASSUME OrderInv, HandleMessage
  PROVE  OrderInv'
<1>. PICK m : m = buf[1].msg
  OBVIOUS
<1>. DEFINE S == MessageSize
            rest == SubSeq(buf, S + 1, Len(buf))
<1>1. /\ AtMessage /\ S <= Capacity /\ Complete /\ CrcMatches
      /\ handled' = Append(handled, m) /\ buf' = FromPreamble(rest)
      /\ UNCHANGED <<sent, gone, damaged, queue, thread>>
  BY DEF HandleMessage, Advanced
<1>2. /\ m \in 1..Len(sent) /\ m \in 1..MaxMessages
      /\ S = sent[m] /\ S \in 3..Len(buf)
      /\ buf[S] = [msg |-> m, part |-> S]
      /\ m = Len(sent) => gone = sent[m]
      /\ \A i \in (S + 1)..Len(buf) : m < buf[i].msg
  BY <1>1, MessageFound
<1>3. handled \in Seq(1..MaxMessages)
  BY DEF OrderInv, TypeOK
<1>4. /\ handled' \in Seq(1..MaxMessages) /\ Len(handled') = Len(handled) + 1
      /\ \A h \in 1..Len(handled) : handled'[h] = handled[h]
      /\ handled'[Len(handled')] = m /\ DOMAIN handled' = 1..Len(handled')
      /\ DOMAIN handled = 1..Len(handled) /\ Len(handled) \in Nat
  BY <1>1, <1>2, <1>3, AppendProperties, LenProperties
<1>. HIDE DEF S
<1>0. S \in Nat /\ S >= 3 /\ S <= Len(buf) /\ Len(buf) \in Nat /\ buf \in Seq(Cell)
  BY <1>2, Types
<1>5. rest \in Seq(Cell) /\ Suffix(rest, buf, S)
  <2>1. S + 1 \in 1..(Len(buf) + 1) /\ (S + 1) - 1 = S /\ buf \in Seq(Cell)
    BY <1>0
  <2>. QED
    BY <2>1, SubSeqSuffix
<1>. HIDE DEF rest
<1>6. buf' \in Seq(Cell)
  BY <1>1, <1>5, FromPreambleSuffix
<1>7. PICK e \in 0..Len(rest) : Suffix(buf', rest, e)
  BY <1>1, <1>5, FromPreambleSuffix
<1>8. S + e \in 0..Len(buf) /\ Suffix(buf', buf, S + e)
  <2>1. Len(buf) \in Nat /\ Len(rest) \in Nat /\ Len(buf') \in Nat
    BY <1>5, <1>6, Types, LenProperties
  <2>2. S \in 0..Len(buf) /\ Len(rest) = Len(buf) - S
        /\ \A i \in 1..Len(rest) : rest[i] = buf[i + S]
    BY <1>5 DEF Suffix
  <2>3. Len(buf') = Len(rest) - e /\ \A i \in 1..Len(buf') : buf'[i] = rest[i + e]
    BY <1>7 DEF Suffix
  <2>4. \A i \in 1..Len(buf') : i + e \in 1..Len(rest) /\ i + (S + e) = (i + e) + S
    BY <2>1, <2>2, <2>3
  <2>5. \A i \in 1..Len(buf') : buf'[i] = buf[i + (S + e)]
    BY <2>2, <2>3, <2>4
  <2>6. S + e \in 0..Len(buf) /\ Len(buf') = Len(buf) - (S + e)
    BY <2>1, <2>2, <2>3
  <2>. QED
    BY <2>5, <2>6 DEF Suffix
<1>9. thread' \in {"idle", "handling", "spinning", "dead"}
  BY <1>1 DEF OrderInv, TypeOK
<1>10. /\ Underway' /\ TypeOK' /\ Sending'
       /\ \A x : IsDone(x) => IsDone(x)'
  BY <1>1, <1>4, <1>6, <1>8, <1>9, LookOrder
<1>11. IsDone(m)'
  <2>1. AllAfter(m, buf')
    <3>1. \A i \in 1..Len(buf') : i + (S + e) \in (S + 1)..Len(buf) /\ buf'[i] = buf[i + (S + e)]
      <4>1. /\ S + e \in 0..Len(buf) /\ Len(buf') = Len(buf) - (S + e) /\ e \in Nat
            /\ \A i \in 1..Len(buf') : buf'[i] = buf[i + (S + e)]
        BY <1>5, <1>8, LenProperties DEF Suffix
      <4>. QED
        BY <1>0, <4>1
    <3>. QED
      BY <1>2, <3>1 DEF AllAfter
  <2>2. ASSUME NEW k \in 1..Len(queue) PROVE AllAfter(m, queue[k])
    <3>1. SUFFICES ASSUME NEW j \in 1..Len(queue[k]) PROVE m < queue[k][j].msg
      BY DEF AllAfter
    <3>2. S \in 1..Len(buf)
      BY <1>2, Types, SMTT(20)
    <3>3. Before(buf[S], queue[k][j]) /\ SentCell(queue[k][j], sent, gone)
      BY <3>2 DEF OrderInv, Underway, AllBefore, AllSent
    <3>4. m < queue[k][j].msg \/ (m = queue[k][j].msg /\ S < queue[k][j].part)
      BY <1>2, <3>3 DEF Before
    <3>5. queue[k][j].part \in 1..sent[queue[k][j].msg] /\ sent[queue[k][j].msg] \in Nat
      BY <3>3, Types DEF SentCell
    <3>6. ASSUME queue[k][j].msg = m PROVE m < queue[k][j].msg
      <4>1. queue[k][j].part \in 1..S
        BY <1>2, <3>5, <3>6
      <4>2. ~ (S < queue[k][j].part)
        BY <1>0, <4>1
      <4>. QED
        BY <3>4, <4>2
    <3>. QED
      BY <3>4, <3>6
  <2>3. m \in 1..Len(sent') /\ (m = Len(sent') => gone' = sent'[m])
    BY <1>1, <1>2
  <2>4. \A k \in 1..Len(queue') : AllAfter(m, queue'[k])
    BY <1>1, <2>2
  <2>. QED
    BY <1>4, <2>1, <2>3, <2>4 DEF IsDone
<1>12. Done'
  <2>1. \A h \in 1..Len(handled') : h \in 1..Len(handled) \/ h = Len(handled')
    BY <1>4
  <2>2. \A h \in 1..Len(handled) : IsDone(handled[h])
    BY DEF OrderInv, Done
  <2>3. \A x : IsDone(x) => IsDone(x)'
    BY <1>10
  <2>. QED
    BY <1>4, <1>11, <2>1, <2>2, <2>3, ZenonT(60) DEF Done, IsDone
<1>13. HandledInOrder'
  <2>1. \A h \in 1..Len(handled) : handled[h] < m
    BY <1>2, Types DEF OrderInv, Done, IsDone, AllAfter
  <2>2. \A i, j \in 1..Len(handled) : i < j => handled[i] < handled[j]
    BY <1>4 DEF OrderInv, HandledInOrder
  <2>3. \A i \in 1..Len(handled') : i \in 1..Len(handled) \/ i = Len(handled')
    BY <1>4
  <2>. QED
    BY <1>4, <2>1, <2>2, <2>3 DEF HandledInOrder
<1>. QED
  BY <1>10, <1>12, <1>13 DEF OrderInv

THEOREM OrderInvariant == Spec => []OrderInv
<1>1. Init => OrderInv
  <2>1. SUFFICES ASSUME Init PROVE OrderInv
    OBVIOUS
  <2>2. TypeOK
    <3>1. Len(<<>>) = 0 /\ 0 <= MaxMessages /\ 0 <= Capacity
      BY FramingAssumption
    <3>2. \A S : <<>> \in Seq(S)
      OBVIOUS
    <3>. QED
      BY <2>1, <3>1, <3>2 DEF Init, TypeOK
  <2>3. Sending /\ Underway /\ Done /\ HandledInOrder
    BY <2>1 DEF Init, Sending, Underway, Done, HandledInOrder, Ordered, AllSent
  <2>. QED
    BY <2>2, <2>3 DEF OrderInv
<1>2. OrderInv /\ [Next]_vars => OrderInv'
  <2>1. SUFFICES ASSUME OrderInv, [Next]_vars PROVE OrderInv'
    OBVIOUS
  <2>2. ASSUME NEW size \in Sizes, BeginMessage(size) PROVE OrderInv'
    BY <2>1, <2>2, BeginOrder
  <2>3. ASSUME NEW n \in 1..MaxPiece, WriteValue(n) PROVE OrderInv'
    BY <2>1, <2>3, WriteOrder
  <2>4. ASSUME NEW n \in 1..MaxPiece, LosePiece(n) PROVE OrderInv'
    BY <2>1, <2>4, LoseOrder
  <2>5. CASE TakePiece
    BY <2>1, <2>5, TakeOrder
  <2>6. CASE HandleMessage
    BY <2>1, <2>6, HandleOrder
  <2>7. CASE RejectMessage
    BY <2>1, <2>7, RejectOrder
  <2>8. CASE AwaitRest
    BY <2>1, <2>8, AwaitOrder
  <2>9. CASE UNCHANGED vars
    BY <2>1, <2>9 DEF vars, OrderInv, TypeOK, Sending, Underway, Done, IsDone, HandledInOrder
  <2>. QED
    BY <2>1, <2>2, <2>3, <2>4, <2>5, <2>6, <2>7, <2>8, <2>9 DEF Next, App, MessageThread
<1>. QED
  BY <1>1, <1>2, PTL DEF Spec

(* Whatever is lost of what the app writes, _handle_messages handles the   *)
(* messages in the order they were sent, and none twice.                   *)
THEOREM AlwaysHandledInOrder == Spec => []HandledInOrder
<1>1. OrderInv => HandledInOrder
  BY DEF OrderInv
<1>. QED
  BY <1>1, OrderInvariant, PTL

-----------------------------------------------------------------------------
(* As long as nothing is lost, nothing is missing.                         *)

(* Cells that follow one another are in their places, as far as the first  *)
(* message goes.                                                           *)
LEMMA LinkedRun ==
  ASSUME NEW s \in Seq(Cell), NEW ss, NEW m \in Nat, ss[m] \in Nat,
         Linked(s, ss), s # <<>>, s[1] = First(m)
  PROVE  \A j \in 1..Len(s) : j <= ss[m] => s[j] = [msg |-> m, part |-> j]
<1>. DEFINE wrong == {j \in 1..Len(s) : j <= ss[m] /\ s[j] # [msg |-> m, part |-> j]}
<1>1. Len(s) \in Nat
  BY LenProperties
<1>2. SUFFICES ASSUME wrong # {} PROVE FALSE
  OBVIOUS
<1>3. PICK j \in wrong : \A i \in wrong : j <= i
  <2>1. wrong \subseteq Nat
    BY <1>1
  <2>. HIDE DEF wrong
  <2>. QED
    BY <1>2, <2>1, LeastNumber
<1>4. j \in 1..Len(s) /\ j <= ss[m] /\ s[j] # [msg |-> m, part |-> j]
  OBVIOUS
<1>5. j # 1
  BY <1>4 DEF First
<1>6. j - 1 \in 1..Len(s) /\ j - 1 < j /\ j - 1 < Len(s) /\ (j - 1) + 1 = j
  BY <1>1, <1>4, <1>5
<1>7. j - 1 \notin wrong
  BY <1>3, <1>6
<1>8. s[j - 1] = [msg |-> m, part |-> j - 1]
  BY <1>1, <1>4, <1>6, <1>7
<1>9. s[j] = After(s[j - 1], ss)
  BY <1>6 DEF Linked
<1>10. After([msg |-> m, part |-> j - 1], ss) = [msg |-> m, part |-> j]
  BY <1>1, <1>4, <1>6 DEF After
<1>. QED
  BY <1>4, <1>8, <1>9, <1>10

(* The message at the front is the next one to handle.                     *)
LEMMA FrontMessage ==
  ASSUME OrderInv, Whole, buf # <<>>
  PROVE  LET m == Len(handled) + 1
         IN  /\ m \in 1..Len(sent) /\ sent[m] \in Sizes /\ sent[m] \in Nat /\ sent[m] >= 3
             /\ sent[m] - 1 + MaxPiece <= Capacity /\ sent[m] <= Capacity
             /\ \A j \in 1..Len(buf) : j <= sent[m] => buf[j] = [msg |-> m, part |-> j]
             /\ Len(buf) >= 1
<1>. DEFINE m == Len(handled) + 1
<1>1. Len(buf) \in Nat /\ Len(buf) >= 1 /\ buf \in Seq(Cell) /\ m \in Nat
  BY Types, EmptySeq, LenProperties
<1>2. buf[1] = First(m) /\ Linked(buf, sent)
  BY DEF Whole
<1>3. SentCell(buf[1], sent, gone)
  BY <1>1 DEF OrderInv, Underway, AllSent
<1>4. m \in 1..Len(sent)
  BY <1>2, <1>3 DEF SentCell, First
<1>5. sent[m] \in Sizes /\ sent[m] \in Nat /\ sent[m] >= 3
  BY <1>4, Types
<1>6. sent[m] - 1 + MaxPiece <= Capacity /\ sent[m] <= Capacity
  BY <1>5, FramingAssumption
<1>7. \A j \in 1..Len(buf) : j <= sent[m] => buf[j] = [msg |-> m, part |-> j]
  BY <1>1, <1>2, <1>5, LinkedRun
<1>. QED
  BY <1>1, <1>4, <1>5, <1>6, <1>7

LEMMA WholeMessage ==
  ASSUME OrderInv, Whole, AtMessage
  PROVE  LET m == Len(handled) + 1
         IN  /\ m \in 1..Len(sent) /\ buf[1].msg = m
             /\ MessageSize = sent[m] /\ sent[m] \in Nat /\ sent[m] >= 3
             /\ MessageSize <= Capacity /\ (Complete => CrcMatches)
             /\ \A j \in 1..Len(buf) : j <= sent[m] => buf[j] = [msg |-> m, part |-> j]
<1>. DEFINE m == Len(handled) + 1
<1>1. Len(buf) >= 3 /\ Len(buf) \in Nat /\ buf # <<>>
  BY Types, EmptySeq DEF AtMessage, Overhead
<1>2. /\ m \in 1..Len(sent) /\ sent[m] \in Nat /\ sent[m] >= 3 /\ sent[m] <= Capacity
      /\ \A j \in 1..Len(buf) : j <= sent[m] => buf[j] = [msg |-> m, part |-> j]
  BY <1>1, FrontMessage
<1>. HIDE DEF m
<1>3. buf[1] = [msg |-> m, part |-> 1] /\ buf[2] = [msg |-> m, part |-> 2]
  BY <1>1, <1>2
<1>4. MessageSize = sent[m]
  BY <1>3 DEF MessageSize
<1>5. Complete => CrcMatches
  <2>1. SUFFICES ASSUME Complete, NEW i \in 1..MessageSize
                 PROVE  buf[i] = [msg |-> buf[1].msg, part |-> i]
    BY DEF CrcMatches
  <2>2. i \in 1..Len(buf) /\ i <= sent[m]
    BY <1>1, <1>2, <1>4, <2>1 DEF Complete
  <2>. QED
    BY <1>2, <1>3, <2>2
<1>6. buf[1].msg = m
  BY <1>3
<1>. QED
  BY <1>2, <1>4, <1>5, <1>6 DEF m

LEMMA BeginWhole ==
  ASSUME OrderInv, Whole, ~damaged, NEW size \in Sizes, BeginMessage(size), ~damaged'
  PROVE  Whole'
<1>1. /\ sent' = Append(sent, size) /\ gone' = 0 /\ ~Unfinished
      /\ queue' = queue /\ buf' = buf /\ thread' = thread /\ handled' = handled
  BY DEF BeginMessage
<1>2. sent \in Seq(Sizes) /\ size \in Nat /\ size >= 3 /\ Len(sent) \in Nat
  BY Types, FramingAssumption DEF OrderInv, TypeOK, Overhead
<1>3. /\ sent' \in Seq(Sizes) /\ Len(sent') = Len(sent) + 1 /\ sent' # <<>>
      /\ \A i \in 1..Len(sent) : sent'[i] = sent[i]
      /\ sent'[Len(sent')] = size
  BY <1>1, <1>2, AppendProperties
<1>4. ASSUME NEW c, SentCell(c, sent, gone) PROVE After(c, sent') = After(c, sent)
  BY <1>3, <1>4 DEF SentCell, After
<1>5. ASSUME NEW s \in Seq(Cell), AllSent(s, sent, gone)
      PROVE  /\ Linked(s, sent) => Linked(s, sent')
             /\ Len(s) >= 1 => After(s[Len(s)], sent') = After(s[Len(s)], sent)
  BY <1>4, <1>5, LenProperties DEF AllSent, Linked
<1>6. Linked(buf, sent')
  BY <1>5, Types DEF Whole, OrderInv, Underway
<1>7. \A k \in 1..Len(queue) : Linked(queue[k], sent')
  BY <1>5, Types DEF Whole, OrderInv, Underway
<1>8. \A k \in 0..Len(queue) : Edge(buf, queue, Len(handled) + 1, sent', k)
                               = Edge(buf, queue, Len(handled) + 1, sent, k)
  <2>1. SUFFICES ASSUME NEW k \in 0..Len(queue)
                 PROVE  Edge(buf, queue, Len(handled) + 1, sent', k)
                        = Edge(buf, queue, Len(handled) + 1, sent, k)
    OBVIOUS
  <2>2. k # 0 => After(queue[k][Len(queue[k])], sent') = After(queue[k][Len(queue[k])], sent)
    <3>1. k # 0 => k \in 1..Len(queue) /\ queue[k] \in Seq(Cell)
      BY Types
    <3>2. k # 0 => AllSent(queue[k], sent, gone) /\ Len(queue[k]) >= 1
      BY <3>1, FramingAssumption DEF OrderInv, Underway, Whole
    <3>. QED
      BY <1>5, <3>1, <3>2
  <2>3. buf # <<>> => After(buf[Len(buf)], sent') = After(buf[Len(buf)], sent)
    <3>1. buf # <<>> => Len(buf) >= 1 /\ buf \in Seq(Cell) /\ AllSent(buf, sent, gone)
      BY FrontMessage, Types DEF OrderInv, Underway
    <3>. QED
      BY <1>5, <3>1
  <2>. QED
    BY <2>2, <2>3 DEF Edge
<1>9. NextCell' = NextCell
  <2>1. NextCell = First(Len(sent) + 1)
    BY <1>1 DEF NextCell
  <2>2. NextCell' = First(Len(sent'))
    BY <1>1, <1>2, <1>3 DEF NextCell, First, Unfinished, Last
  <2>. QED
    BY <1>3, <2>1, <2>2
<1>10. Len(buf) < sent[Len(handled) + 1] /\ buf # <<>> => Len(buf) < sent'[Len(handled) + 1]
  BY <1>3, FrontMessage
<1>11. ASSUME NEW k \in 1..Len(queue)
       PROVE  /\ Len(queue[k]) \in 1..MaxPiece /\ Linked(queue[k], sent')
              /\ queue[k][1] = Edge(buf, queue, Len(handled) + 1, sent', k - 1)
  <2>1. k - 1 \in 0..Len(queue)
    BY Types
  <2>. QED
    BY <1>7, <1>8, <2>1 DEF Whole
<1>12. Edge(buf, queue, Len(handled) + 1, sent', Len(queue)) = NextCell'
  <2>1. Len(queue) \in 0..Len(queue)
    BY Types
  <2>. QED
    BY <1>8, <1>9, <2>1 DEF Whole
<1>. QED
  BY <1>1, <1>6, <1>10, <1>11, <1>12 DEF Whole

LEMMA WriteWhole ==
  ASSUME OrderInv, Whole, NEW n \in 1..MaxPiece, WriteValue(n)
  PROVE  Whole'
<1>. PICK p : p = Piece(n)
  OBVIOUS
<1>1. /\ Unfinished /\ gone + n <= Last(sent)
      /\ queue' = Append(queue, p) /\ gone' = gone + n
      /\ sent' = sent /\ buf' = buf /\ thread' = thread
      /\ handled' = handled /\ n \in Nat \ {0}
  BY FramingAssumption DEF WriteValue
<1>2. /\ p \in Seq(Cell) /\ Len(p) = n
      /\ \A i \in 1..n : p[i] = [msg |-> Len(sent), part |-> gone + i]
  BY <1>1, PieceOrder
<1>3. queue \in Seq(Seq(Cell)) /\ Len(queue) \in Nat
  BY Types DEF OrderInv, TypeOK
<1>4. /\ Len(queue') = Len(queue) + 1
      /\ \A k \in 1..Len(queue) : queue'[k] = queue[k]
      /\ queue'[Len(queue')] = p
  BY <1>1, <1>2, <1>3, AppendProperties
<1>5. /\ gone \in Nat /\ Len(sent) \in Nat /\ sent[Len(sent)] \in Nat
      /\ gone + n <= sent[Len(sent)] /\ Last(sent) = sent[Len(sent)] /\ sent # <<>>
  BY <1>1, Types DEF Unfinished
<1>6. Linked(p, sent)
  <2>1. SUFFICES ASSUME NEW i \in 1..n, i < n PROVE p[i + 1] = After(p[i], sent)
    BY <1>2 DEF Linked
  <2>2. /\ p[i] = [msg |-> Len(sent), part |-> gone + i]
        /\ p[i + 1] = [msg |-> Len(sent), part |-> gone + (i + 1)]
    BY <1>1, <1>2, <2>1
  <2>3. gone + i < sent[Len(sent)] /\ (gone + i) + 1 = gone + (i + 1)
    BY <1>1, <1>5, <2>1
  <2>. QED
    BY <2>2, <2>3 DEF After
<1>7. p[1] = NextCell
  <2>1. p[1] = [msg |-> Len(sent), part |-> gone + 1]
    BY <1>1, <1>2
  <2>. QED
    BY <1>1, <2>1 DEF NextCell
<1>8. After(p[n], sent) = NextCell'
  <2>1. p[n] = [msg |-> Len(sent), part |-> gone + n]
    BY <1>1, <1>2
  <2>2. CASE gone + n < sent[Len(sent)]
    <3>1. Unfinished'
      BY <1>1, <1>5, <2>2 DEF Unfinished
    <3>2. NextCell' = [msg |-> Len(sent), part |-> (gone + n) + 1]
      BY <1>1, <3>1 DEF NextCell
    <3>. QED
      BY <2>1, <2>2, <3>2 DEF After
  <2>3. CASE ~ (gone + n < sent[Len(sent)])
    <3>1. ~Unfinished'
      BY <1>1, <1>5, <2>3 DEF Unfinished
    <3>2. NextCell' = First(Len(sent) + 1)
      BY <1>1, <3>1 DEF NextCell
    <3>. QED
      BY <2>1, <2>3, <3>2 DEF After, First
  <2>. QED
    BY <2>2, <2>3
<1>9. \A k \in 0..Len(queue) : Edge(buf, queue', Len(handled) + 1, sent, k)
                               = Edge(buf, queue, Len(handled) + 1, sent, k)
  BY <1>3, <1>4 DEF Edge
<1>10. Edge(buf, queue', Len(handled) + 1, sent, Len(queue')) = NextCell'
  BY <1>2, <1>3, <1>4, <1>8 DEF Edge
<1>11. ASSUME NEW k \in 1..Len(queue')
       PROVE  /\ Len(queue'[k]) \in 1..MaxPiece /\ Linked(queue'[k], sent)
              /\ queue'[k][1] = Edge(buf, queue', Len(handled) + 1, sent, k - 1)
  <2>1. CASE k \in 1..Len(queue)
    <3>1. k - 1 \in 0..Len(queue)
      BY <1>3, <2>1
    <3>. QED
      BY <1>4, <1>9, <2>1, <3>1 DEF Whole
  <2>2. CASE k = Len(queue) + 1
    <3>1. k - 1 \in 0..Len(queue) /\ k - 1 = Len(queue)
      BY <1>3, <2>2
    <3>2. Edge(buf, queue, Len(handled) + 1, sent, Len(queue)) = NextCell
      BY DEF Whole
    <3>. QED
      BY <1>2, <1>4, <1>6, <1>7, <1>9, <2>2, <3>1, <3>2
  <2>. QED
    BY <1>3, <1>4, <2>1, <2>2
<1>. QED
  BY <1>1, <1>10, <1>11 DEF Whole

LEMMA TakeWhole ==
  ASSUME OrderInv, Whole, TakePiece
  PROVE  Whole'
<1>. PICK m : m = Len(handled) + 1
  OBVIOUS
<1>. PICK p : p = Head(queue)
  OBVIOUS
<1>. DEFINE w == buf \o p
<1>1. /\ queue # <<>> /\ queue' = Tail(queue) /\ sent' = sent /\ gone' = gone
      /\ handled' = handled /\ p = Head(queue)
      /\ IF Fits(p) THEN thread' = "handling" /\ buf' = FromPreamble(w)
                    ELSE thread' = "dead" /\ UNCHANGED buf
  BY DEF TakePiece
<1>2. queue \in Seq(Seq(Cell)) /\ Len(queue) \in Nat /\ Len(queue) >= 1
  BY <1>1, Types, EmptySeq DEF OrderInv, TypeOK
<1>3. /\ p = queue[1] /\ p \in Seq(Cell) /\ Len(queue') = Len(queue) - 1
      /\ \A k \in 1..Len(queue') : k + 1 \in 1..Len(queue) /\ queue'[k] = queue[k + 1]
  BY <1>1, <1>2, Types, HeadTailProperties
<1>4. /\ Len(p) \in 1..MaxPiece /\ Linked(p, sent) /\ p[1] = Edge(buf, queue, m, sent, 0)
      /\ AllSent(p, sent, gone)
  <2>1. 1 \in 1..Len(queue) /\ 1 - 1 = 0
    BY <1>2
  <2>. QED
    BY <1>3, <2>1 DEF Whole, OrderInv, Underway
<1>5. Len(p) \in Nat /\ Len(p) >= 1 /\ Len(p) <= MaxPiece /\ Len(buf) \in Nat /\ buf \in Seq(Cell)
  BY <1>4, FramingAssumption, Types
<1>6. Fits(p)
  <2>1. CASE buf = <<>>
    <3>1. PICK x : x = p[1].msg
      OBVIOUS
    <3>2. x \in 1..Len(sent)
      BY <1>4, <1>5, <3>1 DEF AllSent, SentCell
    <3>3. sent[x] \in Sizes /\ sent[x] \in Nat /\ sent[x] >= 3
      BY <3>2, Types
    <3>4. sent[x] - 1 + MaxPiece <= Capacity
      BY <3>3, FramingAssumption
    <3>. QED
      BY <1>5, <2>1, <3>3, <3>4, FramingAssumption, EmptySeq DEF Fits
  <2>2. CASE buf # <<>>
    <3>1. Len(buf) < sent[m] /\ sent[m] \in Nat /\ sent[m] - 1 + MaxPiece <= Capacity
      BY <2>2, FrontMessage DEF Whole, TakePiece
    <3>. QED
      BY <1>5, <3>1, FramingAssumption DEF Fits
  <2>. QED
    BY <2>1, <2>2
<1>7. w \in Seq(Cell) /\ Len(w) = Len(buf) + Len(p)
      /\ (\A i \in 1..Len(buf) : w[i] = buf[i])
      /\ \A i \in (Len(buf) + 1)..Len(w) : w[i] = p[i - Len(buf)]
  BY <1>3, <1>5, ConcatProperties
<1>. HIDE DEF w
<1>8. w # <<>> /\ w[1] = First(m)
  <2>1. w # <<>>
    BY <1>5, <1>7, EmptySeq
  <2>2. CASE buf = <<>>
    <3>1. Len(buf) = 0
      BY <2>2, EmptySeq
    <3>2. w[1] = p[1]
      BY <1>5, <1>7, <3>1
    <3>. QED
      BY <1>4, <2>1, <2>2, <3>2 DEF Edge
  <2>3. CASE buf # <<>>
    <3>1. Len(buf) >= 1
      BY <1>5, <2>3, EmptySeq
    <3>. QED
      BY <1>5, <1>7, <2>1, <2>3, <3>1 DEF Whole
  <2>. QED
    BY <2>2, <2>3
<1>9. Linked(w, sent)
  <2>1. SUFFICES ASSUME NEW i \in 1..Len(w), i < Len(w) PROVE w[i + 1] = After(w[i], sent)
    BY DEF Linked
  <2>2. CASE i < Len(buf)
    <3>1. i \in 1..Len(buf) /\ i + 1 \in 1..Len(buf)
      BY <1>5, <2>2
    <3>. QED
      BY <1>7, <2>2, <3>1 DEF Whole, Linked
  <2>3. CASE i = Len(buf)
    <3>1. w[i] = buf[Len(buf)] /\ w[i + 1] = p[1] /\ buf # <<>>
      <4>1. /\ i \in 1..Len(buf) /\ i + 1 \in (Len(buf) + 1)..Len(w)
            /\ (i + 1) - Len(buf) = 1 /\ Len(buf) # 0
        BY <1>5, <1>7, <2>1, <2>3
      <4>. QED
        BY <1>7, <2>3, <4>1, EmptySeq
    <3>. QED
      BY <1>4, <3>1 DEF Edge
  <2>4. CASE i > Len(buf)
    <3>1. i - Len(buf) \in 1..Len(p) /\ i - Len(buf) < Len(p)
          /\ (i + 1) - Len(buf) = (i - Len(buf)) + 1
      BY <1>5, <1>7, <2>1, <2>4
    <3>2. w[i] = p[i - Len(buf)] /\ w[i + 1] = p[(i - Len(buf)) + 1]
      <4>1. i \in (Len(buf) + 1)..Len(w) /\ i + 1 \in (Len(buf) + 1)..Len(w)
        BY <1>5, <1>7, <2>1, <2>4
      <4>. QED
        BY <1>7, <3>1, <4>1
    <3>. QED
      BY <1>4, <3>1, <3>2 DEF Linked
  <2>. QED
    BY <1>5, <1>7, <2>2, <2>3, <2>4
<1>10. buf' = w /\ thread' = "handling"
  <2>1. IsPreamble(w[1])
    BY <1>8, FramingAssumption DEF IsPreamble, First
  <2>2. FromPreamble(w) = w
    BY <1>7, <1>8, <2>1, FromPreambleSuffix
  <2>. QED
    BY <1>1, <1>6, <2>2
<1>11. \A k \in 0..Len(queue') : Edge(w, queue', m, sent, k) = Edge(buf, queue, m, sent, k + 1)
  <2>1. SUFFICES ASSUME NEW k \in 0..Len(queue')
                 PROVE  Edge(w, queue', m, sent, k) = Edge(buf, queue, m, sent, k + 1)
    OBVIOUS
  <2>2. CASE k = 0
    <3>1. w[Len(w)] = p[Len(p)]
      BY <1>5, <1>7, SMTT(20)
    <3>. QED
      BY <1>3, <1>8, <2>2, <3>1 DEF Edge
  <2>3. CASE k # 0
    <3>1. k \in 1..Len(queue') /\ k + 1 # 0
      BY <1>2, <1>3, <2>3
    <3>. QED
      BY <1>3, <2>3, <3>1 DEF Edge
  <2>. QED
    BY <2>2, <2>3
<1>12. ASSUME NEW k \in 1..Len(queue')
       PROVE  /\ Len(queue'[k]) \in 1..MaxPiece /\ Linked(queue'[k], sent)
              /\ queue'[k][1] = Edge(w, queue', m, sent, k - 1)
  <2>1. /\ k + 1 \in 1..Len(queue) /\ queue'[k] = queue[k + 1]
        /\ k - 1 \in 0..Len(queue') /\ (k - 1) + 1 = (k + 1) - 1
    BY <1>2, <1>3
  <2>. QED
    BY <1>11, <2>1 DEF Whole
<1>13. Edge(w, queue', m, sent, Len(queue')) = NextCell'
  <2>1. Len(queue') \in 0..Len(queue') /\ Len(queue') + 1 = Len(queue)
    BY <1>2, <1>3
  <2>2. NextCell' = NextCell
    BY <1>1 DEF NextCell, Unfinished
  <2>. QED
    BY <1>11, <2>1, <2>2 DEF Whole
<1>. QED
  BY <1>1, <1>8, <1>9, <1>10, <1>12, <1>13 DEF Whole

LEMMA AwaitWhole ==
  ASSUME OrderInv, Whole, AwaitRest
  PROVE  Whole'
<1>1. /\ thread = "handling" /\ thread' = "idle"
      /\ UNCHANGED <<sent, gone, damaged, queue, buf, handled>>
      /\ ~(AtMessage /\ (MessageSize > Capacity \/ Complete))
  BY DEF AwaitRest
<1>2. buf # <<>> => Len(buf) < sent[Len(handled) + 1]
  <2>1. CASE AtMessage
    <3>1. MessageSize = sent[Len(handled) + 1] /\ sent[Len(handled) + 1] \in Nat
      BY <2>1, WholeMessage
    <3>2. ~ (MessageSize <= Len(buf))
      BY <1>1, <2>1 DEF Complete
    <3>. QED
      BY <3>1, <3>2, Types
  <2>2. CASE ~AtMessage
    <3>1. Len(buf) < 3
      BY <1>1, <2>2, Types DEF AtMessage, Overhead
    <3>. QED
      BY <3>1, FrontMessage, Types
  <2>. QED
    BY <2>1, <2>2
<1>3. NextCell' = NextCell
  BY <1>1 DEF NextCell, Unfinished
<1>. QED
  BY <1>1, <1>2, <1>3 DEF Whole

LEMMA HandleWhole ==
  ASSUME OrderInv, Whole, HandleMessage
  PROVE  Whole'
<1>. PICK m : m = Len(handled) + 1
  OBVIOUS
<1>. PICK S : S = sent[m]
  OBVIOUS
<1>. DEFINE rest == SubSeq(buf, S + 1, Len(buf))
<1>1. /\ AtMessage /\ Complete
      /\ handled' = Append(handled, buf[1].msg)
      /\ buf' = FromPreamble(SubSeq(buf, MessageSize + 1, Len(buf)))
      /\ sent' = sent /\ gone' = gone /\ queue' = queue /\ thread' = thread
      /\ thread = "handling"
  BY DEF HandleMessage, Advanced, AtMessage
<1>2. /\ m \in 1..Len(sent) /\ buf[1].msg = m /\ MessageSize = S
      /\ S \in Nat /\ S >= 3
      /\ \A j \in 1..Len(buf) : j <= S => buf[j] = [msg |-> m, part |-> j]
  BY <1>1, WholeMessage
<1>3. /\ handled' = Append(handled, m) /\ buf' = FromPreamble(rest)
      /\ S <= Len(buf) /\ Len(buf) \in Nat /\ buf \in Seq(Cell)
  BY <1>1, <1>2, Types DEF Complete
<1>4. /\ Len(handled') = m /\ handled'[m] = m
      /\ \A i \in 1..Len(handled) : handled'[i] = handled[i]
  <2>1. handled \in Seq(1..MaxMessages) /\ m \in 1..MaxMessages
    BY <1>2, Types, FramingAssumption DEF OrderInv, TypeOK
  <2>. QED
    BY <1>3, <2>1, AppendProperties
<1>5. \A i \in 1..Len(handled') : handled'[i] = i
  <2>1. m = Len(handled) + 1 /\ Len(handled) \in Nat
    BY Types
  <2>2. \A i \in 1..m : i \in 1..Len(handled) \/ i = m
    BY <2>1
  <2>3. \A i \in 1..Len(handled) : handled[i] = i
    BY DEF Whole
  <2>. QED
    BY <1>4, <2>2, <2>3
<1>6. rest \in Seq(Cell) /\ Suffix(rest, buf, S)
  <2>1. S + 1 \in 1..(Len(buf) + 1) /\ (S + 1) - 1 = S
    BY <1>2, <1>3
  <2>. QED
    BY <1>3, <2>1, SubSeqSuffix
<1>. HIDE DEF rest
<1>7. /\ Len(rest) = Len(buf) - S /\ Len(rest) \in Nat
      /\ \A i \in 1..Len(rest) : rest[i] = buf[i + S]
  BY <1>6, LenProperties DEF Suffix
<1>8. Linked(rest, sent)
  <2>1. SUFFICES ASSUME NEW i \in 1..Len(rest), i < Len(rest)
                 PROVE  rest[i + 1] = After(rest[i], sent)
    BY DEF Linked
  <2>2. /\ i + 1 \in 1..Len(rest) /\ i + S \in 1..Len(buf) /\ i + S < Len(buf)
        /\ (i + 1) + S = (i + S) + 1
    <3>1. /\ S \in Nat /\ Len(buf) \in Nat /\ Len(rest) \in Nat
          /\ Len(rest) = Len(buf) - S
      BY <1>2, <1>3, <1>7
    <3>. QED
      BY <2>1, <3>1
  <2>. QED
    BY <1>7, <2>2, SMTT(20) DEF Whole, Linked
<1>9. After(buf[S], sent) = First(m + 1)
  <2>1. buf[S] = [msg |-> m, part |-> S]
    BY <1>2, <1>3
  <2>. QED
    BY <1>2, <2>1 DEF After, First
<1>10. rest # <<>> => rest[1] = First(m + 1)
  <2>1. SUFFICES ASSUME rest # <<>> PROVE rest[1] = First(m + 1)
    OBVIOUS
  <2>2. /\ 1 \in 1..Len(rest) /\ S \in 1..Len(buf) /\ S < Len(buf) /\ 1 + S = S + 1
    BY <1>2, <1>3, <1>6, <1>7, <2>1, EmptySeq
  <2>. QED
    BY <1>7, <1>9, <2>2 DEF Whole, Linked
<1>11. buf' = rest
  <2>1. CASE rest = <<>>
    BY <1>3, <1>6, <2>1, FromPreambleSuffix
  <2>2. CASE rest # <<>>
    <3>1. IsPreamble(rest[1])
      BY <1>10, <2>2, FramingAssumption DEF IsPreamble, First
    <3>. QED
      BY <1>3, <1>6, <2>2, <3>1, FromPreambleSuffix
  <2>. QED
    BY <2>1, <2>2
<1>12. Edge(rest, queue, m + 1, sent, 0) = Edge(buf, queue, m, sent, 0)
  <2>1. buf # <<>>
    BY <1>2, <1>3, EmptySeq
  <2>2. CASE rest = <<>>
    <3>1. Len(buf) = S
      BY <1>2, <1>3, <1>7, <2>2, EmptySeq
    <3>. QED
      BY <1>9, <2>1, <2>2, <3>1 DEF Edge
  <2>3. CASE rest # <<>>
    <3>1. Len(rest) \in 1..Len(rest) /\ Len(rest) + S = Len(buf)
      BY <1>2, <1>3, <1>6, <1>7, <2>3, EmptySeq, SMTT(20)
    <3>2. rest[Len(rest)] = buf[Len(buf)]
      BY <1>7, <3>1
    <3>. QED
      BY <2>1, <2>3, <3>2 DEF Edge
  <2>. QED
    BY <2>2, <2>3
<1>13. \A k : Edge(rest, queue, m + 1, sent, k) = Edge(buf, queue, m, sent, k)
  BY <1>12 DEF Edge
<1>14. \A k \in 1..Len(queue) :
         /\ Len(queue[k]) \in 1..MaxPiece /\ Linked(queue[k], sent)
         /\ queue[k][1] = Edge(rest, queue, m + 1, sent, k - 1)
  BY <1>13 DEF Whole
<1>15. Edge(rest, queue, m + 1, sent, Len(queue)) = NextCell'
  <2>1. NextCell' = NextCell
    BY <1>1 DEF NextCell, Unfinished
  <2>. QED
    BY <1>13, <2>1 DEF Whole
<1>. QED
  BY <1>1, <1>4, <1>5, <1>8, <1>10, <1>11, <1>14, <1>15 DEF Whole

LEMMA StepWhole ==
  ASSUME OrderInv, Whole, ~damaged, [Next]_vars, ~damaged'
  PROVE  Whole'
<1>1. ASSUME NEW size \in Sizes, BeginMessage(size) PROVE Whole'
  BY <1>1, BeginWhole
<1>2. ASSUME NEW n \in 1..MaxPiece, WriteValue(n) PROVE Whole'
  BY <1>2, WriteWhole
<1>3. ASSUME NEW n \in 1..MaxPiece, LosePiece(n) PROVE Whole'
  BY <1>3 DEF LosePiece
<1>4. CASE TakePiece
  BY <1>4, TakeWhole
<1>5. CASE HandleMessage
  BY <1>5, HandleWhole
<1>6. CASE RejectMessage
  <2>1. AtMessage /\ (MessageSize > Capacity \/ (Complete /\ ~CrcMatches))
    BY <1>6 DEF RejectMessage
  <2>2. MessageSize <= Capacity /\ (Complete => CrcMatches) /\ MessageSize \in Nat
    BY <2>1, WholeMessage
  <2>. QED
    BY <2>1, <2>2, FramingAssumption
<1>7. CASE AwaitRest
  BY <1>7, AwaitWhole
<1>8. CASE UNCHANGED vars
  BY <1>8 DEF vars, Whole, NextCell, Unfinished
<1>. QED
  BY <1>1, <1>2, <1>3, <1>4, <1>5, <1>6, <1>7, <1>8 DEF Next, App, MessageThread

(* damaged is never reset.                                                 *)
LEMMA DamageStays ==
  ASSUME OrderInv, [Next]_vars, damaged
  PROVE  damaged'
BY DEF Next, App, MessageThread, BeginMessage, WriteValue, LosePiece, TakePiece,
  HandleMessage, RejectMessage, AwaitRest, vars

THEOREM WholeInvariant == Spec => []WholeInv
<1>1. Init => (~damaged => Whole)
  <2>1. SUFFICES ASSUME Init PROVE Whole
    OBVIOUS
  <2>2. Len(<<>>) = 0
    OBVIOUS
  <2>3. ~Unfinished
    BY <2>1 DEF Init, Unfinished
  <2>. QED
    BY <2>1, <2>2, <2>3 DEF Init, Whole, Linked, Edge, NextCell, First
<1>2. OrderInv /\ (~damaged => Whole) /\ [Next]_vars => (~damaged => Whole)'
  BY StepWhole, DamageStays
<1>3. Spec => []OrderInv
  BY OrderInvariant
<1>. QED
  BY <1>1, <1>2, <1>3, PTL DEF Spec, WholeInv

(* As long as nothing is lost, a thread at rest has handled every message  *)
(* that is complete, and holds the beginning of the next one only.         *)
THEOREM AlwaysNothingMissed == Spec => []NothingMissed
<1>1. WholeInv => NothingMissed
  <2>1. SUFFICES ASSUME OrderInv, Whole, thread = "idle", queue = <<>>
                 PROVE  /\ handled = [i \in 1..Written |-> i]
                        /\ Len(buf) = (IF Unfinished THEN gone ELSE 0)
    BY DEF WholeInv, NothingMissed
  <2>. PICK m : m = Len(handled) + 1
    OBVIOUS
  <2>2. Edge(buf, queue, m, sent, 0) = NextCell
    <3>1. Len(queue) = 0
      BY <2>1, EmptySeq
    <3>. QED
      BY <2>1, <3>1 DEF Whole
  <2>3. Len(handled) = Written /\ Len(buf) = (IF Unfinished THEN gone ELSE 0)
    <3>1. CASE buf = <<>>
      <4>1. First(m) = NextCell /\ Len(buf) = 0
        BY <2>2, <3>1, EmptySeq DEF Edge
      <4>2. CASE Unfinished
        <5>1. m = Len(sent) /\ 1 = gone + 1
          BY <4>1, <4>2 DEF NextCell, First
        <5>. QED
          BY <2>1, <4>1, <4>2, <5>1, Types DEF Written
      <4>3. CASE ~Unfinished
        <5>1. m = Len(sent) + 1
          BY <4>1, <4>3 DEF NextCell, First
        <5>. QED
          BY <2>1, <4>1, <4>3, <5>1, Types DEF Written
      <4>. QED
        BY <4>2, <4>3
    <3>2. CASE buf # <<>>
      <4>1. /\ m \in 1..Len(sent) /\ sent[m] \in Nat /\ Len(buf) \in Nat /\ Len(buf) >= 1
            /\ \A j \in 1..Len(buf) : j <= sent[m] => buf[j] = [msg |-> m, part |-> j]
        BY <2>1, <3>2, FrontMessage, Types
      <4>2. Len(buf) < sent[m]
        BY <2>1, <3>2 DEF Whole
      <4>3. buf[Len(buf)] = [msg |-> m, part |-> Len(buf)]
        BY <4>1, <4>2
      <4>4. [msg |-> m, part |-> Len(buf) + 1] = NextCell
        BY <2>2, <3>2, <4>2, <4>3 DEF Edge, After
      <4>5. Unfinished
        <5>1. SUFFICES ASSUME ~Unfinished PROVE FALSE
          OBVIOUS
        <5>2. Len(buf) + 1 = 1
          BY <4>4, <5>1 DEF NextCell, First
        <5>. QED
          BY <4>1, <5>2
      <4>6. m = Len(sent) /\ Len(buf) + 1 = gone + 1
        BY <4>4, <4>5 DEF NextCell
      <4>. QED
        BY <2>1, <4>1, <4>5, <4>6, Types DEF Written
    <3>. QED
      BY <3>1, <3>2
  <2>4. handled = [i \in 1..Written |-> i]
    <3>1. handled \in Seq(1..MaxMessages)
      BY <2>1 DEF OrderInv, TypeOK
    <3>2. handled = [i \in 1..Len(handled) |-> handled[i]]
      BY <3>1
    <3>. QED
      BY <2>1, <2>3, <3>2 DEF Whole
  <2>. QED
    BY <2>3, <2>4
<1>. QED
  BY <1>1, WholeInvariant, PTL

(* The thread ends, or spins, only after something was lost.               *)
THEOREM AlwaysStuckOnlyByLoss == Spec => []StuckOnlyByLoss
<1>1. WholeInv => StuckOnlyByLoss
  BY DEF WholeInv, Whole, StuckOnlyByLoss
<1>. QED
  BY <1>1, WholeInvariant, PTL

=============================================================================
