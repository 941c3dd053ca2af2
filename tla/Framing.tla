------------------------------- MODULE Framing -------------------------------
(***************************************************************************)
(* The message thread's input: class MessageHandler of message_handler.py. *)
(* The app writes its messages in pieces, without a response, so a piece   *)
(* may get lost and an app that goes away leaves a message unfinished; the *)
(* thread puts the pieces together, takes the messages out and has them    *)
(* handled.  Nothing ever clears what it has put together.                 *)
(*                                                                         *)
(* The buffer is the queue of module BoundedFifo, which CircularByteArray  *)
(* implements.  A cell is a byte, or two for a length or a CRC: a message  *)
(* is a preamble, a length, a payload and a CRC.  A CRC is right if all of *)
(* its message is there; that it may be so by chance is left out.  What    *)
(* the handlers do is in module Emulator.                                  *)
(***************************************************************************)
EXTENDS Integers, Sequences, SequencesExt

CONSTANTS
  Sizes,        \* how many cells a message of the app may have
  MaxPiece,     \* the most cells in a piece
  MaxMessages,  \* bound: messages the app sends
  MaxQueue,     \* bound: pieces on their way to the message thread
  Capacity,     \* of the buffer
  Preambles,    \* the cells of a message, by position, that look like a
                \* preamble: the first one, and some of the payload
  Misread,      \* by position, the message size that a cell stands for
                \* which is no length
  MayLose       \* whether pieces may get lost

Overhead == 3

ASSUME FramingAssumption ==
  /\ Sizes \subseteq Nat /\ \A s \in Sizes : s >= Overhead
  /\ MaxPiece \in Nat \ {0} /\ MaxMessages \in Nat /\ Capacity \in Nat
  /\ MaxQueue \in Nat \ {0}
  /\ \A s \in Sizes : s - 1 + MaxPiece <= Capacity
  /\ 1 \in Preambles
  /\ \A s \in Sizes : \A p \in 1..s : Misread[p] \in Nat /\ Misread[p] >= Overhead
  /\ MayLose \in BOOLEAN

VARIABLES
  sent,     \* the sizes of the messages begun so far
  gone,     \* how many cells of the last one have been written or lost
  damaged,  \* whether anything has been lost
  queue,    \* the pieces on their way to the message thread
  buf,      \* what it has put together
  thread,   \* "idle", "handling" what is in the buffer, "spinning", or "dead"
  handled   \* the messages handled, by number

vars == <<sent, gone, damaged, queue, buf, thread, handled>>

Cell == [msg : Nat, part : Nat]

(* What the variables hold (see module FramingProofs).                     *)
TypeOK ==
  /\ sent \in Seq(Sizes) /\ Len(sent) <= MaxMessages
  /\ gone \in Nat
  /\ damaged \in BOOLEAN
  /\ queue \in Seq(Seq(Cell))
  /\ buf \in Seq(Cell) /\ Len(buf) <= Capacity
  /\ thread \in {"idle", "handling", "spinning", "dead"}
  /\ handled \in Seq(1..MaxMessages)

Init ==
  /\ sent = <<>> /\ gone = 0 /\ damaged = FALSE
  /\ queue = <<>> /\ buf = <<>> /\ thread = "idle" /\ handled = <<>>

-----------------------------------------------------------------------------
(* The app.  A message is begun when the one before has been written, or   *)
(* has been given up half way.                                             *)
Unfinished == sent # <<>> /\ gone < Last(sent)

BeginMessage(size) ==
  /\ Len(sent) < MaxMessages
  /\ Unfinished => MayLose
  /\ sent' = Append(sent, size) /\ gone' = 0
  /\ damaged' = (damaged \/ Unfinished)
  /\ UNCHANGED <<queue, buf, thread, handled>>

Piece(n) == [i \in 1..n |-> [msg |-> Len(sent), part |-> gone + i]]

(* WriteValue, called by bluez.                                            *)
WriteValue(n) ==
  /\ Unfinished /\ gone + n <= Last(sent) /\ Len(queue) < MaxQueue
  /\ queue' = Append(queue, Piece(n)) /\ gone' = gone + n
  /\ UNCHANGED <<sent, damaged, buf, thread, handled>>

LosePiece(n) ==
  /\ MayLose /\ Unfinished /\ gone + n <= Last(sent)
  /\ gone' = gone + n /\ damaged' = TRUE
  /\ UNCHANGED <<sent, queue, buf, thread, handled>>

-----------------------------------------------------------------------------
IsPreamble(cell) == cell.part \in Preambles

(* _advance_to_next_preamble: it stays where it is if there is one.        *)
FromPreamble(cells) ==
  LET found == {i \in DOMAIN cells : IsPreamble(cells[i])}
  IN  IF found = {} THEN <<>>
      ELSE SubSeq(cells, CHOOSE i \in found : \A j \in found : i <= j, Len(cells))

Fits(piece) == Capacity - Len(buf) >= Len(piece)

(* The thread takes the next piece; without room for it an exception ends  *)
(* the thread.                                                             *)
TakePiece ==
  /\ thread = "idle" /\ queue # <<>>
  /\ queue' = Tail(queue)
  /\ IF Fits(Head(queue))
       THEN thread' = "handling" /\ buf' = FromPreamble(buf \o Head(queue))
       ELSE thread' = "dead" /\ UNCHANGED buf
  /\ UNCHANGED <<sent, gone, damaged, handled>>

(* message_size, as the cell behind the preamble has it.  (The longer      *)
(* names, here and below, are variants with a mistake, there to see that   *)
(* the properties notice.)                                                 *)
MessageSizeOfPayload ==
  IF buf[2].part = 2 THEN sent[buf[2].msg] - Overhead ELSE Misread[buf[2].part]
MessageSize ==
  IF buf[2].part = 2 THEN sent[buf[2].msg] ELSE Misread[buf[2].part]

CompleteTooLate == MessageSize < Len(buf)
Complete == MessageSize <= Len(buf)

CrcMatches ==
  \A i \in 1..MessageSize : buf[i] = [msg |-> buf[1].msg, part |-> i]

AtMessage == thread = "handling" /\ Len(buf) >= Overhead

(* One round of _handle_messages.  A message is taken out of the buffer    *)
(* and handled; what follows it is looked at next.                         *)
AdvancedNowhere == buf
Advanced == SubSeq(buf, MessageSize + 1, Len(buf))

HandleMessage ==
  /\ AtMessage /\ MessageSize <= Capacity /\ Complete /\ CrcMatches
  /\ handled' = Append(handled, buf[1].msg)
  /\ buf' = FromPreamble(Advanced)
  /\ UNCHANGED <<sent, gone, damaged, queue, thread>>

(* A message too large, or with a wrong CRC: the next preamble is the same *)
(* one, and the thread looks at it for ever.                               *)
RejectMessage ==
  /\ AtMessage
  /\ MessageSize > Capacity \/ (Complete /\ ~CrcMatches)
  /\ buf' = FromPreamble(buf)
  /\ thread' = IF FromPreamble(buf) = buf THEN "spinning" ELSE "handling"
  /\ UNCHANGED <<sent, gone, damaged, queue, handled>>

(* The rest of a message has to arrive first, however long that takes.     *)
AwaitRest ==
  /\ thread = "handling"
  /\ ~(AtMessage /\ (MessageSize > Capacity \/ Complete))
  /\ thread' = "idle"
  /\ UNCHANGED <<sent, gone, damaged, queue, buf, handled>>

-----------------------------------------------------------------------------
App ==
  \/ \E size \in Sizes : BeginMessage(size)
  \/ \E n \in 1..MaxPiece : WriteValue(n) \/ LosePiece(n)

MessageThread == TakePiece \/ HandleMessage \/ RejectMessage \/ AwaitRest

Next == App \/ MessageThread

Spec == Init /\ [][Next]_vars

(* The message thread goes on as long as it can.                           *)
FairSpec == Spec /\ WF_vars(MessageThread)

-----------------------------------------------------------------------------
Written == IF Unfinished THEN Len(sent) - 1 ELSE Len(sent)

(* Messages are handled in the order they were sent, and none twice: the   *)
(* remains of one that was damaged are never taken for another.            *)
HandledInOrder == \A i, j \in DOMAIN handled : i < j => handled[i] < handled[j]

(* As long as nothing is lost, the thread at rest has handled every        *)
(* message that is complete, and holds the beginning of the next one only. *)
NothingMissed ==
  ~damaged /\ thread = "idle" /\ queue = <<>> =>
    /\ handled = [i \in 1..Written |-> i]
    /\ Len(buf) = (IF Unfinished THEN gone ELSE 0)

(* The thread ends, or comes to spin, only after something was lost: the   *)
(* messages of an undisturbed app fit, however they are cut.               *)
StuckOnlyByLoss == thread \in {"dead", "spinning"} => damaged

(* Every message is handled in the end unless something is lost.           *)
MessagesAreHandled ==
  \A k \in 1..MaxMessages :
    (Written >= k) ~> (damaged \/ \E i \in DOMAIN handled : handled[i] = k)
=============================================================================
