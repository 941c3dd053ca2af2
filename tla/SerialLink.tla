----------------------------- MODULE SerialLink -----------------------------
(***************************************************************************)
(* The exchanges with the charger: class Powerlab of charger/powerlab.py   *)
(* and its SerialBuffer.  There is no flow control, so a thread reads all  *)
(* that arrives into a buffer; a command empties the buffer, is written,   *)
(* and waits until as many bytes are there as its answer has, whatever     *)
(* they are.  An answer that comes too late is found by the next exchange. *)
(*                                                                         *)
(* The buffer is the queue of module BoundedFifo, which CircularByteArray  *)
(* implements.  A cell stands for several bytes; what an answer is checked *)
(* for (echo, CRC, block checksums) is kept.  Reading the status is an     *)
(* exchange like loading a region, the commands of the charger's buttons   *)
(* are one.  What an answer that never comes means for the emulator is in  *)
(* module Emulator, and so is a connect that leaves a reader thread behind.*)
(***************************************************************************)
EXTENDS Integers, Sequences, SequencesExt

CONSTANTS
  Slots,       \* the presets that can be selected
  Data,        \* what a region of the charger's memory may be written with
  Initial,     \* what it holds at first
  Calls,       \* the calls the emulator may make
  Retries,     \* the argument retries of the calls
  Attempts,    \* how often connect tries (3)
  Capacity,    \* of the buffer, in cells
  MayLose,     \* whether commands and answers may get lost
  None, Erased

Regions == {"presets", "options"}
Orders ==
  [op : {"SelP"}, on : Slots, data : {None}] \cup [op : {"Se"}, on : {None}, data : {None}]
    \cup [op : {"Ers"}, on : Regions, data : {None}] \cup [op : {"Wrt"}, on : Regions, data : Data]
Commands == Orders \cup [op : {"Prs"}, on : Regions, data : {None}]
Answers == Orders \cup [op : {"Prs"}, on : Regions, data : Data \cup {Erased}]
AllCalls ==
  [op : {"select"}, on : Slots, data : {None}] \cup [op : {"press"}, on : {None}, data : {None}]
    \cup [op : {"load"}, on : Regions, data : {None}]
    \cup [op : {"store"}, on : Regions, data : Data]

ConnectCall == [op |-> "connect", on |-> "options", data |-> None]

ASSUME LinkAssumption ==
  /\ Calls \subseteq AllCalls
  /\ Retries \in Nat /\ Attempts \in Nat \ {0} /\ Capacity \in Nat
  /\ MayLose \in BOOLEAN
  /\ Initial \in Data
  /\ None \notin Data /\ Erased \notin Data /\ None # Erased
  /\ None \notin Slots \cup Regions \cup AllCalls \cup {ConnectCall}

VARIABLES
  port,      \* whether _ser is open
  thread,    \* the reader thread: "none", "reading" the port, "holding" what
             \* it has read, or "waiting" for room in the buffer
  hand,      \* what the reader thread has read and not appended
  buf,       \* the contents of the SerialBuffer
  call,      \* the call at work, or None
  exch,      \* the exchange of the call that is made
  pc,        \* where that exchange is
  tries      \* the attempts that are left after this one

VARIABLES
  inbox,     \* commands on their way to the charger
  line,      \* cells that have left the charger and are not read
  chMem,     \* the memory of the charger
  chActive   \* the preset it has selected

VARIABLES
  stored,    \* by region, what the last store has returned normally for
  selected,  \* likewise the preset of the last selection
  loaded     \* what the last call loaded, if it was a load that returned

threadVars  == <<thread, hand>>
callVars    == <<call, exch, pc, tries>>
chargerVars == <<inbox, line, chMem, chActive>>
resultVars  == <<stored, selected, loaded>>
vars == <<port, thread, hand, buf, call, exch, pc, tries, inbox, line, chMem, chActive,
          stored, selected, loaded>>

(* How many cells an answer has; the real sizes are 6, 7, and 262 or 7686. *)
Size ==
  [op \in {"Se", "Ers", "SelP", "Wrt", "Prs"} |->
     IF op \in {"Se", "Ers"} THEN 1 ELSE IF op = "SelP" THEN 2 ELSE 3]

Cell == [of : Answers, part : 1..3, late : BOOLEAN]
Cells(answer, late) ==
  [i \in 1..Size[answer.op] |-> [of |-> answer, part |-> i, late |-> late]]

(* What the variables hold, which SerialLinkProofs proves.                 *)
TypeOK ==
  /\ port \in BOOLEAN
  /\ thread \in {"none", "reading", "holding", "waiting"}
  /\ hand \in Seq(Cell) /\ buf \in Seq(Cell) /\ line \in Seq(Cell)
  /\ call \in Calls \cup {None, ConnectCall}
  /\ exch \in 1..2
  /\ pc \in {"idle", "reset", "clear", "send", "await"}
  /\ tries \in 0..(Retries + Attempts)
  /\ inbox \in Seq([cmd : Commands, late : BOOLEAN])
  /\ chMem \in [Regions -> Data \cup {Erased}] /\ chActive \in Slots
  /\ stored \in [Regions -> Data \cup {None}] /\ selected \in Slots \cup {None}
  /\ loaded \in [on : Regions, data : Data \cup {Erased}] \cup {None}
  /\ (thread = "none") => hand = <<>> /\ buf = <<>>
  /\ hand = <<>> <=> thread \in {"none", "reading"}

Init ==
  /\ port = FALSE /\ thread = "none" /\ hand = <<>> /\ buf = <<>>
  /\ call = None /\ exch = 1 /\ pc = "idle" /\ tries = 0
  /\ inbox = <<>> /\ line = <<>>
  /\ chMem = [r \in Regions |-> Initial] /\ chActive \in Slots
  /\ stored = [r \in Regions |-> None] /\ selected = None /\ loaded = None

-----------------------------------------------------------------------------
(* The charger carries out what it receives, in order, and answers.        *)
Execute ==
  /\ inbox # <<>>
  /\ LET cmd == Head(inbox).cmd
         answer == IF cmd.op = "Prs" THEN [cmd EXCEPT !.data = chMem[cmd.on]] ELSE cmd
     IN  /\ chMem' = CASE cmd.op = "Ers" -> [chMem EXCEPT ![cmd.on] = Erased]
                       [] cmd.op = "Wrt" -> [chMem EXCEPT ![cmd.on] = cmd.data]
                       [] OTHER -> chMem
         /\ chActive' = IF cmd.op = "SelP" THEN cmd.on ELSE chActive
         /\ \/ line' = line \o Cells(answer, Head(inbox).late)
            \/ MayLose /\ UNCHANGED line
  /\ inbox' = Tail(inbox)
  /\ UNCHANGED <<port, threadVars, buf, callVars, resultVars>>

-----------------------------------------------------------------------------
(* The reader thread.  It reads what is there, and keeps it until there is *)
(* room for all of it.                                                     *)
ReaderReads ==
  /\ thread = "reading"
  /\ \E n \in 1..Len(line) :
       /\ hand' = SubSeq(line, 1, n)
       /\ line' = SubSeq(line, n + 1, Len(line))
  /\ thread' = "holding"
  /\ UNCHANGED <<port, buf, callVars, inbox, chMem, chActive, resultVars>>

ReaderAppends ==
  /\ thread = "holding"
  /\ IF Len(buf) + Len(hand) <= Capacity
       THEN buf' = buf \o hand /\ hand' = <<>> /\ thread' = "reading"
       ELSE thread' = "waiting" /\ UNCHANGED <<buf, hand>>
  /\ UNCHANGED <<port, callVars, chargerVars, resultVars>>

-----------------------------------------------------------------------------
(* The exchanges a call consists of.  (ExchangesSwapped is a variant with  *)
(* a mistake, there to see that the properties notice.)                    *)
Command(op, c, data) == [op |-> op, on |-> c.on, data |-> data]

ExchangesSwapped(c) ==
  CASE c.op = "select" -> <<Command("SelP", c, None)>>
    [] c.op = "press"  -> <<Command("Se", c, None)>>
    [] c.op = "store"  -> <<Command("Wrt", c, c.data), Command("Ers", c, None)>>
    [] OTHER           -> <<Command("Prs", c, None)>>

Exchanges(c) ==
  CASE c.op = "select" -> <<Command("SelP", c, None)>>
    [] c.op = "press"  -> <<Command("Se", c, None)>>
    [] c.op = "store"  -> <<Command("Ers", c, None), Command("Wrt", c, c.data)>>
    [] OTHER           -> <<Command("Prs", c, None)>>

Sent == Exchanges(call)[exch]

(* What the code looks at in the cells it has read: all of a short answer, *)
(* only the CRC of what was selected or written, the echo and the CRC of   *)
(* what it loads, and the block checksums of presets.                      *)
(* (VerifiedEcho is a variant with a mistake, likewise.)                   *)
VerifiedEcho(cells) == cells[1].of.op = Sent.op /\ cells[1].part = 1

Whole(cells) ==
  /\ cells[1].part = 1
  /\ \A i \in DOMAIN cells : cells[i].of = cells[1].of /\ cells[i].part = i

BlocksMatch(cells) == cells[1].of.data # Erased

Verified(cells) ==
  CASE Sent.op \in {"Se", "Ers"} -> Whole(cells) /\ cells[1].of = Sent
    [] Sent.op \in {"SelP", "Wrt"} -> Last(cells).of = Sent /\ Last(cells).part = Len(cells)
    [] Sent.op = "Prs" ->
         /\ Whole(cells) /\ cells[1].of.op = "Prs" /\ cells[1].of.on = Sent.on
         /\ Sent.on = "presets" => BlocksMatch(cells)

(* A call begins, with its first attempt.                                  *)
Start(c, n) ==
  /\ call' = c /\ exch' = 1 /\ pc' = "reset" /\ tries' = n

Call(c) ==
  /\ call = None /\ port
  /\ Start(c, Retries)
  /\ stored' = IF c.op = "store" THEN [stored EXCEPT ![c.on] = None] ELSE stored
  /\ selected' = IF c.op = "select" THEN None ELSE selected
  /\ loaded' = None
  /\ UNCHANGED <<port, threadVars, buf, chargerVars>>

(* connect opens the port and reads the options straight from it.          *)
Connect ==
  /\ call = None /\ ~port
  /\ port' = TRUE
  /\ Start(ConnectCall, Attempts - 1)
  /\ UNCHANGED <<threadVars, buf, chargerVars, resultVars>>

(* What arrived so far is thrown away by the driver, the rest comes later. *)
DropArrived == \E n \in 0..Len(line) : line' = SubSeq(line, n + 1, Len(line))

(* close stops the reader thread, which forgets what it holds.             *)
Close ==
  /\ call = None /\ port
  /\ port' = FALSE /\ thread' = "none" /\ hand' = <<>> /\ buf' = <<>>
  /\ DropArrived
  /\ UNCHANGED <<callVars, inbox, chMem, chActive, resultVars>>

(* An attempt has failed: retry makes another one, from the first exchange *)
(* on, or lets the exception through; connect then closes the port.        *)
(* (TriesKept is a variant with a mistake, likewise.)                      *)
TriesKept == tries
TriesLeft == tries - 1

AttemptFails ==
  /\ exch' = 1
  /\ IF tries > 0
       THEN pc' = "reset" /\ tries' = TriesLeft /\ UNCHANGED <<call, port>>
       ELSE /\ pc' = "idle" /\ call' = None /\ tries' = 0
            /\ port' = (call.op # "connect")
  /\ UNCHANGED resultVars

(* The last exchange of the call has succeeded; connect starts the reader. *)
Returns(cells) ==
  /\ exch' = 1 /\ pc' = "idle" /\ call' = None /\ tries' = 0
  /\ stored' = IF call.op = "store" THEN [stored EXCEPT ![call.on] = call.data] ELSE stored
  /\ selected' = IF call.op = "select" THEN call.on ELSE selected
  /\ loaded' = IF call.op = "load"
                 THEN [on |-> call.on, data |-> cells[1].of.data] ELSE loaded
  /\ UNCHANGED port

-----------------------------------------------------------------------------
(* _write: first the driver's buffers are emptied, then, without its lock, *)
(* the SerialBuffer, then the command goes out.                            *)
(*                                                                         *)
(* The timeouts are much longer than the charger takes to answer: what was *)
(* sent two exchanges ago has been received and answered, and its answer   *)
(* has arrived and been read or thrown away.                               *)
ResetBuffers ==
  /\ pc = "reset"
  /\ \A i \in DOMAIN inbox : ~inbox[i].late
  /\ \A i \in DOMAIN hand : ~hand[i].late
  /\ pc' = "clear"
  /\ DropArrived /\ \A i \in DOMAIN line' : ~line'[i].late
  /\ UNCHANGED <<port, threadVars, buf, call, exch, tries, inbox, chMem, chActive, resultVars>>

(* (ClearedNot is a variant with a mistake, likewise.)                     *)
ClearedNot == buf
Cleared == <<>>

ClearBuffer ==
  /\ pc = "clear"
  /\ buf' = Cleared
  /\ pc' = "send"
  /\ UNCHANGED <<port, threadVars, call, exch, tries, chargerVars, resultVars>>

Late(items) == [i \in DOMAIN items |-> [items[i] EXCEPT !.late = TRUE]]

Send ==
  /\ pc = "send" /\ pc' = "await"
  /\ \/ inbox' = Append(Late(inbox), [cmd |-> Sent, late |-> FALSE])
     \/ MayLose /\ inbox' = Late(inbox)
  /\ line' = Late(line) /\ hand' = Late(hand)
  /\ UNCHANGED <<port, thread, buf, call, exch, tries, chMem, chActive, resultVars>>

SendFails ==
  /\ pc = "send" /\ MayLose
  /\ AttemptFails
  /\ UNCHANGED <<threadVars, buf, chargerVars>>

(* _read takes as many cells as the answer has: from the buffer, which     *)
(* lets the reader thread try again to append, or straight from the port   *)
(* if there is no reader thread yet.                                       *)
Incoming == IF thread = "none" THEN line ELSE buf
Answer == SubSeq(Incoming, 1, Size[Sent.op])
Rest == SubSeq(Incoming, Size[Sent.op] + 1, Len(Incoming))

Woken == IF thread = "waiting" THEN "holding" ELSE thread

Receive ==
  /\ pc = "await"
  /\ Len(Incoming) >= Size[Sent.op]
  /\ IF thread = "none" THEN line' = Rest /\ UNCHANGED buf
                        ELSE buf' = Rest /\ UNCHANGED line
  /\ IF Verified(Answer)
       THEN IF exch < Len(Exchanges(call))
              THEN /\ exch' = exch + 1 /\ pc' = "reset" /\ thread' = Woken
                   /\ UNCHANGED <<port, call, tries, resultVars>>
              ELSE /\ Returns(Answer)
                   /\ thread' = IF call.op = "connect" THEN "reading" ELSE Woken
       ELSE AttemptFails /\ thread' = Woken
  /\ UNCHANGED <<hand, inbox, chMem, chActive>>

(* The wait has timed out, though the rest may arrive this very moment.    *)
ReadTimesOut ==
  /\ pc = "await"
  /\ AttemptFails
  /\ UNCHANGED <<threadVars, buf, chargerVars>>

-----------------------------------------------------------------------------
Reader == ReaderReads \/ ReaderAppends
CallStep == ResetBuffers \/ ClearBuffer \/ Send \/ SendFails \/ Receive \/ ReadTimesOut

Next ==
  \/ Execute
  \/ Reader
  \/ CallStep
  \/ \E c \in Calls : Call(c)
  \/ Connect
  \/ Close

Spec == Init /\ [][Next]_vars

(* The threads are scheduled, the waits are bounded, and the charger gets  *)
(* round to what it has received.                                          *)
FairSpec == Spec /\ WF_vars(CallStep) /\ WF_vars(Reader) /\ WF_vars(Execute)
-----------------------------------------------------------------------------
(* A store that has returned normally is in the charger's memory, and      *)
(* stays there: no erasure that was late, repeated or given up is carried  *)
(* out after it.                                                           *)
StoredStays ==
  \A r \in Regions : stored[r] # None => chMem[r] = stored[r]

(* So with the selected preset: no answer to another selection is taken    *)
(* for the one that is waited for, and none is overtaken.                  *)
SelectedStays == selected # None => chActive = selected

(* What a load returns is what the charger holds at that moment, not the   *)
(* remains of an earlier answer, and never presets that were erased.       *)
LoadsCurrent ==
  [][loaded = None /\ loaded' # None => loaded'.data = chMem[loaded'.on]]_vars

(* The reader thread never waits for room in the buffer.  Only a read that *)
(* finds its bytes wakes it, and clearing does not: once it waited, and    *)
(* the buffer was cleared, no command would get an answer again.           *)
ReaderNeverWaits == thread # "waiting"

(* Whatever gets lost, every call returns or raises.                       *)
EveryCallEnds == call # None ~> call = None
=============================================================================
