-------------------------- MODULE SerialLinkProofs -------------------------
(***************************************************************************)
(* Proofs about module SerialLink, for any presets, contents and calls and *)
(* any number of retries and attempts, with commands and answers lost or   *)
(* late by an exchange: what a call that returns has achieved, and that a  *)
(* buffer with room for two answers is never too small.                    *)
(***************************************************************************)
EXTENDS SerialLink, SequenceTheorems, TLAPS

AllCallsMade == AllCalls \cup {ConnectCall}
Order == [cmd : Commands, late : BOOLEAN]

(* A call at work is at one of its exchanges.                              *)
CallOK ==
  /\ call = None <=> pc = "idle"
  /\ call # None => exch \in 1..Len(Exchanges(call))

(* The reader thread is started by the connect that opens the port, and    *)
(* stopped before it is closed; calls are made while it is open.           *)
PortOK ==
  /\ ~port => thread = "none"
  /\ call # None => port
  /\ call # None /\ call.op = "connect" => thread = "none"

-----------------------------------------------------------------------------
(* Sequences.                                                              *)

LEMMA LastCells ==
  ASSUME NEW s \in Seq(Cell), NEW n \in 0..Len(s)
  PROVE  LET t == SubSeq(s, n + 1, Len(s))
         IN  /\ t \in Seq(Cell) /\ Len(t) = Len(s) - n
             /\ \A i \in 1..Len(t) : t[i] = s[i + n] /\ i + n \in 1..Len(s)
<1>1. Len(s) \in Nat /\ \A i \in (n + 1)..Len(s) : s[i] \in Cell
  BY LenProperties, ElementOfSeq
<1>. DEFINE t == SubSeq(s, n + 1, Len(s))
<1>2. /\ t \in Seq(Cell)
      /\ Len(t) = IF n + 1 <= Len(s) THEN Len(s) - (n + 1) + 1 ELSE 0
      /\ \A i \in 1..(Len(s) - (n + 1) + 1) : t[i] = s[(n + 1) + i - 1]
  BY <1>1, SubSeqProperties
<1>. HIDE DEF t
<1>3. Len(t) = Len(s) - n
  BY <1>1, <1>2
<1>4. \A i \in 1..Len(t) : t[i] = s[i + n] /\ i + n \in 1..Len(s)
  BY <1>1, <1>2, <1>3
<1>. QED
  BY <1>2, <1>3, <1>4 DEF t

LEMMA FirstCells ==
  ASSUME NEW s \in Seq(Cell), NEW n \in 1..Len(s)
  PROVE  LET t == SubSeq(s, 1, n)
         IN  t \in Seq(Cell) /\ Len(t) = n /\ t # <<>> /\ \A i \in 1..n : t[i] = s[i]
<1>1. Len(s) \in Nat /\ \A i \in 1..n : s[i] \in Cell
  BY LenProperties, ElementOfSeq
<1>. DEFINE t == SubSeq(s, 1, n)
<1>2. /\ t \in Seq(Cell) /\ Len(t) = IF 1 <= n THEN n - 1 + 1 ELSE 0
      /\ \A i \in 1..(n - 1 + 1) : t[i] = s[1 + i - 1]
  BY <1>1, SubSeqProperties
<1>. HIDE DEF t
<1>3. Len(t) = n /\ \A i \in 1..n : t[i] = s[i]
  BY <1>1, <1>2
<1>4. t # <<>>
  BY <1>2, <1>3, EmptySeq
<1>. QED
  BY <1>2, <1>3, <1>4 DEF t

LEMMA LateItems ==
  ASSUME NEW s, Len(s) \in Nat, DOMAIN s = 1..Len(s)
  PROVE  /\ s \in Seq(Cell) => Late(s) \in Seq(Cell)
         /\ s \in Seq(Order) => Late(s) \in Seq(Order)
         /\ s \in Seq(Cell) \/ s \in Seq(Order) =>
              /\ Len(Late(s)) = Len(s)
              /\ \A i \in 1..Len(s) : Late(s)[i] = [s[i] EXCEPT !.late = TRUE]
<1>1. Late(s) = [i \in 1..Len(s) |-> [s[i] EXCEPT !.late = TRUE]]
  BY DEF Late
<1>2. ASSUME s \in Seq(Cell), NEW i \in 1..Len(s)
      PROVE  [s[i] EXCEPT !.late = TRUE] \in Cell
  <2>1. s[i] \in Cell
    BY <1>2, ElementOfSeq
  <2>. QED
    BY <2>1 DEF Cell
<1>3. ASSUME s \in Seq(Order), NEW i \in 1..Len(s)
      PROVE  [s[i] EXCEPT !.late = TRUE] \in Order
  <2>1. s[i] \in Order
    BY <1>3, ElementOfSeq
  <2>. QED
    BY <2>1 DEF Order
<1>4. s \in Seq(Cell) => Late(s) \in Seq(Cell)
  BY <1>1, <1>2
<1>5. s \in Seq(Order) => Late(s) \in Seq(Order)
  BY <1>1, <1>3
<1>6. Len(Late(s)) = Len(s)
  BY <1>1
<1>7. \A i \in 1..Len(s) : Late(s)[i] = [s[i] EXCEPT !.late = TRUE]
  BY <1>1
<1>. QED
  BY <1>4, <1>5, <1>6, <1>7

-----------------------------------------------------------------------------
(* The exchanges of a call.                                                *)
LEMMA ExchangeTypes ==
  ASSUME NEW c \in AllCallsMade
  PROVE  /\ Len(Exchanges(c)) \in 1..2
         /\ \A i \in 1..Len(Exchanges(c)) : Exchanges(c)[i] \in Commands
         /\ c.op = "store" => /\ Len(Exchanges(c)) = 2
                              /\ Exchanges(c)[2] = [op |-> "Wrt", on |-> c.on, data |-> c.data]
         /\ c.op = "select" => /\ Len(Exchanges(c)) = 1
                               /\ Exchanges(c)[1] = [op |-> "SelP", on |-> c.on, data |-> None]
         /\ c.op = "load" => /\ Len(Exchanges(c)) = 1
                             /\ Exchanges(c)[1] = [op |-> "Prs", on |-> c.on, data |-> None]
         /\ c.op # "store" => \A i \in 1..Len(Exchanges(c)) : Exchanges(c)[i].op \in {"SelP", "Se", "Prs"}
         /\ c.op = "store" => \A i \in 1..Len(Exchanges(c)) :
                                Exchanges(c)[i].op \in {"Ers", "Wrt"} /\ Exchanges(c)[i].on = c.on
         /\ c.op # "select" => \A i \in 1..Len(Exchanges(c)) : Exchanges(c)[i].op # "SelP"
<1>. USE DEF AllCallsMade, AllCalls, ConnectCall, Exchanges, Command, Commands, Orders, Regions
<1>1. CASE c.op = "select"
  BY <1>1
<1>2. CASE c.op = "press"
  BY <1>2
<1>3. CASE c.op = "store"
  BY <1>3
<1>4. CASE c.op \in {"load", "connect"}
  BY <1>4
<1>5. c.op \in {"select", "press", "store", "load", "connect"}
  OBVIOUS
<1>. QED
  BY <1>1, <1>2, <1>3, <1>4, <1>5

-----------------------------------------------------------------------------
(* Types.                                                                  *)
TypeInv == TypeOK /\ CallOK /\ PortOK

LEMMA Types ==
  ASSUME TypeInv
  PROVE  /\ hand \in Seq(Cell) /\ buf \in Seq(Cell) /\ line \in Seq(Cell) /\ inbox \in Seq(Order)
         /\ Len(hand) \in Nat /\ Len(buf) \in Nat /\ Len(line) \in Nat /\ Len(inbox) \in Nat
         /\ DOMAIN hand = 1..Len(hand) /\ DOMAIN line = 1..Len(line)
         /\ DOMAIN inbox = 1..Len(inbox)
         /\ \A i \in 1..Len(inbox) : inbox[i] \in Order
         /\ \A i \in 1..Len(line) : line[i] \in Cell
         /\ \A i \in 1..Len(hand) : hand[i] \in Cell
         /\ \A i \in 1..Len(buf) : buf[i] \in Cell
<1>1. hand \in Seq(Cell) /\ buf \in Seq(Cell) /\ line \in Seq(Cell) /\ inbox \in Seq(Order)
  BY DEF TypeInv, TypeOK, Order
<1>. QED
  BY <1>1, LenProperties, ElementOfSeq

LEMMA CallTypes ==
  ASSUME TypeInv, call # None
  PROVE  /\ call \in AllCallsMade /\ exch \in 1..Len(Exchanges(call))
         /\ Sent = Exchanges(call)[exch] /\ Sent \in Commands
<1>1. call \in AllCallsMade
  BY LinkAssumption DEF TypeInv, TypeOK, AllCallsMade
<1>2. exch \in 1..Len(Exchanges(call))
  BY DEF TypeInv, CallOK
<1>3. Sent = Exchanges(call)[exch]
  BY DEF Sent
<1>. QED
  BY <1>1, <1>2, <1>3, ExchangeTypes

LEMMA StartTypes ==
  ASSUME NEW c \in Calls \cup {ConnectCall}, NEW n \in 0..(Retries + Attempts), Start(c, n)
  PROVE  /\ call' \in Calls \cup {None, ConnectCall} /\ exch' \in 1..2
         /\ pc' \in {"idle", "reset", "clear", "send", "await"}
         /\ tries' \in 0..(Retries + Attempts) /\ CallOK'
<1>1. c \in AllCallsMade
  BY LinkAssumption DEF AllCallsMade
<1>2. c # None
  BY <1>1, LinkAssumption DEF AllCallsMade
<1>3. 1 \in 1..Len(Exchanges(c))
  <2>1. Len(Exchanges(c)) \in 1..2
    BY <1>1, ExchangeTypes
  <2>. QED
    BY <2>1
<1>. QED
  BY <1>2, <1>3 DEF Start, CallOK

LEMMA FailTypes ==
  ASSUME TypeInv, call # None, AttemptFails
  PROVE  /\ port' \in BOOLEAN /\ call' \in Calls \cup {None, ConnectCall} /\ exch' \in 1..2
         /\ pc' \in {"idle", "reset", "clear", "send", "await"}
         /\ tries' \in 0..(Retries + Attempts) /\ CallOK' /\ UNCHANGED resultVars
         /\ pc' \in {"idle", "reset"} /\ call' \in {call, None}
<1>1. 1 \in 1..Len(Exchanges(call))
  <2>1. Len(Exchanges(call)) \in 1..2
    BY CallTypes, ExchangeTypes
  <2>. QED
    BY <2>1
<1>2. tries' \in 0..(Retries + Attempts)
  BY LinkAssumption DEF AttemptFails, TriesLeft, TypeInv, TypeOK
<1>3. port' \in BOOLEAN
  BY DEF AttemptFails, TypeInv, TypeOK
<1>. QED
  BY <1>1, <1>2, <1>3 DEF AttemptFails, TypeInv, TypeOK, CallOK

(* What the answer to a load is known to hold.                             *)
LEMMA LoadAnswer ==
  ASSUME TypeInv, call # None, call.op = "load",
         NEW cells \in Seq(Cell), cells # <<>>, Verified(cells)
  PROVE  /\ call.on \in Regions /\ Sent = [op |-> "Prs", on |-> call.on, data |-> None]
         /\ cells[1].of.op = "Prs" /\ cells[1].of.on = call.on
         /\ cells[1].of.data \in Data \cup {Erased}
<1>1. call.on \in Regions /\ Sent = [op |-> "Prs", on |-> call.on, data |-> None]
  <2>1. /\ call \in AllCallsMade /\ exch \in 1..Len(Exchanges(call))
        /\ Sent = Exchanges(call)[exch]
    BY CallTypes
  <2>2. /\ Len(Exchanges(call)) = 1
        /\ Exchanges(call)[1] = [op |-> "Prs", on |-> call.on, data |-> None]
    BY <2>1, ExchangeTypes
  <2>3. call.on \in Regions
    BY <2>1 DEF AllCallsMade, AllCalls, ConnectCall
  <2>4. exch = 1
    BY <2>1, <2>2
  <2>. QED
    BY <2>1, <2>2, <2>3, <2>4
<1>2. cells[1].of.op = "Prs" /\ cells[1].of.on = call.on
  BY <1>1 DEF Verified
<1>3. cells[1].of \in Answers
  <2>1. Len(cells) \in Nat /\ Len(cells) # 0
    BY LenProperties, EmptySeq
  <2>2. 1 \in 1..Len(cells)
    BY <2>1
  <2>3. cells[1] \in Cell
    BY <2>2, ElementOfSeq
  <2>. QED
    BY <2>3 DEF Cell
<1>4. cells[1].of.data \in Data \cup {Erased}
  BY <1>2, <1>3 DEF Answers, Orders
<1>. QED
  BY <1>1, <1>2, <1>4

LEMMA ReturnTypes ==
  ASSUME TypeInv, call # None, NEW cells \in Seq(Cell), cells # <<>>,
         Verified(cells), Returns(cells)
  PROVE  /\ port' \in BOOLEAN /\ call' = None /\ exch' \in 1..2
         /\ pc' = "idle"
         /\ tries' \in 0..(Retries + Attempts) /\ CallOK'
         /\ stored' \in [Regions -> Data \cup {None}] /\ selected' \in Slots \cup {None}
         /\ loaded' \in [on : Regions, data : Data \cup {Erased}] \cup {None}
<1>1. call \in AllCallsMade
  BY CallTypes
<1>2. call.op = "store" => call.on \in Regions /\ call.data \in Data
  BY <1>1 DEF AllCallsMade, AllCalls, ConnectCall
<1>3. call.op = "select" => call.on \in Slots
  BY <1>1 DEF AllCallsMade, AllCalls, ConnectCall
<1>4. stored' \in [Regions -> Data \cup {None}]
  BY <1>2 DEF Returns, TypeInv, TypeOK
<1>5. selected' \in Slots \cup {None}
  BY <1>3 DEF Returns, TypeInv, TypeOK
<1>6. loaded' \in [on : Regions, data : Data \cup {Erased}] \cup {None}
  BY LoadAnswer DEF Returns, TypeInv, TypeOK
<1>7. port' \in BOOLEAN /\ 0 \in 0..(Retries + Attempts)
  BY LinkAssumption DEF Returns, TypeInv, TypeOK
<1>. QED
  BY <1>4, <1>5, <1>6, <1>7 DEF Returns, CallOK

LEMMA Sizes ==
  ASSUME NEW a \in Commands \cup Answers
  PROVE  Size[a.op] \in 1..3
<1>1. a.op \in {"Se", "Ers", "SelP", "Wrt", "Prs"}
  BY DEF Commands, Answers, Orders
<1>. QED
  BY <1>1 DEF Size

(* What is read is the beginning of what has arrived.                      *)
LEMMA Received ==
  ASSUME TypeInv, call # None, Len(Incoming) >= Size[Sent.op]
  PROVE  /\ Incoming \in Seq(Cell) /\ Answer \in Seq(Cell) /\ Rest \in Seq(Cell)
         /\ Answer # <<>> /\ Len(Answer) \in 1..3
         /\ Len(Rest) = Len(Incoming) - Len(Answer)
         /\ \A i \in 1..Len(Answer) : i \in 1..Len(Incoming) /\ Answer[i] = Incoming[i]
         /\ \A i \in 1..Len(Rest) : /\ i + Len(Answer) \in 1..Len(Incoming)
                                    /\ Rest[i] = Incoming[i + Len(Answer)]
<1>1. Incoming \in Seq(Cell) /\ Len(Incoming) \in Nat
  BY Types DEF Incoming
<1>. DEFINE n == Size[Sent.op]
<1>2. n \in 1..3
  BY CallTypes, Sizes
<1>3. n \in 1..Len(Incoming) /\ n \in 0..Len(Incoming)
  BY <1>1, <1>2
<1>4. Answer = SubSeq(Incoming, 1, n) /\ Rest = SubSeq(Incoming, n + 1, Len(Incoming))
  BY DEF Answer, Rest
<1>. HIDE DEF n
<1>5. /\ Answer \in Seq(Cell) /\ Len(Answer) = n /\ Answer # <<>>
      /\ \A i \in 1..n : Answer[i] = Incoming[i]
  BY <1>1, <1>3, <1>4, FirstCells
<1>6. /\ Rest \in Seq(Cell) /\ Len(Rest) = Len(Incoming) - n
      /\ \A i \in 1..Len(Rest) : Rest[i] = Incoming[i + n] /\ i + n \in 1..Len(Incoming)
  BY <1>1, <1>3, <1>4, LastCells
<1>7. \A i \in 1..n : i \in 1..Len(Incoming)
  BY <1>1, <1>3
<1>. QED
  BY <1>1, <1>2, <1>5, <1>6, <1>7

(* What is left on the line is the end of what was there.                  *)
LEMMA Dropped ==
  ASSUME TypeInv, DropArrived
  PROVE  /\ line' \in Seq(Cell)
         /\ \E n \in 0..Len(line) :
              /\ Len(line') = Len(line) - n
              /\ \A i \in 1..Len(line') : line'[i] = line[i + n] /\ i + n \in 1..Len(line)
<1>1. line \in Seq(Cell)
  BY Types
<1>2. PICK n \in 0..Len(line) : line' = SubSeq(line, n + 1, Len(line))
  BY DEF DropArrived
<1>. QED
  BY <1>1, <1>2, LastCells

(* What the charger does with a command.                                   *)
AnswerTo(cmd) == IF cmd.op = "Prs" THEN [cmd EXCEPT !.data = chMem[cmd.on]] ELSE cmd

LEMMA Executed ==
  ASSUME TypeInv, Execute
  PROVE  LET o == Head(inbox)
             more == Cells(AnswerTo(o.cmd), o.late)
         IN  /\ Len(inbox) >= 1 /\ o = inbox[1] /\ o \in Order
             /\ inbox' \in Seq(Order) /\ Len(inbox') = Len(inbox) - 1
             /\ \A j \in 1..Len(inbox') : inbox'[j] = inbox[j + 1] /\ j + 1 \in 1..Len(inbox)
             /\ AnswerTo(o.cmd) \in Answers
             /\ more \in Seq(Cell) /\ Len(more) \in 1..3
             /\ \A i \in 1..Len(more) : more[i].of = AnswerTo(o.cmd) /\ more[i].late = o.late
             /\ line' \in {line, line \o more}
             /\ chMem' = CASE o.cmd.op = "Ers" -> [chMem EXCEPT ![o.cmd.on] = Erased]
                           [] o.cmd.op = "Wrt" -> [chMem EXCEPT ![o.cmd.on] = o.cmd.data]
                           [] OTHER -> chMem
             /\ chActive' = IF o.cmd.op = "SelP" THEN o.cmd.on ELSE chActive
             /\ UNCHANGED <<port, threadVars, buf, callVars, resultVars>>
<1>. PICK o : o = Head(inbox)
  OBVIOUS
<1>. PICK a : a = AnswerTo(o.cmd)
  OBVIOUS
<1>. DEFINE more == Cells(a, o.late)
<1>1. /\ inbox # <<>> /\ inbox' = Tail(inbox)
      /\ line' \in {line, line \o more}
      /\ chMem' = CASE o.cmd.op = "Ers" -> [chMem EXCEPT ![o.cmd.on] = Erased]
                    [] o.cmd.op = "Wrt" -> [chMem EXCEPT ![o.cmd.on] = o.cmd.data]
                    [] OTHER -> chMem
      /\ chActive' = IF o.cmd.op = "SelP" THEN o.cmd.on ELSE chActive
      /\ UNCHANGED <<port, threadVars, buf, callVars, resultVars>>
  BY DEF Execute, AnswerTo
<1>2. inbox \in Seq(Order) /\ Len(inbox) \in Nat /\ Len(inbox) >= 1
  BY <1>1, Types, EmptySeq
<1>3. /\ o = inbox[1] /\ inbox' \in Seq(Order) /\ Len(inbox') = Len(inbox) - 1
      /\ \A j \in 1..Len(inbox') : inbox'[j] = inbox[j + 1] /\ j + 1 \in 1..Len(inbox)
  BY <1>1, <1>2, HeadTailProperties
<1>4. o \in Order
  BY <1>2, <1>3, ElementOfSeq
<1>5. o.cmd \in Commands /\ o.late \in BOOLEAN
  BY <1>4 DEF Order
<1>6. a \in Answers
  <2>1. CASE o.cmd.op = "Prs"
    <3>1. o.cmd \in [op : {"Prs"}, on : Regions, data : {None}]
      BY <1>5, <2>1 DEF Commands, Orders
    <3>2. chMem[o.cmd.on] \in Data \cup {Erased}
      BY <3>1 DEF TypeInv, TypeOK
    <3>. QED
      BY <2>1, <3>1, <3>2 DEF AnswerTo, Answers
  <2>2. CASE o.cmd.op # "Prs"
    BY <1>5, <2>2 DEF AnswerTo, Answers, Commands, Orders
  <2>. QED
    BY <2>1, <2>2
<1>7. Size[a.op] \in 1..3
  BY <1>6, Sizes
<1>8. /\ more \in Seq(Cell) /\ Len(more) \in 1..3
      /\ \A i \in 1..Len(more) : more[i].of = a /\ more[i].late = o.late
  <2>1. more = [i \in 1..Size[a.op] |-> [of |-> a, part |-> i, late |-> o.late]]
    BY DEF Cells
  <2>2. \A i \in 1..Size[a.op] : [of |-> a, part |-> i, late |-> o.late] \in Cell
    BY <1>5, <1>6, <1>7 DEF Cell
  <2>3. Len(more) = Size[a.op] /\ more \in Seq(Cell)
    BY <1>7, <2>1, <2>2
  <2>4. ASSUME NEW i \in 1..Size[a.op] PROVE more[i].of = a /\ more[i].late = o.late
    <3>1. more[i] = [of |-> a, part |-> i, late |-> o.late]
      BY <2>1
    <3>. HIDE DEF more
    <3>. QED
      BY <3>1
  <2>. QED
    BY <1>7, <2>3, <2>4
<1>. QED
  BY <1>1, <1>2, <1>3, <1>4, <1>6, <1>8

-----------------------------------------------------------------------------
(* Type correctness, one step per action.                                  *)
LEMMA TypeInit == Init => TypeInv
<1>1. SUFFICES ASSUME Init PROVE TypeInv
  OBVIOUS
<1>2. 0 \in 0..(Retries + Attempts) /\ Initial \in Data
  BY LinkAssumption
<1>3. \A S : <<>> \in Seq(S)
  OBVIOUS
<1>4. TypeOK
  <2>1. /\ exch \in 1..2 /\ chActive \in Slots /\ tries \in 0..(Retries + Attempts)
        /\ pc = "idle" /\ call = None /\ selected = None /\ loaded = None
        /\ thread = "none" /\ hand = <<>> /\ buf = <<>>
    BY <1>1, <1>2 DEF Init
  <2>3. port \in BOOLEAN
    BY <1>1 DEF Init
  <2>4. hand \in Seq(Cell) /\ buf \in Seq(Cell) /\ line \in Seq(Cell)
    BY <1>1, <1>3 DEF Init
  <2>5. inbox \in Seq([cmd : Commands, late : BOOLEAN])
    BY <1>1, <1>3 DEF Init
  <2>2. chMem \in [Regions -> Data \cup {Erased}] /\ stored \in [Regions -> Data \cup {None}]
    BY <1>1, <1>2 DEF Init
  <2>. QED
    BY <2>1, <2>2, <2>3, <2>4, <2>5 DEF TypeOK
<1>5. CallOK /\ PortOK
  BY <1>1 DEF Init, CallOK, PortOK
<1>. QED
  BY <1>4, <1>5 DEF TypeInv

LEMMA TypeExecute ==
  ASSUME TypeInv, Execute
  PROVE  TypeOK' /\ CallOK'
<1>. PICK o : o = Head(inbox)
  OBVIOUS
<1>1. /\ o \in Order /\ inbox' \in Seq(Order)
      /\ Cells(AnswerTo(o.cmd), o.late) \in Seq(Cell)
      /\ line' \in {line, line \o Cells(AnswerTo(o.cmd), o.late)}
      /\ chMem' = CASE o.cmd.op = "Ers" -> [chMem EXCEPT ![o.cmd.on] = Erased]
                    [] o.cmd.op = "Wrt" -> [chMem EXCEPT ![o.cmd.on] = o.cmd.data]
                    [] OTHER -> chMem
      /\ chActive' = IF o.cmd.op = "SelP" THEN o.cmd.on ELSE chActive
      /\ UNCHANGED <<port, threadVars, buf, callVars, resultVars>>
  BY Executed
<1>2. o.cmd \in Commands
  BY <1>1 DEF Order
<1>3. line' \in Seq(Cell)
  <2>1. line \in Seq(Cell)
    BY Types
  <2>2. line \o Cells(AnswerTo(o.cmd), o.late) \in Seq(Cell)
    BY <1>1, <2>1, ConcatProperties
  <2>. QED
    BY <1>1, <2>1, <2>2
<1>4. chActive' \in Slots
  <2>1. o.cmd.op = "SelP" => o.cmd.on \in Slots
    BY <1>2 DEF Commands, Orders
  <2>. QED
    BY <1>1, <2>1 DEF TypeInv, TypeOK
<1>5. chMem' \in [Regions -> Data \cup {Erased}]
  <2>1. o.cmd.op = "Ers" => o.cmd.on \in Regions
    BY <1>2 DEF Commands, Orders
  <2>2. o.cmd.op = "Wrt" => o.cmd.on \in Regions /\ o.cmd.data \in Data
    BY <1>2 DEF Commands, Orders
  <2>. QED
    BY <1>1, <2>1, <2>2 DEF TypeInv, TypeOK
<1>6. TypeOK'
  BY <1>1, <1>3, <1>4, <1>5 DEF TypeInv, TypeOK, threadVars, callVars, resultVars, Order
<1>7. CallOK'
  BY <1>1 DEF TypeInv, CallOK, callVars
<1>. QED
  BY <1>6, <1>7 DEF TypeInv

LEMMA TypeReader ==
  ASSUME TypeInv, Reader
  PROVE  TypeOK' /\ CallOK'
<1>1. CASE ReaderReads
  <2>1. PICK n \in 1..Len(line) : /\ hand' = SubSeq(line, 1, n)
                                  /\ line' = SubSeq(line, n + 1, Len(line))
    BY <1>1 DEF ReaderReads
  <2>2. n \in 0..Len(line)
    BY Types
  <2>3. hand' \in Seq(Cell) /\ hand' # <<>> /\ line' \in Seq(Cell)
    BY <2>1, <2>2, Types, FirstCells, LastCells
  <2>. QED
    BY <1>1, <2>3 DEF ReaderReads, TypeInv, TypeOK, CallOK, callVars, resultVars
<1>2. CASE ReaderAppends
  <2>1. buf \o hand \in Seq(Cell)
    BY Types, ConcatProperties
  <2>2. <<>> \in Seq(Cell)
    OBVIOUS
  <2>3. /\ hand' \in Seq(Cell) /\ buf' \in Seq(Cell)
        /\ thread = "holding" /\ thread' \in {"reading", "waiting"}
        /\ hand' = <<>> <=> thread' = "reading"
    BY <1>2, <2>1, <2>2, Types DEF ReaderAppends, TypeInv, TypeOK
  <2>. QED
    BY <1>2, <2>3 DEF ReaderAppends, TypeInv, TypeOK, CallOK, callVars, chargerVars, resultVars
<1>. QED
  BY <1>1, <1>2 DEF Reader

LEMMA TypeCall ==
  ASSUME TypeInv, NEW c \in Calls, Call(c)
  PROVE  TypeOK' /\ CallOK'
<1>1. Retries \in 0..(Retries + Attempts)
  BY LinkAssumption
<1>2. /\ call' \in Calls \cup {None, ConnectCall} /\ exch' \in 1..2
      /\ pc' \in {"idle", "reset", "clear", "send", "await"}
      /\ tries' \in 0..(Retries + Attempts) /\ CallOK'
  BY <1>1, StartTypes DEF Call
<1>3. c.op = "store" => c.on \in Regions
  BY LinkAssumption DEF AllCalls
<1>4. stored' \in [Regions -> Data \cup {None}] /\ selected' \in Slots \cup {None} /\ loaded' = None
  BY <1>3 DEF Call, TypeInv, TypeOK
<1>. QED
  BY <1>2, <1>4 DEF Call, TypeInv, TypeOK, threadVars, chargerVars

LEMMA TypeConnect ==
  ASSUME TypeInv, Connect
  PROVE  TypeOK' /\ CallOK'
<1>1. Attempts - 1 \in 0..(Retries + Attempts)
  BY LinkAssumption
<1>2. /\ call' \in Calls \cup {None, ConnectCall} /\ exch' \in 1..2
      /\ pc' \in {"idle", "reset", "clear", "send", "await"}
      /\ tries' \in 0..(Retries + Attempts) /\ CallOK'
  BY <1>1, StartTypes DEF Connect
<1>. QED
  BY <1>2 DEF Connect, TypeInv, TypeOK, threadVars, chargerVars, resultVars

LEMMA TypeClose ==
  ASSUME TypeInv, Close
  PROVE  TypeOK' /\ CallOK'
<1>1. line' \in Seq(Cell) /\ <<>> \in Seq(Cell)
  BY Dropped DEF Close
<1>. QED
  BY <1>1 DEF Close, TypeInv, TypeOK, CallOK, callVars, resultVars

LEMMA TypeReset ==
  ASSUME TypeInv, ResetBuffers
  PROVE  TypeOK' /\ CallOK'
<1>1. line' \in Seq(Cell)
  BY Dropped DEF ResetBuffers
<1>. QED
  BY <1>1 DEF ResetBuffers, TypeInv, TypeOK, CallOK, threadVars, resultVars

LEMMA TypeClear ==
  ASSUME TypeInv, ClearBuffer
  PROVE  TypeOK' /\ CallOK'
<1>1. <<>> \in Seq(Cell)
  OBVIOUS
<1>. QED
  BY <1>1 DEF ClearBuffer, Cleared, TypeInv, TypeOK, CallOK, threadVars, chargerVars, resultVars

LEMMA TypeSend ==
  ASSUME TypeInv, Send
  PROVE  TypeOK' /\ CallOK'
<1>1. /\ Late(inbox) \in Seq(Order) /\ Late(line) \in Seq(Cell) /\ Late(hand) \in Seq(Cell)
      /\ Len(Late(hand)) = Len(hand)
  BY Types, LateItems
<1>2. hand = <<>> <=> hand' = <<>>
  BY <1>1, Types, EmptySeq DEF Send
<1>3. Sent \in Commands
  BY CallTypes DEF Send, TypeInv, CallOK
<1>4. inbox' \in Seq(Order)
  <2>1. [cmd |-> Sent, late |-> FALSE] \in Order
    BY <1>3 DEF Order
  <2>. QED
    <3>1. inbox' \in {Late(inbox), Append(Late(inbox), [cmd |-> Sent, late |-> FALSE])}
      BY DEF Send
    <3>2. Append(Late(inbox), [cmd |-> Sent, late |-> FALSE]) \in Seq(Order)
      BY <1>1, <2>1, AppendProperties
    <3>. QED
      BY <1>1, <3>1, <3>2
<1>. QED
  BY <1>1, <1>2, <1>4 DEF Send, TypeInv, TypeOK, CallOK, resultVars, Order

LEMMA TypeFail ==
  ASSUME TypeInv, SendFails \/ ReadTimesOut
  PROVE  TypeOK' /\ CallOK'
<1>1. call # None /\ AttemptFails /\ UNCHANGED <<threadVars, buf, chargerVars>>
  BY DEF SendFails, ReadTimesOut, TypeInv, CallOK
<1>. QED
  BY <1>1, FailTypes DEF TypeInv, TypeOK, threadVars, chargerVars, resultVars

LEMMA TypeReceive ==
  ASSUME TypeInv, Receive
  PROVE  TypeOK' /\ CallOK'
<1>1. call # None /\ Len(Incoming) >= Size[Sent.op] /\ pc = "await"
      /\ UNCHANGED <<hand, inbox, chMem, chActive>>
  BY DEF Receive, TypeInv, CallOK
<1>2. Answer \in Seq(Cell) /\ Rest \in Seq(Cell) /\ Answer # <<>>
  BY <1>1, Received
<1>3. /\ line' \in Seq(Cell) /\ buf' \in Seq(Cell)
      /\ thread = "none" => buf' = buf
  BY <1>2, Types DEF Receive
<1>4. /\ thread' \in {"none", "reading", "holding", "waiting"}
      /\ thread' = "none" => thread = "none"
      /\ thread' \in {"none", "reading"} <=> thread \in {"none", "reading"}
  <2>1. thread' \in {Woken} \/ (thread = "none" /\ thread' = "reading")
    BY <1>1 DEF Receive, Woken, TypeInv, TypeOK, PortOK
  <2>. QED
    BY <2>1 DEF Woken, TypeInv, TypeOK
<1>5. CASE Verified(Answer) /\ exch < Len(Exchanges(call))
  <2>1. exch' = exch + 1 /\ pc' = "reset" /\ UNCHANGED <<port, call, tries, resultVars>>
    BY <1>5 DEF Receive
  <2>2. exch' \in 1..2 /\ exch' \in 1..Len(Exchanges(call))
    <3>1. call \in AllCallsMade /\ exch \in 1..Len(Exchanges(call))
      BY <1>1, CallTypes
    <3>2. Len(Exchanges(call)) \in 1..2
      BY <3>1, ExchangeTypes
    <3>3. exch < Len(Exchanges(call))
      BY <1>5
    <3>4. \A e, n : n \in 1..2 /\ e \in 1..n /\ e < n => e + 1 \in 1..2 /\ e + 1 \in 1..n
      OBVIOUS
    <3>5. exch + 1 \in 1..2 /\ exch + 1 \in 1..Len(Exchanges(call))
      BY <3>1, <3>2, <3>3, <3>4
    <3>. QED
      BY <2>1, <3>5
  <2>. QED
    BY <1>1, <1>3, <1>4, <2>1, <2>2 DEF TypeInv, TypeOK, CallOK, resultVars
<1>6. CASE Verified(Answer) /\ ~(exch < Len(Exchanges(call)))
  <2>1. Returns(Answer)
    BY <1>6 DEF Receive
  <2>2. /\ port' \in BOOLEAN /\ call' = None /\ exch' \in 1..2 /\ pc' = "idle"
        /\ tries' \in 0..(Retries + Attempts) /\ CallOK'
        /\ stored' \in [Regions -> Data \cup {None}] /\ selected' \in Slots \cup {None}
        /\ loaded' \in [on : Regions, data : Data \cup {Erased}] \cup {None}
    BY <1>1, <1>2, <1>6, <2>1, ReturnTypes
  <2>. QED
    BY <1>1, <1>3, <1>4, <2>2 DEF TypeInv, TypeOK
<1>7. CASE ~Verified(Answer)
  <2>1. AttemptFails
    BY <1>7 DEF Receive
  <2>. QED
    BY <1>1, <1>3, <1>4, <2>1, FailTypes DEF TypeInv, TypeOK, resultVars
<1>. QED
  BY <1>5, <1>6, <1>7

LEMMA PortStep ==
  ASSUME TypeInv, [Next]_vars
  PROVE  PortOK'
<1>. USE DEF TypeInv, PortOK, threadVars, callVars, chargerVars, resultVars
<1>1. CASE Execute
  BY <1>1 DEF Execute
<1>2. CASE Reader
  BY <1>2 DEF Reader, ReaderReads, ReaderAppends
<1>3. ASSUME NEW c \in Calls, Call(c) PROVE PortOK'
  <2>1. c.op # "connect"
    BY LinkAssumption DEF AllCalls
  <2>. QED
    BY <1>3, <2>1 DEF Call, Start
<1>4. CASE Connect
  BY <1>4 DEF Connect, Start
<1>5. CASE Close
  BY <1>5 DEF Close
<1>6. CASE ResetBuffers \/ ClearBuffer \/ Send
  BY <1>6 DEF ResetBuffers, ClearBuffer, Send
<1>7. CASE SendFails \/ ReadTimesOut
  BY <1>7 DEF SendFails, ReadTimesOut, AttemptFails, CallOK
<1>8. CASE Receive
  <2>1. call # None
    BY <1>8 DEF Receive, CallOK
  <2>2. CASE Verified(Answer) /\ exch < Len(Exchanges(call))
    BY <1>8, <2>2 DEF Receive, Woken
  <2>3. CASE Verified(Answer) /\ ~(exch < Len(Exchanges(call)))
    <3>1. Returns(Answer) /\ thread' = IF call.op = "connect" THEN "reading" ELSE Woken
      BY <1>8, <2>3 DEF Receive
    <3>2. port' = port /\ call' = None
      BY <3>1 DEF Returns
    <3>3. port
      BY <2>1
    <3>. QED
      BY <3>1, <3>2, <3>3 DEF Woken
  <2>4. CASE ~Verified(Answer)
    BY <1>8, <2>1, <2>4 DEF Receive, AttemptFails, Woken
  <2>. QED
    BY <2>2, <2>3, <2>4
<1>9. CASE UNCHANGED vars
  BY <1>9 DEF vars
<1>. QED
  BY <1>1, <1>2, <1>3, <1>4, <1>5, <1>6, <1>7, <1>8, <1>9 DEF Next, CallStep

LEMMA TypeStep == TypeInv /\ [Next]_vars => TypeInv'
<1>1. SUFFICES ASSUME TypeInv, [Next]_vars PROVE TypeOK' /\ CallOK'
  BY PortStep DEF TypeInv
<1>2. CASE UNCHANGED vars
  BY <1>1, <1>2 DEF vars, TypeInv, TypeOK, CallOK
<1>. QED
  BY <1>1, <1>2, TypeExecute, TypeReader, TypeCall, TypeConnect, TypeClose, TypeReset,
     TypeClear, TypeSend, TypeFail, TypeReceive DEF Next, CallStep

(* Type correctness; in particular a call that returns has loaded what     *)
(* such a region can hold.                                                 *)
THEOREM TypeCorrect == Spec => []TypeOK
<1>1. Spec => []TypeInv
  BY TypeInit, TypeStep, PTL DEF Spec
<1>2. TypeInv => TypeOK
  BY DEF TypeInv
<1>. QED
  BY <1>1, <1>2, PTL

-----------------------------------------------------------------------------
(* The flow of commands and answers.  What was sent in the current         *)
(* exchange comes last: no command follows it, and of its answer the cells *)
(* have left the charger only when no command is left to carry out.        *)
FlowOf(box, ln, hd) ==
  /\ \A i \in 1..Len(box) : ~box[i].late => i = Len(box)
  /\ \A i \in 1..Len(ln) : ~ln[i].late => box = <<>> /\ Len(ln) - i < 3
  /\ \A i \in 1..Len(hd) : ~hd[i].late => box = <<>> /\ Len(hd) - i + Len(ln) < 3

Fresh(s) == \A i \in 1..Len(s) : ~s[i].late

FlowInv ==
  /\ FlowOf(inbox, line, hand)
  /\ pc \in {"clear", "send"} => Fresh(inbox) /\ Fresh(line) /\ Fresh(hand)

(* The cells that are, or may still come to be, on their way.              *)
Underway == 3 * Len(inbox) + Len(line) + Len(hand)

(* Resetting leaves at most one answer on its way, and sending adds one.   *)
Bounded ==
  /\ pc = "clear" => Underway <= 3
  /\ pc = "send" => Underway + Len(buf) <= 3
  /\ Underway + Len(buf) <= 6
  /\ Capacity >= 6 => thread # "waiting"

-----------------------------------------------------------------------------
(* What an answer says is so when the charger has this memory and has      *)
(* selected this preset.                                                   *)
Holds(a, mem, act) ==
  /\ a.op = "SelP" => act = a.on
  /\ a.op = "Ers" => mem[a.on] = Erased
  /\ a.op \in {"Wrt", "Prs"} => mem[a.on] = a.data

(* The answers that may be taken for one to this command.                  *)
AnswersTo(a, cmd) == IF cmd.op = "Prs" THEN a.op = "Prs" /\ a.on = cmd.on ELSE a = cmd

AllHold(s, mem, act) == \A i \in 1..Len(s) : Holds(s[i].of, mem, act)
FreshHold(s, mem, act) == \A i \in 1..Len(s) : ~s[i].late => Holds(s[i].of, mem, act)

(* An answer that may be taken for one to cmd is right, and no command is  *)
(* on its way that could make it wrong.                                    *)
Trusted(s, cmd, mem, act, box) ==
  \A i \in 1..Len(s) : AnswersTo(s[i].of, cmd) =>
    /\ Holds(s[i].of, mem, act)
    /\ \A j \in 1..Len(box) : box[j].cmd = cmd

(* While an answer is waited for: a late command is alone with the one     *)
(* that was sent, and everything that arrived can be trusted.              *)
AwaitingFor(cmd, box, ln, hd, bf, mem, act) ==
  /\ \A j \in 1..Len(box) : /\ ~box[j].late => box[j].cmd = cmd
                            /\ box[j].late => j = 1 /\ ln = <<>> /\ hd = <<>> /\ bf = <<>>
  /\ Trusted(ln, cmd, mem, act, box)
  /\ Trusted(hd, cmd, mem, act, box)
  /\ Trusted(bf, cmd, mem, act, box)

AnswersInv ==
  /\ FreshHold(line, chMem, chActive) /\ FreshHold(hand, chMem, chActive)
  /\ pc = "send" => AllHold(buf, chMem, chActive) /\ (buf # <<>> => inbox = <<>>)
  /\ pc = "await" => AwaitingFor(Sent, inbox, line, hand, buf, chMem, chActive)

(* What has been stored or selected stays so: no command on its way        *)
(* changes it, nor does the call at work.                                  *)
StoredOK(st, mem, box, c) ==
  \A r \in Regions : st[r] # None =>
    /\ mem[r] = st[r]
    /\ \A j \in 1..Len(box) : box[j].cmd.op \in {"Ers", "Wrt"} /\ box[j].cmd.on = r =>
         box[j].cmd.op = "Wrt" /\ box[j].cmd.data = st[r]
    /\ c # None => ~(c.op = "store" /\ c.on = r)

SelectedOK(sel, act, box, c) ==
  sel # None =>
    /\ act = sel
    /\ \A j \in 1..Len(box) : box[j].cmd.op = "SelP" => box[j].cmd.on = sel
    /\ c # None => c.op # "select"

ResultsInv == StoredOK(stored, chMem, inbox, call) /\ SelectedOK(selected, chActive, inbox, call)

-----------------------------------------------------------------------------
(* What the actions do to what is on its way.                              *)
EndOf(t, s) ==
  \E n \in 0..Len(s) : /\ Len(t) = Len(s) - n
                       /\ \A i \in 1..Len(t) : t[i] = s[i + n] /\ i + n \in 1..Len(s)

LEMMA EndOfSame ==
  ASSUME NEW s, Len(s) \in Nat
  PROVE  EndOf(s, s)
<1>. PICK l \in Nat : l = Len(s)
  OBVIOUS
<1>1. \A i \in 1..l : s[i] = s[i + 0] /\ i + 0 \in 1..l
  OBVIOUS
<1>2. 0 \in 0..l /\ l = l - 0
  OBVIOUS
<1>. QED
  BY <1>1, <1>2 DEF EndOf


LEMMA Takes ==
  ASSUME TypeInv, Connect \/ Close \/ ResetBuffers \/ ClearBuffer \/ SendFails \/ Receive
                    \/ ReadTimesOut \/ (\E c \in Calls : Call(c)) \/ UNCHANGED vars
  PROVE  inbox' = inbox /\ EndOf(line', line) /\ hand' \in {hand, <<>>}
         /\ UNCHANGED <<chMem, chActive>>
<1>. USE DEF threadVars, callVars, chargerVars
<1>0. EndOf(line, line)
  BY Types, EndOfSame
<1>1. CASE Connect \/ ClearBuffer \/ SendFails \/ ReadTimesOut \/ (\E c \in Calls : Call(c)) \/ UNCHANGED vars
  BY <1>0, <1>1 DEF Connect, ClearBuffer, SendFails, ReadTimesOut, Call, vars
<1>2. DropArrived => EndOf(line', line)
  BY Dropped DEF EndOf
<1>3. CASE Close \/ ResetBuffers
  BY <1>2, <1>3 DEF Close, ResetBuffers
<1>4. CASE Receive
  <2>1. call # None /\ Len(Incoming) >= Size[Sent.op]
    BY <1>4 DEF Receive, TypeInv, CallOK
  <2>2. EndOf(Rest, Incoming)
    <3>1. /\ Len(Incoming) \in Nat /\ Len(Answer) \in 1..3 /\ Len(Rest) \in Nat
          /\ Len(Rest) = Len(Incoming) - Len(Answer)
          /\ \A i \in 1..Len(Rest) : /\ i + Len(Answer) \in 1..Len(Incoming)
                                     /\ Rest[i] = Incoming[i + Len(Answer)]
      BY <2>1, Received, LenProperties
    <3>2. \A a, b, c : a \in Nat /\ b \in 1..3 /\ c \in Nat /\ c = a - b => b \in 0..a
      OBVIOUS
    <3>3. Len(Answer) \in 0..Len(Incoming)
      BY <3>1, <3>2
    <3>. QED
      BY <3>1, <3>3 DEF EndOf
  <2>3. EndOf(line', line)
    BY <1>0, <1>4, <2>2 DEF Receive, Incoming
  <2>. QED
    BY <1>4, <2>3 DEF Receive
<1>. QED
  BY <1>1, <1>3, <1>4

(* What a reading moves from the line to the hand.                         *)
LEMMA Reads ==
  ASSUME TypeInv, ReaderReads
  PROVE  /\ hand = <<>> /\ inbox' = inbox /\ buf' = buf /\ pc' = pc
         /\ UNCHANGED <<chMem, chActive>>
         /\ \E n \in 1..Len(line) :
              /\ Len(hand') = n /\ Len(line') = Len(line) - n
              /\ \A i \in 1..Len(hand') : hand'[i] = line[i] /\ i \in 1..Len(line)
              /\ \A i \in 1..Len(line') : line'[i] = line[i + n] /\ i + n \in 1..Len(line)
<1>1. PICK n \in 1..Len(line) : /\ hand' = SubSeq(line, 1, n)
                                /\ line' = SubSeq(line, n + 1, Len(line))
  BY DEF ReaderReads
<1>2. n \in 0..Len(line) /\ \A i \in 1..n : i \in 1..Len(line)
  BY Types
<1>3. /\ Len(hand') = n /\ Len(line') = Len(line) - n
      /\ \A i \in 1..n : hand'[i] = line[i]
      /\ \A i \in 1..Len(line') : line'[i] = line[i + n] /\ i + n \in 1..Len(line)
  BY <1>1, <1>2, Types, FirstCells, LastCells
<1>4. hand = <<>> /\ inbox' = inbox /\ buf' = buf /\ pc' = pc /\ UNCHANGED <<chMem, chActive>>
  BY DEF ReaderReads, TypeInv, TypeOK, callVars
<1>. QED
  BY <1>2, <1>3, <1>4

LEMMA Appends ==
  ASSUME TypeInv, ReaderAppends
  PROVE  /\ inbox' = inbox /\ line' = line /\ pc' = pc /\ UNCHANGED <<chMem, chActive>>
         /\ \/ UNCHANGED <<hand, buf>> /\ thread' = "waiting" /\ Len(buf) + Len(hand) > Capacity
            \/ /\ hand' = <<>> /\ thread' = "reading" /\ Len(buf') = Len(buf) + Len(hand)
               /\ \A i \in 1..Len(buf') :
                    \/ i \in 1..Len(buf) /\ buf'[i] = buf[i]
                    \/ i - Len(buf) \in 1..Len(hand) /\ buf'[i] = hand[i - Len(buf)]
<1>1. /\ Len(buf \o hand) = Len(buf) + Len(hand)
      /\ \A i \in 1..Len(buf) : (buf \o hand)[i] = buf[i]
      /\ \A i \in (Len(buf) + 1)..(Len(buf) + Len(hand)) : (buf \o hand)[i] = hand[i - Len(buf)]
  BY Types, ConcatProperties
<1>2. \A i \in 1..(Len(buf) + Len(hand)) :
        i \in 1..Len(buf) \/ (/\ i \in (Len(buf) + 1)..(Len(buf) + Len(hand))
                              /\ i - Len(buf) \in 1..Len(hand))
  BY Types
<1>3. CASE Len(buf) + Len(hand) <= Capacity
  <2>1. buf' = buf \o hand /\ hand' = <<>> /\ thread' = "reading"
    BY <1>3 DEF ReaderAppends
  <2>. QED
    BY <1>1, <1>2, <2>1 DEF ReaderAppends, callVars, chargerVars
<1>4. CASE ~(Len(buf) + Len(hand) <= Capacity)
  <2>1. Len(buf) + Len(hand) > Capacity
    BY <1>4, Types, LinkAssumption
  <2>. QED
    BY <1>4, <2>1 DEF ReaderAppends, callVars, chargerVars
<1>. QED
  BY <1>3, <1>4

(* What sending makes of the items on their way.                           *)
LEMMA Sends ==
  ASSUME TypeInv, Send
  PROVE  /\ Len(line') = Len(line) /\ Len(hand') = Len(hand)
         /\ Len(inbox') \in {Len(inbox), Len(inbox) + 1}
         /\ \A i \in 1..Len(line') : line'[i].late /\ line'[i].of = line[i].of
         /\ \A i \in 1..Len(hand') : hand'[i].late /\ hand'[i].of = hand[i].of
         /\ \A i \in 1..Len(inbox) : inbox'[i].late /\ inbox'[i].cmd = inbox[i].cmd
         /\ \A i \in 1..Len(inbox') :
              i \notin 1..Len(inbox) => /\ i = Len(inbox') /\ i = Len(inbox) + 1
                                        /\ inbox'[i] = [cmd |-> Sent, late |-> FALSE]
         /\ UNCHANGED <<thread, buf, call, exch, chMem, chActive>>
<1>1. /\ line' = Late(line) /\ hand' = Late(hand)
      /\ inbox' \in {Late(inbox), Append(Late(inbox), [cmd |-> Sent, late |-> FALSE])}
      /\ UNCHANGED <<thread, buf, call, exch, chMem, chActive>>
  BY DEF Send
<1>2. /\ Late(line) \in Seq(Cell) /\ Late(hand) \in Seq(Cell) /\ Late(inbox) \in Seq(Order)
      /\ Len(Late(line)) = Len(line) /\ Len(Late(hand)) = Len(hand) /\ Len(Late(inbox)) = Len(inbox)
      /\ \A i \in 1..Len(line) : Late(line)[i] = [line[i] EXCEPT !.late = TRUE]
      /\ \A i \in 1..Len(hand) : Late(hand)[i] = [hand[i] EXCEPT !.late = TRUE]
      /\ \A i \in 1..Len(inbox) : Late(inbox)[i] = [inbox[i] EXCEPT !.late = TRUE]
  BY Types, LateItems
<1>3. \A e \in Cell : [e EXCEPT !.late = TRUE].late /\ [e EXCEPT !.late = TRUE].of = e.of
  BY DEF Cell
<1>4. \A e \in Order : [e EXCEPT !.late = TRUE].late /\ [e EXCEPT !.late = TRUE].cmd = e.cmd
  BY DEF Order
<1>. PICK l : l = Late(line)
  OBVIOUS
<1>. PICK h : h = Late(hand)
  OBVIOUS
<1>5. Len(l) = Len(line) /\ \A i \in 1..Len(line) : l[i].late /\ l[i].of = line[i].of
  <2>1. Len(l) = Len(line) /\ \A i \in 1..Len(line) : l[i] = [line[i] EXCEPT !.late = TRUE]
    BY <1>2
  <2>2. \A i \in 1..Len(line) : line[i] \in Cell
    BY Types
  <2>. QED
    BY <1>3, <2>1, <2>2
<1>6. Len(h) = Len(hand) /\ \A i \in 1..Len(hand) : h[i].late /\ h[i].of = hand[i].of
  <2>1. Len(h) = Len(hand) /\ \A i \in 1..Len(hand) : h[i] = [hand[i] EXCEPT !.late = TRUE]
    BY <1>2
  <2>2. \A i \in 1..Len(hand) : hand[i] \in Cell
    BY Types
  <2>. QED
    BY <1>3, <2>1, <2>2
<1>7. /\ Len(line') = Len(line) /\ Len(hand') = Len(hand)
      /\ \A i \in 1..Len(line') : line'[i].late /\ line'[i].of = line[i].of
      /\ \A i \in 1..Len(hand') : hand'[i].late /\ hand'[i].of = hand[i].of
  BY <1>1, <1>5, <1>6
<1>. PICK q : q = Late(inbox)
  OBVIOUS
<1>. PICK x : x = [cmd |-> Sent, late |-> FALSE]
  OBVIOUS
<1>8. q \in Seq(Order) /\ Len(q) = Len(inbox) /\ \A i \in 1..Len(inbox) : q[i].late /\ q[i].cmd = inbox[i].cmd
  <2>1. /\ q \in Seq(Order) /\ Len(q) = Len(inbox)
        /\ \A i \in 1..Len(inbox) : q[i] = [inbox[i] EXCEPT !.late = TRUE]
    BY <1>2
  <2>2. \A i \in 1..Len(inbox) : inbox[i] \in Order
    BY Types
  <2>. QED
    BY <1>4, <2>1, <2>2
<1>9. inbox' = q \/ inbox' = Append(q, x)
  BY <1>1
<1>10. CASE inbox' = q
  BY <1>1, <1>7, <1>8, <1>10
<1>11. CASE inbox' = Append(q, x)
  <2>1. /\ Len(Append(q, x)) = Len(q) + 1 /\ Append(q, x)[Len(q) + 1] = x
        /\ \A i \in 1..Len(q) : Append(q, x)[i] = q[i]
    <3>1. x \in Order
      <4>1. Sent \in Commands
        BY CallTypes DEF Send, TypeInv, CallOK
      <4>. QED
        BY <4>1 DEF Order
    <3>. QED
      BY <1>8, <3>1, AppendProperties
  <2>2. \A i \in 1..(Len(q) + 1) : i \notin 1..Len(q) => i = Len(q) + 1
    BY <1>8, Types
  <2>. QED
    BY <1>1, <1>7, <1>8, <1>11, <2>1, <2>2
<1>. QED
  BY <1>9, <1>10, <1>11

LEMMA FlowTakes ==
  ASSUME NEW box, NEW ln, NEW hd, Len(ln) \in Nat, Len(hd) \in Nat,
         NEW m, EndOf(m, ln), NEW k \in {hd, <<>>}
  PROVE  /\ FlowOf(box, ln, hd) => FlowOf(box, m, k)
         /\ Len(m) \in Nat /\ Len(m) <= Len(ln) /\ Len(k) \in Nat /\ Len(k) <= Len(hd)
         /\ Fresh(ln) => Fresh(m)
         /\ Fresh(hd) => Fresh(k)
<1>1. PICK n \in 0..Len(ln) :
        /\ Len(m) = Len(ln) - n
        /\ \A i \in 1..Len(m) : m[i] = ln[i + n] /\ i + n \in 1..Len(ln)
  BY DEF EndOf
<1>2. Len(m) \in Nat /\ Len(m) <= Len(ln)
  BY <1>1
<1>3. k = <<>> => Len(k) = 0
  BY EmptySeq
<1>4. Len(k) \in Nat /\ Len(k) <= Len(hd)
  BY <1>3
<1>5. ASSUME FlowOf(box, ln, hd) PROVE FlowOf(box, m, k)
  <2>1. ASSUME NEW i \in 1..Len(m), ~m[i].late PROVE box = <<>> /\ Len(m) - i < 3
    <3>1. m[i] = ln[i + n] /\ i + n \in 1..Len(ln)
      BY <1>1
    <3>2. box = <<>> /\ Len(ln) - (i + n) < 3
      BY <1>5, <2>1, <3>1 DEF FlowOf
    <3>. QED
      BY <1>1, <3>2
  <2>2. ASSUME NEW i \in 1..Len(k), ~k[i].late PROVE box = <<>> /\ Len(k) - i + Len(m) < 3
    <3>1. k = hd
      BY <1>3, <2>2
    <3>2. box = <<>> /\ Len(hd) - i + Len(ln) < 3
      BY <1>5, <2>2, <3>1 DEF FlowOf
    <3>. QED
      BY <1>2, <3>1, <3>2
  <2>. QED
    BY <1>5, <2>1, <2>2 DEF FlowOf
<1>6. (Fresh(ln) => Fresh(m)) /\ (Fresh(hd) => Fresh(k))
  BY <1>1, <1>3 DEF Fresh
<1>. QED
  BY <1>2, <1>4, <1>5, <1>6

(* The line, where the charger answers.                                    *)
LEMMA Answered ==
  ASSUME TypeInv, Execute
  PROVE  LET o == inbox[1]
             a == AnswerTo(o.cmd)
         IN  /\ Len(line') \in Nat /\ Len(line') <= Len(line) + 3
             /\ \A i \in 1..Len(line') :
                  \/ i \in 1..Len(line) /\ line'[i] = line[i]
                  \/ /\ i > Len(line) /\ Len(line') - i < 3
                     /\ line'[i].of = a /\ line'[i].late = o.late
<1>. PICK o : o = inbox[1]
  OBVIOUS
<1>. PICK a : a = AnswerTo(o.cmd)
  OBVIOUS
<1>. PICK more : more = Cells(a, o.late)
  OBVIOUS
<1>1. /\ more \in Seq(Cell) /\ Len(more) \in 1..3
      /\ \A i \in 1..Len(more) : more[i].of = a /\ more[i].late = o.late
      /\ line' \in {line, line \o more}
  BY Executed
<1>2. line \in Seq(Cell) /\ Len(line) \in Nat
  BY Types
<1>3. /\ Len(line \o more) = Len(line) + Len(more)
      /\ \A i \in 1..Len(line) : (line \o more)[i] = line[i]
      /\ \A i \in (Len(line) + 1)..(Len(line) + Len(more)) : (line \o more)[i] = more[i - Len(line)]
  BY <1>1, <1>2, ConcatProperties
<1>4. CASE line' = line
  BY <1>2, <1>4
<1>5. CASE line' = line \o more
  <2>. PICK l \in Nat : l = Len(line)
    BY <1>2
  <2>. PICK k \in 1..3 : k = Len(more)
    BY <1>1
  <2>1. Len(line') = l + k
    BY <1>3, <1>5
  <2>2. ASSUME NEW i \in 1..(l + k)
        PROVE  \/ i \in 1..l /\ line'[i] = line[i]
               \/ /\ i > l /\ l + k - i < 3
                  /\ line'[i].of = a /\ line'[i].late = o.late
    <3>1. CASE i <= l
      BY <1>3, <1>5, <3>1
    <3>2. CASE i > l
      <4>1. i \in (l + 1)..(l + k) /\ i - l \in 1..k /\ l + k - i < 3
        <5>1. \A x, y, z : x \in Nat /\ y \in 1..3 /\ z \in 1..(x + y) /\ z > x =>
                z \in (x + 1)..(x + y) /\ z - x \in 1..y /\ x + y - z < 3
          OBVIOUS
        <5>. QED
          BY <3>2, <5>1
      <4>2. line'[i] = more[i - l]
        BY <1>3, <1>5, <4>1
      <4>. QED
        BY <1>1, <3>2, <4>1, <4>2
    <3>. QED
      BY <3>1, <3>2
  <2>. QED
    BY <2>1, <2>2, SMTT(20)
<1>. QED
  BY <1>1, <1>4, <1>5

LEMMA FlowExecute ==
  ASSUME TypeInv, FlowInv, Execute
  PROVE  FlowInv'
<1>. PICK o : o = inbox[1]
  OBVIOUS
<1>1. /\ Len(inbox) >= 1 /\ Len(inbox') = Len(inbox) - 1
      /\ \A j \in 1..Len(inbox') : inbox'[j] = inbox[j + 1] /\ j + 1 \in 1..Len(inbox)
      /\ inbox' \in Seq(Order) /\ hand' = hand /\ pc' = pc
  BY Executed DEF threadVars, callVars
<1>2. /\ Len(line') \in Nat
      /\ \A i \in 1..Len(line') :
           \/ i \in 1..Len(line) /\ line'[i] = line[i]
           \/ Len(line') - i < 3 /\ line'[i].late = o.late
  BY Answered
<1>3. inbox # <<>> /\ Len(inbox) \in Nat /\ 1 \in 1..Len(inbox)
  <2>1. inbox # <<>>
    BY <1>1, EmptySeq
  <2>2. Len(inbox) \in Nat
    BY Types
  <2>. QED
    BY <1>1, <2>1, <2>2
<1>4. (\A i \in 1..Len(line) : line[i].late) /\ (\A i \in 1..Len(hand) : hand[i].late)
  BY <1>3 DEF FlowInv, FlowOf
<1>5. ~o.late => inbox' = <<>>
  <2>1. ~o.late => 1 = Len(inbox)
    BY <1>3 DEF FlowInv, FlowOf
  <2>. QED
    BY <1>1, <2>1, EmptySeq
<1>6. FlowOf(inbox', line', hand')
  <2>1. ASSUME NEW j \in 1..Len(inbox'), ~inbox'[j].late PROVE j = Len(inbox')
    <3>1. inbox'[j] = inbox[j + 1] /\ j + 1 \in 1..Len(inbox)
      BY <1>1
    <3>2. j + 1 = Len(inbox)
      BY <2>1, <3>1 DEF FlowInv, FlowOf
    <3>. QED
      BY <1>1, <1>3, <3>2
  <2>2. ASSUME NEW i \in 1..Len(line'), ~line'[i].late PROVE inbox' = <<>> /\ Len(line') - i < 3
    BY <1>2, <1>4, <1>5, <2>2
  <2>. QED
    BY <1>1, <1>4, <2>1, <2>2 DEF FlowOf
<1>7. ASSUME pc' \in {"clear", "send"} PROVE Fresh(inbox') /\ Fresh(line') /\ Fresh(hand')
  <2>1. Fresh(inbox) /\ Fresh(line) /\ Fresh(hand)
    BY <1>1, <1>7 DEF FlowInv
  <2>2. Fresh(inbox')
    BY <1>1, <2>1 DEF Fresh
  <2>3. ~o.late
    BY <1>3, <2>1 DEF Fresh
  <2>4. Fresh(line')
    BY <1>2, <2>1, <2>3 DEF Fresh
  <2>. QED
    BY <1>1, <2>1, <2>2, <2>4
<1>. QED
  BY <1>6, <1>7 DEF FlowInv

LEMMA FlowReads ==
  ASSUME TypeInv, FlowInv, ReaderReads
  PROVE  FlowInv'
<1>1. hand = <<>> /\ inbox' = inbox /\ pc' = pc
  BY Reads
<1>2. PICK n \in 1..Len(line) :
        /\ Len(hand') = n /\ Len(line') = Len(line) - n
        /\ \A i \in 1..Len(hand') : hand'[i] = line[i] /\ i \in 1..Len(line)
        /\ \A i \in 1..Len(line') : line'[i] = line[i + n] /\ i + n \in 1..Len(line)
  BY Reads
<1>3. Len(line) \in Nat /\ n \in Nat
  BY Types
<1>4. \A i \in 1..Len(line) : ~line[i].late => inbox = <<>> /\ Len(line) - i < 3
  BY DEF FlowInv, FlowOf
<1>5. ASSUME NEW i \in 1..Len(line'), ~line'[i].late PROVE inbox = <<>> /\ Len(line') - i < 3
  <2>1. line'[i] = line[i + n] /\ i + n \in 1..Len(line)
    BY <1>2
  <2>2. inbox = <<>> /\ Len(line) - (i + n) < 3
    BY <1>4, <1>5, <2>1
  <2>. QED
    BY <1>2, <1>3, <2>2
<1>6. ASSUME NEW i \in 1..Len(hand'), ~hand'[i].late
      PROVE  inbox = <<>> /\ Len(hand') - i + Len(line') < 3
  <2>1. hand'[i] = line[i] /\ i \in 1..Len(line)
    BY <1>2
  <2>2. inbox = <<>> /\ Len(line) - i < 3
    BY <1>4, <1>6, <2>1
  <2>. QED
    BY <1>2, <1>3, <2>2
<1>7. FlowOf(inbox', line', hand')
  BY <1>1, <1>5, <1>6 DEF FlowInv, FlowOf
<1>8. pc' \in {"clear", "send"} => Fresh(inbox') /\ Fresh(line') /\ Fresh(hand')
  BY <1>1, <1>2 DEF FlowInv, Fresh
<1>. QED
  BY <1>7, <1>8 DEF FlowInv

LEMMA FlowSend ==
  ASSUME TypeInv, FlowInv, Send
  PROVE  FlowInv'
<1>1. /\ \A i \in 1..Len(line') : line'[i].late
      /\ \A i \in 1..Len(hand') : hand'[i].late
      /\ \A i \in 1..Len(inbox) : inbox'[i].late
      /\ \A i \in 1..Len(inbox') : i \notin 1..Len(inbox) => i = Len(inbox')
      /\ pc' = "await"
  BY Sends DEF Send
<1>2. \A i \in 1..Len(inbox') : ~inbox'[i].late => i = Len(inbox')
  BY <1>1
<1>. QED
  BY <1>1, <1>2 DEF FlowInv, FlowOf

LEMMA FlowStep ==
  ASSUME TypeInv, FlowInv, [Next]_vars
  PROVE  FlowInv'
<1>. DEFINE Taking ==
       \/ Connect \/ Close \/ ResetBuffers \/ ClearBuffer \/ SendFails \/ Receive
       \/ ReadTimesOut \/ (\E c \in Calls : Call(c)) \/ UNCHANGED vars
<1>1. CASE Taking
  <2>1. inbox' = inbox /\ EndOf(line', line) /\ hand' \in {hand, <<>>}
    BY <1>1, Takes
  <2>2. Len(line) \in Nat /\ Len(hand) \in Nat
    BY Types
  <2>3. FlowOf(inbox, line, hand) => FlowOf(inbox, line', hand')
    BY <2>1, <2>2, FlowTakes
  <2>4. (Fresh(line) => Fresh(line')) /\ (Fresh(hand) => Fresh(hand'))
    BY <2>1, <2>2, FlowTakes
  <2>5. FlowOf(inbox', line', hand')
    BY <2>1, <2>3 DEF FlowInv
  <2>6. ASSUME pc' \in {"clear", "send"} PROVE Fresh(inbox') /\ Fresh(line') /\ Fresh(hand')
    <3>1. CASE ResetBuffers
      <4>1. /\ \A i \in DOMAIN inbox : ~inbox[i].late
            /\ \A i \in DOMAIN hand : ~hand[i].late
            /\ \A i \in DOMAIN line' : ~line'[i].late
            /\ hand' = hand
        BY <3>1 DEF ResetBuffers, threadVars
      <4>2. line' \in Seq(Cell)
        BY <3>1, Dropped DEF ResetBuffers
      <4>3. DOMAIN inbox = 1..Len(inbox) /\ DOMAIN hand = 1..Len(hand) /\ DOMAIN line' = 1..Len(line')
        BY <4>2, Types, LenProperties
      <4>. QED
        BY <2>1, <4>1, <4>3 DEF Fresh
    <3>2. CASE ~ResetBuffers
      <4>1. pc \in {"clear", "send"}
        BY <1>1, <2>6, <3>2
           DEF Connect, Close, ClearBuffer, SendFails, Receive, ReadTimesOut, Call, vars,
               AttemptFails, Returns, Start, callVars
      <4>. QED
        BY <2>1, <2>4, <4>1 DEF FlowInv
    <3>. QED
      BY <3>1, <3>2
  <2>. QED
    BY <2>5, <2>6 DEF FlowInv
<1>2. CASE ReaderAppends
  <2>1. inbox' = inbox /\ line' = line /\ pc' = pc /\ hand' \in {hand, <<>>}
    BY <1>2, Appends
  <2>2. Len(line) \in Nat /\ Len(hand) \in Nat /\ EndOf(line, line)
    BY Types, EndOfSame
  <2>3. FlowOf(inbox, line, hand) => FlowOf(inbox, line, hand')
    BY <2>1, <2>2, FlowTakes
  <2>4. Fresh(hand) => Fresh(hand')
    BY <2>1, <2>2, FlowTakes
  <2>. QED
    BY <2>1, <2>3, <2>4 DEF FlowInv
<1>. QED
  BY <1>1, <1>2, FlowExecute, FlowReads, FlowSend DEF Next, CallStep, Reader

LEMMA FlowInit == Init => FlowInv
<1>1. SUFFICES ASSUME Init PROVE FlowInv
  OBVIOUS
<1>2. Len(inbox) = 0 /\ Len(line) = 0 /\ Len(hand) = 0 /\ pc = "idle"
  BY <1>1, EmptySeq DEF Init
<1>. QED
  BY <1>2 DEF FlowInv, FlowOf

-----------------------------------------------------------------------------
(* How much is on its way.                                                 *)
LEMMA FreshFew ==
  ASSUME NEW box, NEW ln, NEW hd, Len(box) \in Nat, Len(ln) \in Nat, Len(hd) \in Nat,
         FlowOf(box, ln, hd), Fresh(box), Fresh(ln), Fresh(hd)
  PROVE  3 * Len(box) + Len(ln) + Len(hd) <= 3
<1>1. Len(box) <= 1
  <2>1. Len(box) >= 1 => 1 \in 1..Len(box)
    OBVIOUS
  <2>2. Len(box) >= 1 => 1 = Len(box)
    BY <2>1 DEF FlowOf, Fresh
  <2>3. \A n \in Nat : (n >= 1 => 1 = n) => n <= 1
    OBVIOUS
  <2>. QED
    BY <2>2, <2>3
<1>2. Len(ln) >= 1 => box = <<>> /\ Len(ln) - 1 < 3
  <2>1. Len(ln) >= 1 => 1 \in 1..Len(ln)
    OBVIOUS
  <2>. QED
    BY <2>1 DEF FlowOf, Fresh
<1>3. Len(hd) >= 1 => box = <<>> /\ Len(hd) - 1 + Len(ln) < 3
  <2>1. Len(hd) >= 1 => 1 \in 1..Len(hd)
    OBVIOUS
  <2>. QED
    BY <2>1 DEF FlowOf, Fresh
<1>4. box = <<>> => Len(box) = 0
  BY EmptySeq
<1>. QED
  BY <1>1, <1>2, <1>3, <1>4

(* The buffer and the reader thread, but for what the thread appends.      *)
LEMMA BufferStep ==
  ASSUME TypeInv, [Next]_vars, ~ReaderAppends
  PROVE  /\ Len(buf') \in Nat /\ Len(buf') <= Len(buf)
         /\ thread # "waiting" => thread' # "waiting"
         /\ pc' = "send" => buf' = buf \/ buf' = <<>>
<1>. USE DEF threadVars, callVars, chargerVars, resultVars
<1>1. <<>> \in Seq(Cell) /\ Len(<<>>) = 0
  OBVIOUS
<1>2. Len(buf) \in Nat
  BY Types
<1>3. CASE Receive
  <2>1. call # None /\ Len(Incoming) >= Size[Sent.op]
    BY <1>3 DEF Receive, TypeInv, CallOK
  <2>2. /\ Len(Incoming) \in Nat /\ Len(Answer) \in 1..3 /\ Len(Rest) \in Nat
        /\ Len(Rest) = Len(Incoming) - Len(Answer)
    BY <2>1, Received, LenProperties
  <2>3. \A a, b, c : a \in Nat /\ b \in 1..3 /\ c = a - b => c <= a
    OBVIOUS
  <2>4. Len(Rest) <= Len(Incoming)
    BY <2>2, <2>3
  <2>5. Len(buf') \in Nat /\ Len(buf') <= Len(buf)
    BY <1>2, <1>3, <2>2, <2>4 DEF Receive, Incoming
  <2>6. thread # "waiting" => thread' # "waiting"
    BY <1>3 DEF Receive, Woken
  <2>7. pc' # "send"
    BY <1>3 DEF Receive, AttemptFails, Returns
  <2>. QED
    BY <2>5, <2>6, <2>7
<1>4. CASE ~Receive
  <2>1. /\ buf' \in {buf, <<>>}
        /\ thread' \in {thread, "none", "reading", "holding"}
    BY <1>4
       DEF Next, CallStep, Reader, Execute, ReaderReads, Call, Connect, Close, ResetBuffers,
           ClearBuffer, Cleared, Send, SendFails, ReadTimesOut, vars
  <2>. QED
    BY <1>1, <1>2, <2>1
<1>. QED
  BY <1>3, <1>4

LEMMA BoundedStep ==
  ASSUME TypeInv, FlowInv, Bounded, [Next]_vars
  PROVE  Bounded'
<1>1. /\ Len(inbox) \in Nat /\ Len(line) \in Nat /\ Len(hand) \in Nat /\ Len(buf) \in Nat
  BY Types
<1>2. Len(inbox') \in Nat /\ Len(line') \in Nat /\ Len(hand') \in Nat /\ Len(buf') \in Nat
  <2>1. inbox' \in Seq(Order) /\ line' \in Seq(Cell) /\ hand' \in Seq(Cell) /\ buf' \in Seq(Cell)
    BY TypeStep DEF TypeInv, TypeOK, Order
  <2>. QED
    BY <2>1, LenProperties
<1>. PICK u : u = Underway
  OBVIOUS
<1>. PICK v : v = Underway'
  OBVIOUS
<1>3. /\ u = 3 * Len(inbox) + Len(line) + Len(hand) /\ u \in Nat
      /\ v = 3 * Len(inbox') + Len(line') + Len(hand') /\ v \in Nat
  BY <1>1, <1>2 DEF Underway
<1>4. /\ pc = "clear" => u <= 3
      /\ pc = "send" => u + Len(buf) <= 3
      /\ u + Len(buf) <= 6
      /\ Capacity >= 6 => thread # "waiting"
  BY DEF Bounded
<1>5. SUFFICES /\ pc' = "clear" => v <= 3
               /\ pc' = "send" => v + Len(buf') <= 3
               /\ v + Len(buf') <= 6
               /\ Capacity >= 6 => thread' # "waiting"
  BY DEF Bounded
<1>6. CASE Execute
  <2>1. /\ Len(inbox') = Len(inbox) - 1 /\ hand' = hand /\ UNCHANGED <<thread, buf, pc>>
    BY <1>6, Executed DEF threadVars, callVars
  <2>2. Len(line') <= Len(line) + 3
    BY <1>6, Answered
  <2>3. v <= u
    BY <1>1, <1>2, <1>3, <2>1, <2>2
  <2>. QED
    BY <1>1, <1>3, <1>4, <2>1, <2>3
<1>7. CASE ReaderReads
  <2>1. hand = <<>> /\ inbox' = inbox /\ buf' = buf /\ pc' = pc
    BY <1>7, Reads
  <2>2. PICK n \in 1..Len(line) : Len(hand') = n /\ Len(line') = Len(line) - n
    BY <1>7, Reads
  <2>3. Len(hand) = 0
    BY <2>1, EmptySeq
  <2>4. v = u
    BY <1>1, <1>2, <1>3, <2>1, <2>2, <2>3
  <2>. QED
    BY <1>4, <1>7, <2>1, <2>4 DEF ReaderReads
<1>8. CASE ReaderAppends
  <2>1. inbox' = inbox /\ line' = line /\ pc' = pc
    BY <1>8, Appends
  <2>2. CASE UNCHANGED <<hand, buf>> /\ thread' = "waiting" /\ Len(buf) + Len(hand) > Capacity
    <3>1. v = u
      BY <1>3, <2>1, <2>2
    <3>2. Len(buf) + Len(hand) <= 6
      BY <1>1, <1>3, <1>4
    <3>3. Capacity \in Nat
      BY LinkAssumption
    <3>4. ~(Capacity >= 6)
      BY <1>1, <2>2, <3>2, <3>3
    <3>. QED
      BY <1>4, <2>1, <2>2, <3>1, <3>4
  <2>3. CASE hand' = <<>> /\ thread' = "reading" /\ Len(buf') = Len(buf) + Len(hand)
    <3>1. Len(hand') = 0
      BY <2>3, EmptySeq
    <3>2. v + Len(buf') = u + Len(buf) /\ v <= u
      BY <1>1, <1>2, <1>3, <2>1, <2>3, <3>1
    <3>. QED
      BY <1>3, <1>4, <2>1, <2>3, <3>2
  <2>. QED
    BY <1>8, <2>2, <2>3, Appends
<1>9. CASE Send
  <2>1. /\ Len(line') = Len(line) /\ Len(hand') = Len(hand)
        /\ Len(inbox') \in {Len(inbox), Len(inbox) + 1}
        /\ UNCHANGED <<thread, buf>>
    BY <1>9, Sends
  <2>2. pc = "send" /\ pc' = "await"
    BY <1>9 DEF Send
  <2>3. v <= u + 3
    BY <1>1, <1>3, <2>1
  <2>. QED
    BY <1>1, <1>3, <1>4, <2>1, <2>2, <2>3
<1>10. CASE \/ Connect \/ Close \/ ResetBuffers \/ ClearBuffer \/ SendFails \/ Receive
            \/ ReadTimesOut \/ (\E c \in Calls : Call(c)) \/ UNCHANGED vars
  <2>1. inbox' = inbox /\ EndOf(line', line) /\ hand' \in {hand, <<>>}
    BY <1>10, Takes
  <2>2. Len(line') <= Len(line) /\ Len(hand') <= Len(hand)
    BY <1>1, <2>1, FlowTakes
  <2>3. v <= u
    BY <1>1, <1>2, <1>3, <2>1, <2>2
  <2>4. CASE ReaderAppends
    BY <1>8, <2>4
  <2>5. CASE ~ReaderAppends
    <3>1. /\ Len(buf') <= Len(buf)
          /\ thread # "waiting" => thread' # "waiting"
      BY <2>5, BufferStep
    <3>2. v + Len(buf') <= 6
      BY <1>1, <1>2, <1>3, <1>4, <2>3, <3>1
    <3>3. pc' = "clear" => v <= 3
      <4>1. ASSUME pc' = "clear" PROVE v <= 3
        <5>1. FlowInv'
          BY FlowStep
        <5>2. FlowOf(inbox', line', hand') /\ Fresh(inbox') /\ Fresh(line') /\ Fresh(hand')
          BY <4>1, <5>1 DEF FlowInv
        <5>. QED
          BY <1>2, <1>3, <5>2, FreshFew
      <4>. QED
        BY <4>1
    <3>4. ASSUME pc' = "send" PROVE v + Len(buf') <= 3
      <4>1. \/ ClearBuffer
            \/ pc = "send"
        BY <1>10, <3>4 DEF Connect, Close, ResetBuffers, SendFails, Receive, ReadTimesOut, Call,
             vars, AttemptFails, Returns, Start, callVars
      <4>2. CASE ClearBuffer
        <5>1. buf' = <<>> /\ pc = "clear"
          BY <4>2 DEF ClearBuffer, Cleared
        <5>2. Len(buf') = 0
          BY <5>1, EmptySeq
        <5>. QED
          BY <1>3, <1>4, <2>3, <5>1, <5>2
      <4>3. CASE pc = "send"
        BY <1>1, <1>2, <1>3, <1>4, <2>3, <3>1, <4>3
      <4>. QED
        BY <4>1, <4>2, <4>3
    <3>. QED
      BY <1>4, <3>1, <3>2, <3>3, <3>4
  <2>. QED
    BY <2>4, <2>5
<1>. QED
  BY <1>6, <1>7, <1>8, <1>9, <1>10 DEF Next, CallStep, Reader

LEMMA BoundedInit == Init => Bounded
<1>1. SUFFICES ASSUME Init PROVE Bounded
  OBVIOUS
<1>2. Len(inbox) = 0 /\ Len(line) = 0 /\ Len(hand) = 0 /\ Len(buf) = 0
      /\ pc = "idle" /\ thread = "none"
  BY <1>1, EmptySeq DEF Init
<1>. QED
  BY <1>2 DEF Bounded, Underway

(* With room for two answers the reader thread never waits for any, so no  *)
(* read waits for a thread that waits for a read: SerialBuffer.append.     *)
THEOREM ReaderHasRoom == Capacity >= 6 => (Spec => []ReaderNeverWaits)
<1>. SUFFICES ASSUME Capacity >= 6 PROVE Spec => []ReaderNeverWaits
  OBVIOUS
<1>1. Init => TypeInv /\ FlowInv /\ Bounded
  BY TypeInit, FlowInit, BoundedInit
<1>2. TypeInv /\ FlowInv /\ Bounded /\ [Next]_vars => (TypeInv /\ FlowInv /\ Bounded)'
  BY TypeStep, FlowStep, BoundedStep
<1>3. Bounded => ReaderNeverWaits
  BY DEF Bounded, ReaderNeverWaits
<1>. QED
  BY <1>1, <1>2, <1>3, PTL DEF Spec

-----------------------------------------------------------------------------
(* What an answer says is so as soon as the command is carried out, and    *)
(* carrying out the command once more does not change that.                *)
LEMMA Effect ==
  ASSUME TypeInv, Execute
  PROVE  LET cmd == inbox[1].cmd
         IN  /\ Holds(AnswerTo(cmd), chMem', chActive')
             /\ \A a \in Answers : AnswersTo(a, cmd) /\ Holds(a, chMem, chActive) =>
                                     Holds(a, chMem', chActive')
<1>. PICK cmd : cmd = inbox[1].cmd
  OBVIOUS
<1>. PICK mem, act : mem = chMem /\ act = chActive
  OBVIOUS
<1>. PICK mem2, act2 : mem2 = chMem' /\ act2 = chActive'
  OBVIOUS
<1>1. /\ cmd \in Commands
      /\ mem2 = CASE cmd.op = "Ers" -> [mem EXCEPT ![cmd.on] = Erased]
                  [] cmd.op = "Wrt" -> [mem EXCEPT ![cmd.on] = cmd.data]
                  [] OTHER -> mem
      /\ act2 = IF cmd.op = "SelP" THEN cmd.on ELSE act
  BY Executed DEF Order
<1>2. mem \in [Regions -> Data \cup {Erased}]
  BY DEF TypeInv, TypeOK
<1>. PICK a : a = AnswerTo(cmd)
  OBVIOUS
<1>3. a = IF cmd.op = "Prs" THEN [cmd EXCEPT !.data = mem[cmd.on]] ELSE cmd
  BY DEF AnswerTo
<1>4. Holds(a, mem2, act2) /\ \A b \in Answers : AnswersTo(b, cmd) /\ Holds(b, mem, act) => Holds(b, mem2, act2)
  <2>1. CASE cmd.op = "Prs"
    <3>1. mem2 = mem /\ act2 = act /\ cmd \in [op : {"Prs"}, on : Regions, data : {None}]
      BY <1>1, <2>1 DEF Commands, Orders
    <3>2. a = [op |-> "Prs", on |-> cmd.on, data |-> mem[cmd.on]]
      BY <1>3, <2>1, <3>1
    <3>. QED
      BY <3>1, <3>2 DEF Holds
  <2>2. CASE cmd.op = "Ers"
    <3>1. cmd.on \in Regions
      BY <1>1, <2>2 DEF Commands, Orders
    <3>2. mem2[cmd.on] = Erased
      BY <1>1, <1>2, <2>2, <3>1
    <3>3. Holds(cmd, mem2, act2) /\ a = cmd
      BY <1>3, <2>2, <3>2 DEF Holds
    <3>. QED
      BY <2>2, <3>3 DEF AnswersTo
  <2>3. CASE cmd.op = "Wrt"
    <3>1. cmd.on \in Regions
      BY <1>1, <2>3 DEF Commands, Orders
    <3>2. mem2[cmd.on] = cmd.data
      BY <1>1, <1>2, <2>3, <3>1
    <3>3. Holds(cmd, mem2, act2) /\ a = cmd
      BY <1>3, <2>3, <3>2 DEF Holds
    <3>. QED
      BY <2>3, <3>3 DEF AnswersTo
  <2>4. CASE cmd.op \in {"SelP", "Se"}
    <3>1. Holds(cmd, mem2, act2) /\ a = cmd
      BY <1>1, <1>3, <2>4 DEF Holds
    <3>. QED
      BY <2>4, <3>1 DEF AnswersTo
  <2>5. cmd.op \in {"Prs", "Ers", "Wrt", "SelP", "Se"}
    BY <1>1 DEF Commands, Orders
  <2>. QED
    BY <2>1, <2>2, <2>3, <2>4, <2>5
<1>. QED
  BY <1>4

LEMMA AnswersExecute ==
  ASSUME TypeInv, FlowInv, AnswersInv, Execute
  PROVE  AnswersInv'
<1>. PICK o : o = inbox[1]
  OBVIOUS
<1>. PICK a : a = AnswerTo(o.cmd)
  OBVIOUS
<1>. PICK mem, act : mem = chMem /\ act = chActive
  OBVIOUS
<1>. PICK mem2, act2 : mem2 = chMem' /\ act2 = chActive'
  OBVIOUS
<1>. PICK cmd : cmd = Sent
  OBVIOUS
<1>1. /\ Len(inbox) >= 1 /\ Len(inbox) \in Nat /\ Len(inbox') = Len(inbox) - 1
      /\ \A j \in 1..Len(inbox') : inbox'[j] = inbox[j + 1] /\ j + 1 \in 1..Len(inbox)
      /\ inbox' \in Seq(Order) /\ a \in Answers
      /\ UNCHANGED <<hand, buf, pc, call, exch>>
  BY Executed, Types DEF threadVars, callVars
<1>2. /\ Len(line') \in Nat
      /\ \A i \in 1..Len(line') :
           \/ i \in 1..Len(line) /\ line'[i] = line[i]
           \/ line'[i].of = a /\ line'[i].late = o.late
  BY Answered
<1>3. inbox # <<>> /\ 1 \in 1..Len(inbox)
  <2>1. inbox # <<>>
    BY <1>1, EmptySeq
  <2>. QED
    BY <1>1, <2>1
<1>4. /\ Holds(a, mem2, act2)
      /\ \A b \in Answers : AnswersTo(b, o.cmd) /\ Holds(b, mem, act) => Holds(b, mem2, act2)
  BY Effect
<1>5. (\A i \in 1..Len(line) : line[i].late) /\ (\A i \in 1..Len(hand) : hand[i].late)
  BY <1>3 DEF FlowInv, FlowOf
<1>6. FreshHold(line', mem2, act2) /\ FreshHold(hand', mem2, act2)
  BY <1>1, <1>2, <1>4, <1>5 DEF FreshHold
<1>7. ASSUME pc' = "send" PROVE AllHold(buf', mem2, act2) /\ (buf' # <<>> => inbox' = <<>>)
  <2>1. buf = <<>>
    BY <1>1, <1>3, <1>7 DEF AnswersInv
  <2>2. Len(buf') = 0 /\ buf' = <<>>
    BY <1>1, <2>1, EmptySeq
  <2>. QED
    BY <2>2 DEF AllHold
<1>8. ASSUME pc' = "await" PROVE AwaitingFor(cmd, inbox', line', hand', buf', mem2, act2)
  <2>1. AwaitingFor(cmd, inbox, line, hand, buf, mem, act)
    BY <1>1, <1>8 DEF AnswersInv
  <2>2. \A j \in 1..Len(inbox') : ~inbox'[j].late /\ inbox'[j].cmd = cmd
    <3>1. ASSUME NEW j \in 1..Len(inbox') PROVE ~inbox'[j].late /\ inbox'[j].cmd = cmd
      <4>1. inbox'[j] = inbox[j + 1] /\ j + 1 \in 1..Len(inbox) /\ j + 1 # 1
        BY <1>1
      <4>2. ~inbox[j + 1].late
        BY <2>1, <4>1 DEF AwaitingFor
      <4>. QED
        BY <2>1, <4>1, <4>2 DEF AwaitingFor
    <3>. QED
      BY <3>1
  <2>3. CASE o.late
    <3>1. line = <<>> /\ hand = <<>> /\ buf = <<>>
      BY <1>3, <2>1, <2>3 DEF AwaitingFor
    <3>2. Len(line) = 0 /\ Len(hand') = 0 /\ Len(buf') = 0
      BY <1>1, <3>1, EmptySeq
    <3>3. Trusted(hand', cmd, mem2, act2, inbox') /\ Trusted(buf', cmd, mem2, act2, inbox')
      BY <3>2 DEF Trusted
    <3>4. Trusted(line', cmd, mem2, act2, inbox')
      BY <1>2, <1>4, <2>2, <3>2 DEF Trusted
    <3>. QED
      BY <2>2, <3>3, <3>4 DEF AwaitingFor
  <2>4. CASE ~o.late
    <3>1. o.cmd = cmd
      BY <1>3, <2>1, <2>4 DEF AwaitingFor
    <3>2. \A i \in 1..Len(line) : line[i].of \in Answers
      BY Types DEF Cell
    <3>3. \A i \in 1..Len(hand) : hand[i].of \in Answers
      BY Types DEF Cell
    <3>4. \A i \in 1..Len(buf) : buf[i].of \in Answers
      BY Types DEF Cell
    <3>5. Trusted(line', cmd, mem2, act2, inbox')
      BY <1>2, <1>4, <2>1, <2>2, <3>1, <3>2 DEF Trusted, AwaitingFor
    <3>6. Trusted(hand, cmd, mem2, act2, inbox')
      BY <1>4, <2>1, <2>2, <3>1, <3>3 DEF Trusted, AwaitingFor
    <3>7. Trusted(buf, cmd, mem2, act2, inbox')
      BY <1>4, <2>1, <2>2, <3>1, <3>4 DEF Trusted, AwaitingFor
    <3>. QED
      BY <1>1, <2>2, <3>5, <3>6, <3>7 DEF AwaitingFor
  <2>. QED
    BY <2>3, <2>4
<1>9. Sent' = cmd
  BY <1>1 DEF Sent
<1>. QED
  BY <1>6, <1>7, <1>8, <1>9 DEF AnswersInv

LEMMA AnswersReads ==
  ASSUME TypeInv, FlowInv, AnswersInv, ReaderReads
  PROVE  AnswersInv'
<1>. PICK mem, act : mem = chMem /\ act = chActive
  OBVIOUS
<1>. PICK cmd : cmd = Sent
  OBVIOUS
<1>1. hand = <<>> /\ inbox' = inbox /\ buf' = buf /\ pc' = pc /\ mem = chMem' /\ act = chActive'
  BY Reads
<1>2. PICK n \in 1..Len(line) :
        /\ \A i \in 1..Len(hand') : hand'[i] = line[i] /\ i \in 1..Len(line)
        /\ \A i \in 1..Len(line') : line'[i] = line[i + n] /\ i + n \in 1..Len(line)
  BY Reads
<1>3. FreshHold(line', mem, act) /\ FreshHold(hand', mem, act)
  <2>1. FreshHold(line, mem, act)
    BY DEF AnswersInv
  <2>. QED
    BY <1>2, <2>1 DEF FreshHold
<1>4. ASSUME pc' = "await" PROVE AwaitingFor(cmd, inbox', line', hand', buf', mem, act)
  <2>1. AwaitingFor(cmd, inbox, line, hand, buf, mem, act)
    BY <1>1, <1>4 DEF AnswersInv
  <2>2. line # <<>>
    <3>1. line = <<>> => Len(line) = 0
      BY EmptySeq
    <3>. QED
      BY <1>2, <3>1
  <2>3. \A j \in 1..Len(inbox) : ~inbox[j].late
    BY <2>1, <2>2 DEF AwaitingFor
  <2>4. Trusted(line', cmd, mem, act, inbox) /\ Trusted(hand', cmd, mem, act, inbox)
    BY <1>2, <2>1 DEF Trusted, AwaitingFor
  <2>. QED
    BY <1>1, <2>1, <2>3, <2>4 DEF AwaitingFor
<1>5. Sent' = cmd
  BY DEF Sent, ReaderReads, callVars
<1>6. pc' = "send" => AllHold(buf', mem, act) /\ (buf' # <<>> => inbox' = <<>>)
  BY <1>1 DEF AnswersInv
<1>. QED
  BY <1>1, <1>3, <1>4, <1>5, <1>6 DEF AnswersInv

LEMMA AnswersAppends ==
  ASSUME TypeInv, FlowInv, AnswersInv, ReaderAppends
  PROVE  AnswersInv'
<1>. PICK mem, act : mem = chMem /\ act = chActive
  OBVIOUS
<1>. PICK cmd : cmd = Sent
  OBVIOUS
<1>1. inbox' = inbox /\ line' = line /\ pc' = pc /\ mem = chMem' /\ act = chActive'
  BY Appends
<1>2. Sent' = cmd
  BY DEF Sent, ReaderAppends, callVars
<1>3. CASE UNCHANGED <<hand, buf>>
  BY <1>1, <1>2, <1>3 DEF AnswersInv
<1>4. CASE /\ hand' = <<>>
           /\ \A i \in 1..Len(buf') :
                \/ i \in 1..Len(buf) /\ buf'[i] = buf[i]
                \/ i - Len(buf) \in 1..Len(hand) /\ buf'[i] = hand[i - Len(buf)]
  <2>1. Len(hand') = 0
    BY <1>4, EmptySeq
  <2>2. hand # <<>> /\ Len(hand) \in Nat
    BY Types DEF ReaderAppends, TypeInv, TypeOK
  <2>3. FreshHold(line', mem, act) /\ FreshHold(hand', mem, act)
    BY <1>1, <2>1 DEF AnswersInv, FreshHold
  <2>4. ASSUME pc' = "send" PROVE AllHold(buf', mem, act) /\ inbox' = <<>>
    <3>1. Fresh(hand) /\ AllHold(buf, mem, act) /\ FreshHold(hand, mem, act)
      BY <1>1, <2>4 DEF FlowInv, AnswersInv
    <3>2. AllHold(buf', mem, act)
      BY <1>4, <3>1 DEF Fresh, AllHold, FreshHold
    <3>3. Len(hand) # 0
      BY <2>2, Types, EmptySeq
    <3>4. 1 \in 1..Len(hand)
      BY <2>2, <3>3
    <3>5. inbox = <<>>
      BY <3>1, <3>4 DEF Fresh, FlowInv, FlowOf
    <3>. QED
      BY <1>1, <3>2, <3>5
  <2>5. ASSUME pc' = "await" PROVE AwaitingFor(cmd, inbox', line', hand', buf', mem, act)
    <3>1. AwaitingFor(cmd, inbox, line, hand, buf, mem, act)
      BY <1>1, <2>5 DEF AnswersInv
    <3>2. \A j \in 1..Len(inbox) : ~inbox[j].late
      BY <2>2, <3>1 DEF AwaitingFor
    <3>3. Trusted(hand', cmd, mem, act, inbox)
      BY <2>1 DEF Trusted
    <3>4. Trusted(buf', cmd, mem, act, inbox)
      BY <1>4, <3>1 DEF Trusted, AwaitingFor
    <3>. QED
      BY <1>1, <3>1, <3>2, <3>3, <3>4 DEF AwaitingFor
  <2>. QED
    BY <1>1, <1>2, <2>3, <2>4, <2>5 DEF AnswersInv
<1>. QED
  BY <1>3, <1>4, Appends

LEMMA AnswersSend ==
  ASSUME TypeInv, FlowInv, AnswersInv, Send
  PROVE  AnswersInv'
<1>. PICK mem, act : mem = chMem /\ act = chActive
  OBVIOUS
<1>. PICK cmd : cmd = Sent
  OBVIOUS
<1>1. /\ Len(line') = Len(line) /\ Len(hand') = Len(hand)
      /\ \A i \in 1..Len(line') : line'[i].late /\ line'[i].of = line[i].of
      /\ \A i \in 1..Len(hand') : hand'[i].late /\ hand'[i].of = hand[i].of
      /\ \A i \in 1..Len(inbox) : inbox'[i].late
      /\ \A i \in 1..Len(inbox') :
           i \notin 1..Len(inbox) => inbox'[i] = [cmd |-> cmd, late |-> FALSE]
      /\ UNCHANGED <<thread, buf, call, exch>> /\ mem = chMem' /\ act = chActive'
  BY Sends
<1>2. pc = "send" /\ pc' = "await" /\ Sent' = cmd
  BY <1>1 DEF Send, Sent
<1>3. Fresh(inbox) /\ Fresh(line) /\ Fresh(hand) /\ FlowOf(inbox, line, hand)
  BY <1>2 DEF FlowInv
<1>4. /\ FreshHold(line, mem, act) /\ FreshHold(hand, mem, act)
      /\ AllHold(buf, mem, act) /\ (buf # <<>> => inbox = <<>>)
  BY <1>2 DEF AnswersInv
<1>5. FreshHold(line', mem, act) /\ FreshHold(hand', mem, act)
  BY <1>1 DEF FreshHold
<1>6. \A j \in 1..Len(inbox') : ~inbox'[j].late => inbox'[j].cmd = cmd
  <2>1. ASSUME NEW j \in 1..Len(inbox'), ~inbox'[j].late PROVE inbox'[j].cmd = cmd
    <3>1. inbox'[j] = [cmd |-> cmd, late |-> FALSE]
      BY <1>1, <2>1
    <3>. QED
      BY <3>1
  <2>. QED
    BY <2>1
<1>7. CASE inbox = <<>>
  <2>1. Len(inbox) = 0
    BY <1>7, EmptySeq
  <2>2. \A j \in 1..Len(inbox') : ~inbox'[j].late /\ inbox'[j].cmd = cmd
    <3>1. ASSUME NEW j \in 1..Len(inbox') PROVE ~inbox'[j].late /\ inbox'[j].cmd = cmd
      <4>2. j \notin 1..Len(inbox)
        BY <2>1
      <4>1. inbox'[j] = [cmd |-> cmd, late |-> FALSE]
        BY <1>1, <4>2
      <4>. QED
        BY <4>1
    <3>. QED
      BY <3>1
  <2>3. Trusted(line', cmd, mem, act, inbox')
    BY <1>1, <1>3, <1>4, <2>2 DEF Trusted, Fresh, FreshHold
  <2>4. Trusted(hand', cmd, mem, act, inbox')
    BY <1>1, <1>3, <1>4, <2>2 DEF Trusted, Fresh, FreshHold
  <2>5. Trusted(buf, cmd, mem, act, inbox')
    BY <1>4, <2>2 DEF Trusted, AllHold
  <2>6. AwaitingFor(cmd, inbox', line', hand', buf', mem, act)
    BY <1>1, <2>2, <2>3, <2>4, <2>5 DEF AwaitingFor
  <2>. QED
    BY <1>1, <1>2, <1>5, <2>6 DEF AnswersInv
<1>8. CASE inbox # <<>>
  <2>1. Len(line) \in Nat /\ Len(hand) \in Nat /\ Len(inbox) \in Nat
    BY Types
  <2>2. Len(line) = 0 /\ Len(hand) = 0
    <3>1. Len(line) # 0 => 1 \in 1..Len(line)
      BY <2>1
    <3>2. Len(hand) # 0 => 1 \in 1..Len(hand)
      BY <2>1
    <3>. QED
      BY <1>3, <1>8, <3>1, <3>2 DEF Fresh, FlowOf
  <2>3. line' = <<>> /\ hand' = <<>> /\ buf' = <<>>
    <3>1. line' \in Seq(Cell) /\ hand' \in Seq(Cell)
      BY TypeSend DEF TypeOK
    <3>. QED
      BY <1>1, <1>4, <1>8, <2>2, <3>1, EmptySeq
  <2>4. \A j \in 1..Len(inbox) : j = 1
    BY <1>3, <2>1 DEF Fresh, FlowOf
  <2>5. ASSUME NEW j \in 1..Len(inbox'), inbox'[j].late PROVE j = 1
    <3>1. j \in 1..Len(inbox)
      <4>1. [cmd |-> cmd, late |-> FALSE].late = FALSE
        OBVIOUS
      <4>. QED
        BY <1>1, <2>5, <4>1
    <3>. QED
      BY <2>4, <3>1
  <2>6. Len(line') = 0 /\ Len(hand') = 0 /\ Len(buf') = 0
    BY <2>3, EmptySeq
  <2>7. AwaitingFor(cmd, inbox', line', hand', buf', mem, act)
    BY <1>6, <2>3, <2>5, <2>6 DEF AwaitingFor, Trusted
  <2>. QED
    BY <1>1, <1>2, <1>5, <2>7 DEF AnswersInv
<1>. QED
  BY <1>7, <1>8

LEMMA AnswersTaking ==
  ASSUME TypeInv, AnswersInv,
         Connect \/ Close \/ ResetBuffers \/ ClearBuffer \/ SendFails \/ Receive
           \/ ReadTimesOut \/ (\E c \in Calls : Call(c)) \/ UNCHANGED vars
  PROVE  AnswersInv'
<1>. PICK mem, act : mem = chMem /\ act = chActive
  OBVIOUS
<1>1. /\ inbox' = inbox /\ EndOf(line', line) /\ hand' \in {hand, <<>>}
      /\ mem = chMem' /\ act = chActive'
  BY Takes
<1>2. FreshHold(line', mem, act) /\ FreshHold(hand', mem, act)
  <2>1. FreshHold(line, mem, act) /\ FreshHold(hand, mem, act)
    BY DEF AnswersInv
  <2>2. FreshHold(hand', mem, act)
    <3>1. hand' = <<>> => Len(hand') = 0
      BY EmptySeq
    <3>. QED
      BY <1>1, <2>1, <3>1 DEF FreshHold
  <2>3. FreshHold(line', mem, act)
    <3>1. PICK n \in 0..Len(line) :
            \A i \in 1..Len(line') : line'[i] = line[i + n] /\ i + n \in 1..Len(line)
      BY <1>1 DEF EndOf
    <3>. QED
      BY <2>1, <3>1 DEF FreshHold
  <2>. QED
    BY <2>2, <2>3
<1>3. \/ UNCHANGED vars \/ pc' \notin {"send", "await"}
      \/ pc' = "send" /\ buf' = <<>>
  BY DEF Connect, Close, ResetBuffers, ClearBuffer, Cleared, SendFails, Receive, ReadTimesOut, Call,
         AttemptFails, Returns, Start, callVars, TypeInv, CallOK
<1>4. CASE UNCHANGED vars
  BY <1>4 DEF vars, AnswersInv, Sent
<1>5. CASE pc' \notin {"send", "await"}
  BY <1>1, <1>2, <1>5 DEF AnswersInv
<1>6. CASE pc' = "send" /\ buf' = <<>>
  <2>1. Len(buf') = 0
    BY <1>6, EmptySeq
  <2>. QED
    BY <1>1, <1>2, <1>6, <2>1 DEF AnswersInv, AllHold
<1>. QED
  BY <1>3, <1>4, <1>5, <1>6

LEMMA AnswersStep ==
  ASSUME TypeInv, FlowInv, AnswersInv, [Next]_vars
  PROVE  AnswersInv'
BY AnswersExecute, AnswersReads, AnswersAppends, AnswersSend, AnswersTaking
   DEF Next, CallStep, Reader

LEMMA AnswersInit == Init => AnswersInv
<1>1. SUFFICES ASSUME Init PROVE AnswersInv
  OBVIOUS
<1>2. Len(line) = 0 /\ Len(hand) = 0 /\ pc = "idle"
  BY <1>1, EmptySeq DEF Init
<1>. QED
  BY <1>2 DEF AnswersInv, FreshHold

-----------------------------------------------------------------------------
(* What a call that returns has achieved.                                  *)

(* The cell by which an answer is accepted can be trusted.                 *)
LEMMA Accepted ==
  ASSUME TypeInv, AnswersInv, Receive, Verified(Answer), Sent.op \in {"SelP", "Wrt", "Prs"}
  PROVE  LET a == IF Sent.op = "Prs" THEN Answer[1].of ELSE Answer[Len(Answer)].of
         IN  /\ AnswersTo(a, Sent) /\ Holds(a, chMem, chActive)
             /\ \A j \in 1..Len(inbox) : inbox[j].cmd = Sent
<1>. PICK cmd : cmd = Sent
  OBVIOUS
<1>. PICK cells : cells = Answer
  OBVIOUS
<1>. PICK mem, act : mem = chMem /\ act = chActive
  OBVIOUS
<1>1. call # None /\ Len(Incoming) >= Size[Sent.op] /\ pc = "await"
  BY DEF Receive, TypeInv, CallOK
<1>2. /\ Len(cells) \in 1..3
      /\ \A i \in 1..Len(cells) : i \in 1..Len(Incoming) /\ cells[i] = Incoming[i]
  BY <1>1, Received
<1>3. Trusted(Incoming, cmd, mem, act, inbox)
  BY <1>1 DEF AnswersInv, AwaitingFor, Incoming
<1>. PICK k : k = IF cmd.op = "Prs" THEN 1 ELSE Len(cells)
  OBVIOUS
<1>4. k \in 1..Len(cells)
  <2>1. \A l \in 1..3 : 1 \in 1..l /\ l \in 1..l
    OBVIOUS
  <2>. QED
    BY <1>2, <2>1
<1>5. AnswersTo(cells[k].of, cmd)
  <2>1. CASE cmd.op = "Prs"
    BY <2>1 DEF Verified, AnswersTo
  <2>2. CASE cmd.op \in {"SelP", "Wrt"}
    BY <2>2 DEF Verified, AnswersTo, Last
  <2>. QED
    BY <2>1, <2>2
<1>6. Holds(cells[k].of, mem, act) /\ \A j \in 1..Len(inbox) : inbox[j].cmd = cmd
  BY <1>2, <1>3, <1>4, <1>5 DEF Trusted
<1>. QED
  BY <1>5, <1>6

LEMMA ResultsReceive ==
  ASSUME TypeInv, AnswersInv, ResultsInv, Receive
  PROVE  ResultsInv' /\ (loaded = None /\ loaded' # None => loaded'.data = chMem[loaded'.on])
<1>. PICK mem, act : mem = chMem /\ act = chActive
  OBVIOUS
<1>1. call # None /\ Len(Incoming) >= Size[Sent.op] /\ pc = "await"
      /\ inbox' = inbox /\ mem = chMem' /\ act = chActive'
  BY DEF Receive, TypeInv, CallOK
<1>2. StoredOK(stored, mem, inbox, call) /\ SelectedOK(selected, act, inbox, call)
  BY DEF ResultsInv
<1>3. \A c \in {call, None} : StoredOK(stored, mem, inbox, c) /\ SelectedOK(selected, act, inbox, c)
  BY <1>1, <1>2 DEF StoredOK, SelectedOK
<1>4. CASE ~(Verified(Answer) /\ ~(exch < Len(Exchanges(call))))
  <2>1. call' \in {call, None} /\ UNCHANGED <<stored, selected, loaded>>
    BY <1>4 DEF Receive, AttemptFails, resultVars
  <2>. QED
    BY <1>1, <1>3, <2>1 DEF ResultsInv
<1>5. CASE Verified(Answer) /\ ~(exch < Len(Exchanges(call)))
  <2>. PICK c : c = call
    OBVIOUS
  <2>. PICK cmd : cmd = Sent
    OBVIOUS
  <2>1. /\ call' = None
        /\ stored' = IF c.op = "store" THEN [stored EXCEPT ![c.on] = c.data] ELSE stored
        /\ selected' = IF c.op = "select" THEN c.on ELSE selected
        /\ loaded' = IF c.op = "load" THEN [on |-> c.on, data |-> Answer[1].of.data] ELSE loaded
    BY <1>5 DEF Receive, Returns
  <2>2. c \in AllCallsMade /\ c # None /\ exch = Len(Exchanges(c)) /\ cmd = Exchanges(c)[Len(Exchanges(c))]
    <3>1. c \in AllCallsMade /\ exch \in 1..Len(Exchanges(c)) /\ cmd = Exchanges(c)[exch]
      BY <1>1, CallTypes
    <3>2. Len(Exchanges(c)) \in 1..2
      BY <3>1, ExchangeTypes
    <3>3. \A e, n : n \in 1..2 /\ e \in 1..n /\ ~(e < n) => e = n
      OBVIOUS
    <3>4. exch = Len(Exchanges(c))
      BY <1>5, <3>1, <3>2, <3>3
    <3>. QED
      BY <1>1, <3>1, <3>4
  <2>. PICK a : a = IF cmd.op = "Prs" THEN Answer[1].of ELSE Answer[Len(Answer)].of
    OBVIOUS
  <2>3. cmd.op \in {"SelP", "Wrt", "Prs"} =>
          /\ AnswersTo(a, cmd) /\ Holds(a, mem, act)
          /\ \A j \in 1..Len(inbox) : inbox[j].cmd = cmd
    BY <1>5, Accepted
  <2>4. CASE c.op = "store"
    <3>1. cmd = [op |-> "Wrt", on |-> c.on, data |-> c.data] /\ c.on \in Regions
      <4>1. /\ Len(Exchanges(c)) = 2
            /\ Exchanges(c)[2] = [op |-> "Wrt", on |-> c.on, data |-> c.data]
        BY <2>2, <2>4, ExchangeTypes
      <4>2. c.on \in Regions
        BY <2>2, <2>4 DEF AllCallsMade, AllCalls, ConnectCall
      <4>. QED
        BY <2>2, <4>1, <4>2
    <3>2. a = cmd /\ Holds(cmd, mem, act) /\ \A j \in 1..Len(inbox) : inbox[j].cmd = cmd
      BY <2>3, <3>1 DEF AnswersTo
    <3>3. mem[c.on] = c.data
      BY <3>1, <3>2 DEF Holds
    <3>4. stored' = [stored EXCEPT ![c.on] = c.data] /\ stored \in [Regions -> Data \cup {None}]
          /\ selected' = selected /\ loaded' = loaded
      BY <2>1, <2>4 DEF TypeInv, TypeOK
    <3>5. ASSUME NEW r \in Regions, stored'[r] # None
          PROVE  /\ mem[r] = stored'[r]
                 /\ \A j \in 1..Len(inbox) :
                      inbox[j].cmd.op \in {"Ers", "Wrt"} /\ inbox[j].cmd.on = r =>
                        inbox[j].cmd.op = "Wrt" /\ inbox[j].cmd.data = stored'[r]
      <4>1. CASE r = c.on
        <5>1. stored'[r] = c.data
          BY <3>1, <3>4, <4>1
        <5>. QED
          BY <3>1, <3>2, <3>3, <4>1, <5>1
      <4>2. CASE r # c.on
        <5>1. stored'[r] = stored[r]
          BY <3>1, <3>4, <4>2
        <5>. QED
          BY <1>2, <3>5, <5>1 DEF StoredOK
      <4>. QED
        BY <4>1, <4>2
    <3>6. StoredOK(stored', mem, inbox, None)
      BY <3>5 DEF StoredOK
    <3>. QED
      BY <1>1, <1>3, <2>1, <3>4, <3>6 DEF ResultsInv
  <2>5. CASE c.op = "select"
    <3>1. cmd = [op |-> "SelP", on |-> c.on, data |-> None]
      <4>1. /\ Len(Exchanges(c)) = 1
            /\ Exchanges(c)[1] = [op |-> "SelP", on |-> c.on, data |-> None]
        BY <2>2, <2>5, ExchangeTypes
      <4>. QED
        BY <2>2, <4>1
    <3>2. a = cmd /\ Holds(cmd, mem, act) /\ \A j \in 1..Len(inbox) : inbox[j].cmd = cmd
      BY <2>3, <3>1 DEF AnswersTo
    <3>3. act = c.on /\ stored' = stored /\ loaded' = loaded /\ selected' = c.on
      BY <2>1, <2>5, <3>1, <3>2 DEF Holds
    <3>4. SelectedOK(selected', act, inbox, None)
      BY <3>1, <3>2, <3>3 DEF SelectedOK
    <3>. QED
      BY <1>1, <1>3, <2>1, <3>3, <3>4 DEF ResultsInv
  <2>6. CASE c.op = "load"
    <3>1. cmd = [op |-> "Prs", on |-> c.on, data |-> None]
      <4>1. /\ Len(Exchanges(c)) = 1
            /\ Exchanges(c)[1] = [op |-> "Prs", on |-> c.on, data |-> None]
        BY <2>2, <2>6, ExchangeTypes
      <4>. QED
        BY <2>2, <4>1
    <3>2. a = Answer[1].of /\ a.op = "Prs" /\ a.on = c.on /\ Holds(a, mem, act)
      BY <2>3, <3>1 DEF AnswersTo
    <3>3. mem[c.on] = a.data
      BY <3>2 DEF Holds
    <3>4. stored' = stored /\ selected' = selected /\ loaded' = [on |-> c.on, data |-> a.data]
      BY <2>1, <2>6, <3>2
    <3>5. loaded'.data = mem[loaded'.on]
      BY <3>3, <3>4
    <3>. QED
      BY <1>1, <1>3, <2>1, <3>4, <3>5 DEF ResultsInv
  <2>7. CASE c.op \notin {"store", "select", "load"}
    <3>1. stored' = stored /\ selected' = selected /\ loaded' = loaded
      BY <2>1, <2>7
    <3>. QED
      BY <1>1, <1>3, <2>1, <3>1 DEF ResultsInv
  <2>. QED
    BY <2>4, <2>5, <2>6, <2>7
<1>. QED
  BY <1>4, <1>5

LEMMA ResultsExecute ==
  ASSUME TypeInv, ResultsInv, Execute
  PROVE  ResultsInv' /\ loaded' = loaded
<1>. PICK o : o = inbox[1]
  OBVIOUS
<1>. PICK mem, act : mem = chMem /\ act = chActive
  OBVIOUS
<1>. PICK mem2, act2 : mem2 = chMem' /\ act2 = chActive'
  OBVIOUS
<1>1. /\ Len(inbox) >= 1 /\ o \in Order
      /\ \A j \in 1..Len(inbox') : inbox'[j] = inbox[j + 1] /\ j + 1 \in 1..Len(inbox)
      /\ mem2 = CASE o.cmd.op = "Ers" -> [mem EXCEPT ![o.cmd.on] = Erased]
                  [] o.cmd.op = "Wrt" -> [mem EXCEPT ![o.cmd.on] = o.cmd.data]
                  [] OTHER -> mem
      /\ act2 = IF o.cmd.op = "SelP" THEN o.cmd.on ELSE act
      /\ UNCHANGED <<call, stored, selected, loaded>>
  BY Executed DEF callVars, resultVars
<1>2. mem \in [Regions -> Data \cup {Erased}]
  BY DEF TypeInv, TypeOK
<1>3. 1 \in 1..Len(inbox)
  BY <1>1, Types
<1>4. StoredOK(stored, mem, inbox, call) /\ SelectedOK(selected, act, inbox, call)
  BY DEF ResultsInv
<1>5. ASSUME NEW r \in Regions, stored[r] # None PROVE mem2[r] = stored[r]
  <2>1. mem[r] = stored[r]
    BY <1>4, <1>5 DEF StoredOK
  <2>2. o.cmd.op \in {"Ers", "Wrt"} /\ o.cmd.on = r => o.cmd.op = "Wrt" /\ o.cmd.data = stored[r]
    BY <1>3, <1>4, <1>5 DEF StoredOK
  <2>3. CASE o.cmd.op \in {"Ers", "Wrt"} /\ o.cmd.on = r
    BY <1>1, <1>2, <2>2, <2>3
  <2>4. CASE o.cmd.op \in {"Ers", "Wrt"} /\ o.cmd.on # r
    BY <1>1, <1>2, <2>1, <2>4
  <2>5. CASE o.cmd.op \notin {"Ers", "Wrt"}
    BY <1>1, <2>1, <2>5
  <2>. QED
    BY <2>3, <2>4, <2>5
<1>6. StoredOK(stored, mem2, inbox', call)
  BY <1>1, <1>4, <1>5 DEF StoredOK
<1>7. SelectedOK(selected, act2, inbox', call)
  BY <1>1, <1>3, <1>4 DEF SelectedOK
<1>. QED
  BY <1>1, <1>6, <1>7 DEF ResultsInv

LEMMA ResultsSend ==
  ASSUME TypeInv, ResultsInv, Send
  PROVE  ResultsInv' /\ loaded' = loaded
<1>. PICK c : c = call
  OBVIOUS
<1>. PICK cmd : cmd = Sent
  OBVIOUS
<1>1. /\ \A i \in 1..Len(inbox) : inbox'[i].cmd = inbox[i].cmd
      /\ \A i \in 1..Len(inbox') :
           i \notin 1..Len(inbox) => inbox'[i] = [cmd |-> cmd, late |-> FALSE]
      /\ UNCHANGED <<call, chMem, chActive, stored, selected, loaded>>
  BY Sends DEF Send, resultVars
<1>2. c \in AllCallsMade /\ c # None /\ exch \in 1..Len(Exchanges(c)) /\ cmd = Exchanges(c)[exch]
  BY CallTypes DEF Send, TypeInv, CallOK
<1>3. cmd.op \in {"Ers", "Wrt"} => c.op = "store" /\ c.on = cmd.on
  <2>1. /\ c.op # "store" => \A i \in 1..Len(Exchanges(c)) : Exchanges(c)[i].op \in {"SelP", "Se", "Prs"}
        /\ c.op = "store" => \A i \in 1..Len(Exchanges(c)) : Exchanges(c)[i].on = c.on
    BY <1>2, ExchangeTypes
  <2>2. /\ c.op # "store" => cmd.op \in {"SelP", "Se", "Prs"}
        /\ c.op = "store" => cmd.on = c.on
    BY <1>2, <2>1
  <2>. QED
    BY <2>2
<1>4. cmd.op = "SelP" => c.op = "select"
  <2>1. c.op # "select" => \A i \in 1..Len(Exchanges(c)) : Exchanges(c)[i].op # "SelP"
    BY <1>2, ExchangeTypes
  <2>. QED
    BY <1>2, <2>1
<1>5. \A i \in 1..Len(inbox') : \/ i \in 1..Len(inbox) /\ inbox'[i].cmd = inbox[i].cmd
                                \/ inbox'[i].cmd = cmd
  <2>1. [cmd |-> cmd, late |-> FALSE].cmd = cmd
    OBVIOUS
  <2>. QED
    BY <1>1, <2>1
<1>6. StoredOK(stored, chMem, inbox, c) /\ SelectedOK(selected, chActive, inbox, c)
  BY DEF ResultsInv
<1>7. StoredOK(stored, chMem, inbox', c)
  BY <1>2, <1>3, <1>5, <1>6 DEF StoredOK
<1>8. SelectedOK(selected, chActive, inbox', c)
  BY <1>2, <1>4, <1>5, <1>6 DEF SelectedOK
<1>. QED
  BY <1>1, <1>7, <1>8 DEF ResultsInv

LEMMA ResultsCall ==
  ASSUME TypeInv, ResultsInv, NEW c \in Calls, Call(c)
  PROVE  ResultsInv' /\ loaded' = None
<1>1. /\ call' = c /\ UNCHANGED <<inbox, chMem, chActive>> /\ loaded' = None
      /\ stored' = IF c.op = "store" THEN [stored EXCEPT ![c.on] = None] ELSE stored
      /\ selected' = IF c.op = "select" THEN None ELSE selected
  BY DEF Call, Start, chargerVars
<1>2. StoredOK(stored, chMem, inbox, call) /\ SelectedOK(selected, chActive, inbox, call)
  BY DEF ResultsInv
<1>3. StoredOK(stored', chMem, inbox, c)
  <2>1. stored \in [Regions -> Data \cup {None}]
    BY DEF TypeInv, TypeOK
  <2>2. \A r \in Regions : stored'[r] # None => stored'[r] = stored[r] /\ ~(c.op = "store" /\ c.on = r)
    BY <1>1, <2>1
  <2>. QED
    BY <1>2, <2>2 DEF StoredOK
<1>4. SelectedOK(selected', chActive, inbox, c)
  BY <1>1, <1>2 DEF SelectedOK
<1>. QED
  BY <1>1, <1>3, <1>4 DEF ResultsInv

LEMMA ResultsOthers ==
  ASSUME TypeInv, ResultsInv,
         \/ Reader \/ Connect \/ Close \/ ResetBuffers \/ ClearBuffer \/ SendFails \/ ReadTimesOut
         \/ UNCHANGED vars
  PROVE  ResultsInv' /\ loaded' = loaded
<1>1. /\ call' \in {call, None, ConnectCall}
      /\ UNCHANGED <<inbox, chMem, chActive, stored, selected, loaded>>
  BY DEF Reader, ReaderReads, ReaderAppends, Connect, Close, ResetBuffers, ClearBuffer, SendFails,
         ReadTimesOut, AttemptFails, Start, vars, callVars, chargerVars, resultVars
<1>2. StoredOK(stored, chMem, inbox, call) /\ SelectedOK(selected, chActive, inbox, call)
  BY DEF ResultsInv
<1>3. ConnectCall.op = "connect"
  BY DEF ConnectCall
<1>4. StoredOK(stored, chMem, inbox, call') /\ SelectedOK(selected, chActive, inbox, call')
  BY <1>1, <1>2, <1>3 DEF StoredOK, SelectedOK
<1>. QED
  BY <1>1, <1>4 DEF ResultsInv

LEMMA ResultsStep ==
  ASSUME TypeInv, FlowInv, AnswersInv, ResultsInv, [Next]_vars
  PROVE  ResultsInv' /\ (loaded = None /\ loaded' # None => loaded'.data = chMem[loaded'.on])
BY ResultsExecute, ResultsSend, ResultsCall, ResultsOthers, ResultsReceive DEF Next, CallStep

LEMMA ResultsInit == Init => ResultsInv
<1>1. SUFFICES ASSUME Init PROVE ResultsInv
  OBVIOUS
<1>2. /\ \A r \in Regions : stored[r] = None
      /\ selected = None
  BY <1>1 DEF Init
<1>. QED
  BY <1>2 DEF ResultsInv, StoredOK, SelectedOK

LinkInv == TypeInv /\ FlowInv /\ AnswersInv /\ ResultsInv

LEMMA LinkInit == Init => LinkInv
BY TypeInit, FlowInit, AnswersInit, ResultsInit DEF LinkInv

LEMMA LinkStep == LinkInv /\ [Next]_vars => LinkInv'
BY TypeStep, FlowStep, AnswersStep, ResultsStep DEF LinkInv

(* A store that has returned normally stays: Powerlab.write_presets and    *)
(* write_options with their erasures, retried or not.                      *)
THEOREM AlwaysStoredStays == Spec => []StoredStays
<1>1. LinkInv => StoredStays
  BY DEF LinkInv, ResultsInv, StoredOK, StoredStays
<1>. QED
  BY <1>1, LinkInit, LinkStep, PTL DEF Spec

(* So does a selection: Powerlab.select_preset.                            *)
THEOREM AlwaysSelectedStays == Spec => []SelectedStays
<1>1. LinkInv => SelectedStays
  BY DEF LinkInv, ResultsInv, SelectedOK, SelectedStays
<1>. QED
  BY <1>1, LinkInit, LinkStep, PTL DEF Spec

(* A load returns what the charger holds when it returns, whatever late    *)
(* answers are about.                                                      *)
THEOREM AlwaysLoadsCurrent == Spec => LoadsCurrent
<1>1. LinkInv /\ [Next]_vars => [loaded = None /\ loaded' # None => loaded'.data = chMem[loaded'.on]]_vars
  BY ResultsStep DEF LinkInv
<1>. QED
  BY <1>1, LinkInit, LinkStep, PTL DEF Spec, LoadsCurrent
=============================================================================
