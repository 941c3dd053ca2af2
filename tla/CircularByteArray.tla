-------------------------- MODULE CircularByteArray -------------------------
(***************************************************************************)
(* The circular buffer of circular_bytearray.py, used between the serial   *)
(* reader thread and the commands (48 KiB) and below the message framing   *)
(* (4096 bytes).  The indices grow for ever and are reduced modulo the     *)
(* capacity where they touch the array.                                    *)
(***************************************************************************)
EXTENDS Integers, Sequences

CONSTANTS
  Bytes,
  Capacity,   \* len(_buf)
  MaxChunk,   \* bound: bytes appended at once
  MaxRead,    \* the most bytes consumed at once; the callers stay below the
              \* capacity (7686 of 49152), where a slice of all of it is empty
  MaxIndex    \* bound: bytes ever appended

ASSUME CapacityAssumption ==
  /\ Capacity \in Nat \ {0} /\ MaxChunk \in Nat /\ MaxIndex \in Nat
  /\ MaxRead \in 0..(Capacity - 1)

VARIABLES
  buf,         \* _buf
  write_idx,   \* _write_idx, where the next byte goes
  read_idx,    \* _read_idx, the byte before the oldest one
  in,          \* the data of the last append that was accepted (a record of
               \* the call, not a field of the class)
  out          \* the last result of consume

vars == <<buf, write_idx, read_idx, in, out>>

Positions == 0..(Capacity - 1)

Init ==
  /\ buf \in [Positions -> Bytes]
  /\ write_idx = 0 /\ read_idx = -1
  /\ in = <<>> /\ out = <<>>

ReadIndex == read_idx + 1
Size == write_idx - (read_idx + 1)

(* (AvailableTooMuch and StoredUnwrapped are variants with a mistake, there *)
(* to see that the properties notice.)                                      *)
AvailableTooMuch == Capacity - Size + 1
Available == Capacity - Size

RealIndex(i) == i % Capacity

-----------------------------------------------------------------------------
(* The array with data stored from write_idx on: up to the end of the      *)
(* array, and the rest from its start.                                     *)
StoredUnwrapped(data) ==
  LET start == RealIndex(write_idx)
  IN  [i \in Positions |->
         IF i >= start /\ i < start + Len(data) THEN data[i - start + 1] ELSE buf[i]]

Stored(data) ==
  LET start == RealIndex(write_idx)
      first == Capacity - start
  IN  [i \in Positions |->
         CASE i >= start /\ i < start + Len(data) -> data[i - start + 1]
           [] i < Len(data) - first -> data[first + i + 1]
           [] OTHER -> buf[i]]

AppendData(data) ==
  /\ write_idx + Len(data) <= MaxIndex
  /\ IF Available >= Len(data)
       THEN buf' = Stored(data) /\ write_idx' = write_idx + Len(data) /\ in' = data
       ELSE UNCHANGED <<buf, write_idx, in>>
  /\ UNCHANGED <<read_idx, out>>

(* __getitem__ of the slice from start to stop, two pieces when it wraps.  *)
Slice(start, stop) ==
  LET from == RealIndex(start)
      to == RealIndex(stop)
  IN  IF from <= to
        THEN [i \in 1..(to - from) |-> buf[from + i - 1]]
        ELSE [i \in 1..(stop - start) |->
                IF from + i - 1 < Capacity THEN buf[from + i - 1]
                                           ELSE buf[i - 1 - (Capacity - from)]]

(* consume: the oldest n bytes, or nothing (None) if there are fewer.      *)
Consume(n) ==
  /\ IF Size >= n
       THEN out' = Slice(ReadIndex, ReadIndex + n) /\ read_idx' = read_idx + n
       ELSE out' = <<>> /\ UNCHANGED read_idx
  /\ UNCHANGED <<buf, write_idx, in>>

(* advance, which asks nothing; its callers have looked at the size.       *)
Advance(n) ==
  /\ n <= Size
  /\ read_idx' = read_idx + n
  /\ UNCHANGED <<buf, write_idx, in, out>>

Clear ==
  /\ read_idx' = write_idx - 1
  /\ UNCHANGED <<buf, write_idx, in, out>>

Next ==
  \/ \E n \in 0..MaxChunk : \E data \in [1..n -> Bytes] : AppendData(data)
  \/ \E n \in 1..MaxRead : Consume(n)
  \/ \E n \in 1..Capacity : Advance(n)
  \/ Clear

Spec == Init /\ [][Next]_vars

-----------------------------------------------------------------------------
(* The indices never cross and are never further apart than the array is   *)
(* long, so that no unread byte is overwritten.                            *)
SizeBounded ==
  /\ write_idx \in Nat /\ read_idx \in Int
  /\ Size \in 0..Capacity

(* The bytes held, oldest first.                                           *)
Contents == [i \in 1..Size |-> buf[RealIndex(read_idx + i)]]

Fifo == INSTANCE BoundedFifo WITH contents <- Contents

(* The array is a queue of bytes, wherever its contents wrap: what append  *)
(* accepted is at its end, and consume gives back its front.               *)
ImplementsFifo == Fifo!Spec
=============================================================================
