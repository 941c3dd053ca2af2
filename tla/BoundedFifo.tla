----------------------------- MODULE BoundedFifo ----------------------------
(***************************************************************************)
(* What a circular byte array is for: a queue of at most Capacity bytes.   *)
(* What is put in comes out in the order it was put in, each byte once,    *)
(* and nothing is taken that is not there.                                 *)
(***************************************************************************)
EXTENDS Naturals, Sequences

CONSTANTS Bytes, Capacity

VARIABLES
  contents,   \* the bytes in the queue, oldest first
  in,         \* what was last put in
  out         \* what the last consumption returned

vars == <<contents, in, out>>

Init == contents = <<>> /\ in = <<>> /\ out = <<>>

Put(data) ==
  /\ Len(contents) + Len(data) <= Capacity
  /\ contents' = contents \o data
  /\ in' = data
  /\ UNCHANGED out

Take(n) ==
  /\ n <= Len(contents)
  /\ out' = SubSeq(contents, 1, n)
  /\ contents' = SubSeq(contents, n + 1, Len(contents))
  /\ UNCHANGED in

Drop(n) ==
  /\ n <= Len(contents)
  /\ contents' = SubSeq(contents, n + 1, Len(contents))
  /\ UNCHANGED <<in, out>>

Next ==
  \/ \E n \in 0..Capacity : Take(n) \/ Drop(n) \/ \E data \in [1..n -> Bytes] : Put(data)
  \/ out' = <<>> /\ UNCHANGED <<contents, in>>

Spec == Init /\ [][Next]_vars
=============================================================================
