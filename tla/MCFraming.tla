------------------------------ MODULE MCFraming ------------------------------
(* Messages with an empty payload and with one of two cells, the first of   *)
(* which looks like a preamble.  A preamble misread as a length gives a     *)
(* message that just fits into the buffer, other cells one that does not.   *)
EXTENDS Framing

MCSizes == {3, 5}
MCPreambles == {1, 3}
MCMisread == [part \in 1..5 |-> IF part = 1 THEN Capacity ELSE Capacity + 1]
=============================================================================
