------------------------ MODULE MCCircularByteArray ------------------------
(* A small array: every way to wrap with chunks of up to three bytes.      *)
EXTENDS CircularByteArray

MCBytes == {0, 1}
=============================================================================
