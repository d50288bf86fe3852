----------------------------- MODULE MCSpscRing -----------------------------
(* A ring of four samples, transport blocks of two, callback blocks that   *)
(* do and do not divide them (as 32 and 96 against the 64 of the program). *)
EXTENDS SpscRing
=============================================================================
