--------------------------- MODULE MCCaptureStream ---------------------------
(* A buffer of two packets of 2 ms, one whose packets are not of whole           *)
(* milliseconds, and one that is polled.                                         *)
EXTENDS CaptureStream

const_Buffers ==
  {[ticks |-> 8, count |-> 2], [ticks |-> 6, count |-> 2], [ticks |-> 4, count |-> 0]}
=============================================================================
