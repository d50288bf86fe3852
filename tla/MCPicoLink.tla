----------------------------- MODULE MCPicoLink -----------------------------
(* Three blocks go round rings of two; the endpoint goes away, or another one is *)
(* heard of, two times.                                                          *)
EXTENDS PicoLink
=============================================================================
