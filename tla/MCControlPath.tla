---------------------------- MODULE MCControlPath ----------------------------
(* Two changes of the settings, or one and an edit or a bypass, or three      *)
(* edits and bypasses, around a stream that is lost once; the queue takes two *)
(* edits, a block drains two and exposes one.                                 *)
EXTENDS ControlPath
=============================================================================
