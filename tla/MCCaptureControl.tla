-------------------------- MODULE MCCaptureControl --------------------------
(* Two clients and two regions, so that one is published while the other is *)
(* still being freed or filled from.                                        *)
EXTENDS CaptureControl
=============================================================================
