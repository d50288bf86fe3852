--------------------------- MODULE MCDailySession ---------------------------
(* Sizes 1 and 2 can be had, 3 is refused, 4 is more than the engine takes; *)
(* two things happen from outside, which may be in the middle of a rebuild. *)
EXTENDS DailySession
=============================================================================
