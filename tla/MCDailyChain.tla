---------------------------- MODULE MCDailyChain ----------------------------
(* Three plug-ins in a chain that takes one, as nine and more are loaded for *)
(* eight, or two in a chain that takes two.                                  *)
EXTENDS DailyChain
=============================================================================
