---------------------------- MODULE MCDailyMixer ----------------------------
(* Two plug-ins in a chain that takes two, and one more start.         *)
EXTENDS DailyMixer
=============================================================================
