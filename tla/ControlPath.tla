----------------------------- MODULE ControlPath -----------------------------
(***************************************************************************)
(* Everything the user does to the sound meets the audio callback in a     *)
(* block: it takes the snapshots of RenderControl first and then runs the  *)
(* plug-in of ParameterEdits.  The main thread does one thing at a time: a *)
(* change of the settings, or an edit in the plug-in's editor.  The chain  *)
(* and its queue outlive the streams: edits performed while there is none  *)
(* wait for the next.                                                      *)
(***************************************************************************)
EXTENDS RenderControl, ParameterEdits

CONSTANT MaxDone  \* bound: what the user does, as Cost weighs it

ASSUME PathAssumption == MaxDone \in Nat

VARIABLE bypasses  \* how often the slot was bypassed or taken back

pathVars == <<vars, pluginVars, bypasses>>

PathInit == Init /\ PluginInit /\ bypasses = 0

MainIsFree == edit.todo = << >> /\ push.at = "idle"
Cost == 3 * edits + 2 * (Len(performed) + bypasses)
MayDo(cost) == MainIsFree /\ Cost + cost <= MaxDone

\* The main thread: the settings, the plug-in's editor and its slot.
Changes == MayDo(3) /\ Edits /\ UNCHANGED <<pluginVars, bypasses>>
Publishes == Handler /\ UNCHANGED <<pluginVars, bypasses>>
Performs ==
  MayDo(2) /\ (\E p \in Params : PerformEdit(p)) /\ UNCHANGED <<vars, bypasses>>
Pushes == Push /\ UNCHANGED <<vars, bypasses>>
Bypasses ==
  MayDo(2) /\ ToggleBypass /\ bypasses' = bypasses + 1 /\ UNCHANGED vars

\* The watchdog; a stream that is lost takes no block with it.
Loses == LoseStream /\ UNCHANGED <<pluginVars, bypasses>>
Rebuilds == Watchdog /\ UNCHANGED <<pluginVars, bypasses>>

\* The callback: the snapshots, the chain, the mix.
TakesSnapshots == (BeginBlock \/ ReadSnapshots) /\ UNCHANGED <<pluginVars, bypasses>>
RunsChain == cb.at = "mix" /\ Drain /\ UNCHANGED <<vars, bypasses>>
Mixes == EndBlock /\ EndPlugin /\ UNCHANGED bypasses

PathNext ==
  \/ Changes \/ Publishes \/ Performs \/ Pushes \/ Bypasses
  \/ Loses \/ Rebuilds
  \/ TakesSnapshots \/ RunsChain \/ Mixes

PathFairness ==
  /\ WF_pathVars(Publishes \/ Pushes)
  /\ WF_pathVars(Rebuilds)
  /\ WF_pathVars(TakesSnapshots \/ RunsChain \/ Mixes)

PathSpec == PathInit /\ [][PathNext]_pathVars /\ PathFairness

=============================================================================
