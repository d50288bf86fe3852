----------------------------- MODULE DailyChain -----------------------------
(***************************************************************************)
(* The plug-in chain of one input as the daily application keeps it: its   *)
(* own ordered list, its list of removed slots and its selection, around a *)
(* Vst3Chain that the audio callback runs.  One control thread handles the *)
(* keys and the panel, and services the removed slots each time round.     *)
(*                                                                         *)
(* The two inputs have the same operations but for one condition: how the  *)
(* key that removes a slot finds out whether its editor is open.  There is *)
(* one editor for both inputs; opening it on the other one closes it here. *)
(***************************************************************************)
EXTENDS Vst3Chain, SequencesExt

CONSTANTS
  Channel,   \* 1: slots, retiring, selected; 2: ch2Slots and so on
  Gui,       \* TRUE: the control panel (--gui) is open besides the console
  MaxLoads,  \* bound: plug-ins loaded
  MaxSwaps   \* bound: snapshots published

ASSUME DailyAssumption ==
  /\ Channel \in {1, 2}
  /\ Gui \in BOOLEAN
  /\ MaxLoads \in Nat /\ MaxSwaps \in Nat

VARIABLES
  slots,     \* the list of the plug-ins, in order
  retiring,  \* removed plug-ins held until the chain is settled
  selected,  \* the selected slot, from 0
  bypassed,  \* chainBypass
  editor,    \* the processor the open editor is attached to, or 0
  openSlot,  \* editorOpenSlot, where that processor was in the list
  loads,     \* plug-ins created so far: their identities
  turn       \* what the control thread does next

ownVars == <<slots, retiring, selected, bypassed, editor, openSlot, loads, turn>>
vars == <<chainVars, ownVars>>

----------------------------------------------------------------------------
Init ==
  /\ ChainInit
  /\ slots = <<>>
  /\ retiring = {}
  /\ selected = 0
  /\ bypassed = FALSE
  /\ editor = 0 /\ openSlot = 0
  /\ loads = 0
  /\ turn = "idle"

Idle == turn = "idle"
MaySwap == Idle /\ state.id <= MaxSwaps

\* publishChain: a list the chain rejects is only warned about.  After an
\* accepted one the counter is loaded (Stamp) and the chain reaped.
PublishChain(list, whole) ==
  IF PublishRejected(list)
  THEN turn' = "idle" /\ UNCHANGED chainVars
  ELSE turn' = "stamp" /\ Publish(list, whole)

FinishPublish ==
  /\ turn = "stamp"
  /\ Stamp
  /\ turn' = "reap"
  /\ UNCHANGED <<slots, retiring, selected, bypassed, editor, openSlot, loads>>

ReapAfterPublish ==
  /\ turn = "reap"
  /\ Reap
  /\ turn' = "idle"
  /\ UNCHANGED <<slots, retiring, selected, bypassed, editor, openSlot, loads>>

\* Loading appends a new plug-in and selects it.
Load ==
  /\ MaySwap
  /\ loads < MaxLoads
  /\ loads' = loads + 1
  /\ slots' = Append(slots, [proc |-> loads + 1, bypass |-> FALSE])
  /\ selected' = Len(slots)
  /\ PublishChain(slots', bypassed)
  /\ UNCHANGED <<retiring, bypassed, editor, openSlot>>

\* The key that adds a plug-in looks at the chain's capacity first ...
LoadByKey == Len(slots) < MaxSlots /\ Load

\* ... the panel's button does not.
LoadByButton == Gui /\ Load

\* min(selected, size - 1) of the list without the slot, or 0.
SelectedAfterRemoval == IF selected < Len(slots) - 1 THEN selected
                        ELSE IF Len(slots) > 1 THEN Len(slots) - 2 ELSE 0

\* The slot is retired before the list without it is published.
RemoveSlot(index, closesEditor) ==
  /\ MaySwap
  /\ index < Len(slots)
  /\ editor' = IF closesEditor THEN 0 ELSE editor
  /\ openSlot' = IF closesEditor THEN 0 ELSE openSlot
  /\ retiring' = retiring \union {slots[index + 1].proc}
  /\ slots' = RemoveAt(slots, index + 1)
  /\ selected' = SelectedAfterRemoval
  /\ PublishChain(slots', bypassed)
  /\ UNCHANGED <<bypassed, loads>>

\* The key removes the selected slot.  On input 1 that slot is compared with
\* the selection; on input 2 with the place where the editor was opened.
RemoveByKey ==
  RemoveSlot(selected, editor # 0 /\ (Channel = 2 => selected = openSlot))

\* The panel removes any slot, and compares it with the selection.
RemoveByButton(index) ==
  Gui /\ RemoveSlot(index, editor # 0 /\ selected = index)

\* The arrow keys move the selected slot one place.
Move(to) ==
  /\ MaySwap
  /\ selected < Len(slots) /\ to \in 0..(Len(slots) - 1)
  /\ slots' = InsertAt(RemoveAt(slots, selected + 1), to + 1, slots[selected + 1])
  /\ selected' = to
  /\ PublishChain(slots', bypassed)
  /\ UNCHANGED <<retiring, bypassed, editor, openSlot, loads>>

ToggleSlotBypass(index) ==
  /\ MaySwap
  /\ index < Len(slots)
  /\ slots' = [slots EXCEPT ![index + 1].bypass = ~ @]
  /\ PublishChain(slots', bypassed)
  /\ UNCHANGED <<retiring, selected, bypassed, editor, openSlot, loads>>

BadToggleWholeBypass ==
  /\ MaySwap
  /\ bypassed' = ~ bypassed
  /\ PublishChain(slots, bypassed)
  /\ UNCHANGED <<slots, retiring, selected, editor, openSlot, loads>>

ToggleWholeBypass ==
  /\ MaySwap
  /\ bypassed' = ~ bypassed
  /\ PublishChain(slots, bypassed')
  /\ UNCHANGED <<slots, retiring, selected, editor, openSlot, loads>>

Select(index) ==
  /\ Idle
  /\ index \in 0..(Len(slots) - 1)
  /\ selected' = index
  /\ UNCHANGED <<chainVars, slots, retiring, bypassed, editor, openSlot, loads,
                 turn>>

CloseEditor ==
  /\ Idle
  /\ editor # 0
  /\ editor' = 0 /\ openSlot' = 0
  /\ UNCHANGED <<chainVars, slots, retiring, selected, bypassed, loads, turn>>

\* One editor at a time: it is rebound to the slot, which is selected.  An
\* open that fails leaves none, as closing does.
OpenEditor(index) ==
  /\ Idle
  /\ index < Len(slots)
  /\ editor' = slots[index + 1].proc
  /\ openSlot' = index
  /\ selected' = index
  /\ UNCHANGED <<chainVars, slots, retiring, bypassed, loads, turn>>

\* The key closes the editor where it was opened.
OpenByKey == (editor = 0 \/ openSlot # selected) /\ OpenEditor(selected)

\* reapRetired: at every turn of the loop.
Service ==
  /\ Idle
  /\ Reap
  /\ turn' = "settle"
  /\ UNCHANGED <<slots, retiring, selected, bypassed, editor, openSlot, loads>>

BadDestroyUnsettled ==
  /\ turn = "settle"
  /\ turn' = "idle"
  /\ retiring' = {}
  /\ UNCHANGED <<chainVars, slots, selected, bypassed, editor, openSlot, loads>>

DestroyRetired ==
  /\ turn = "settle"
  /\ turn' = "idle"
  /\ retiring' = IF Settled THEN {} ELSE retiring
  /\ UNCHANGED <<chainVars, slots, selected, bypassed, editor, openSlot, loads>>

----------------------------------------------------------------------------
Audio == Callback /\ UNCHANGED ownVars

Control ==
  \/ LoadByKey \/ LoadByButton
  \/ RemoveByKey
  \/ Move(selected - 1) \/ Move(selected + 1)
  \/ ToggleSlotBypass(selected) \/ ToggleWholeBypass
  \/ OpenByKey \/ CloseEditor
  \/ \E index \in 0..(Len(slots) - 1) :
       \/ Select(index)
       \/ Gui /\ (ToggleSlotBypass(index) \/ OpenEditor(index))
       \/ RemoveByButton(index)
  \/ FinishPublish \/ ReapAfterPublish
  \/ Service \/ DestroyRetired

Next == Audio \/ Control

Spec == Init /\ [][Next]_vars

----------------------------------------------------------------------------
(* Properties.                                                             *)

Owned == {slots[i].proc : i \in DOMAIN slots} \union retiring

TypeOK ==
  /\ ChainTypeOK
  /\ slots \in Seq(Slots)
  /\ retiring \in SUBSET Nat
  /\ selected \in Nat /\ editor \in Nat /\ openSlot \in Nat /\ loads \in Nat
  /\ bypassed \in BOOLEAN
  /\ turn \in {"idle", "stamp", "reap", "settle"}

\* Vst3Chain.h: "Callers that removed a processor must not destroy it until the
\* snapshot still referencing it has been reclaimed".  No block in flight has
\* a destroyed processor still to run.
NoDanglingProcessor == Due \subseteq Owned

\* The callback is given the list as the control thread last left it: every
\* operation on it publishes what it made, and none is lost on the way.
ListIsPublished == state.slots = slots /\ state.whole = bypassed

\* daily_demo_main.cpp, where a slot is removed: "never destroy a processor an
\* open editor references".
EditorOnOwnedProcessor == editor # 0 => editor \in Owned

=============================================================================
