-------------------------- MODULE ChannelVstChain --------------------------
(***************************************************************************)
(* production::ChannelVstChain, the owner of one channel's plug-ins: the   *)
(* product rack (channel::ChannelRack), the live bundles and the bundles   *)
(* that were removed and wait to be destroyed, kept in step with the       *)
(* snapshots of its Vst3Chain while the audio callback runs.               *)
(*                                                                         *)
(* A bundle is its SlotId, its bypass flag and whether loadSlot made it    *)
(* (such a bundle has the loader and host that an editor needs).  Loading  *)
(* that fails has changed nothing yet and is left out, as are the plug-in  *)
(* state blobs, names and latencies.                                       *)
(*                                                                         *)
(* Every operation runs on the control thread; only the exchange of the    *)
(* pointer and the loads of the block counter can be told apart by the     *)
(* callback, so that each operation's other effects belong to one of them. *)
(***************************************************************************)
EXTENDS Vst3Chain, SequencesExt

CONSTANTS
  RackSlots,   \* channel::kMaxSlotsPerChannel, the product cap
  MaxLoads,    \* bound: bundles committed
  MaxSwaps     \* bound: snapshots published

ASSUME RackAssumption ==
  /\ RackSlots \in Nat
  /\ RackSlots <= MaxSlots
  /\ MaxLoads \in Nat /\ MaxSwaps \in Nat

VARIABLES
  rack,       \* m_input.rack(), the tags of the slots in order
  rackWhole,  \* the rack's whole-chain bypass
  live,       \* m_live
  retiring,   \* m_retiring
  editors,    \* the live bundles with an open editor
  whole,      \* m_wholeChainBypass
  nextSlotId, \* m_nextSlotId
  shutdown,   \* m_shutdown
  servicing   \* serviceRetirements() is between reap() and settled()

ownerVars == <<rack, rackWhole, live, retiring, editors, whole, nextSlotId,
               shutdown, servicing>>

vars == <<chainVars, ownerVars>>

----------------------------------------------------------------------------
Tags == [id : Nat, bypass : BOOLEAN]
Bundles == [id : Nat, bypass : BOOLEAN, hosted : BOOLEAN]

Tag(bundle) == [id |-> bundle.id, bypass |-> bundle.bypass]
SlotOf(bundle) == [proc |-> bundle.id, bypass |-> bundle.bypass]

\* Slots are numbered from 1, in the code from 0.
MovedTo(s, from, to) == InsertAt(RemoveAt(s, from), to, s[from])

Init ==
  /\ ChainInit
  /\ rack = <<>> /\ rackWhole = FALSE
  /\ live = <<>>
  /\ retiring = {}
  /\ editors = {}
  /\ whole = FALSE
  /\ nextSlotId = 1
  /\ shutdown = FALSE
  /\ servicing = FALSE

\* The control thread can begin another operation.
Idle == pending = NoSnapshot /\ ~ servicing /\ ~ shutdown

MaySwap == Idle /\ state.id <= MaxSwaps

----------------------------------------------------------------------------
(* Structural mutations.                                                   *)

\* The order the snapshot of a commit is built in: around the new bundle.
OrderWith(bundle, target) ==
  [i \in 1..(Len(live) + 1) |->
     SlotOf(IF i = target THEN bundle
            ELSE live[IF i > target THEN i - 1 ELSE i])]

BadRackAppends(tag, target) == Append(rack, tag)

\* The tag is appended to the rack and then moved to its place.
RackWith(tag, target) ==
  IF target <= Len(live)
  THEN MovedTo(Append(rack, tag), Len(rack) + 1, target)
  ELSE Append(rack, tag)

NewSlotId == nextSlotId

\* commitPrepared: index counts from 0 and is cut to the end of the list.
Commit(hosted, index) ==
  LET bundle == [id |-> NewSlotId, bypass |-> FALSE, hosted |-> hosted]
      target == (IF index < Len(live) THEN index ELSE Len(live)) + 1
  IN  /\ MaySwap
      /\ Len(rack) < RackSlots /\ Len(live) < RackSlots
      /\ nextSlotId <= MaxLoads
      /\ Publish(OrderWith(bundle, target), whole)
      /\ rack' = RackWith(Tag(bundle), target)
      /\ live' = InsertAt(live, target, bundle)
      /\ nextSlotId' = nextSlotId + 1
      /\ UNCHANGED <<rackWhole, retiring, editors, whole, shutdown, servicing>>

LoadSlotAt(index) == Commit(TRUE, index)

AddPrepared == Commit(FALSE, Len(live))

\* closeEditorOf
EditorsWithout(index) == editors \ {live[index].id}

OrderWithout(index) ==
  [i \in 1..(Len(live) - 1) |-> SlotOf(live[IF i < index THEN i ELSE i + 1])]

\* removeSlot: the bundle outlives the snapshots that may still name it.
RemoveSlot(index) ==
  /\ MaySwap
  /\ Publish(OrderWithout(index), whole)
  /\ editors' = EditorsWithout(index)
  /\ rack' = RemoveAt(rack, index)
  /\ retiring' = retiring \union {live[index].id}
  /\ live' = RemoveAt(live, index)
  /\ UNCHANGED <<rackWhole, whole, nextSlotId, shutdown, servicing>>

\* moveSlot computes where each slot of the new order comes from.
Source(i, from, to) ==
  CASE i = to                             -> from
    [] from < to /\ i >= from /\ i < to   -> i + 1
    [] from > to /\ i > to /\ i <= from   -> i - 1
    [] OTHER                              -> i

OrderMoved(from, to) ==
  [i \in 1..Len(live) |-> SlotOf(live[Source(i, from, to)])]

MoveSlot(from, to) ==
  /\ MaySwap
  /\ from # to
  /\ Publish(OrderMoved(from, to), whole)
  /\ live' = MovedTo(live, from, to)
  /\ rack' = MovedTo(rack, from, to)
  /\ UNCHANGED <<rackWhole, retiring, editors, whole, nextSlotId, shutdown,
                 servicing>>

OrderBypassing(index, bypass) ==
  [i \in 1..Len(live) |->
     [proc |-> live[i].id,
      bypass |-> IF i = index THEN bypass ELSE live[i].bypass]]

SetSlotBypass(index, bypass) ==
  /\ MaySwap
  /\ Publish(OrderBypassing(index, bypass), whole)
  /\ live' = [live EXCEPT ![index].bypass = bypass]
  /\ rack' = [rack EXCEPT ![index].bypass = bypass]
  /\ UNCHANGED <<rackWhole, retiring, editors, whole, nextSlotId, shutdown,
                 servicing>>

SetWholeChainBypass(bypass) ==
  /\ MaySwap
  /\ Publish([i \in 1..Len(live) |-> SlotOf(live[i])], bypass)
  /\ rackWhole' = bypass
  /\ whole' = bypass
  /\ UNCHANGED <<rack, live, retiring, editors, nextSlotId, shutdown,
                 servicing>>

\* The end of publish() in each of the operations above.
FinishPublish ==
  /\ Stamp
  /\ UNCHANGED ownerVars

----------------------------------------------------------------------------
(* Editors, retirement and shutdown.                                       *)

\* A new open replaces the old editor; one that fails leaves none.
OpenEditor(index, opens) ==
  /\ Idle
  /\ live[index].hosted
  /\ editors' = IF opens THEN editors \union {live[index].id}
                ELSE EditorsWithout(index)
  /\ UNCHANGED <<chainVars, rack, rackWhole, live, retiring, whole, nextSlotId,
                 shutdown, servicing>>

CloseEditor(index) ==
  /\ Idle
  /\ editors' = EditorsWithout(index)
  /\ UNCHANGED <<chainVars, rack, rackWhole, live, retiring, whole, nextSlotId,
                 shutdown, servicing>>

\* serviceRetirements: expired snapshots are freed first ...
Service ==
  /\ Idle
  /\ Reap
  /\ servicing' = TRUE
  /\ UNCHANGED <<rack, rackWhole, live, retiring, editors, whole, nextSlotId,
                 shutdown>>

BadDestroyUnsettled ==
  /\ servicing
  /\ servicing' = FALSE
  /\ retiring' = {}
  /\ editors' = editors \ retiring
  /\ UNCHANGED <<chainVars, rack, rackWhole, live, whole, nextSlotId, shutdown>>

BadDestroyNeedsLiveSlots ==
  /\ servicing
  /\ servicing' = FALSE
  /\ retiring' = IF Settled /\ live # <<>> THEN {} ELSE retiring
  /\ editors' = IF Settled /\ live # <<>> THEN editors \ retiring ELSE editors
  /\ UNCHANGED <<chainVars, rack, rackWhole, live, whole, nextSlotId, shutdown>>

\* ... and when no other waits, all the removed bundles are destroyed.
DestroyRetired ==
  /\ servicing
  /\ servicing' = FALSE
  /\ retiring' = IF Settled THEN {} ELSE retiring
  /\ editors' = IF Settled THEN editors \ retiring ELSE editors
  /\ UNCHANGED <<chainVars, rack, rackWhole, live, whole, nextSlotId, shutdown>>

QuiescentShutdown ==
  /\ Idle
  /\ ChainShutdown
  /\ shutdown' = TRUE
  /\ live' = <<>> /\ retiring' = {} /\ editors' = {}
  /\ rack' = <<>> /\ rackWhole' = FALSE
  /\ whole' = FALSE
  /\ UNCHANGED <<nextSlotId, servicing>>

----------------------------------------------------------------------------
Audio == (Callback \/ Detach) /\ UNCHANGED ownerVars

Owner ==
  \/ \E index \in 0..Len(live) : LoadSlotAt(index)
  \/ AddPrepared
  \/ \E index \in DOMAIN live :
       \/ RemoveSlot(index)
       \/ \E to \in DOMAIN live : MoveSlot(index, to)
       \/ \E on \in BOOLEAN : SetSlotBypass(index, on) \/ OpenEditor(index, on)
       \/ CloseEditor(index)
  \/ \E on \in BOOLEAN : SetWholeChainBypass(on)
  \/ FinishPublish
  \/ Service \/ DestroyRetired
  \/ QuiescentShutdown

Next == Audio \/ Owner

\* The driver calls back while it is attached, operations run straight
\* through, retirements are serviced again and again, and an owner whose
\* callback is detached is shut down by its destructor at the latest.
Fairness ==
  /\ WF_vars(Callback /\ UNCHANGED ownerVars)
  /\ WF_vars(FinishPublish)
  /\ WF_vars(Service)
  /\ WF_vars(DestroyRetired)
  /\ SF_vars(QuiescentShutdown)

Spec == Init /\ [][Next]_vars
FairSpec == Spec /\ Fairness

----------------------------------------------------------------------------
(* Properties.                                                             *)

LiveIds == {live[i].id : i \in DOMAIN live}

\* The bundles that have not been destroyed.
Owned == LiveIds \union retiring

TypeOK ==
  /\ ChainTypeOK
  /\ rack \in Seq(Tags) /\ rackWhole \in BOOLEAN
  /\ live \in Seq(Bundles)
  /\ retiring \in SUBSET Nat /\ editors \in SUBSET Nat
  /\ whole \in BOOLEAN
  /\ nextSlotId \in Nat \ {0}
  /\ shutdown \in BOOLEAN /\ servicing \in BOOLEAN

\* No processor is destroyed while the block in flight has still to run it,
\* although removeSlot() returns at once and never waits for the callback.
NoDanglingProcessor == Due \subseteq Owned

\* "product rack order == published VST processor order", ids and bypass flags
\* included: the rack, the live list and the published snapshot are rebuilt in
\* three different ways by each operation and agree after it.
RackMatchesPublished ==
  ~ shutdown =>
    /\ rack = [i \in 1..Len(live) |-> Tag(live[i])]
    /\ state.slots = [i \in 1..Len(live) |-> SlotOf(live[i])]
    /\ state.whole = whole /\ rackWhole = whole

\* A stable SlotId names one bundle: no two live slots share one, and none is
\* both live and retired, whatever was moved or removed before.
SlotIdsAreDistinct ==
  /\ \A i, j \in DOMAIN live : live[i].id = live[j].id => i = j
  /\ LiveIds \cap retiring = {}

\* Only live slots have editors: a removed plug-in is destroyed without one.
EditorsAreLive == editors \subseteq LiveIds

\* Everything removed is destroyed at last: the grace elapses, or the owner is
\* shut down.
RetiredAreDestroyed ==
  \A id \in 1..MaxLoads : id \in retiring ~> id \notin retiring

----------------------------------------------------------------------------
(* The inductive invariant.                                                *)

Procs(slots) == {slots[i].proc : i \in DOMAIN slots}

\* A snapshot that was swapped out names only bundles that are still owned,
\* until its grace has elapsed.
OldSnapshotsInv ==
  /\ Procs(pending.slots) \subseteq Owned
  /\ \A r \in retired : GraceElapsed(r) \/ Procs(r.snap.slots) \subseteq Owned

IInv ==
  /\ TypeOK
  /\ ChainInv
  /\ shutdown = quiescent
  /\ servicing => pending = NoSnapshot
  /\ \A id \in Owned : id < nextSlotId
  /\ OldSnapshotsInv
  /\ RackMatchesPublished
  /\ SlotIdsAreDistinct
  /\ EditorsAreLive

=============================================================================
