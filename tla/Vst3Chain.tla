----------------------------- MODULE Vst3Chain -----------------------------
(***************************************************************************)
(* vst3::Vst3Chain: the audio callback runs the processors of an immutable *)
(* snapshot it reads through one atomic pointer; the control thread swaps  *)
(* in a new snapshot, retires the old one and frees it once the callback's *)
(* block counter shows that no block can still be using it.                *)
(*                                                                         *)
(* The owner of the processors is another component (ChannelVstChain, or   *)
(* the lists of the daily application): this module has the operations of  *)
(* the chain and the callback, to be composed with an owner's.             *)
(*                                                                         *)
(* A snapshot's audio is left out: of a slot the model keeps whose         *)
(* processor it runs and whether it is bypassed.  processMono and          *)
(* processStereo differ in the buffers they adapt, not in the steps here.  *)
(*                                                                         *)
(* An operator named Bad... is a plausible mistake in the definition after *)
(* it: nothing uses it, and a property must tell it from the code.         *)
(***************************************************************************)
EXTENDS Integers, Sequences

CONSTANTS
  MaxSlots,       \* kMaxSlots, the most slots a snapshot may have
  GraceBlocks,    \* kGraceBlocks
  LoadOvertakes,  \* TRUE: the acquire load of m_state may overtake the
                  \* relaxed increment of m_processedBlocks before it
  BlocksPerSwap   \* bound: blocks begun after the last swap was stamped

ASSUME ChainAssumption ==
  /\ MaxSlots \in Nat
  /\ LoadOvertakes \in BOOLEAN
  /\ BlocksPerSwap \in Nat
  /\ GraceBlocks \in Nat

\* "grace >= 1 guarantees no in-flight callback": one block more is needed
\* where the two accesses of a block's beginning can be seen swapped.
ASSUME GraceCoversTheBlockInFlight ==
  GraceBlocks >= IF LoadOvertakes THEN 2 ELSE 1

VARIABLES
  state,      \* m_state: the snapshot the callback is to run
  blocks,     \* m_processedBlocks
  retired,    \* m_retired: snapshots waiting for their grace to elapse
  pending,    \* a snapshot swapped out by publish() and not yet stamped
  floor,      \* floorOut of the last publish()
  quiescent,  \* m_quiescent
  attached,   \* the host still calls the chain from the audio callback
  cb          \* the block the callback is running

chainVars == <<state, blocks, retired, pending, floor, quiescent, attached, cb>>

----------------------------------------------------------------------------
\* A heap object: two snapshots with equal slots are told apart by their id.
\* Slots name their processor by the SlotId of the bundle that owns it.
Slots == [proc : Nat, bypass : BOOLEAN]
Snapshots == [id : Nat, slots : Seq(Slots), whole : BOOLEAN]

NoSnapshot == [id |-> 0, slots |-> <<>>, whole |-> FALSE]
FirstSnapshot == [id |-> 1, slots |-> <<>>, whole |-> FALSE]

\* counted and loaded say which of a block's first two accesses were made.
IdleBlock == [counted |-> FALSE, loaded |-> FALSE, snap |-> NoSnapshot,
              next |-> 1]

ChainInit ==
  /\ state = FirstSnapshot
  /\ blocks = 0
  /\ retired = {}
  /\ pending = NoSnapshot
  /\ floor = 0
  /\ quiescent = FALSE
  /\ attached = TRUE
  /\ cb = IdleBlock

----------------------------------------------------------------------------
(* The audio callback.                                                     *)

CountBlock ==
  /\ attached
  /\ ~ cb.counted
  /\ blocks < floor + BlocksPerSwap
  /\ blocks' = blocks + 1
  /\ cb' = [cb EXCEPT !.counted = TRUE]
  /\ UNCHANGED <<state, retired, pending, floor, quiescent, attached>>

LoadState ==
  /\ attached
  /\ ~ cb.loaded
  /\ cb.counted \/ LoadOvertakes
  /\ blocks < floor + BlocksPerSwap \/ cb.counted
  /\ cb' = [cb EXCEPT !.loaded = TRUE, !.snap = state]
  /\ UNCHANGED <<state, blocks, retired, pending, floor, quiescent, attached>>

\* Whole-chain bypass and a snapshot with no active slot are left at once.
RunsSlots(snap) ==
  /\ ~ snap.whole
  /\ \E i \in DOMAIN snap.slots : ~ snap.slots[i].bypass

\* One slot: its processor is run unless it is bypassed.
RunSlot ==
  /\ cb.counted /\ cb.loaded
  /\ RunsSlots(cb.snap)
  /\ cb.next <= Len(cb.snap.slots)
  /\ cb' = [cb EXCEPT !.next = @ + 1]
  /\ UNCHANGED <<state, blocks, retired, pending, floor, quiescent, attached>>

EndBlock ==
  /\ cb.counted /\ cb.loaded
  /\ RunsSlots(cb.snap) => cb.next > Len(cb.snap.slots)
  /\ cb' = IdleBlock
  /\ UNCHANGED <<state, blocks, retired, pending, floor, quiescent, attached>>

Callback == CountBlock \/ LoadState \/ RunSlot \/ EndBlock

\* The host stops calling the chain, between two blocks.
Detach ==
  /\ attached
  /\ cb = IdleBlock
  /\ attached' = FALSE
  /\ UNCHANGED <<state, blocks, retired, pending, floor, quiescent, cb>>

----------------------------------------------------------------------------
(* The control thread.                                                     *)

PublishRejected(slots) == quiescent \/ Len(slots) > MaxSlots

\* publish(): the exchange of the pointer ...
Publish(slots, whole) ==
  /\ ~ PublishRejected(slots)
  /\ state' = [id |-> state.id + 1, slots |-> slots, whole |-> whole]
  /\ pending' = state
  /\ UNCHANGED <<blocks, retired, floor, quiescent, attached, cb>>

\* ... and after it the load of the block counter that dates the old snapshot.
Stamp ==
  /\ pending # NoSnapshot
  /\ retired' = retired \union {[snap |-> pending, at |-> blocks]}
  /\ pending' = NoSnapshot
  /\ floor' = blocks
  /\ UNCHANGED <<state, blocks, quiescent, attached, cb>>

BadGraceOneShort(r) == blocks + 1 >= r.at + GraceBlocks

GraceElapsed(r) == blocks >= r.at + GraceBlocks

\* reap(): no retired snapshot can be loaded again, so that freeing them at
\* the load of the counter loses nothing.
Reap ==
  /\ pending = NoSnapshot
  /\ ~ quiescent
  /\ retired' = {r \in retired : ~ GraceElapsed(r)}
  /\ UNCHANGED <<state, blocks, pending, floor, quiescent, attached, cb>>

Settled == \A r \in retired : GraceElapsed(r)

\* quiescentShutdown(): only once the callback is detached.
ChainShutdown ==
  /\ ~ attached
  /\ pending = NoSnapshot
  /\ ~ quiescent
  /\ quiescent' = TRUE
  /\ state' = NoSnapshot
  /\ retired' = {}
  /\ UNCHANGED <<blocks, pending, floor, attached, cb>>

\* Every step of an owner is one of these, or leaves the chain alone.
ChainStep ==
  \/ Callback
  \/ Detach
  \/ \E slots \in Seq(Slots), whole \in BOOLEAN :
       pending = NoSnapshot /\ Publish(slots, whole)
  \/ Stamp
  \/ Reap
  \/ ChainShutdown

----------------------------------------------------------------------------
(* Properties that an owner's specification is to have.                    *)

ChainTypeOK ==
  /\ state \in Snapshots /\ pending \in Snapshots
  /\ blocks \in Nat /\ floor \in Nat
  /\ retired \in SUBSET [snap : Snapshots, at : Nat]
  /\ quiescent \in BOOLEAN /\ attached \in BOOLEAN
  /\ cb \in [counted : BOOLEAN, loaded : BOOLEAN, snap : Snapshots,
             next : Nat \ {0}]

\* The snapshot a block is reading has not been freed: it is the published
\* one, or one still on its way to be freed.
NoDanglingSnapshot ==
  cb.loaded => \/ cb.snap \in {state, pending}
               \/ \E r \in retired : r.snap = cb.snap

\* The processors a block has still to run.
Due == IF cb.loaded /\ RunsSlots(cb.snap)
       THEN {cb.snap.slots[i].proc :
               i \in {j \in cb.next..Len(cb.snap.slots) :
                        ~ cb.snap.slots[j].bypass}}
       ELSE {}

----------------------------------------------------------------------------
(* The chain's part of the inductive invariant.                            *)

\* The number of the block being run, counted or about to be.
BlockNumber == IF cb.counted THEN blocks ELSE blocks + 1

\* A block that reads a retired snapshot loaded it before the swap, so that
\* its number is at most one more than the count the swap was dated with.
ChainInv ==
  /\ ChainTypeOK
  /\ NoDanglingSnapshot
  /\ ~ attached => cb = IdleBlock
  /\ quiescent => ~ attached
  /\ ~ quiescent => state.id > 0
  /\ cb.loaded => cb.snap.id > 0
  /\ cb.loaded /\ ~ cb.counted => LoadOvertakes
  /\ pending # NoSnapshot => pending.id < state.id
  /\ \A r \in retired :
       /\ ~ quiescent => r.snap.id < state.id
       /\ cb.loaded /\ cb.snap.id = r.snap.id =>
            BlockNumber <= r.at + IF LoadOvertakes THEN 1 ELSE 0

=============================================================================
