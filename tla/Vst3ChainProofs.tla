-------------------------- MODULE Vst3ChainProofs --------------------------
(***************************************************************************)
(* The part of the safety argument that is Vst3Chain's own, whoever owns   *)
(* the processors: whatever is published and whenever it is reaped, the    *)
(* snapshot a block reads is never one that has been freed.  The owners'   *)
(* specifications take chain steps only, and cite ChainStepInv.            *)
(***************************************************************************)
EXTENDS Vst3Chain, SequencesExt, SequenceTheorems, TLAPS

\* The parts of the chain's state, typed one by one.
LEMMA ChainTypes ==
  ASSUME ChainTypeOK
  PROVE  /\ state \in Snapshots /\ pending \in Snapshots
         /\ state.id \in Nat /\ pending.id \in Nat
         /\ blocks \in Nat /\ floor \in Nat
         /\ cb.snap \in Snapshots /\ cb.snap.id \in Nat
         /\ cb.snap.slots \in Seq(Slots)
         /\ cb.counted \in BOOLEAN /\ cb.loaded \in BOOLEAN
         /\ cb.next \in Nat \ {0}
         /\ cb = [counted |-> cb.counted, loaded |-> cb.loaded,
                  snap |-> cb.snap, next |-> cb.next]
         /\ BlockNumber \in Nat
         /\ \A r \in retired : /\ r.at \in Nat
                               /\ r.snap \in Snapshots /\ r.snap.id \in Nat
  BY DEF ChainTypeOK, Snapshots, BlockNumber

\* The empty snapshot and the idle block have the types of the others.
LEMMA NoSnapshotType ==
  /\ NoSnapshot \in Snapshots /\ FirstSnapshot \in Snapshots
  /\ IdleBlock \in [counted : BOOLEAN, loaded : BOOLEAN, snap : Snapshots,
                    next : Nat \ {0}]
  /\ ~ IdleBlock.loaded /\ ~ IdleBlock.counted
  /\ NoSnapshot.id = 0 /\ FirstSnapshot.id = 1
  BY DEF NoSnapshot, FirstSnapshot, IdleBlock, Snapshots

\* The chain's invariant holds when the chain is made.
LEMMA ChainInitInv == ChainInit => ChainInv
<1> SUFFICES ASSUME ChainInit
             PROVE  ChainInv
  OBVIOUS
<1>1. ChainTypeOK
  BY NoSnapshotType DEF ChainInit, ChainTypeOK
<1>2. /\ NoDanglingSnapshot
      /\ attached /\ ~ quiescent
      /\ ~ cb.loaded /\ pending = NoSnapshot /\ retired = {}
  BY NoSnapshotType DEF ChainInit, NoDanglingSnapshot
<1>3. state.id > 0
  BY NoSnapshotType DEF ChainInit
<1> QED
  BY <1>1, <1>2, <1>3 DEF ChainInv

\* A block begins and ends: the snapshot it has loaded is the published one,
\* and its number stays what it was when it loaded it.
LEMMA CallbackInv == ChainInv /\ (Callback \/ Detach) => ChainInv'
<1> SUFFICES ASSUME ChainInv, Callback \/ Detach
             PROVE  ChainInv'
  OBVIOUS
<1> USE ChainAssumption
<1>0. ChainTypeOK
  BY DEF ChainInv
<1>1. CASE CountBlock
  <2>1. /\ attached /\ ~ cb.counted /\ blocks' = blocks + 1
        /\ cb' = [counted |-> TRUE, loaded |-> cb.loaded,
                  snap |-> cb.snap, next |-> cb.next]
        /\ UNCHANGED <<state, retired, pending, floor, quiescent, attached>>
    BY <1>1, <1>0, ChainTypes DEF CountBlock
  <2>2. BlockNumber' = BlockNumber
    BY <2>1, <1>0, ChainTypes DEF BlockNumber
  <2>3. ChainTypeOK'
    BY <2>1, <1>0, ChainTypes DEF ChainTypeOK
  <2> QED
    BY <2>1, <2>2, <2>3 DEF ChainInv, NoDanglingSnapshot
<1>2. CASE LoadState
  <2>1. /\ attached /\ ~ cb.loaded /\ (cb.counted \/ LoadOvertakes)
        /\ cb' = [counted |-> cb.counted, loaded |-> TRUE,
                  snap |-> state, next |-> cb.next]
        /\ UNCHANGED <<state, blocks, retired, pending, floor, quiescent,
                       attached>>
    BY <1>2, <1>0, ChainTypes DEF LoadState
  <2>2. ChainTypeOK'
    BY <2>1, <1>0, ChainTypes DEF ChainTypeOK
  <2>3. \A r \in retired : r.snap.id # state.id
    BY <2>1, <1>0, ChainTypes DEF ChainInv
  <2> QED
    BY <2>1, <2>2, <2>3 DEF ChainInv, NoDanglingSnapshot
<1>3. CASE RunSlot
  <2>1. /\ cb' = [counted |-> cb.counted, loaded |-> cb.loaded,
                  snap |-> cb.snap, next |-> cb.next + 1]
        /\ cb.loaded
        /\ UNCHANGED <<state, blocks, retired, pending, floor, quiescent,
                       attached>>
    BY <1>3, <1>0, ChainTypes DEF RunSlot
  <2>2. BlockNumber' = BlockNumber
    BY <2>1, <1>0, ChainTypes DEF BlockNumber
  <2>3. ChainTypeOK'
    BY <2>1, <1>0, ChainTypes DEF ChainTypeOK
  <2> QED
    BY <2>1, <2>2, <2>3, NoSnapshotType DEF ChainInv, NoDanglingSnapshot
<1>4. CASE EndBlock
  <2>1. /\ cb' = IdleBlock
        /\ UNCHANGED <<state, blocks, retired, pending, floor, quiescent,
                       attached>>
    BY <1>4 DEF EndBlock
  <2>2. ChainTypeOK'
    BY <2>1, <1>0, NoSnapshotType DEF ChainTypeOK
  <2> QED
    BY <2>1, <2>2, NoSnapshotType DEF ChainInv, NoDanglingSnapshot
<1>5. CASE Detach
  <2>1. ChainTypeOK' /\ BlockNumber' = BlockNumber
    BY <1>5, <1>0 DEF Detach, ChainTypeOK, BlockNumber
  <2> QED
    BY <1>5, <2>1 DEF ChainInv, Detach, NoDanglingSnapshot
<1> QED
  BY <1>1, <1>2, <1>3, <1>4, <1>5 DEF Callback

\* A swap: the old snapshot is still kept, and older than the new one.
LEMMA PublishInv ==
  ASSUME NEW slots \in Seq(Slots), NEW whole \in BOOLEAN,
         ChainInv, pending = NoSnapshot, Publish(slots, whole)
  PROVE  ChainInv'
<1>0. ChainTypeOK
  BY DEF ChainInv
<1>1. /\ ~ quiescent
      /\ state' = [id |-> state.id + 1, slots |-> slots, whole |-> whole]
      /\ pending' = state
      /\ UNCHANGED <<blocks, retired, floor, quiescent, attached, cb>>
  BY DEF Publish, PublishRejected
<1>2. state' \in Snapshots /\ state'.id = state.id + 1
  BY <1>0, <1>1, ChainTypes DEF Snapshots
<1>3. ChainTypeOK'
  BY <1>0, <1>1, <1>2, ChainTypes DEF ChainTypeOK
<1>4. NoDanglingSnapshot'
  <2>1. cb.loaded => cb.snap = state \/ \E r \in retired : r.snap = cb.snap
    <3> SUFFICES ASSUME cb.loaded, cb.snap = pending
                 PROVE  FALSE
      BY DEF ChainInv, NoDanglingSnapshot
    <3> QED
      BY <1>0, ChainTypes, NoSnapshotType DEF ChainInv
  <2> QED
    BY <1>1, <2>1 DEF NoDanglingSnapshot
<1>5. BlockNumber' = BlockNumber
  BY <1>1 DEF BlockNumber
<1> QED
  BY <1>0, <1>1, <1>2, <1>3, <1>4, <1>5, ChainTypes DEF ChainInv

\* The date of a swap: a block that reads the old snapshot has been counted,
\* or is about to be.
LEMMA StampInv == ChainInv /\ Stamp => ChainInv'
<1> SUFFICES ASSUME ChainInv, Stamp
             PROVE  ChainInv'
  OBVIOUS
<1> DEFINE old == [snap |-> pending, at |-> blocks]
<1>0. ChainTypeOK
  BY DEF ChainInv
<1>1. /\ pending # NoSnapshot
      /\ retired' = retired \union {old}
      /\ pending' = NoSnapshot
      /\ floor' = blocks
      /\ UNCHANGED <<state, blocks, quiescent, attached, cb>>
  BY DEF Stamp
<1>2. old.snap = pending /\ old.at = blocks
  OBVIOUS
<1> HIDE DEF old
<1>3. ChainTypeOK'
  <2>1. old \in [snap : Snapshots, at : Nat]
    BY <1>0, ChainTypes DEF old
  <2> QED
    BY <1>0, <1>1, <2>1, ChainTypes, NoSnapshotType DEF ChainTypeOK
<1>4. NoDanglingSnapshot'
  BY <1>1, <1>2 DEF ChainInv, NoDanglingSnapshot
<1>5. BlockNumber' = BlockNumber
  BY <1>1 DEF BlockNumber
<1>6. old.snap.id < state.id
  BY <1>1, <1>2 DEF ChainInv
<1>7. cb.loaded => BlockNumber <= old.at + IF LoadOvertakes THEN 1 ELSE 0
  BY <1>0, <1>2, ChainTypes DEF ChainInv, BlockNumber
<1> QED
  BY <1>0, <1>1, <1>3, <1>4, <1>5, <1>6, <1>7 DEF ChainInv

\* A block that reads a retired snapshot began before its grace elapsed.
LEMMA GraceKeepsTheBlockInFlight ==
  ASSUME ChainInv, NEW r \in retired, cb.loaded, cb.snap.id = r.snap.id
  PROVE  ~ GraceElapsed(r)
<1>1. ChainTypeOK
  BY DEF ChainInv
<1>2. BlockNumber <= r.at + IF LoadOvertakes THEN 1 ELSE 0
  BY DEF ChainInv
<1>3. BlockNumber >= blocks
  BY <1>1, ChainTypes DEF BlockNumber
<1> QED
  BY <1>1, <1>2, <1>3, ChainTypes, ChainAssumption,
     GraceCoversTheBlockInFlight DEF GraceElapsed

\* Reaping frees only what no block reads.
LEMMA ReapInv == ChainInv /\ Reap => ChainInv'
<1> SUFFICES ASSUME ChainInv, Reap
             PROVE  ChainInv'
  OBVIOUS
<1>0. ChainTypeOK
  BY DEF ChainInv
<1>1. /\ retired' = {r \in retired : ~ GraceElapsed(r)}
      /\ UNCHANGED <<state, blocks, pending, floor, quiescent, attached, cb>>
  BY DEF Reap
<1>2. retired' \subseteq retired
  BY <1>1
<1>3. ChainTypeOK'
  BY <1>0, <1>1, <1>2 DEF ChainTypeOK
<1>4. NoDanglingSnapshot'
  <2> SUFFICES ASSUME cb.loaded, NEW r \in retired, r.snap = cb.snap
               PROVE  r \in retired'
    BY <1>1 DEF ChainInv, NoDanglingSnapshot
  <2> QED
    BY <1>1, GraceKeepsTheBlockInFlight
<1>5. BlockNumber' = BlockNumber
  BY <1>1 DEF BlockNumber
<1> QED
  BY <1>1, <1>2, <1>3, <1>4, <1>5 DEF ChainInv

\* Nothing is read after the callback is detached.
LEMMA ChainShutdownInv == ChainInv /\ ChainShutdown => ChainInv'
<1> SUFFICES ASSUME ChainInv, ChainShutdown
             PROVE  ChainInv'
  OBVIOUS
<1>0. ChainTypeOK
  BY DEF ChainInv
<1>1. /\ ~ attached /\ pending = NoSnapshot
      /\ quiescent' = TRUE /\ state' = NoSnapshot /\ retired' = {}
      /\ UNCHANGED <<blocks, pending, floor, attached, cb>>
  BY DEF ChainShutdown
<1>2. ChainTypeOK'
  BY <1>0, <1>1, NoSnapshotType DEF ChainTypeOK
<1>3. cb = IdleBlock /\ ~ cb.loaded
  BY <1>1, NoSnapshotType DEF ChainInv
<1> QED
  BY <1>1, <1>2, <1>3 DEF ChainInv, NoDanglingSnapshot

\* Every step an owner's specification can take preserves the invariant.
LEMMA ChainStepInv == ChainInv /\ [ChainStep]_chainVars => ChainInv'
<1>1. ChainInv /\ UNCHANGED chainVars => ChainInv'
  BY DEF ChainInv, chainVars, ChainTypeOK, NoDanglingSnapshot, BlockNumber
<1> QED
  BY <1>1, CallbackInv, PublishInv, StampInv, ReapInv, ChainShutdownInv
     DEF ChainStep

----------------------------------------------------------------------------
(* What a list is after an element was erased from it or put into it, for  *)
(* the proofs about the owners of the processors.                          *)

\* Erasing a slot of a vector moves the ones behind it up.
LEMMA RemoveAtFacts ==
  ASSUME NEW S, NEW s \in Seq(S), NEW i \in 1..Len(s)
  PROVE  /\ RemoveAt(s, i) \in Seq(S)
         /\ Len(RemoveAt(s, i)) = Len(s) - 1
         /\ \A k \in 1..(Len(s) - 1) :
              RemoveAt(s, i)[k] = IF k < i THEN s[k] ELSE s[k + 1]
<1> DEFINE front == SubSeq(s, 1, i - 1)
           back  == SubSeq(s, i + 1, Len(s))
<1>1. /\ front \in Seq(S) /\ Len(front) = i - 1
      /\ \A k \in 1..(i - 1) : front[k] = s[k]
  BY SubSeqProperties
<1>2. /\ back \in Seq(S) /\ Len(back) = Len(s) - i
      /\ \A k \in 1..(Len(s) - i) : back[k] = s[k + i]
  BY SubSeqProperties
<1>3. /\ front \o back \in Seq(S)
      /\ Len(front \o back) = Len(front) + Len(back)
      /\ \A k \in 1..(Len(front) + Len(back)) :
           (front \o back)[k] = IF k <= Len(front) THEN front[k]
                                ELSE back[k - Len(front)]
  BY <1>1, <1>2, ConcatProperties
<1>4. RemoveAt(s, i) = front \o back
  BY DEF RemoveAt
<1> HIDE DEF front, back
<1>5. Len(front \o back) = Len(s) - 1
  BY <1>1, <1>2, <1>3
<1>6. ASSUME NEW k \in 1..(Len(s) - 1)
      PROVE  (front \o back)[k] = IF k < i THEN s[k] ELSE s[k + 1]
  <2>0. Len(s) \in Nat /\ i \in Nat /\ k \in Nat
    BY LenProperties
  <2>1. (front \o back)[k] = IF k <= i - 1 THEN front[k] ELSE back[k - (i - 1)]
    BY <1>1, <1>2, <1>3
  <2>2. CASE k < i
    BY <2>1, <2>2, <1>1
  <2>3. CASE k >= i
    <3>1. /\ k - (i - 1) \in 1..(Len(s) - i)
          /\ \A j \in Nat : j = k - (i - 1) => j + i = k + 1
      BY <2>0, <2>3
    <3>2. back[k - (i - 1)] = s[k + 1]
      <4> DEFINE j == k - (i - 1)
      <4>1. j \in Nat /\ j + i = k + 1
        BY <3>1
      <4>2. back[j] = s[j + i]
        BY <3>1, <1>2
      <4> HIDE DEF j
      <4>3. back[j] = s[k + 1]
        BY <4>1, <4>2
      <4> QED
        BY <4>3 DEF j
    <3>3. ~ (k <= i - 1) /\ ~ (k < i)
      BY <2>0, <2>3
    <3>4. (front \o back)[k] = back[k - (i - 1)]
      BY <2>1, <3>3
    <3> QED
      BY <3>2, <3>3, <3>4
  <2>4. k < i \/ k >= i
    BY <2>0
  <2> QED
    BY <2>2, <2>3, <2>4
<1> QED
  BY <1>3, <1>4, <1>5, <1>6

\* Inserting moves the slots behind the new one down.
LEMMA InsertAtFacts ==
  ASSUME NEW S, NEW s \in Seq(S), NEW i \in 1..(Len(s) + 1), NEW e \in S
  PROVE  /\ InsertAt(s, i, e) \in Seq(S)
         /\ Len(InsertAt(s, i, e)) = Len(s) + 1
         /\ \A k \in 1..(Len(s) + 1) :
              InsertAt(s, i, e)[k] =
                IF k < i THEN s[k] ELSE IF k = i THEN e ELSE s[k - 1]
<1> DEFINE front == SubSeq(s, 1, i - 1)
           back  == SubSeq(s, i, Len(s))
           head  == front \o <<e>>
<1>1. /\ front \in Seq(S) /\ Len(front) = i - 1
      /\ \A k \in 1..(i - 1) : front[k] = s[k]
  BY SubSeqProperties
<1>2. /\ back \in Seq(S) /\ Len(back) = Len(s) - i + 1
      /\ \A k \in 1..(Len(s) - i + 1) : back[k] = s[k + i - 1]
  BY SubSeqProperties
<1>3. <<e>> \in Seq(S) /\ Len(<<e>>) = 1 /\ <<e>>[1] = e
  OBVIOUS
<1>4. /\ head \in Seq(S) /\ Len(head) = i
      /\ \A k \in 1..i : head[k] = IF k < i THEN s[k] ELSE e
  <2> HIDE DEF front
  <2>1. /\ head \in Seq(S) /\ Len(head) = Len(front) + 1
        /\ \A k \in 1..(Len(front) + 1) :
             head[k] = IF k <= Len(front) THEN front[k]
                       ELSE <<e>>[k - Len(front)]
    BY <1>1, <1>3, ConcatProperties
  <2> QED
    BY <2>1, <1>1, <1>3
<1> HIDE DEF head, back
<1>5. /\ head \o back \in Seq(S)
      /\ Len(head \o back) = Len(head) + Len(back)
      /\ \A k \in 1..(Len(head) + Len(back)) :
           (head \o back)[k] = IF k <= Len(head) THEN head[k]
                               ELSE back[k - Len(head)]
  BY <1>2, <1>4, ConcatProperties
<1>6. InsertAt(s, i, e) = head \o back
  BY DEF InsertAt, head, back, front
<1> QED
  BY <1>2, <1>4, <1>5, <1>6
=============================================================================
