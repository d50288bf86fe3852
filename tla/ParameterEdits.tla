---------------------------- MODULE ParameterEdits ----------------------------
(***************************************************************************)
(* The edits of one plug-in's parameters on their way to its processor.    *)
(* The plug-in's editor performs them on the main thread, which pushes     *)
(* them into the processor's ParameterEditQueue: one producer, one         *)
(* consumer, the newest dropped when it is full.  A block that runs the    *)
(* processor drains a part of the queue and exposes it to the plug-in, as  *)
(* far as there is room for queues and points.                             *)
(*                                                                         *)
(* An edit is the number it has among all that were performed, which       *)
(* stands for its value; performed tells which parameter it is of.         *)
(***************************************************************************)
EXTENDS Integers, Sequences, FiniteSets, Functions

CONSTANTS
  Params,       \* parameters of the plug-in
  Capacity,     \* the queue's, a power of two
  MaxDrain,     \* kMaxDrainPerBlock
  MaxQueues,    \* kMaxQueues: parameters exposed to a block
  MaxPoints,    \* kMaxPoints: values of one parameter exposed to a block
  MaxPerformed  \* bound: edits performed

ASSUME EditsAssumption ==
  /\ {Capacity, MaxDrain, MaxQueues, MaxPoints} \subseteq Nat \ {0}
  /\ MaxPerformed \in Nat

VARIABLES
  performed,    \* the parameters of the edits performed so far
  head, tail,   \* m_head, m_tail
  memory,       \* m_memory
  push,         \* the push in progress: its step and its edit
  drain,        \* the block's drain: its step, how many edits are available,
                \* and those copied so far
  dropped,      \* the edits that m_parameterDrops counts
  delivered,    \* the edits handed to the plug-in, in order
  bypassed      \* the slot is bypassed: blocks leave the processor out

pluginVars ==
  <<performed, head, tail, memory, push, drain, dropped, delivered, bypassed>>

NoParameterEdit == 0
NoPush == [at |-> "idle", edit |-> NoParameterEdit]
NoDrain == [at |-> "idle", avail |-> 0, batch |-> << >>]

PluginInit ==
  /\ performed = << >>
  /\ head = 0 /\ tail = 0
  /\ memory = [i \in 0..(Capacity - 1) |-> NoParameterEdit]
  /\ push = NoPush /\ drain = NoDrain
  /\ dropped = {} /\ delivered = << >>
  /\ bypassed = FALSE

----------------------------------------------------------------------------
(* The producer: performEdit, onParameterEdit, enqueueParameter and push.   *)

BadFull == tail - head > Capacity

Full == tail - head >= Capacity

\* push loads the heads; a full queue drops the new edit.
PerformEdit(p) ==
  LET edit == Len(performed) + 1 IN
  /\ push.at = "idle" /\ edit <= MaxPerformed
  /\ performed' = Append(performed, p)
  /\ IF Full
     THEN dropped' = dropped \union {edit} /\ UNCHANGED push
     ELSE push' = [at |-> "store", edit |-> edit] /\ UNCHANGED dropped
  /\ UNCHANGED <<head, tail, memory, drain, delivered, bypassed>>

PushStore ==
  /\ push.at = "store"
  /\ memory' = [memory EXCEPT ![tail % Capacity] = push.edit]
  /\ push' = [push EXCEPT !.at = "publish"]
  /\ UNCHANGED <<performed, head, tail, drain, dropped, delivered, bypassed>>

PushPublish ==
  /\ push.at = "publish"
  /\ tail' = tail + 1
  /\ push' = NoPush
  /\ UNCHANGED <<performed, head, memory, drain, dropped, delivered, bypassed>>

\* The slot is bypassed or taken back in.
ToggleBypass ==
  /\ push.at = "idle"
  /\ bypassed' = ~bypassed
  /\ UNCHANGED <<performed, head, tail, memory, push, drain, dropped, delivered>>

----------------------------------------------------------------------------
(* The consumer: deliverParameterChanges, at the start of chainProcess.      *)

Least(m, n) == IF m <= n THEN m ELSE n

BadAvailable == IF tail - head >= MaxDrain THEN MaxDrain ELSE 0

Available == Least(tail - head, MaxDrain)

\* drain loads the tail ...
DrainBegin ==
  /\ drain.at = "idle" /\ ~bypassed
  /\ drain' = [at |-> "copy", avail |-> Available, batch |-> << >>]
  /\ UNCHANGED <<performed, head, tail, memory, push, dropped, delivered, bypassed>>

\* ... copies what is available, oldest first ...
DrainCopy ==
  LET n == Len(drain.batch) IN
  /\ drain.at = "copy" /\ n < drain.avail
  /\ drain' = [drain EXCEPT !.batch = Append(@, memory[(head + n) % Capacity])]
  /\ UNCHANGED <<performed, head, tail, memory, push, dropped, delivered, bypassed>>

\* ... and gives its room back.
NewHead == head + drain.avail

DrainPublish ==
  /\ drain.at = "copy" /\ Len(drain.batch) = drain.avail
  /\ head' = NewHead
  /\ drain' = [drain EXCEPT !.at = "deliver"]
  /\ UNCHANGED <<performed, tail, memory, push, dropped, delivered, bypassed>>

\* addPoint succeeds for every edit of a batch: there is a queue for each
\* parameter, with room for its points.
Exposable(batch) ==
  LET params == {performed[batch[i]] : i \in DOMAIN batch}
      Points(p) == Cardinality({i \in DOMAIN batch : performed[batch[i]] = p})
  IN  Cardinality(params) <= MaxQueues /\ \A p \in params : Points(p) <= MaxPoints

\* The first edit that finds no room ends the delivery; it and those behind it,
\* of whatever parameter, are dropped.
Exposed(batch) ==
  CHOOSE n \in 0..Len(batch) :
    /\ Exposable(SubSeq(batch, 1, n))
    /\ n < Len(batch) => ~Exposable(SubSeq(batch, 1, n + 1))

Overflow(batch, n) == Range(SubSeq(batch, n + 1, Len(batch)))

\* The plug-in processes the block with what it is given.
Deliver ==
  LET n == Exposed(drain.batch) IN
  /\ drain.at = "deliver"
  /\ delivered' = delivered \o SubSeq(drain.batch, 1, n)
  /\ dropped' = dropped \union Overflow(drain.batch, n)
  /\ drain' = [NoDrain EXCEPT !.at = "done"]
  /\ UNCHANGED <<performed, head, tail, memory, push, bypassed>>

\* A block is over when the processor has run, or was left out.
EndPlugin ==
  /\ drain.at = "done" \/ (drain.at = "idle" /\ bypassed)
  /\ drain' = NoDrain
  /\ UNCHANGED <<performed, head, tail, memory, push, dropped, delivered, bypassed>>

----------------------------------------------------------------------------
Push == PushStore \/ PushPublish
Drain == DrainBegin \/ DrainCopy \/ DrainPublish \/ Deliver

PluginNext ==
  \/ \E p \in Params : PerformEdit(p)
  \/ Push \/ ToggleBypass \/ Drain \/ EndPlugin

PluginFairness ==
  WF_pluginVars(Push) /\ WF_pluginVars(Drain) /\ WF_pluginVars(EndPlugin)

PluginSpec == PluginInit /\ [][PluginNext]_pluginVars /\ PluginFairness

----------------------------------------------------------------------------
(* Properties.                                                             *)

Pending == {memory[i % Capacity] : i \in head..(tail - 1)}
InHand == IF drain.at = "deliver" THEN Range(drain.batch) ELSE {}
Pushing == IF push.at = "idle" THEN {} ELSE {push.edit}

\* Every edit is in one place: it is being pushed, waits in the queue, is in the
\* hand of a drain, was delivered, or is counted as dropped; none is in two, and
\* the delivered ones are in the order they were performed in.
EditsAreAccounted ==
  LET places == <<Pending, InHand, Pushing, Range(delivered), dropped>> IN
  /\ UNION Range(places) = 1..Len(performed)
  /\ \A i, j \in DOMAIN places : i # j => places[i] \intersect places[j] = {}
  /\ \A i, j \in DOMAIN delivered : i < j => delivered[i] < delivered[j]

\* The newest edit of a parameter, and the one the plug-in has.
Newest(p) ==
  LET own == {e \in 1..Len(performed) : performed[e] = p}
  IN  IF own = {} THEN NoParameterEdit ELSE CHOOSE e \in own : \A f \in own : f <= e
Has(p) ==
  LET own == {e \in Range(delivered) : performed[e] = p}
  IN  IF own = {} THEN NoParameterEdit ELSE CHOOSE e \in own : \A f \in own : f <= e

\* In the end the plug-in has the value that the user left each parameter at,
\* unless that very edit was dropped or the slot does not stay in the chain.
EditsReachThePlugin ==
  <>[]~bypassed =>
    \A p \in Params : <>[](Newest(p) \in dropped \/ Has(p) = Newest(p))
=============================================================================
