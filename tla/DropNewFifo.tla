---------------------------- MODULE DropNewFifo ----------------------------
(***************************************************************************)
(* What VirtualCaptureTransport promises its users, with no heads, slots   *)
(* or threads: a bounded queue of samples.  A block is accepted whole or   *)
(* rejected whole (drop-new); the reader takes whole blocks in order, or   *)
(* gives up a stale backlog in whole transport blocks; a reset starts an   *)
(* empty queue in a new epoch.                                             *)
(***************************************************************************)
EXTENDS Integers, Sequences

CONSTANTS Capacity, Block, Threshold, WriteSizes, ReadSizes

VARIABLES
  queue,     \* accepted samples, oldest first
  accepted,  \* samples accepted in this epoch
  rejected,  \* samples rejected in this epoch (overflowDrops)
  epoch,
  served     \* the last block the reader took

vars == <<queue, accepted, rejected, epoch, served>>

Init ==
  /\ queue = <<>>
  /\ accepted = 0
  /\ rejected = 0
  /\ epoch = 1
  /\ served = <<>>

\* The next n samples of the stream.
NewBlock(n) == [i \in 1..n |-> [epoch |-> epoch, pos |-> accepted + i - 1]]

Put(n) ==
  /\ Len(queue) + n <= Capacity
  /\ queue' = queue \o NewBlock(n)
  /\ accepted' = accepted + n
  /\ UNCHANGED <<rejected, epoch, served>>

Reject(n) ==
  /\ Len(queue) + n > Capacity
  /\ rejected' = rejected + n
  /\ UNCHANGED <<queue, accepted, epoch, served>>

Drop(n) == SubSeq(queue, n + 1, Len(queue))

Get(n) ==
  /\ n <= Len(queue)
  /\ served' = SubSeq(queue, 1, n)
  /\ queue' = Drop(n)
  /\ UNCHANGED <<accepted, rejected, epoch>>

Discard(n) ==
  /\ Len(queue) > Threshold
  /\ n % Block = 0
  /\ queue' = Drop(n)
  /\ UNCHANGED <<accepted, rejected, epoch, served>>

Reset ==
  /\ queue' = <<>>
  /\ accepted' = 0
  /\ rejected' = 0
  /\ epoch' = epoch + 1
  /\ UNCHANGED served

Next ==
  \/ \E n \in WriteSizes : Put(n) \/ Reject(n)
  \/ \E n \in ReadSizes : Get(n)
  \/ \E n \in 1..Len(queue) : Discard(n)
  \/ Reset

Spec == Init /\ [][Next]_vars
=============================================================================
