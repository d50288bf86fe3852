------------------------------ MODULE SpscRing ------------------------------
(***************************************************************************)
(* engine::LockFreeRingBuffer as it is driven by                           *)
(* transport::VirtualCaptureTransport: the realtime audio callback is the  *)
(* single producer (writeProcessedMic), the feeder or USB worker the       *)
(* single consumer (readProcessedMicFresh), and a control thread opens a   *)
(* fresh capture epoch (reset).                                            *)
(*                                                                         *)
(* The heads and the copied samples are modelled, with the overflow count: *)
(* the other counters and the block sequence numbers only report the same  *)
(* events.  Every access to a shared word is a step, and the copy loops    *)
(* move one sample at a time, so that the three threads interleave as they *)
(* do in the program.  Two loads by one operation are one step when a      *)
(* store between them cannot be told from one before the first.            *)
(*                                                                         *)
(* A sample is identified by the epoch it was accepted in and by its place *)
(* in that epoch's stream; the positions are 64-bit and never wrap here    *)
(* (a wrap takes 12 million years at 48 kHz), so they are naturals, except *)
(* in Buffered, where a difference below zero is what the code computes.   *)
(*                                                                         *)
(* An operator named Bad... is a plausible mistake in the definition after *)
(* it: nothing uses it, and a property must tell it from the code.         *)
(***************************************************************************)
EXTENDS Integers, Sequences

CONSTANTS
  Capacity,        \* m_capacity, in samples
  Block,           \* Format::blockSamples, the unit of a stale discard
  Threshold,       \* staleThresholdFrames
  WriteSizes,      \* sizes of the blocks the audio callback publishes
  ReadSizes,       \* sizes of the blocks the consumer asks for
  ConsumerQuiet,   \* TRUE: the consumer is stopped while a reset runs
  MaxOffered,      \* bound: samples offered in one epoch
  MaxEpoch         \* bound: number of epochs

ASSUME RingAssumption ==
  /\ Capacity \in Nat \ {0}
  /\ Block \in Nat \ {0}
  /\ Threshold \in Nat
  /\ WriteSizes \subseteq Nat \ {0}
  /\ ReadSizes \subseteq Nat \ {0}
  /\ ConsumerQuiet \in BOOLEAN
  /\ MaxOffered \in Nat /\ MaxEpoch \in Nat

\* The constructor refuses any other capacity; it makes "& m_mask" a modulus.
ASSUME CapacityIsPowerOfTwo == \E k \in 0..16 : Capacity = 2 ^ k

VARIABLES
  memory,    \* m_memory
  readPos,   \* m_readPos, moved by the consumer and by reset
  writePos,  \* m_writePos, moved by the producer and by reset
  dropped,   \* m_dropped, the overflowDrops of the statistics
  prod,      \* the producer's call in progress
  cons,      \* the consumer's call in progress
  ctl,       \* the reset in progress
  epoch,     \* history: number of resets begun, plus one
  offered,   \* history: samples offered to the ring in this epoch
  resyncAt,  \* history: write head the last stale discard resynchronized to
  served     \* history: the last block handed to the consumer

vars == <<memory, readPos, writePos, dropped, prod, cons, ctl,
          epoch, offered, resyncAt, served>>

----------------------------------------------------------------------------
Sample(e, p) == [epoch |-> e, pos |-> p]
Samples == [epoch : Nat, pos : Nat]

Index(p) == p % Capacity

\* available(): the unsigned difference, clamped to the capacity.  A read head
\* ahead of the write head gives a difference near 2^64, hence the clamp.
Buffered == IF writePos >= readPos /\ writePos - readPos <= Capacity
            THEN writePos - readPos
            ELSE Capacity

IdleProducer == [pc |-> "idle", n |-> 0, read |-> 0, done |-> 0]
IdleConsumer == [pc |-> "idle", n |-> 0, fresh |-> FALSE, seen |-> 0,
                 skip |-> 0, read |-> 0, buf |-> <<>>]

Init ==
  /\ memory = [i \in 0..(Capacity - 1) |-> Sample(0, 0)]
  /\ readPos = 0 /\ writePos = 0
  /\ dropped = 0
  /\ prod = IdleProducer
  /\ cons = IdleConsumer
  /\ ctl = "idle"
  /\ epoch = 1
  /\ offered = 0
  /\ resyncAt = 0
  /\ served = <<>>

----------------------------------------------------------------------------
(* Producer: writeProcessedMic -> writeBlock, on the audio callback.       *)

\* writeBlock loads the consumer's head; its own head cannot move meanwhile.
WriteBegin(n) ==
  /\ prod.pc = "idle"
  /\ ctl = "idle"                       \* the callback is stopped for a reset
  /\ offered + n <= MaxOffered
  /\ offered' = offered + n
  /\ prod' = [pc |-> "check", n |-> n, read |-> readPos, done |-> 0]
  /\ UNCHANGED <<memory, readPos, writePos, dropped, cons, ctl, epoch,
                 resyncAt, served>>

BadOverflowByOne == \/ prod.n > Capacity
                    \/ writePos + prod.n > prod.read + Capacity + 1

WriteOverflows == \/ prod.n > Capacity
                  \/ writePos + prod.n > prod.read + Capacity

BadRejectCountsBlocks ==
  /\ prod.pc = "check"
  /\ WriteOverflows
  /\ dropped' = dropped + 1
  /\ prod' = IdleProducer
  /\ UNCHANGED <<memory, readPos, writePos, cons, ctl, epoch, offered,
                 resyncAt, served>>

\* Drop-new: a block that does not fit is rejected whole and counted.
WriteReject ==
  /\ prod.pc = "check"
  /\ WriteOverflows
  /\ dropped' = dropped + prod.n
  /\ prod' = IdleProducer
  /\ UNCHANGED <<memory, readPos, writePos, cons, ctl, epoch, offered,
                 resyncAt, served>>

WriteAccept ==
  /\ prod.pc = "check"
  /\ ~ WriteOverflows
  /\ prod' = [prod EXCEPT !.pc = "copy"]
  /\ UNCHANGED <<memory, readPos, writePos, dropped, cons, ctl, epoch,
                 offered, resyncAt, served>>

WriteCopy ==
  /\ prod.pc = "copy"
  /\ prod.done < prod.n
  /\ LET p == writePos + prod.done
     IN  memory' = [memory EXCEPT ![Index(p)] = Sample(epoch, p)]
  /\ prod' = [prod EXCEPT !.done = @ + 1]
  /\ UNCHANGED <<readPos, writePos, dropped, cons, ctl, epoch, offered,
                 resyncAt, served>>

WritePublish ==
  /\ prod.pc = "copy"
  /\ prod.done = prod.n
  /\ writePos' = writePos + prod.n
  /\ prod' = IdleProducer
  /\ UNCHANGED <<memory, readPos, dropped, cons, ctl, epoch, offered, resyncAt,
                 served>>

Producer == \/ \E n \in WriteSizes : WriteBegin(n)
            \/ WriteReject \/ WriteAccept \/ WriteCopy \/ WritePublish

----------------------------------------------------------------------------
(* Consumer: readProcessedMicFresh = available, discard, readBlock.        *)

BadStaleKeepsABlock(buffered) ==
  IF buffered > Threshold THEN ((buffered \div Block) - 1) * Block ELSE 0

\* A backlog above the threshold is stale: its whole blocks are to be skipped.
StaleBlocks(buffered) ==
  IF buffered > Threshold THEN (buffered \div Block) * Block ELSE 0

ReadBegin(n, fresh) ==
  /\ cons.pc = "idle"
  /\ ConsumerQuiet => ctl = "idle"
  /\ LET skip == IF fresh THEN StaleBlocks(Buffered) ELSE 0
     IN  cons' = [pc |-> IF skip > 0 THEN "discard" ELSE "read", n |-> n,
                  fresh |-> fresh, seen |-> writePos, skip |-> skip,
                  read |-> 0, buf |-> <<>>]
  /\ UNCHANGED <<memory, readPos, writePos, dropped, prod, ctl, epoch,
                 offered, resyncAt, served>>

\* discard() looks at both heads again and does nothing when it would overrun.
DiscardCheck ==
  /\ cons.pc = "discard"
  /\ cons' = [cons EXCEPT
                !.pc = IF readPos + cons.skip > writePos THEN "read" ELSE "skip"]
  /\ UNCHANGED <<memory, readPos, writePos, dropped, prod, ctl, epoch,
                 offered, resyncAt, served>>

BadDiscardToHead ==
  /\ cons.pc = "skip"
  /\ readPos' = cons.seen
  /\ cons' = [cons EXCEPT !.pc = "read"]
  /\ resyncAt' = cons.seen
  /\ UNCHANGED <<memory, writePos, dropped, prod, ctl, epoch, offered,
                 served>>

DiscardSkip ==
  /\ cons.pc = "skip"
  /\ readPos' = readPos + cons.skip
  /\ cons' = [cons EXCEPT !.pc = "read"]
  /\ resyncAt' = cons.seen
  /\ UNCHANGED <<memory, writePos, dropped, prod, ctl, epoch, offered,
                 served>>

ReadEmpty ==
  /\ cons.pc = "read"
  /\ readPos + cons.n > writePos
  /\ cons' = IdleConsumer
  /\ UNCHANGED <<memory, readPos, writePos, dropped, prod, ctl, epoch,
                 offered, resyncAt, served>>

ReadAccept ==
  /\ cons.pc = "read"
  /\ readPos + cons.n <= writePos
  /\ cons' = [cons EXCEPT !.pc = "copy", !.read = readPos]
  /\ UNCHANGED <<memory, readPos, writePos, dropped, prod, ctl, epoch,
                 offered, resyncAt, served>>

ReadCopy ==
  /\ cons.pc = "copy"
  /\ Len(cons.buf) < cons.n
  /\ cons' = [cons EXCEPT
                !.buf = Append(@, memory[Index(cons.read + Len(cons.buf))])]
  /\ UNCHANGED <<memory, readPos, writePos, dropped, prod, ctl, epoch,
                 offered, resyncAt, served>>

BadReadNotPublished ==
  /\ cons.pc = "copy"
  /\ Len(cons.buf) = cons.n
  /\ served' = cons.buf
  /\ cons' = IdleConsumer
  /\ UNCHANGED <<memory, readPos, writePos, dropped, prod, ctl, epoch, offered,
                 resyncAt>>

ReadPublish ==
  /\ cons.pc = "copy"
  /\ Len(cons.buf) = cons.n
  /\ readPos' = readPos + cons.n
  /\ served' = cons.buf
  /\ cons' = IdleConsumer
  /\ UNCHANGED <<memory, writePos, dropped, prod, ctl, epoch, offered,
                 resyncAt>>

ReadSteps == \/ DiscardCheck \/ DiscardSkip
             \/ ReadEmpty \/ ReadAccept \/ ReadCopy \/ ReadPublish

Consumer == (\E n \in ReadSizes, fresh \in BOOLEAN : ReadBegin(n, fresh))
            \/ ReadSteps

----------------------------------------------------------------------------
(* Control: reset() of the transport, a sequence of relaxed stores.        *)

\* reset() is called with the callback stopped.  Whether the consumer is
\* stopped too is up to the caller, which is what ConsumerQuiet says.
ResetReadHead ==
  /\ ctl = "idle"
  /\ prod.pc = "idle"
  /\ ConsumerQuiet => cons.pc = "idle"
  /\ epoch < MaxEpoch
  /\ epoch' = epoch + 1
  /\ readPos' = 0
  /\ offered' = 0
  /\ resyncAt' = 0
  /\ ctl' = "writeHead"
  /\ UNCHANGED <<memory, writePos, dropped, prod, cons, served>>

BadResetKeepsWriteHead ==
  /\ ctl = "writeHead"
  /\ ctl' = "counters"
  /\ UNCHANGED <<memory, readPos, writePos, dropped, prod, cons, epoch, offered,
                 resyncAt, served>>

ResetWriteHead ==
  /\ ctl = "writeHead"
  /\ writePos' = 0
  /\ ctl' = "counters"
  /\ UNCHANGED <<memory, readPos, dropped, prod, cons, epoch, offered,
                 resyncAt, served>>

ResetCounters ==
  /\ ctl = "counters"
  /\ dropped' = 0
  /\ ctl' = "idle"
  /\ UNCHANGED <<memory, readPos, writePos, prod, cons, epoch, offered,
                 resyncAt, served>>

Control == ResetReadHead \/ ResetWriteHead \/ ResetCounters

----------------------------------------------------------------------------
Next == Producer \/ Consumer \/ Control

\* The callback and reset() run straight through once entered; the feeder's
\* loop calls the fresh read again and again for as long as it runs.
Fairness ==
  /\ WF_vars(WriteReject \/ WriteAccept \/ WriteCopy \/ WritePublish)
  /\ WF_vars(ResetWriteHead \/ ResetCounters)
  /\ WF_vars(ReadSteps)
  /\ WF_vars(\E n \in ReadSizes : ReadBegin(n, TRUE))

Spec == Init /\ [][Next]_vars
FairSpec == Spec /\ Fairness
----------------------------------------------------------------------------
(* Properties.                                                             *)

WriteCalls ==
  [pc : {"idle", "check", "copy"}, n : Nat, read : Nat, done : Nat]

ReadCalls ==
  [pc : {"idle", "discard", "skip", "read", "copy"}, n : Nat,
   fresh : BOOLEAN, seen : Nat, skip : Nat, read : Nat, buf : Seq(Samples)]

TypeOK ==
  /\ memory \in [0..(Capacity - 1) -> Samples]
  /\ readPos \in Nat /\ writePos \in Nat
  /\ dropped \in Nat
  /\ prod \in WriteCalls
  /\ cons \in ReadCalls
  /\ ctl \in {"idle", "writeHead", "counters"}
  /\ epoch \in Nat /\ offered \in Nat /\ resyncAt \in Nat
  /\ served \in Seq(Samples)

\* What the consumer copies out is, sample for sample, what was accepted at
\* that place of the current epoch's stream: the producer never overwrites a
\* slot the consumer has been promised, and no slot is read before it is
\* written (writeBlock and readBlock share no lock, only the two heads).
NoTornBlock ==
  \A i \in 1..Len(cons.buf) : cons.buf[i] = Sample(epoch, cons.read + i - 1)

\* At most Capacity samples lie between the heads, and the block being copied
\* in fits in front of them.
HeadsInRange ==
  ctl # "writeHead" =>
    /\ readPos <= writePos
    /\ writePos + prod.done <= readPos + Capacity

\* "Separate counters, never a silent drop": every sample offered in an epoch
\* was accepted, is counted in overflowDrops, or is in the call in progress.
\* The counters lag behind the heads only while reset() stores them.
NoSilentDrop ==
  ctl = "idle" => offered = writePos + dropped + prod.n

\* The largest part of the seen backlog a fresh read may leave in front.
MaxAge == IF Threshold < Block THEN Block - 1 ELSE Threshold

\* A fresh read never hands out a sample further behind the write head it saw
\* than the threshold, or than a part of one block after a stale discard.
FreshnessBound ==
  cons.pc = "copy" /\ cons.fresh => cons.seen - cons.read <= MaxAge

\* After a stale discard less than one block of the audio buffered before it
\* is left to be served: the part the whole-block discard cannot take.
ResyncLeavesPartOfABlock == resyncAt - readPos < Block

\* a was accepted before b.
Before(a, b) == \/ a.epoch < b.epoch
                \/ a.epoch = b.epoch /\ a.pos < b.pos

\* "Never replay stale samples": each block handed out is newer, sample for
\* sample, than everything handed out before it, across resets too.
NeverReplays ==
  [][served' # served /\ served # <<>> =>
       Before(served[Len(served)], served'[1])]_vars

\* A consumer that keeps reading never leaves a block of audio behind: a full
\* block in the ring is served, skipped or flushed by a reset.
BacklogMoves ==
  \A p \in 0..MaxOffered :
    (\A n \in ReadSizes : writePos >= readPos + n) /\ readPos = p
      ~> readPos # p \/ \E n \in ReadSizes : writePos < readPos + n

\* What is in the ring, as the drop-new queue knows it: a reset takes effect with
\* its first store, and a block is rejected when the producer looks at the
\* consumer's head.
Queue == IF ctl = "writeHead" THEN <<>>
         ELSE [i \in 1..(writePos - readPos) |-> memory[Index(readPos + i - 1)]]
Accepted == IF ctl = "writeHead" THEN 0 ELSE writePos
Rejected == IF ctl # "idle" THEN 0
            ELSE dropped + (IF prod.pc = "check" /\ WriteOverflows THEN prod.n ELSE 0)

\* The heads, the slots and the three threads implement the drop-new queue.
Abstract == INSTANCE DropNewFifo
              WITH queue <- Queue, accepted <- Accepted, rejected <- Rejected

ImplementsFifo == Abstract!Spec

----------------------------------------------------------------------------
(* The inductive invariant, for a consumer that is stopped during resets.  *)

\* The call in progress holds a head no newer than the other thread's head.
ProducerInv ==
  /\ prod.pc = "idle" => prod.n = 0
  /\ prod.pc # "copy" => prod.done = 0
  /\ prod.pc = "copy" => prod.done <= prod.n
  /\ prod.pc # "idle" => prod.read <= readPos
  /\ prod.pc = "copy" => writePos + prod.n <= prod.read + Capacity

ConsumerInv ==
  /\ cons.pc # "idle" => cons.n > 0 /\ cons.seen <= writePos
  /\ cons.pc \in {"discard", "skip"} =>
       /\ cons.skip <= cons.seen - readPos
       /\ cons.seen - readPos - cons.skip < Block
  /\ cons.pc = "read" /\ cons.fresh => cons.seen - readPos <= MaxAge
  /\ cons.pc = "copy" => /\ cons.read = readPos
                         /\ readPos + cons.n <= writePos
                         /\ Len(cons.buf) <= cons.n
  /\ cons.pc # "copy" => cons.buf = <<>>

\* Every slot between the heads, and every one the producer has filled beyond
\* them, holds the sample of its position.
SlotsInv ==
  ctl # "writeHead" =>
    \A p \in readPos..(writePos + prod.done - 1) :
      memory[Index(p)] = Sample(epoch, p)

\* Everything handed out lies behind the read head of this epoch.
ServedInv ==
  /\ served # <<>> => Before(served[Len(served)], Sample(epoch, readPos))
  /\ resyncAt <= writePos

IInv ==
  /\ TypeOK
  /\ ctl # "idle" => prod.pc = "idle" /\ cons.pc = "idle"
  /\ ctl # "idle" => readPos = 0 /\ offered = 0 /\ resyncAt = 0
  /\ ctl = "counters" => writePos = 0
  /\ HeadsInRange
  /\ ProducerInv
  /\ ConsumerInv
  /\ SlotsInv
  /\ ServedInv
  /\ NoTornBlock
  /\ NoSilentDrop
  /\ FreshnessBound
  /\ ResyncLeavesPartOfABlock

=============================================================================
