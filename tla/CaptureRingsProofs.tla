------------------------- MODULE CaptureRingsProofs -------------------------
(***************************************************************************)
(* Proofs about the two rings a block of microphone samples is handed      *)
(* through: SpscRing, for every capacity, block size, threshold and set of *)
(* read and write sizes, and PicoLink, whose ring is reset by the thread   *)
(* that reads it, for every capacity and number of blocks and events.      *)
(***************************************************************************)
EXTENDS SpscRing, PicoLink, SequenceTheorems, TLAPS

----------------------------------------------------------------------------
(* SpscRing: arithmetic of the index and of the whole-block discard.       *)

\* Division with remainder, in the form the two lemmas below use.
LEMMA DivMod ==
  ASSUME NEW a \in Nat, NEW d \in Nat \ {0}
  PROVE  /\ a \div d \in Nat
         /\ a % d \in 0..(d - 1)
         /\ a = d * (a \div d) + (a % d)
  OBVIOUS

\* Every position has a slot.
LEMMA IndexRange ==
  ASSUME NEW p \in Nat
  PROVE  Index(p) \in 0..(Capacity - 1)
  BY DivMod, RingAssumption DEF Index

\* Two positions less than a capacity apart have different slots.
LEMMA IndexInjective ==
  ASSUME NEW a \in Nat, NEW b \in Nat, a < b, b < a + Capacity
  PROVE  Index(a) # Index(b)
<1> DEFINE qa == a \div Capacity
           qb == b \div Capacity
<1>1. qa \in Nat /\ qb \in Nat /\ Capacity \in Nat \ {0}
  BY DivMod, RingAssumption
<1>2. a = Capacity * qa + Index(a) /\ b = Capacity * qb + Index(b)
  BY DivMod, RingAssumption DEF Index
<1>3. Index(a) \in Nat /\ Index(b) \in Nat
  BY IndexRange
<1> HIDE DEF qa, qb
<1>4. SUFFICES ASSUME Index(a) = Index(b) PROVE FALSE
  OBVIOUS
<1>5. b - a = Capacity * (qb - qa)
  BY <1>1, <1>2, <1>3, <1>4
<1>6. CASE qb - qa <= 0
  BY <1>1, <1>5, <1>6
<1>7. CASE qb - qa >= 1
  <2>1. Capacity * (qb - qa) >= Capacity
    BY <1>1, <1>7
  <2> QED BY <2>1, <1>1, <1>5
<1> QED BY <1>1, <1>6, <1>7

\* A stale discard takes whole blocks and leaves less than one.
LEMMA StaleBlocksBound ==
  ASSUME NEW b \in Nat
  PROVE  /\ StaleBlocks(b) \in Nat
         /\ StaleBlocks(b) <= b
         /\ b > Threshold => b - StaleBlocks(b) < Block
         /\ b <= Threshold => StaleBlocks(b) = 0
<1> DEFINE q == b \div Block
<1>1. q \in Nat /\ b % Block \in 0..(Block - 1) /\ b = Block * q + (b % Block)
  BY DivMod, RingAssumption
<1>2. Block \in Nat \ {0} /\ Threshold \in Nat
  BY RingAssumption
<1> HIDE DEF q
<1>3. q * Block = Block * q /\ q * Block \in Nat
  BY <1>1, <1>2
<1> QED BY <1>1, <1>2, <1>3 DEF StaleBlocks, q

----------------------------------------------------------------------------
(* Type correctness, whatever the caller of reset() does.                  *)

\* A call that is not being made has the type of the others.
LEMMA IdleTypes == IdleProducer \in WriteCalls /\ IdleConsumer \in ReadCalls
<1>1. <<>> \in Seq(Samples)
  OBVIOUS
<1> QED BY <1>1 DEF IdleProducer, IdleConsumer, WriteCalls, ReadCalls

\* The ring is made empty, and typed.
LEMMA InitTypeOK == Init => TypeOK
<1> SUFFICES ASSUME Init PROVE TypeOK
  OBVIOUS
<1>1. Sample(0, 0) \in Samples /\ <<>> \in Seq(Samples)
  BY DEF Sample, Samples
<1> QED BY <1>1, IdleTypes DEF Init, TypeOK

\* The number of samples buffered is an integer.
LEMMA BufferedType ==
  ASSUME TypeOK
  PROVE  Buffered \in Nat
  BY RingAssumption DEF TypeOK, Buffered

\* Every step of either thread keeps the types.
LEMMA NextTypeOK == TypeOK /\ [Next]_vars => TypeOK'
<1> SUFFICES ASSUME TypeOK, [Next]_vars PROVE TypeOK'
  OBVIOUS
<1> USE DEF TypeOK
<1>1. ASSUME NEW n \in WriteSizes, WriteBegin(n) PROVE TypeOK'
  BY <1>1, RingAssumption DEF WriteBegin, WriteCalls
<1>2. CASE WriteReject
  BY <1>2, IdleTypes DEF WriteReject, WriteCalls
<1>3. CASE WriteAccept
  BY <1>3 DEF WriteAccept, WriteCalls
<1>4. CASE WriteCopy
  <2>1. Sample(epoch, writePos + prod.done) \in Samples
    BY DEF Sample, Samples, WriteCalls
  <2>2. memory' \in [0..(Capacity - 1) -> Samples]
    BY <1>4, <2>1 DEF WriteCopy
  <2>3. prod' \in WriteCalls
    <3>1. prod \in WriteCalls /\ prod' = [prod EXCEPT !.done = prod.done + 1]
      BY <1>4 DEF WriteCopy
    <3> HIDE DEF TypeOK
    <3> QED BY <3>1 DEF WriteCalls
  <2> QED BY <1>4, <2>2, <2>3 DEF WriteCopy
<1>5. CASE WritePublish
  <2>1. writePos' \in Nat
    BY <1>5 DEF WritePublish, WriteCalls
  <2> QED BY <1>5, <2>1, IdleTypes DEF WritePublish
<1>6. ASSUME NEW n \in ReadSizes, NEW fresh \in BOOLEAN, ReadBegin(n, fresh)
      PROVE  TypeOK'
  <2> DEFINE skip == IF fresh THEN StaleBlocks(Buffered) ELSE 0
             pc == IF skip > 0 THEN "discard" ELSE "read"
  <2>1. skip \in Nat
    BY BufferedType, StaleBlocksBound
  <2>2. cons' = [pc |-> pc, n |-> n, fresh |-> fresh, seen |-> writePos,
                 skip |-> skip, read |-> 0, buf |-> <<>>]
    BY <1>6 DEF ReadBegin
  <2>3. n \in Nat /\ <<>> \in Seq(Samples)
    BY RingAssumption
  <2>4. pc \in {"discard", "read"}
    OBVIOUS
  <2> HIDE DEF skip, pc
  <2>5. cons' \in ReadCalls
    BY <2>1, <2>2, <2>3, <2>4 DEF ReadCalls
  <2> QED BY <1>6, <2>5 DEF ReadBegin
<1>7. CASE DiscardCheck
  <2>1. cons' \in ReadCalls
    BY <1>7 DEF DiscardCheck, ReadCalls
  <2> QED BY <1>7, <2>1 DEF DiscardCheck
<1>8. CASE DiscardSkip
  <2>1. cons' \in ReadCalls
    BY <1>8 DEF DiscardSkip, ReadCalls
  <2>2. readPos' \in Nat
    BY <1>8 DEF DiscardSkip, ReadCalls
  <2>3. resyncAt' \in Nat
    BY <1>8 DEF DiscardSkip, ReadCalls
  <2> QED BY <1>8, <2>1, <2>2, <2>3 DEF DiscardSkip
<1>9. CASE ReadEmpty
  BY <1>9, IdleTypes DEF ReadEmpty
<1>10. CASE ReadAccept
  <2>1. cons' \in ReadCalls
    BY <1>10 DEF ReadAccept, ReadCalls
  <2> QED BY <1>10, <2>1 DEF ReadAccept
<1>11. CASE ReadCopy
  <2>1. cons.read + Len(cons.buf) \in Nat /\ cons.buf \in Seq(Samples)
    BY DEF ReadCalls
  <2>2. memory[Index(cons.read + Len(cons.buf))] \in Samples
    BY <2>1, IndexRange
  <2>3. Append(cons.buf, memory[Index(cons.read + Len(cons.buf))])
          \in Seq(Samples)
    BY <2>1, <2>2
  <2>4. cons' \in ReadCalls
    BY <1>11, <2>3 DEF ReadCopy, ReadCalls
  <2> QED BY <1>11, <2>4 DEF ReadCopy
<1>12. CASE ReadPublish
  <2>1. readPos' \in Nat /\ served' \in Seq(Samples)
    BY <1>12 DEF ReadPublish, ReadCalls
  <2> QED BY <1>12, <2>1, IdleTypes DEF ReadPublish
<1>13. CASE ResetReadHead
  BY <1>13 DEF ResetReadHead
<1>14. CASE ResetWriteHead
  BY <1>14 DEF ResetWriteHead
<1>15. CASE ResetCounters
  BY <1>15 DEF ResetCounters
<1>16. CASE UNCHANGED vars
  BY <1>16 DEF vars
<1> QED
  BY <1>1, <1>2, <1>3, <1>4, <1>5, <1>6, <1>7, <1>8, <1>9, <1>10, <1>11,
     <1>12, <1>13, <1>14, <1>15, <1>16
  DEF Next, Producer, Consumer, ReadSteps, Control

\* The variables keep their types in every behaviour of the ring.
THEOREM TypeCorrect == Spec => []TypeOK
  BY InitTypeOK, NextTypeOK, PTL DEF Spec

----------------------------------------------------------------------------
(* The inductive invariant, when the consumer is stopped during resets.    *)

\* The invariant without TypeOK, whose preservation is NextTypeOK.
Facts ==
  /\ ctl # "idle" => prod.pc = "idle" /\ cons.pc = "idle"
  /\ ctl # "idle" => readPos = 0 /\ offered = 0 /\ resyncAt = 0
  /\ ctl = "counters" => writePos = 0
  /\ HeadsInRange /\ ProducerInv /\ ConsumerInv /\ ServedInv
  /\ NoSilentDrop /\ FreshnessBound /\ ResyncLeavesPartOfABlock

\* The invariant holds of the ring as it is made.
LEMMA InitIInv == Init => IInv
<1> SUFFICES ASSUME Init PROVE IInv
  OBVIOUS
<1>1. TypeOK
  BY InitTypeOK
<1>2. Facts
  BY RingAssumption
  DEF Init, Facts, HeadsInRange, ProducerInv, ConsumerInv, ServedInv,
      NoSilentDrop, FreshnessBound, ResyncLeavesPartOfABlock,
      IdleProducer, IdleConsumer
<1>3. SlotsInv /\ NoTornBlock
  BY DEF Init, SlotsInv, NoTornBlock, IdleProducer, IdleConsumer
<1> QED BY <1>1, <1>2, <1>3 DEF IInv, Facts

\* The components of the two calls, with their types.
LEMMA CallTypes ==
  ASSUME TypeOK
  PROVE  /\ prod.n \in Nat /\ prod.read \in Nat /\ prod.done \in Nat
         /\ cons.n \in Nat /\ cons.seen \in Nat /\ cons.skip \in Nat
         /\ cons.read \in Nat /\ cons.fresh \in BOOLEAN
         /\ cons.buf \in Seq(Samples) /\ Len(cons.buf) \in Nat
         /\ readPos \in Nat /\ writePos \in Nat /\ dropped \in Nat
         /\ epoch \in Nat /\ offered \in Nat /\ resyncAt \in Nat
<1>1. prod.n \in Nat /\ prod.read \in Nat /\ prod.done \in Nat
  BY DEF TypeOK, WriteCalls
<1>2. /\ cons.n \in Nat /\ cons.seen \in Nat /\ cons.skip \in Nat
      /\ cons.read \in Nat /\ cons.fresh \in BOOLEAN
      /\ cons.buf \in Seq(Samples)
  BY DEF TypeOK, ReadCalls
<1> QED BY <1>1, <1>2 DEF TypeOK

\* The last sample handed out is a sample.
LEMMA LastServedType ==
  ASSUME TypeOK, served # <<>>
  PROVE  served[Len(served)].epoch \in Nat /\ served[Len(served)].pos \in Nat
<1>1. served \in Seq(Samples)
  BY DEF TypeOK
<1>2. served[Len(served)] \in Samples
  BY <1>1
<1> QED BY <1>2 DEF Samples

\* Every step keeps what is said of the heads and of the two calls.
LEMMA NextFacts == ConsumerQuiet /\ IInv /\ [Next]_vars => Facts'
<1> SUFFICES ASSUME ConsumerQuiet, IInv, [Next]_vars PROVE Facts'
  OBVIOUS
<1>t. /\ prod.n \in Nat /\ prod.read \in Nat /\ prod.done \in Nat
      /\ cons.n \in Nat /\ cons.seen \in Nat /\ cons.skip \in Nat
      /\ cons.read \in Nat /\ cons.fresh \in BOOLEAN
      /\ cons.buf \in Seq(Samples) /\ Len(cons.buf) \in Nat
      /\ readPos \in Nat /\ writePos \in Nat /\ dropped \in Nat
      /\ epoch \in Nat /\ offered \in Nat /\ resyncAt \in Nat
  BY CallTypes DEF IInv
<1>c. /\ Capacity \in Nat \ {0} /\ Block \in Nat \ {0} /\ Threshold \in Nat
      /\ WriteSizes \subseteq Nat \ {0} /\ ReadSizes \subseteq Nat \ {0}
      /\ MaxAge \in Nat
  BY RingAssumption DEF MaxAge
<1>f. Facts
  BY DEF IInv, Facts
<1>b. \A i \in 1..Len(cons.buf) : cons.buf[i] = Sample(epoch, cons.read + i - 1)
  BY DEF IInv, NoTornBlock
<1>s. served # <<>> => /\ served[Len(served)].epoch \in Nat
                       /\ served[Len(served)].pos \in Nat
  BY LastServedType DEF IInv
<1> USE <1>t, <1>c, <1>f DEF Facts
<1>1. ASSUME NEW n \in WriteSizes, WriteBegin(n) PROVE Facts'
  <2>1. /\ prod'.pc = "check" /\ prod'.n = n /\ prod'.read = readPos
        /\ prod'.done = 0
    BY <1>1 DEF WriteBegin
  <2>2. /\ n \in Nat /\ ctl = "idle" /\ prod.pc = "idle"
        /\ offered' = offered + n
        /\ UNCHANGED <<readPos, writePos, dropped, cons, ctl, epoch, resyncAt,
                       served>>
    BY <1>1 DEF WriteBegin
  <2>3. HeadsInRange' /\ ProducerInv' /\ NoSilentDrop'
    BY SMTT(30), <2>1, <2>2 DEF HeadsInRange, ProducerInv, NoSilentDrop
  <2>4. ConsumerInv' /\ ServedInv' /\ FreshnessBound'
        /\ ResyncLeavesPartOfABlock'
    BY <2>2 DEF ConsumerInv, ServedInv, FreshnessBound,
                ResyncLeavesPartOfABlock
  <2> QED BY <2>2, <2>3, <2>4
<1>2. CASE WriteReject
  <2>1. prod'.pc = "idle" /\ prod'.n = 0 /\ prod'.done = 0
    BY <1>2 DEF WriteReject, IdleProducer
  <2>2. /\ prod.pc = "check" /\ dropped' = dropped + prod.n
        /\ UNCHANGED <<readPos, writePos, cons, ctl, epoch, offered, resyncAt,
                       served>>
    BY <1>2 DEF WriteReject
  <2>3. HeadsInRange' /\ ProducerInv' /\ NoSilentDrop'
    BY SMTT(30), <2>1, <2>2 DEF HeadsInRange, ProducerInv, NoSilentDrop
  <2>4. ConsumerInv' /\ ServedInv' /\ FreshnessBound'
        /\ ResyncLeavesPartOfABlock'
    BY <2>2 DEF ConsumerInv, ServedInv, FreshnessBound,
                ResyncLeavesPartOfABlock
  <2> QED BY <2>1, <2>2, <2>3, <2>4
<1>3. CASE WriteAccept
  <2>1. /\ prod'.pc = "copy" /\ prod'.n = prod.n /\ prod'.read = prod.read
        /\ prod'.done = prod.done
    BY <1>3 DEF WriteAccept, IInv, TypeOK, WriteCalls
  <2>2. /\ prod.pc = "check" /\ ~ WriteOverflows
        /\ UNCHANGED <<readPos, writePos, dropped, cons, ctl, epoch, offered,
                       resyncAt, served>>
    BY <1>3 DEF WriteAccept
  <2>3. writePos + prod.n <= prod.read + Capacity
    BY <2>2 DEF WriteOverflows
  <2>5. HeadsInRange' /\ ProducerInv' /\ NoSilentDrop'
    BY SMTT(30), <2>1, <2>2, <2>3 DEF HeadsInRange, ProducerInv, NoSilentDrop
  <2>4. ConsumerInv' /\ ServedInv' /\ FreshnessBound'
        /\ ResyncLeavesPartOfABlock'
    BY <2>2 DEF ConsumerInv, ServedInv, FreshnessBound,
                ResyncLeavesPartOfABlock
  <2> QED BY <2>1, <2>2, <2>4, <2>5
<1>4. CASE WriteCopy
  <2>1. /\ prod'.pc = "copy" /\ prod'.n = prod.n /\ prod'.read = prod.read
        /\ prod'.done = prod.done + 1
    BY <1>4 DEF WriteCopy, IInv, TypeOK, WriteCalls
  <2>2. /\ prod.pc = "copy" /\ prod.done < prod.n
        /\ UNCHANGED <<readPos, writePos, dropped, cons, ctl, epoch, offered,
                       resyncAt, served>>
    BY <1>4 DEF WriteCopy
  <2>3. ProducerInv' /\ NoSilentDrop'
    BY <2>1, <2>2 DEF ProducerInv, NoSilentDrop
  <2>5. HeadsInRange'
    BY <2>1, <2>2 DEF HeadsInRange, ProducerInv
  <2>4. ConsumerInv' /\ ServedInv' /\ FreshnessBound'
        /\ ResyncLeavesPartOfABlock'
    BY <2>2 DEF ConsumerInv, ServedInv, FreshnessBound,
                ResyncLeavesPartOfABlock
  <2> QED BY <2>1, <2>2, <2>3, <2>4, <2>5
<1>5. CASE WritePublish
  <2>1. prod'.pc = "idle" /\ prod'.n = 0 /\ prod'.done = 0
    BY <1>5 DEF WritePublish, IdleProducer
  <2>2. /\ prod.pc = "copy" /\ prod.done = prod.n
        /\ writePos' = writePos + prod.n
        /\ UNCHANGED <<readPos, dropped, cons, ctl, epoch, offered, resyncAt,
                       served>>
    BY <1>5 DEF WritePublish
  <2>3. HeadsInRange' /\ ProducerInv' /\ NoSilentDrop'
    BY SMTT(30), <2>1, <2>2 DEF HeadsInRange, ProducerInv, NoSilentDrop
  <2>4. ConsumerInv'
    BY <2>2 DEF ConsumerInv
  <2>5. ServedInv' /\ FreshnessBound' /\ ResyncLeavesPartOfABlock'
    BY <2>2 DEF ServedInv, FreshnessBound, ResyncLeavesPartOfABlock
  <2> QED BY <2>1, <2>2, <2>3, <2>4, <2>5
<1>6. ASSUME NEW n \in ReadSizes, NEW fresh \in BOOLEAN, ReadBegin(n, fresh)
      PROVE  Facts'
  <2> DEFINE skip == IF fresh THEN StaleBlocks(Buffered) ELSE 0
             pc == IF skip > 0 THEN "discard" ELSE "read"
  <2>1. cons' = [pc |-> pc, n |-> n, fresh |-> fresh, seen |-> writePos,
                 skip |-> skip, read |-> 0, buf |-> <<>>]
    BY <1>6 DEF ReadBegin
  <2>2. /\ ctl = "idle" /\ cons.pc = "idle"
        /\ UNCHANGED <<readPos, writePos, dropped, prod, ctl, epoch, offered,
                       resyncAt, served>>
    BY <1>6 DEF ReadBegin
  <2>3. Buffered = writePos - readPos /\ Buffered \in Nat
    BY <2>2 DEF Buffered, HeadsInRange
  <2>a. LET b == writePos - readPos
        IN  /\ StaleBlocks(b) \in Nat /\ StaleBlocks(b) <= b
            /\ b > Threshold => b - StaleBlocks(b) < Block
            /\ b <= Threshold => StaleBlocks(b) = 0
    BY <2>3, StaleBlocksBound
  <2>b. skip = IF fresh THEN StaleBlocks(writePos - readPos) ELSE 0
    BY <2>3
  <2>4. /\ skip \in Nat /\ skip <= writePos - readPos
        /\ skip > 0 => writePos - readPos - skip < Block
    BY <2>a, <2>b, <2>3
  <2>5. skip = 0 /\ fresh => writePos - readPos <= MaxAge
    BY <2>a, <2>b, <2>3 DEF MaxAge
  <2> HIDE DEF skip
  <2>6. /\ cons'.pc = pc /\ cons'.n = n /\ cons'.fresh = fresh
        /\ cons'.seen = writePos /\ cons'.skip = skip /\ cons'.buf = <<>>
    BY <2>1
  <2>7. n \in Nat /\ n > 0 /\ pc \in {"discard", "read"}
        /\ (pc = "discard" => skip > 0) /\ (pc = "read" => skip = 0)
    BY <2>4
  <2> HIDE DEF pc
  <2>8. ConsumerInv'
    BY <2>2, <2>4, <2>5, <2>6, <2>7 DEF ConsumerInv
  <2>9. HeadsInRange' /\ ProducerInv' /\ NoSilentDrop'
    BY <2>2 DEF HeadsInRange, ProducerInv, NoSilentDrop
  <2>10. ServedInv' /\ FreshnessBound' /\ ResyncLeavesPartOfABlock'
    BY <2>2, <2>6, <2>7
    DEF ServedInv, FreshnessBound, ResyncLeavesPartOfABlock
  <2> QED BY <2>2, <2>8, <2>9, <2>10
<1>7. CASE DiscardCheck
  <2>1. /\ cons'.n = cons.n /\ cons'.fresh = cons.fresh
        /\ cons'.seen = cons.seen /\ cons'.skip = cons.skip
        /\ cons'.buf = cons.buf
        /\ cons'.pc = IF readPos + cons.skip > writePos THEN "read" ELSE "skip"
    BY <1>7 DEF DiscardCheck, IInv, TypeOK, ReadCalls
  <2>2. /\ cons.pc = "discard"
        /\ UNCHANGED <<readPos, writePos, dropped, prod, ctl, epoch, offered,
                       resyncAt, served>>
    BY <1>7 DEF DiscardCheck
  <2>3. cons'.pc = "skip"
    BY <2>1, <2>2 DEF ConsumerInv
  <2>4. HeadsInRange' /\ ProducerInv' /\ NoSilentDrop'
    BY <2>2 DEF HeadsInRange, ProducerInv, NoSilentDrop
  <2>5. ConsumerInv'
    BY <2>1, <2>2, <2>3 DEF ConsumerInv
  <2>6. ServedInv' /\ FreshnessBound' /\ ResyncLeavesPartOfABlock'
    BY <2>2, <2>3 DEF ServedInv, FreshnessBound, ResyncLeavesPartOfABlock
  <2> QED BY <2>2, <2>4, <2>5, <2>6
<1>8. CASE DiscardSkip
  <2>1. /\ cons'.pc = "read" /\ cons'.n = cons.n /\ cons'.fresh = cons.fresh
        /\ cons'.seen = cons.seen /\ cons'.buf = cons.buf
    BY <1>8 DEF DiscardSkip, IInv, TypeOK, ReadCalls
  <2>2. /\ cons.pc = "skip" /\ readPos' = readPos + cons.skip
        /\ resyncAt' = cons.seen
        /\ UNCHANGED <<writePos, dropped, prod, ctl, epoch, offered, served>>
    BY <1>8 DEF DiscardSkip
  <2>3. /\ cons.skip <= cons.seen - readPos /\ cons.seen <= writePos
        /\ cons.seen - readPos - cons.skip < Block
        /\ cons.n > 0 /\ cons.buf = <<>> /\ ctl = "idle"
    BY <2>2 DEF ConsumerInv
  <2>4. NoSilentDrop'
    BY <2>2, <2>3 DEF NoSilentDrop
  <2>10. readPos' <= writePos' /\ readPos <= readPos'
    BY SMTT(30), <2>2, <2>3
  <2>11. HeadsInRange'
    BY SMTT(30), <2>2, <2>3, <2>10 DEF HeadsInRange
  <2>5. ProducerInv'
    BY <2>2 DEF ProducerInv
  <2>6. cons'.seen - readPos' <= MaxAge
    BY SMTT(30), <2>1, <2>2, <2>3 DEF MaxAge
  <2>7. ConsumerInv'
    BY <2>1, <2>2, <2>3, <2>6 DEF ConsumerInv
  <2>8. served' # <<>> =>
          Before(served'[Len(served')], Sample(epoch', readPos'))
    BY <2>2, <1>s DEF ServedInv, Before, Sample
  <2>9. ServedInv' /\ FreshnessBound' /\ ResyncLeavesPartOfABlock'
    BY <2>1, <2>2, <2>3, <2>8
    DEF ServedInv, FreshnessBound, ResyncLeavesPartOfABlock
  <2> QED BY <2>2, <2>3, <2>4, <2>5, <2>7, <2>9, <2>11
<1>9. CASE ReadEmpty
  <2>1. cons'.pc = "idle" /\ cons'.buf = <<>>
    BY <1>9 DEF ReadEmpty, IdleConsumer
  <2>2. /\ cons.pc = "read"
        /\ UNCHANGED <<readPos, writePos, dropped, prod, ctl, epoch, offered,
                       resyncAt, served>>
    BY <1>9 DEF ReadEmpty
  <2>4. HeadsInRange' /\ ProducerInv' /\ NoSilentDrop'
    BY <2>2 DEF HeadsInRange, ProducerInv, NoSilentDrop
  <2>5. ConsumerInv' /\ ServedInv' /\ FreshnessBound'
        /\ ResyncLeavesPartOfABlock'
    BY <2>1, <2>2 DEF ConsumerInv, ServedInv, FreshnessBound,
                      ResyncLeavesPartOfABlock
  <2> QED BY <2>2, <2>4, <2>5
<1>10. CASE ReadAccept
  <2>1. /\ cons'.pc = "copy" /\ cons'.n = cons.n /\ cons'.fresh = cons.fresh
        /\ cons'.seen = cons.seen /\ cons'.buf = cons.buf
        /\ cons'.read = readPos
    BY <1>10 DEF ReadAccept, IInv, TypeOK, ReadCalls
  <2>2. /\ cons.pc = "read" /\ readPos + cons.n <= writePos
        /\ UNCHANGED <<readPos, writePos, dropped, prod, ctl, epoch, offered,
                       resyncAt, served>>
    BY <1>10 DEF ReadAccept
  <2>3. cons.buf = <<>>
    BY <2>2 DEF ConsumerInv
  <2>4. HeadsInRange' /\ ProducerInv' /\ NoSilentDrop'
    BY <2>2 DEF HeadsInRange, ProducerInv, NoSilentDrop
  <2>5. ConsumerInv'
    BY <2>1, <2>2, <2>3 DEF ConsumerInv
  <2>6. FreshnessBound'
    BY <2>1, <2>2 DEF FreshnessBound, ConsumerInv
  <2>7. ServedInv' /\ ResyncLeavesPartOfABlock'
    BY <2>2 DEF ServedInv, ResyncLeavesPartOfABlock
  <2> QED BY <2>2, <2>4, <2>5, <2>6, <2>7
<1>11. CASE ReadCopy
  <2> DEFINE m == memory[Index(cons.read + Len(cons.buf))]
  <2>1. /\ cons'.pc = "copy" /\ cons'.n = cons.n /\ cons'.fresh = cons.fresh
        /\ cons'.seen = cons.seen /\ cons'.read = cons.read
        /\ cons'.buf = Append(cons.buf, m)
    BY <1>11 DEF ReadCopy, IInv, TypeOK, ReadCalls
  <2>2. /\ cons.pc = "copy" /\ Len(cons.buf) < cons.n
        /\ UNCHANGED <<readPos, writePos, dropped, prod, ctl, epoch, offered,
                       resyncAt, served>>
    BY <1>11 DEF ReadCopy
  <2> HIDE DEF m
  <2>3. Len(cons'.buf) = Len(cons.buf) + 1
    BY <2>1
  <2>4. HeadsInRange' /\ ProducerInv' /\ NoSilentDrop'
    BY <2>2 DEF HeadsInRange, ProducerInv, NoSilentDrop
  <2>5. ConsumerInv'
    BY <2>1, <2>2, <2>3 DEF ConsumerInv
  <2>6. FreshnessBound'
    BY <2>1, <2>2 DEF FreshnessBound
  <2>7. ServedInv' /\ ResyncLeavesPartOfABlock'
    BY <2>2 DEF ServedInv, ResyncLeavesPartOfABlock
  <2> QED BY <2>2, <2>4, <2>5, <2>6, <2>7
<1>12. CASE ReadPublish
  <2>1. cons'.pc = "idle" /\ cons'.buf = <<>>
    BY <1>12 DEF ReadPublish, IdleConsumer
  <2>2. /\ cons.pc = "copy" /\ Len(cons.buf) = cons.n
        /\ readPos' = readPos + cons.n /\ served' = cons.buf
        /\ UNCHANGED <<writePos, dropped, prod, ctl, epoch, offered, resyncAt>>
    BY <1>12 DEF ReadPublish
  <2>3. /\ cons.n > 0 /\ cons.read = readPos /\ readPos + cons.n <= writePos
        /\ ctl = "idle"
    BY <2>2 DEF ConsumerInv
  <2>4. NoSilentDrop'
    BY <2>2, <2>3 DEF NoSilentDrop
  <2>10. readPos' <= writePos' /\ readPos <= readPos'
    BY <2>2, <2>3
  <2>11. HeadsInRange'
    BY <2>2, <2>3, <2>10 DEF HeadsInRange
  <2>5. ProducerInv'
    BY <2>2, <2>3 DEF ProducerInv
  <2>6. ConsumerInv' /\ FreshnessBound' /\ ResyncLeavesPartOfABlock'
    BY <2>1, <2>2, <2>3
    DEF ConsumerInv, FreshnessBound, ResyncLeavesPartOfABlock
  <2>12. cons.n \in 1..Len(cons.buf)
    BY <2>2, <2>3
  <2>7. cons.buf[cons.n] = Sample(epoch, readPos + cons.n - 1)
    BY <2>3, <2>12, <1>b
  <2>8. Before(served'[Len(served')], Sample(epoch', readPos'))
    BY <2>2, <2>3, <2>7 DEF Before, Sample
  <2>9. ServedInv'
    BY <2>2, <2>8 DEF ServedInv
  <2> QED BY <2>2, <2>3, <2>4, <2>5, <2>6, <2>9, <2>11
<1>13. CASE ResetReadHead
  <2>1. /\ ctl' = "writeHead" /\ readPos' = 0 /\ offered' = 0 /\ resyncAt' = 0
        /\ prod.pc = "idle" /\ cons.pc = "idle" /\ epoch' = epoch + 1
        /\ UNCHANGED <<writePos, dropped, prod, cons, served>>
    BY <1>13 DEF ResetReadHead
  <2>2. served # <<>> => served[Len(served)].epoch < epoch'
    BY <2>1, <1>s DEF ServedInv, Before, Sample
  <2>3. ServedInv'
    BY <2>1, <2>2 DEF ServedInv, Before, Sample
  <2>4. HeadsInRange' /\ ProducerInv' /\ NoSilentDrop'
    BY <2>1 DEF HeadsInRange, ProducerInv, NoSilentDrop
  <2>5. ConsumerInv' /\ FreshnessBound' /\ ResyncLeavesPartOfABlock'
    BY <2>1 DEF ConsumerInv, FreshnessBound, ResyncLeavesPartOfABlock
  <2> QED BY <2>1, <2>3, <2>4, <2>5
<1>14. CASE ResetWriteHead
  <2>1. /\ ctl = "writeHead" /\ ctl' = "counters" /\ writePos' = 0
        /\ UNCHANGED <<readPos, dropped, prod, cons, epoch, offered, resyncAt,
                       served>>
    BY <1>14 DEF ResetWriteHead
  <2>2. HeadsInRange' /\ ProducerInv' /\ NoSilentDrop'
    BY <2>1 DEF HeadsInRange, ProducerInv, NoSilentDrop
  <2>3. ConsumerInv' /\ FreshnessBound'
    BY <2>1 DEF ConsumerInv, FreshnessBound
  <2>4. ServedInv' /\ ResyncLeavesPartOfABlock'
    BY <2>1 DEF ServedInv, ResyncLeavesPartOfABlock
  <2> QED BY <2>1, <2>2, <2>3, <2>4
<1>15. CASE ResetCounters
  <2>1. /\ ctl = "counters" /\ ctl' = "idle" /\ dropped' = 0
        /\ UNCHANGED <<readPos, writePos, prod, cons, epoch, offered, resyncAt,
                       served>>
    BY <1>15 DEF ResetCounters
  <2>2. HeadsInRange' /\ ProducerInv' /\ NoSilentDrop'
    BY <2>1 DEF HeadsInRange, ProducerInv, NoSilentDrop
  <2>3. ConsumerInv' /\ FreshnessBound'
    BY <2>1 DEF ConsumerInv, FreshnessBound
  <2>4. ServedInv' /\ ResyncLeavesPartOfABlock'
    BY <2>1 DEF ServedInv, ResyncLeavesPartOfABlock
  <2> QED BY <2>1, <2>2, <2>3, <2>4
<1>16. CASE UNCHANGED vars
  BY <1>16 DEF vars, HeadsInRange, ProducerInv, ConsumerInv, ServedInv,
               NoSilentDrop, FreshnessBound, ResyncLeavesPartOfABlock
<1> QED
  BY <1>1, <1>2, <1>3, <1>4, <1>5, <1>6, <1>7, <1>8, <1>9, <1>10, <1>11,
     <1>12, <1>13, <1>14, <1>15, <1>16
  DEF Next, Producer, Consumer, ReadSteps, Control

\* The slot filled by the producer is none of those promised to the consumer,
\* so the contents between the heads survive every step.
LEMMA NextSlots == ConsumerQuiet /\ IInv /\ [Next]_vars => SlotsInv'
<1> SUFFICES ASSUME ConsumerQuiet, IInv, [Next]_vars PROVE SlotsInv'
  OBVIOUS
<1>t. /\ prod.n \in Nat /\ prod.read \in Nat /\ prod.done \in Nat
      /\ cons.n \in Nat /\ cons.skip \in Nat
      /\ readPos \in Nat /\ writePos \in Nat /\ Capacity \in Nat
  BY CallTypes, RingAssumption DEF IInv
<1>i. /\ ctl # "idle" => prod.pc = "idle" /\ cons.pc = "idle"
      /\ ProducerInv /\ HeadsInRange
  BY DEF IInv
<1>s. ctl # "writeHead" =>
        \A p \in readPos..(writePos + prod.done - 1) :
          memory[Index(p)] = Sample(epoch, p)
  BY DEF IInv, SlotsInv
<1>1. ASSUME UNCHANGED <<memory, writePos, ctl, epoch>>,
             prod'.done = prod.done, readPos' \in Nat, readPos <= readPos'
      PROVE  SlotsInv'
  <2> SUFFICES ASSUME ctl' # "writeHead",
                      NEW p \in readPos'..(writePos' + prod'.done - 1)
               PROVE  memory'[Index(p)'] = Sample(epoch', p)
    BY DEF SlotsInv, Sample
  <2>1. p \in readPos..(writePos + prod.done - 1)
    BY <1>1, <1>t
  <2> QED BY <1>1, <1>s, <2>1 DEF Index
<1>2. CASE \E n \in WriteSizes : WriteBegin(n)
  <2>1. prod.done = 0 /\ prod'.done = 0
    BY <1>2, <1>i DEF WriteBegin, ProducerInv
  <2> QED BY <1>1, <1>2, <1>t, <2>1 DEF WriteBegin
<1>3. CASE WriteReject
  <2>1. prod.done = 0 /\ prod'.done = 0
    BY <1>3, <1>i DEF WriteReject, ProducerInv, IdleProducer
  <2> QED BY <1>1, <1>3, <1>t, <2>1 DEF WriteReject
<1>4. CASE WriteAccept
  <2>1. prod'.done = prod.done
    BY <1>4 DEF WriteAccept, IInv, TypeOK, WriteCalls
  <2> QED BY <1>1, <1>4, <1>t, <2>1 DEF WriteAccept
<1>5. CASE WriteCopy
  <2> DEFINE q == writePos + prod.done
  <2>1. /\ prod.pc = "copy" /\ prod.done < prod.n /\ ctl = "idle"
        /\ memory' = [memory EXCEPT ![Index(q)] = Sample(epoch, q)]
        /\ UNCHANGED <<readPos, writePos, ctl, epoch>>
    BY <1>5, <1>i DEF WriteCopy
  <2>2. prod'.done = prod.done + 1
    BY <1>5 DEF WriteCopy, IInv, TypeOK, WriteCalls
  <2>3. q \in Nat /\ q < readPos + Capacity /\ readPos <= q
    BY <2>1, <1>i, <1>t DEF ProducerInv, HeadsInRange
  <2>4. memory \in [0..(Capacity - 1) -> Samples] /\ Index(q) \in 0..(Capacity - 1)
    BY <2>3, IndexRange DEF IInv, TypeOK
  <2>5. ASSUME NEW p \in readPos..q
        PROVE  memory'[Index(p)] = Sample(epoch, p)
    <3>1. CASE p = q
      BY <2>1, <2>4, <3>1
    <3>2. CASE p # q
      <4>1. p \in Nat /\ p < q /\ q < p + Capacity
        BY <2>3, <3>2, <1>t
      <4>2. Index(p) # Index(q) /\ Index(p) \in 0..(Capacity - 1)
        BY <4>1, <2>3, IndexInjective, IndexRange
      <4>3. p \in readPos..(writePos + prod.done - 1)
        BY <4>1, <1>t
      <4>4. memory[Index(p)] = Sample(epoch, p)
        BY <4>3, <1>s, <2>1
      <4> QED BY <4>2, <4>4, <2>1, <2>4
    <3> QED BY <3>1, <3>2
  <2>6. (writePos' + prod'.done - 1) = q
    BY <2>1, <2>2, <1>t
  <2> HIDE DEF q
  <2> QED BY <2>1, <2>5, <2>6 DEF SlotsInv, Index, Sample
<1>6. CASE WritePublish
  <2>1. /\ prod'.done = 0 /\ prod.done = prod.n
        /\ writePos' = writePos + prod.n
        /\ UNCHANGED <<memory, readPos, ctl, epoch>>
    BY <1>6 DEF WritePublish, IdleProducer
  <2>2. writePos' + prod'.done - 1 = writePos + prod.done - 1
    BY <2>1, <1>t
  <2> QED BY <2>1, <2>2, <1>s DEF SlotsInv, Index, Sample
<1>7. CASE \E n \in ReadSizes, fresh \in BOOLEAN : ReadBegin(n, fresh)
  BY <1>1, <1>7, <1>t DEF ReadBegin
<1>8. CASE DiscardCheck \/ ReadEmpty \/ ReadAccept \/ ReadCopy
  BY <1>1, <1>8, <1>t DEF DiscardCheck, ReadEmpty, ReadAccept, ReadCopy
<1>9. CASE DiscardSkip \/ ReadPublish
  <2>1. readPos' \in Nat /\ readPos <= readPos'
    BY <1>9, <1>t DEF DiscardSkip, ReadPublish
  <2> QED BY <1>1, <1>9, <2>1 DEF DiscardSkip, ReadPublish
<1>10. CASE ResetReadHead
  BY <1>10 DEF ResetReadHead, SlotsInv
<1>11. CASE ResetWriteHead
  <2>1. /\ writePos' = 0 /\ readPos' = 0 /\ prod'.done = 0
    BY <1>11, <1>i DEF ResetWriteHead, IInv, ProducerInv
  <2> QED BY <2>1 DEF SlotsInv
<1>12. CASE ResetCounters
  <2>1. /\ writePos = 0 /\ readPos = 0 /\ prod.done = 0
        /\ UNCHANGED <<readPos, writePos, prod>>
    BY <1>12, <1>i DEF ResetCounters, IInv, ProducerInv
  <2> QED BY <2>1 DEF SlotsInv
<1>13. CASE UNCHANGED vars
  BY <1>1, <1>13, <1>t DEF vars
<1> QED
  BY <1>2, <1>3, <1>4, <1>5, <1>6, <1>7, <1>8, <1>9, <1>10, <1>11, <1>12,
     <1>13
  DEF Next, Producer, Consumer, ReadSteps, Control

\* What the consumer copies is what the slot between the heads holds.
LEMMA NextNoTornBlock == ConsumerQuiet /\ IInv /\ [Next]_vars => NoTornBlock'
<1> SUFFICES ASSUME ConsumerQuiet, IInv, [Next]_vars PROVE NoTornBlock'
  OBVIOUS
<1>1. ASSUME UNCHANGED <<cons, epoch>> PROVE NoTornBlock'
  BY <1>1 DEF IInv, NoTornBlock, Sample
<1>2. ASSUME cons'.buf = <<>> PROVE NoTornBlock'
  BY <1>2 DEF NoTornBlock
<1>3. CASE Producer
  BY <1>1, <1>3 DEF Producer, WriteBegin, WriteReject, WriteAccept, WriteCopy,
                    WritePublish
<1>4. CASE \E n \in ReadSizes, fresh \in BOOLEAN : ReadBegin(n, fresh)
  BY <1>2, <1>4 DEF ReadBegin
<1>5. CASE DiscardCheck \/ DiscardSkip \/ ReadAccept
  <2>1. cons.buf = <<>>
    BY <1>5 DEF IInv, ConsumerInv, DiscardCheck, DiscardSkip, ReadAccept
  <2>2. cons'.buf = cons.buf
    BY <1>5 DEF DiscardCheck, DiscardSkip, ReadAccept, IInv, TypeOK, ReadCalls
  <2> QED BY <1>2, <2>1, <2>2
<1>6. CASE ReadEmpty \/ ReadPublish
  BY <1>2, <1>6 DEF ReadEmpty, ReadPublish, IdleConsumer
<1>7. CASE ReadCopy
  <2> DEFINE k == Len(cons.buf)
             m == memory[Index(cons.read + k)]
  <2>1. /\ cons'.read = cons.read /\ cons'.buf = Append(cons.buf, m)
        /\ epoch' = epoch
    BY <1>7 DEF ReadCopy, IInv, TypeOK, ReadCalls
  <2>2. /\ cons.pc = "copy" /\ k < cons.n /\ cons.read = readPos
        /\ readPos + cons.n <= writePos /\ ctl = "idle"
    BY <1>7 DEF ReadCopy, IInv, ConsumerInv
  <2>3. /\ k \in Nat /\ cons.n \in Nat /\ readPos \in Nat /\ writePos \in Nat
        /\ prod.done \in Nat /\ cons.buf \in Seq(Samples)
    BY CallTypes DEF IInv
  <2>4. readPos + k \in readPos..(writePos + prod.done - 1)
    BY <2>2, <2>3
  <2>5. m = Sample(epoch, cons.read + k)
    BY <2>2, <2>4 DEF IInv, SlotsInv
  <2> HIDE DEF m
  <2>6. ASSUME NEW i \in 1..Len(cons'.buf)
        PROVE  cons'.buf[i] = Sample(epoch, cons.read + i - 1)
    <3>1. Len(cons'.buf) = k + 1
      BY <2>1, <2>3
    <3>2. CASE i = k + 1
      <4>1. cons'.buf[i] = m
        BY <2>1, <2>3, <3>2
      <4>2. cons.read + i - 1 = cons.read + k
        BY <2>2, <2>3, <3>2
      <4> QED BY <2>5, <4>1, <4>2
    <3>3. CASE i # k + 1
      <4>1. i \in 1..k
        BY <2>3, <3>1, <3>3
      <4>2. cons'.buf[i] = cons.buf[i]
        BY <2>1, <2>3, <4>1
      <4> QED BY <4>1, <4>2 DEF IInv, NoTornBlock
    <3> QED BY <3>2, <3>3
  <2> QED BY <2>1, <2>6 DEF NoTornBlock, Sample
<1>8. CASE Control
  <2>1. cons.pc = "idle" /\ UNCHANGED cons
    BY <1>8 DEF Control, ResetReadHead, ResetWriteHead, ResetCounters, IInv
  <2>2. cons.buf = <<>>
    BY <2>1 DEF IInv, ConsumerInv
  <2> QED BY <1>2, <2>1, <2>2
<1>9. CASE UNCHANGED vars
  BY <1>1, <1>9 DEF vars
<1> QED
  BY <1>3, <1>4, <1>5, <1>6, <1>7, <1>8, <1>9 DEF Next, Consumer, ReadSteps

\* The parts together: the invariant is inductive while nothing resets the
\* ring under a running consumer.
LEMMA NextIInv == ConsumerQuiet /\ IInv /\ [Next]_vars => IInv'
<1> SUFFICES ASSUME ConsumerQuiet, IInv, [Next]_vars PROVE IInv'
  OBVIOUS
<1>1. TypeOK'
  BY NextTypeOK DEF IInv
<1>2. Facts' /\ SlotsInv' /\ NoTornBlock'
  BY NextFacts, NextSlots, NextNoTornBlock
<1> QED BY <1>1, <1>2 DEF IInv, Facts

\* With the consumer stopped during resets: no block is torn, the heads stay
\* within a capacity, no sample is lost uncounted, a fresh read is as fresh as
\* the threshold allows, and a resync leaves less than a block.
THEOREM RingSafety ==
  ASSUME ConsumerQuiet
  PROVE  Spec => [](/\ NoTornBlock /\ HeadsInRange /\ NoSilentDrop
                    /\ FreshnessBound /\ ResyncLeavesPartOfABlock)
<1>1. IInv => /\ NoTornBlock /\ HeadsInRange /\ NoSilentDrop
              /\ FreshnessBound /\ ResyncLeavesPartOfABlock
  BY DEF IInv
<1>2. IInv /\ [Next]_vars => IInv'
  BY NextIInv
<1> QED BY InitIInv, <1>1, <1>2, PTL DEF Spec

\* With the consumer stopped during resets, the heads stay within a capacity of each
\* other and the read head behind the write head.
THEOREM RingHeads ==
  ASSUME ConsumerQuiet
  PROVE  Spec => []HeadsInRange
<1> QED BY RingSafety, PTL

\* With the consumer stopped during resets, every sample the callback offered is in the
\* ring, was handed out, or is counted as dropped.
THEOREM RingDropsAreCounted ==
  ASSUME ConsumerQuiet
  PROVE  Spec => []NoSilentDrop
<1> QED BY RingSafety, PTL

\* With the consumer stopped during resets, what a fresh read leaves in front of it is
\* no more than the threshold allows.
THEOREM RingIsFresh ==
  ASSUME ConsumerQuiet
  PROVE  Spec => []FreshnessBound
<1> QED BY RingSafety, PTL

\* With the consumer stopped during resets, a resynchronization leaves less than a
\* transport block of what was there before it.
THEOREM RingResync ==
  ASSUME ConsumerQuiet
  PROVE  Spec => []ResyncLeavesPartOfABlock
<1> QED BY RingSafety, PTL

\* With the consumer stopped during resets, no sample is handed out twice and
\* none after a newer one, within an epoch and across resets.
THEOREM RingNeverReplays ==
  ASSUME ConsumerQuiet
  PROVE  Spec => NeverReplays
<1> DEFINE InOrder == served' # served /\ served # <<>> =>
                        Before(served[Len(served)], served'[1])
<1>1. IInv /\ [Next]_vars => [InOrder]_vars
  <2> SUFFICES ASSUME IInv, [Next]_vars, served' # served, served # <<>>
               PROVE  Before(served[Len(served)], served'[1])
    OBVIOUS
  <2>1. ReadPublish
    BY DEF Next, vars, Producer, WriteBegin, WriteReject, WriteAccept,
           WriteCopy, WritePublish, Consumer, ReadBegin, ReadSteps,
           DiscardCheck, DiscardSkip, ReadEmpty, ReadAccept, ReadCopy,
           Control, ResetReadHead, ResetWriteHead, ResetCounters
  <2>2. /\ served' = cons.buf /\ Len(cons.buf) = cons.n /\ cons.n > 0
        /\ cons.n \in Nat /\ cons.read = readPos /\ readPos \in Nat
    BY <2>1, CallTypes DEF ReadPublish, IInv, ConsumerInv
  <2>3. 1 \in 1..Len(cons.buf)
    BY <2>2
  <2>4. served'[1] = Sample(epoch, readPos)
    BY <2>2, <2>3 DEF IInv, NoTornBlock
  <2> QED BY <2>4 DEF IInv, ServedInv
<1>2. IInv /\ [Next]_vars => IInv'
  BY NextIInv
<1> QED BY InitIInv, <1>1, <1>2, PTL DEF Spec, NeverReplays

----------------------------------------------------------------------------
(* SpscRing implements DropNewFifo, when the consumer is stopped during    *)
(* resets.                                                                 *)

\* n samples of the stream of epoch e, from place p on.
Stretch(e, p, n) == [i \in 1..n |-> Sample(e, p + i - 1)]

\* A stretch is a sequence of samples.
LEMMA StretchSeq ==
  ASSUME NEW e \in Nat, NEW p \in Nat, NEW n \in Nat
  PROVE  /\ Stretch(e, p, n) \in Seq(Samples) /\ Len(Stretch(e, p, n)) = n
         /\ \A i \in 1..n : Stretch(e, p, n)[i] = Sample(e, p + i - 1)
<1>1. \A i \in 1..n : Sample(e, p + i - 1) \in Samples
  BY DEF Sample, Samples
<1>2. Stretch(e, p, n) \in Seq(Samples)
  BY <1>1 DEF Stretch
<1>3. Len(Stretch(e, p, n)) = n
  <2>1. PICK l : l = Len(Stretch(e, p, n))
    OBVIOUS
  <2>2. DOMAIN Stretch(e, p, n) = 1..n
    BY DEF Stretch
  <2>3. l \in Nat /\ 1..l = 1..n
    BY <1>2, <2>1, <2>2, LenProperties, Zenon
  <2>4. l \in 1..l <=> l > 0
    BY <2>3
  <2>5. n \in 1..n <=> n > 0
    OBVIOUS
  <2>6. l = n
    BY <2>3, <2>4, <2>5
  <2> QED BY <2>1, <2>6
<1> QED BY <1>2, <1>3 DEF Stretch

\* A sequence with the samples of a stretch is that stretch.
LEMMA IsStretch ==
  ASSUME NEW e \in Nat, NEW p \in Nat, NEW s \in Seq(Samples),
         \A i \in 1..Len(s) : s[i] = Sample(e, p + i - 1)
  PROVE  s = Stretch(e, p, Len(s))
<1>1. Len(s) \in Nat
  BY LenProperties, Zenon
<1>2. /\ Stretch(e, p, Len(s)) \in Seq(Samples) /\ Len(Stretch(e, p, Len(s))) = Len(s)
      /\ \A i \in 1..Len(s) : Stretch(e, p, Len(s))[i] = Sample(e, p + i - 1)
  BY <1>1, StretchSeq
<1>3. \A i \in 1..Len(s) : s[i] = Stretch(e, p, Len(s))[i]
  BY <1>2, Zenon
<1> QED BY <1>2, <1>3, SeqEqual, Zenon


\* What is in the ring, between the heads.
Between == Stretch(epoch, readPos, writePos - readPos)

\* The ring holds the samples between its heads, and is empty while it is reset.
Mapped ==
  /\ ctl = "writeHead" => Queue = <<>>
  /\ ctl # "writeHead" => writePos - readPos \in 0..Capacity /\ Queue = Between

LEMMA QueueIsBetween == IInv => Mapped
<1> SUFFICES ASSUME IInv, ctl # "writeHead"
             PROVE  writePos - readPos \in 0..Capacity /\ Queue = Between
  BY DEF Queue, Mapped
<1>1. /\ readPos \in Nat /\ writePos \in Nat /\ prod.done \in Nat /\ epoch \in Nat
      /\ Capacity \in Nat
  BY CallTypes, RingAssumption DEF IInv
<1>2. writePos - readPos \in 0..Capacity
  BY <1>1 DEF IInv, HeadsInRange
<1>3. \A p \in readPos..(writePos + prod.done - 1) : memory[Index(p)] = Sample(epoch, p)
  BY DEF IInv, SlotsInv
<1>4. \A i \in 1..(writePos - readPos) :
        memory[Index(readPos + i - 1)] = Sample(epoch, readPos + i - 1)
  <2> TAKE i \in 1..(writePos - readPos)
  <2>1. readPos + i - 1 \in readPos..(writePos + prod.done - 1)
    BY <1>1
  <2> QED BY <1>3, <2>1, Zenon
<1>5. Queue = Between
  <2>1. Queue = [i \in 1..(writePos - readPos) |-> memory[Index(readPos + i - 1)]]
    BY Zenon DEF Queue
  <2> QED BY <1>4, <2>1, Zenon DEF Between, Stretch
<1> QED BY <1>2, <1>5

\* And so in the next state.
LEMMA QueueIsBetweenNext == IInv' => Mapped'
<1> QED BY QueueIsBetween, PTL

\* A multiple leaves no rest.
LEMMA MultipleRest ==
  ASSUME NEW q \in Nat, NEW d \in Nat \ {0}
  PROVE  (q * d) % d = 0
<1>1. PICK a, k, r : a = q * d /\ k = a \div d /\ r = a % d
  OBVIOUS
<1>2. a \in Nat
  BY <1>1
<1>3. k \in Nat /\ r \in 0..(d - 1) /\ a = d * k + r
  <2>1. /\ a \div d \in Nat /\ a % d \in 0..(d - 1) /\ a = d * (a \div d) + (a % d)
    BY <1>2, DivMod, Zenon
  <2> QED BY <1>1, <2>1, Zenon
<1>4. r = d * (q - k)
  <2>1. \A i, j \in Nat : d * (i - j) = i * d - d * j /\ i * d \in Nat /\ d * j \in Nat
    OBVIOUS
  <2>2. d * (q - k) = q * d - d * k /\ q * d \in Nat /\ d * k \in Nat
    BY <1>3, <2>1
  <2>3. PICK x, y : x = q * d /\ y = d * k
    OBVIOUS
  <2>4. x = y + r /\ x \in Nat /\ y \in Nat /\ r \in Nat /\ d * (q - k) = x - y
    <3>1. x = y + r
      BY <1>1, <1>3, <2>3, Zenon
    <3>2. d * (q - k) = x - y /\ x \in Nat /\ y \in Nat
      BY <2>2, <2>3, Zenon
    <3> QED BY <1>3, <3>1, <3>2
  <2> QED BY <2>4
<1>5. CASE q - k <= -1
  BY <1>3, <1>4, <1>5
<1>6. CASE q - k >= 1
  BY <1>3, <1>4, <1>6
<1>7. CASE q - k = 0
  <2>1. r = 0
    BY <1>3, <1>4, <1>7
  <2> QED BY <1>1, <2>1, Zenon
<1> QED BY <1>3, <1>5, <1>6, <1>7

\* What a call in progress was asked for, and what a discard is about to skip.
CallsInv ==
  /\ prod.pc # "idle" => prod.n \in WriteSizes
  /\ cons.pc # "idle" => cons.n \in ReadSizes
  /\ cons.pc \in {"discard", "skip"} =>
       cons.skip > 0 /\ cons.skip % Block = 0 /\ cons.seen - readPos > Threshold

\* Every step keeps that.
LEMMA NextCalls == ConsumerQuiet /\ IInv /\ CallsInv /\ [Next]_vars => CallsInv'
<1> SUFFICES ASSUME ConsumerQuiet, IInv, CallsInv, [Next]_vars PROVE CallsInv'
  OBVIOUS
<1>t. /\ prod \in WriteCalls /\ cons \in ReadCalls
      /\ readPos \in Nat /\ writePos \in Nat
  BY DEF IInv, TypeOK
<1>1. ASSUME NEW n \in WriteSizes, WriteBegin(n) PROVE CallsInv'
  BY <1>1 DEF WriteBegin, CallsInv
<1>2. CASE WriteReject \/ WritePublish
  BY <1>2 DEF WriteReject, WritePublish, CallsInv, IdleProducer
<1>3. CASE WriteAccept \/ WriteCopy
  <2>1. prod'.n = prod.n /\ prod.pc # "idle" /\ UNCHANGED <<cons, readPos>>
    BY <1>3, <1>t DEF WriteAccept, WriteCopy, WriteCalls
  <2> QED BY <2>1 DEF CallsInv
<1>4. ASSUME NEW n \in ReadSizes, NEW fresh \in BOOLEAN, ReadBegin(n, fresh)
      PROVE  CallsInv'
  <2>1. PICK skip : skip = IF fresh THEN StaleBlocks(Buffered) ELSE 0
    OBVIOUS
  <2>2. /\ cons' = [pc |-> IF skip > 0 THEN "discard" ELSE "read", n |-> n,
                    fresh |-> fresh, seen |-> writePos, skip |-> skip,
                    read |-> 0, buf |-> <<>>]
        /\ cons.pc = "idle" /\ ctl = "idle" /\ UNCHANGED <<prod, readPos>>
    BY <1>4, <2>1 DEF ReadBegin
  <2>3. /\ cons'.n = n /\ cons'.skip = skip /\ cons'.seen = writePos
        /\ cons'.pc = IF skip > 0 THEN "discard" ELSE "read"
    BY <2>2
  <2>4. Buffered = writePos - readPos /\ Buffered \in Nat
    <3>1. readPos <= writePos /\ writePos + prod.done <= readPos + Capacity
      BY <2>2 DEF IInv, HeadsInRange
    <3>2. prod.done \in Nat /\ Capacity \in Nat
      BY <1>t, RingAssumption DEF WriteCalls
    <3> QED BY <1>t, <3>1, <3>2 DEF Buffered
  <2>5. ASSUME skip > 0 PROVE skip % Block = 0 /\ writePos - readPos > Threshold
    <3>1. fresh /\ Buffered > Threshold /\ skip = (Buffered \div Block) * Block
      BY <2>1, <2>5 DEF StaleBlocks
    <3>2. Block \in Nat \ {0}
      BY RingAssumption
    <3>3. Buffered \div Block \in Nat
      BY <2>4, <3>2, DivMod, Zenon
    <3>4. ((Buffered \div Block) * Block) % Block = 0
      BY <3>2, <3>3, MultipleRest, Zenon
    <3>5. skip % Block = 0
      BY <3>1, <3>4, Zenon
    <3> QED BY <2>4, <3>1, <3>5
  <2>6. skip > 0 => cons'.skip % Block = 0
    BY <2>3, <2>5, Zenon
  <2> QED BY <2>2, <2>3, <2>5, <2>6 DEF CallsInv
<1>5. CASE DiscardCheck
  <2>1. /\ cons.pc = "discard" /\ UNCHANGED <<prod, readPos>>
        /\ cons' = [cons EXCEPT
                      !.pc = IF readPos + cons.skip > writePos THEN "read" ELSE "skip"]
    BY <1>5 DEF DiscardCheck
  <2>2. cons'.n = cons.n /\ cons'.skip = cons.skip /\ cons'.seen = cons.seen
    BY <1>t, <2>1 DEF ReadCalls
  <2> QED BY <2>1, <2>2 DEF CallsInv
<1>6. CASE DiscardSkip \/ ReadAccept \/ ReadCopy
  <2>1. /\ cons.pc # "idle" /\ cons'.n = cons.n /\ UNCHANGED prod
        /\ cons'.pc \in {"read", "copy"}
    BY <1>6, <1>t DEF DiscardSkip, ReadAccept, ReadCopy, ReadCalls
  <2> QED BY <2>1 DEF CallsInv
<1>7. CASE ReadEmpty \/ ReadPublish
  BY <1>7 DEF ReadEmpty, ReadPublish, CallsInv, IdleConsumer
<1>8. CASE ResetReadHead
  BY <1>8 DEF ResetReadHead, CallsInv
<1>9. CASE ResetWriteHead \/ ResetCounters \/ UNCHANGED vars
  BY <1>9 DEF ResetWriteHead, ResetCounters, vars, CallsInv
<1> QED BY <1>1, <1>2, <1>3, <1>4, <1>5, <1>6, <1>7, <1>8, <1>9
        DEF Next, Producer, Consumer, ReadSteps, Control

\* The consumer's looks and copies are of no consequence to the queue.
LEMMA LooksStutter ==
  ASSUME \/ \E n \in ReadSizes, fresh \in BOOLEAN : ReadBegin(n, fresh)
         \/ DiscardCheck \/ ReadEmpty \/ ReadAccept \/ ReadCopy \/ UNCHANGED vars
  PROVE  UNCHANGED Abstract!vars
<1>1. UNCHANGED <<memory, readPos, writePos, dropped, prod, ctl, epoch, served>>
  BY DEF ReadBegin, DiscardCheck, ReadEmpty, ReadAccept, ReadCopy, vars
<1> QED BY <1>1 DEF Abstract!vars, Queue, Accepted, Rejected, WriteOverflows

\* A write offers its block when it loads the consumer's head: one that does not fit is
\* rejected there and then.
LEMMA BeginMaps ==
  ASSUME IInv, NEW n \in WriteSizes, WriteBegin(n)
  PROVE  Abstract!Next \/ UNCHANGED Abstract!vars
<1>1. /\ prod.pc = "idle" /\ ctl = "idle"
      /\ prod' = [pc |-> "check", n |-> n, read |-> readPos, done |-> 0]
      /\ UNCHANGED <<memory, readPos, writePos, dropped, ctl, epoch, served>>
  BY DEF WriteBegin
<1>2. UNCHANGED <<Queue, Accepted, epoch, served>>
  BY <1>1 DEF Queue, Accepted
<1>3. prod'.pc = "check" /\ prod'.n = n /\ prod'.read = readPos
  BY <1>1
<1>4. Rejected = dropped
  BY <1>1, CallTypes DEF Rejected, IInv
<1>5. WriteOverflows' <=> n > Capacity \/ writePos + n > readPos + Capacity
  BY <1>1, <1>3 DEF WriteOverflows
<1>6. CASE WriteOverflows'
  <2>1. Rejected' = Rejected + n
    BY <1>1, <1>3, <1>4, <1>6 DEF Rejected
  <2>2. Len(Queue) + n > Capacity
    <3>1. writePos - readPos \in 0..Capacity /\ Queue = Between
      BY <1>1, QueueIsBetween DEF Mapped
    <3>2. /\ readPos \in Nat /\ writePos \in Nat /\ epoch \in Nat /\ n \in Nat
          /\ Capacity \in Nat
      BY CallTypes, RingAssumption DEF IInv
    <3>3. Len(Queue) = writePos - readPos
      <4>1. writePos - readPos \in Nat
        BY <3>1, <3>2
      <4> QED BY <3>1, <3>2, <4>1, StretchSeq, Zenon DEF Between
    <3> QED BY <1>5, <1>6, <3>1, <3>2, <3>3
  <2>3. Abstract!Reject(n)
    BY <1>2, <2>1, <2>2 DEF Abstract!Reject
  <2> QED BY <2>3 DEF Abstract!Next
<1>7. CASE ~WriteOverflows'
  <2>1. Rejected' = Rejected
    BY <1>1, <1>3, <1>4, <1>7, CallTypes DEF Rejected, IInv
  <2> QED BY <1>2, <2>1 DEF Abstract!vars
<1> QED BY <1>6, <1>7

\* From there to its end the write changes nothing but slots outside the queue.
LEMMA WritesStutter ==
  ASSUME IInv, IInv', WriteReject \/ WriteAccept \/ WriteCopy
  PROVE  UNCHANGED Abstract!vars
<1>1. prod.pc # "idle" /\ UNCHANGED <<readPos, writePos, ctl, epoch, served>>
  BY DEF WriteReject, WriteAccept, WriteCopy
<1>2. ctl = "idle"
  BY <1>1 DEF IInv
<1>3. Queue' = Queue /\ Accepted' = Accepted
  <2>1. Queue = Between /\ Queue' = Between'
    BY <1>1, <1>2, QueueIsBetween, QueueIsBetweenNext DEF Mapped
  <2>2. Between' = Between
    BY <1>1 DEF Between
  <2> QED BY <1>1, <2>1, <2>2 DEF Accepted
<1>4. prod \in WriteCalls /\ dropped \in Nat
  BY DEF IInv, TypeOK
<1>5. Rejected' = Rejected
  <2>1. CASE WriteReject
    BY <1>2, <2>1, <1>4, <1>1 DEF WriteReject, Rejected, IdleProducer, WriteCalls
  <2>2. CASE WriteAccept
    <3>1. ~WriteOverflows /\ dropped' = dropped /\ prod'.pc = "copy"
      BY <1>4, <2>2 DEF WriteAccept, WriteCalls
    <3> QED BY <1>1, <1>2, <1>4, <3>1 DEF Rejected
  <2>3. CASE WriteCopy
    <3>1. prod.pc = "copy" /\ prod'.pc = "copy" /\ dropped' = dropped
      BY <1>4, <2>3 DEF WriteCopy, WriteCalls
    <3> QED BY <1>1, <1>2, <1>4, <3>1 DEF Rejected
  <2> QED BY <2>1, <2>2, <2>3
<1> QED BY <1>1, <1>3, <1>5 DEF Abstract!vars

\* The move of the write head puts the whole block.
LEMMA PublishMaps ==
  ASSUME IInv, IInv', CallsInv, WritePublish
  PROVE  Abstract!Next
<1>1. /\ prod.pc = "copy" /\ writePos' = writePos + prod.n /\ prod' = IdleProducer
      /\ UNCHANGED <<readPos, dropped, ctl, epoch, served>>
  BY DEF WritePublish
<1>2. PICK n \in WriteSizes : n = prod.n
  BY <1>1 DEF CallsInv
<1>3. /\ readPos \in Nat /\ writePos \in Nat /\ epoch \in Nat /\ n \in Nat /\ dropped \in Nat
      /\ Capacity \in Nat /\ prod.read \in Nat
  BY <1>2, CallTypes, RingAssumption DEF IInv
<1>4. ctl = "idle" /\ ctl' = "idle"
  BY <1>1 DEF IInv
<1>5. /\ Queue = Stretch(epoch, readPos, writePos - readPos)
      /\ writePos - readPos \in Nat
      /\ Queue' = Stretch(epoch, readPos, writePos + n - readPos)
  BY <1>1, <1>2, <1>3, <1>4, QueueIsBetween, QueueIsBetweenNext DEF Mapped, Between
<1>6. Len(Queue) = writePos - readPos
  BY <1>3, <1>5, StretchSeq
<1>7. Len(Queue) + n <= Capacity
  <2>1. writePos + n <= prod.read + Capacity /\ prod.read <= readPos
    BY <1>1, <1>2 DEF IInv, ProducerInv
  <2> QED BY <1>3, <1>6, <2>1
<1>8. Abstract!NewBlock(n) = Stretch(epoch, writePos, n)
  BY <1>4 DEF Abstract!NewBlock, Stretch, Sample, Accepted
<1>9. Queue' = Queue \o Abstract!NewBlock(n)
  <2>1. PICK a, b, c, l : /\ a = Queue /\ b = Abstract!NewBlock(n) /\ c = a \o b
                          /\ l = writePos - readPos
    OBVIOUS
  <2>2. /\ a \in Seq(Samples) /\ Len(a) = l
        /\ \A i \in 1..l : a[i] = Sample(epoch, readPos + i - 1)
    <3>1. epoch \in Nat /\ readPos \in Nat /\ l \in Nat /\ a = Stretch(epoch, readPos, l)
      BY <1>3, <1>5, <2>1
    <3> QED BY <3>1, StretchSeq
  <2>3. /\ b \in Seq(Samples) /\ Len(b) = n
        /\ \A i \in 1..n : b[i] = Sample(epoch, writePos + i - 1)
    <3>1. epoch \in Nat /\ writePos \in Nat /\ n \in Nat /\ b = Stretch(epoch, writePos, n)
      BY <1>3, <1>8, <2>1
    <3> QED BY <3>1, StretchSeq
  <2>4. /\ c \in Seq(Samples) /\ Len(c) = l + n
        /\ \A i \in 1..(l + n) : c[i] = IF i <= l THEN a[i] ELSE b[i - l]
    <3>1. l \in Nat /\ n \in Nat /\ c = a \o b
      BY <1>3, <1>5, <2>1
    <3>2. /\ a \o b \in Seq(Samples) /\ Len(a \o b) = Len(a) + Len(b)
          /\ \A i \in 1..(Len(a) + Len(b)) :
               (a \o b)[i] = IF i <= Len(a) THEN a[i] ELSE b[i - Len(a)]
      BY <2>2, <2>3, ConcatProperties
    <3> QED BY <2>2, <2>3, <3>1, <3>2
  <2>5. \A i \in 1..Len(c) : c[i] = Sample(epoch, readPos + i - 1)
    <3> SUFFICES ASSUME NEW i \in 1..(l + n) PROVE c[i] = Sample(epoch, readPos + i - 1)
      BY <2>4
    <3>1. CASE i <= l
      BY <1>5, <2>1, <2>2, <2>4, <3>1
    <3>2. CASE i > l
      <4>1. i - l \in 1..n /\ writePos + (i - l) - 1 = readPos + i - 1
        BY <1>3, <1>5, <2>1, <3>2
      <4>2. b[i - l] = Sample(epoch, writePos + (i - l) - 1)
        BY <2>3, <4>1
      <4>3. c[i] = b[i - l]
        <5>1. ~(i <= l)
          BY <1>3, <1>5, <2>1, <3>2
        <5> QED BY <2>4, <5>1, Zenon
      <4> QED BY <4>1, <4>2, <4>3
    <3>3. i <= l \/ i > l
      BY <1>3, <1>5, <2>1
    <3> QED BY <3>1, <3>2, <3>3, Zenon
  <2>6. c = Stretch(epoch, readPos, Len(c))
    BY <1>3, <2>4, <2>5, IsStretch, Zenon
  <2>7. writePos + n - readPos = Len(c)
    BY <1>3, <2>1, <2>4
  <2>8. Queue' = c
    BY <1>5, <2>6, <2>7
  <2> QED BY <2>1, <2>8
<1>10. Accepted' = Accepted + n /\ Rejected' = Rejected
  BY <1>1, <1>2, <1>3, <1>4 DEF Accepted, Rejected, IdleProducer
<1>11. Abstract!Put(n)
  BY <1>1, <1>7, <1>9, <1>10 DEF Abstract!Put
<1> QED BY <1>11 DEF Abstract!Next

\* A move of the read head drops as many samples, the oldest first.
LEMMA HeadMoves ==
  ASSUME IInv, IInv', ctl = "idle", NEW n \in Nat, n <= writePos - readPos,
         readPos' = readPos + n, UNCHANGED <<writePos, dropped, prod, ctl, epoch>>
  PROVE  /\ Len(Queue) = writePos - readPos /\ Queue' = Abstract!Drop(n)
         /\ SubSeq(Queue, 1, n) = Stretch(epoch, readPos, n)
         /\ UNCHANGED <<Accepted, Rejected, epoch>>
<1>1. readPos \in Nat /\ writePos \in Nat /\ epoch \in Nat
  BY CallTypes DEF IInv
<1>2. PICK l \in Nat : l = writePos - readPos
  BY QueueIsBetween DEF Mapped
<1>3. Queue = Stretch(epoch, readPos, l) /\ Queue' = Stretch(epoch, readPos + n, l - n)
  <2>1. writePos' - readPos' = l - n
    BY <1>1, <1>2
  <2>2. ctl # "writeHead" /\ ctl' # "writeHead"
    OBVIOUS
  <2>3. Queue = Between /\ Queue' = Between'
    BY <2>2, QueueIsBetween, QueueIsBetweenNext DEF Mapped
  <2> QED BY <1>2, <2>1, <2>3 DEF Between
<1>4. n \in 0..l
  BY <1>1, <1>2
<1>5. /\ Queue \in Seq(Samples) /\ Len(Queue) = l
      /\ \A i \in 1..l : Queue[i] = Sample(epoch, readPos + i - 1)
  <2>1. PICK e, p : e = epoch /\ p = readPos
    OBVIOUS
  <2>2. e \in Nat /\ p \in Nat
    BY <1>1, <2>1
  <2>3. /\ Stretch(e, p, l) \in Seq(Samples) /\ Len(Stretch(e, p, l)) = l
        /\ \A i \in 1..l : Stretch(e, p, l)[i] = Sample(e, p + i - 1)
    BY <2>2, StretchSeq, Zenon
  <2> QED BY <1>3, <2>1, <2>3, Zenon
<1>6. PICK a : a = Queue
  OBVIOUS
<1>7. /\ a \in Seq(Samples) /\ Len(a) = l
      /\ \A i \in 1..l : a[i] = Sample(epoch, readPos + i - 1)
  BY <1>5, <1>6, Zenon
<1>8. SubSeq(Queue, 1, n) = Stretch(epoch, readPos, n)
  <2>1. PICK b : b = SubSeq(a, 1, n)
    OBVIOUS
  <2>2. b \in Seq(Samples) /\ Len(b) = n /\ \A i \in 1..n : b[i] = a[i]
    BY <1>4, <1>7, <2>1
  <2>3. \A i \in 1..Len(b) : b[i] = Sample(epoch, readPos + i - 1)
    BY <1>4, <1>7, <2>2
  <2>4. b = Stretch(epoch, readPos, Len(b))
    BY <1>1, <2>2, <2>3, IsStretch
  <2> QED BY <1>6, <2>1, <2>2, <2>4, Zenon
<1>9. SubSeq(Queue, n + 1, l) = Stretch(epoch, readPos + n, l - n)
  <2>1. PICK b : b = SubSeq(a, n + 1, l)
    OBVIOUS
  <2>2. /\ b \in Seq(Samples) /\ Len(b) = l - n
        /\ \A i \in 1..(l - n) : b[i] = a[n + i]
    BY <1>4, <1>7, <2>1
  <2>3. ASSUME NEW i \in 1..Len(b) PROVE b[i] = Sample(epoch, readPos + n + i - 1)
    <3>1. n + i \in 1..l /\ readPos + (n + i) - 1 = readPos + n + i - 1 /\ i \in 1..(l - n)
      BY <1>1, <1>4, <2>2
    <3>2. b[i] = a[n + i] /\ a[n + i] = Sample(epoch, readPos + (n + i) - 1)
      BY <1>7, <2>2, <3>1, Zenon
    <3> QED BY <3>1, <3>2
  <2>4. readPos + n \in Nat
    BY <1>1
  <2>5. b = Stretch(epoch, readPos + n, Len(b))
    BY <1>1, <2>2, <2>3, <2>4, IsStretch, Zenon
  <2> QED BY <1>6, <2>1, <2>2, <2>5, Zenon
<1>10. Queue' = Abstract!Drop(n)
  BY <1>3, <1>5, <1>9, Zenon DEF Abstract!Drop
<1>11. UNCHANGED <<Accepted, Rejected, epoch>>
  BY DEF Accepted, Rejected, WriteOverflows
<1> QED BY <1>2, <1>5, <1>8, <1>10, <1>11

\* A stale discard gives up whole blocks of a backlog above the threshold.
LEMMA SkipMaps ==
  ASSUME ConsumerQuiet, IInv, IInv', CallsInv, DiscardSkip
  PROVE  Abstract!Next
<1>1. /\ cons.pc = "skip" /\ readPos' = readPos + cons.skip
      /\ UNCHANGED <<writePos, dropped, prod, ctl, epoch, served>>
  BY DEF DiscardSkip
<1>2. PICK n \in Nat : n = cons.skip
  BY CallTypes DEF IInv
<1>3. /\ cons.seen \in Nat /\ readPos \in Nat /\ writePos \in Nat /\ Threshold \in Nat
  BY CallTypes, RingAssumption DEF IInv
<1>4. n > 0 /\ cons.seen - readPos > Threshold
  BY <1>1, <1>2 DEF CallsInv
<1>5. n % Block = 0
  BY <1>1, <1>2, Zenon DEF CallsInv
<1>6. n <= cons.seen - readPos /\ cons.seen <= writePos /\ ctl = "idle"
  BY <1>1, <1>2 DEF IInv, ConsumerInv
<1>7. n <= writePos - readPos
  BY <1>2, <1>3, <1>6
<1>8. /\ Len(Queue) = writePos - readPos /\ Queue' = Abstract!Drop(n)
      /\ UNCHANGED <<Accepted, Rejected, epoch>>
  BY <1>1, <1>2, <1>6, <1>7, HeadMoves
<1>9. n \in 1..Len(Queue) /\ Len(Queue) > Threshold
  BY <1>2, <1>3, <1>4, <1>6, <1>7, <1>8
<1>10. Abstract!Discard(n)
  BY <1>1, <1>5, <1>8, <1>9, Zenon DEF Abstract!Discard
<1> QED BY <1>9, <1>10 DEF Abstract!Next

\* A read that ends has copied the first samples of the queue, and takes them.
LEMMA ReadMaps ==
  ASSUME ConsumerQuiet, IInv, IInv', CallsInv, ReadPublish
  PROVE  Abstract!Next
<1>1. /\ cons.pc = "copy" /\ Len(cons.buf) = cons.n /\ readPos' = readPos + cons.n
      /\ served' = cons.buf /\ UNCHANGED <<writePos, dropped, prod, ctl, epoch>>
  BY DEF ReadPublish
<1>2. PICK n \in ReadSizes : n = cons.n
  BY <1>1 DEF CallsInv
<1>3. n \in Nat /\ readPos \in Nat /\ writePos \in Nat /\ epoch \in Nat
  BY <1>2, CallTypes DEF IInv
<1>4. ctl = "idle" /\ cons.read = readPos /\ readPos + n <= writePos
  BY <1>1, <1>2 DEF IInv, ConsumerInv
<1>5. /\ Len(Queue) = writePos - readPos /\ Queue' = Abstract!Drop(n)
      /\ SubSeq(Queue, 1, n) = Stretch(epoch, readPos, n)
      /\ UNCHANGED <<Accepted, Rejected, epoch>>
  BY <1>1, <1>2, <1>3, <1>4, HeadMoves
<1>6. cons.buf = Stretch(epoch, readPos, n)
  <2>1. PICK b : b = cons.buf
    OBVIOUS
  <2>2. b \in Seq(Samples) /\ Len(b) = n
    BY <1>1, <1>2, <2>1, CallTypes DEF IInv
  <2>3. \A i \in 1..Len(b) : b[i] = Sample(epoch, readPos + i - 1)
    BY <1>4, <2>1 DEF IInv, NoTornBlock
  <2>4. b = Stretch(epoch, readPos, Len(b))
    BY <1>3, <2>2, <2>3, IsStretch
  <2> QED BY <2>1, <2>2, <2>4
<1>7. n <= Len(Queue)
  BY <1>3, <1>4, <1>5
<1>8. Abstract!Get(n)
  BY <1>1, <1>5, <1>6, <1>7 DEF Abstract!Get
<1> QED BY <1>8 DEF Abstract!Next

\* A reset takes effect with its first store; the other two show nothing.
LEMMA ResetMaps ==
  ASSUME IInv, IInv', Control
  PROVE  Abstract!Next \/ UNCHANGED Abstract!vars
<1>1. CASE ResetReadHead
  <2>1. Queue' = <<>> /\ Accepted' = 0 /\ Rejected' = 0 /\ epoch' = epoch + 1
        /\ served' = served
    BY <1>1 DEF ResetReadHead, Queue, Accepted, Rejected
  <2> QED BY <2>1 DEF Abstract!Reset, Abstract!Next
<1>2. CASE ResetWriteHead
  <2>1. /\ ctl = "writeHead" /\ ctl' = "counters" /\ writePos' = 0
        /\ readPos' = 0 /\ UNCHANGED <<epoch, served>>
    BY <1>2 DEF ResetWriteHead, IInv
  <2>2. Queue = <<>> /\ Queue' = <<>>
    <3>1. Queue' = Stretch(epoch', 0, 0) /\ Queue = <<>>
      BY <2>1, QueueIsBetween, QueueIsBetweenNext DEF Mapped, Between
    <3> QED BY <3>1 DEF Stretch
  <2>3. UNCHANGED <<Accepted, Rejected>>
    BY <2>1 DEF Accepted, Rejected
  <2> QED BY <2>1, <2>2, <2>3 DEF Abstract!vars
<1>3. CASE ResetCounters
  <2>1. /\ ctl = "counters" /\ ctl' = "idle" /\ dropped' = 0 /\ prod.pc = "idle"
        /\ UNCHANGED <<memory, readPos, writePos, prod, epoch, served>>
    BY <1>3 DEF ResetCounters, IInv
  <2>2. UNCHANGED <<Queue, Accepted>>
    BY <2>1 DEF Queue, Accepted
  <2>3. Rejected = 0 /\ Rejected' = 0
    BY <2>1 DEF Rejected
  <2> QED BY <2>1, <2>2, <2>3 DEF Abstract!vars
<1> QED BY <1>1, <1>2, <1>3 DEF Control

\* With the consumer stopped during resets, the ring, its heads and its three threads
\* implement the drop-new queue: every behaviour of writeBlock, readProcessedMicFresh and
\* reset is one of whole blocks put, rejected, taken or given up, and of fresh epochs.
THEOREM RingImplementsFifo ==
  ASSUME ConsumerQuiet
  PROVE  Spec => ImplementsFifo
<1>1. Init => Abstract!Init
  BY DEF Init, Abstract!Init, Queue, Accepted, Rejected, IdleProducer
<1>2. Init => CallsInv
  BY DEF Init, CallsInv, IdleProducer, IdleConsumer
<1>3. IInv /\ [Next]_vars => IInv'
  BY NextIInv
<1>4. IInv /\ CallsInv /\ [Next]_vars => CallsInv'
  BY NextCalls
<1>5. IInv /\ IInv' /\ CallsInv /\ [Next]_vars => [Abstract!Next]_(Abstract!vars)
  BY LooksStutter, BeginMaps, WritesStutter, PublishMaps, SkipMaps, ReadMaps, ResetMaps
  DEF Next, Producer, Consumer, ReadSteps
<1> QED BY InitIInv, <1>1, <1>2, <1>3, <1>4, <1>5, PTL
        DEF Spec, ImplementsFifo, Abstract!Spec

----------------------------------------------------------------------------
(* PicoLink: the invariant                                                 *)

\* The ring's heads: the feeder's last load of the write head is not behind it, and what
\* was published is no more than the blocks that were handed on.
HandedOn == IF feeder.pc = "idle" THEN feeder.block ELSE feeder.block - 1
InWrite == feeder.pc \in {"copy", "sinkpublish"}

Heads ==
  /\ feeder.pc # "idle" => feeder.block > 0
  /\ sink.read <= sink.write /\ sink.write <= HandedOn
  /\ InWrite => sink.write <= feeder.write /\ feeder.write <= HandedOn
  /\ feeder.pc \in {"flushread", "flushwrite"} => sink.generation # Generation
  /\ sink.generation # Generation =>
       sink.write = 0 /\ feeder.pc \in {"idle", "pico", "flushread", "flushwrite"}

\* The worker reads only while the sink is connected, and the sink is connected for as
\* long as the endpoint is open.
Resetting == worker.pc \in {"resetread", "resetwrite"}

Connected ==
  /\ worker.pc \in {"needs", "wait", "padding", "drain", "submit"} => sink.connected
  /\ Resetting => (sink.connected <=> worker.next = "needs")
  /\ worker.pc = "resetwrite" => sink.read = 0
  /\ device.started => device.client # "none"
  /\ worker.pc \in {"open", "register", "start", "failed", "disconnect"} => ~device.started
  /\ Resetting /\ worker.next = "top" => ~device.started
  /\ worker.pc = "top" /\ device.started => sink.connected

\* Whatever is in the ring, and whatever a write in progress adds to it, is of this
\* connection.
Now(i) == sink.mem[i % Cap] = "now"

Clean ==
  /\ \A i \in sink.read..(sink.write - 1) : Now(i)
  /\ Writing => feeder.tag = "now"
  /\ InWrite => \A i \in sink.read..(feeder.write - 1) : Now(i)
  /\ feeder.pc = "sinkpublish" => Now(feeder.write)

\* One race is forgiven: between two connections there are two resets, and each alone
\* leaves nothing of the earlier one.
Forgiven ==
  /\ races < 2 => ~worker.old
  /\ races < 2 /\ sink.connected /\ ~Resetting => Clean
  /\ races = 0 /\ sink.connected /\ Resetting => Clean /\ sink.read = 0
  /\ races = 0 /\ ~sink.connected /\ ~Resetting =>
       ~Writing /\ sink.read = 0 /\ sink.write = 0

FeederType ==
  [pc : {"idle", "pico", "flushread", "flushwrite", "load", "copy", "sinkpublish"},
   block : 0..MaxBlocks, tag : {"now", "old"}, write : 0..MaxBlocks]

SinkType ==
  [connected : BOOLEAN, generation : {0, Generation}, read : 0..MaxBlocks,
   write : 0..MaxBlocks, mem : [0..Cap - 1 -> {"now", "old"}]]

WorkerType ==
  [pc : {"top", "open", "register", "start", "clear", "connect", "resetread", "resetwrite",
         "needs", "wait", "padding", "drain", "submit", "close", "disconnect", "failed",
         "exit", "exited"},
   next : {"top", "needs"}, want : 0..MaxRender, old : BOOLEAN, raced : BOOLEAN]

DeviceType ==
  [client : {"none", "live", "dead"}, started : BOOLEAN, notify : BOOLEAN,
   needsReopen : BOOLEAN]

LinkTypes ==
  /\ feeder \in FeederType /\ sink \in SinkType /\ worker \in WorkerType
  /\ device \in DeviceType /\ endpoint \in [present : BOOLEAN, note : BOOLEAN]
  /\ stopping \in {"no", "feeder", "worker"} /\ races \in 0..2 /\ events \in 0..MaxEvents

LinkInv == LinkTypes /\ Heads /\ Connected /\ Forgiven

----------------------------------------------------------------------------
LEMMA LinkInitInv == LinkInit => LinkInv
<1> SUFFICES ASSUME LinkInit PROVE LinkInv
  OBVIOUS
<1> USE DEF LinkInit
<1>1. All("now") \in [0..Cap - 1 -> {"now", "old"}]
  BY DEF All
<1>2. LinkTypes
  BY <1>1, PicoAssumption DEF LinkTypes, FeederType, SinkType, WorkerType, DeviceType,
                              Generation
<1>3. Heads /\ Connected
  BY DEF Heads, Connected, HandedOn, InWrite, Resetting, Generation
<1>4. Forgiven
  BY DEF Forgiven, Clean, Writing, InWrite, Resetting
<1> QED BY <1>2, <1>3, <1>4 DEF LinkInv

\* What the worker does without touching the ring.
LEMMA WorkerMoves ==
  ASSUME LinkInv, UNCHANGED <<feeder, sink, races>>,
         ~Resetting, ~Resetting', worker'.old => worker.old
  PROVE  Heads' /\ Forgiven'
<1>1. Heads'
  BY DEF LinkInv, Heads, HandedOn, InWrite
<1>2. Forgiven'
  BY DEF LinkInv, Forgiven, Clean, Now, Writing, InWrite
<1> QED BY <1>1, <1>2

LEMMA GoesFacts ==
  ASSUME worker \in WorkerType, NEW place, Goes(place)
  PROVE  worker'.pc = place /\ worker'.next = worker.next /\ worker'.want = worker.want
         /\ worker'.old = worker.old /\ worker'.raced = worker.raced
BY DEF WorkerType, Goes

LEMMA LoopsInv ==
  ASSUME LinkInv, Loops PROVE LinkInv'
<1>1. LinkTypes'
  BY PicoAssumption DEF LinkInv, LinkTypes, WorkerType, DeviceType, Loops, InWorker, Goes,
                        IsOpen
<1>2. Heads' /\ Forgiven'
  BY GoesFacts, WorkerMoves DEF LinkInv, LinkTypes, Resetting, Loops, InWorker
<1>3. Connected'
  BY GoesFacts DEF LinkInv, LinkTypes, DeviceType, Connected, Resetting, Loops, InWorker, IsOpen
<1> QED BY <1>1, <1>2, <1>3 DEF LinkInv

LEMMA DiscoversInv ==
  ASSUME LinkInv, Discovers PROVE LinkInv'
<1>1. LinkTypes'
  BY PicoAssumption DEF LinkInv, LinkTypes, WorkerType, DeviceType, Discovers, InWorker, Goes
<1>2. Heads' /\ Forgiven'
  BY GoesFacts, WorkerMoves DEF LinkInv, LinkTypes, Resetting, Discovers, InWorker
<1>3. Connected'
  BY GoesFacts DEF LinkInv, LinkTypes, DeviceType, Connected, Resetting, Discovers, InWorker
<1> QED BY <1>1, <1>2, <1>3 DEF LinkInv

LEMMA RegistersInv ==
  ASSUME LinkInv, Registers PROVE LinkInv'
<1>1. LinkTypes'
  BY PicoAssumption DEF LinkInv, LinkTypes, WorkerType, DeviceType, Registers, InWorker, Goes
<1>2. Heads' /\ Forgiven'
  BY GoesFacts, WorkerMoves DEF LinkInv, LinkTypes, Resetting, Registers, InWorker
<1>3. Connected'
  BY GoesFacts DEF LinkInv, LinkTypes, DeviceType, Connected, Resetting, Registers, InWorker
<1> QED BY <1>1, <1>2, <1>3 DEF LinkInv

LEMMA StartsClientInv ==
  ASSUME LinkInv, StartsClient PROVE LinkInv'
<1>1. LinkTypes'
  BY PicoAssumption DEF LinkInv, LinkTypes, WorkerType, DeviceType, StartsClient, InWorker,
                        Goes, Alive, Closed
<1>2. Heads' /\ Forgiven'
  BY GoesFacts, WorkerMoves DEF LinkInv, LinkTypes, Resetting, StartsClient, InWorker
<1>3. Connected'
  BY GoesFacts DEF LinkInv, LinkTypes, DeviceType, Connected, Resetting, StartsClient,
                   InWorker, Alive, Closed
<1> QED BY <1>1, <1>2, <1>3 DEF LinkInv

LEMMA ClearsFlagInv ==
  ASSUME LinkInv, ClearsFlag PROVE LinkInv'
<1>1. LinkTypes'
  BY PicoAssumption DEF LinkInv, LinkTypes, WorkerType, DeviceType, ClearsFlag, InWorker, Goes
<1>2. Heads' /\ Forgiven'
  BY GoesFacts, WorkerMoves DEF LinkInv, LinkTypes, Resetting, ClearsFlag, InWorker
<1>3. Connected'
  BY GoesFacts DEF LinkInv, LinkTypes, DeviceType, Connected, Resetting, ClearsFlag, InWorker
<1> QED BY <1>1, <1>2, <1>3 DEF LinkInv

LEMMA ChecksNeedsInv ==
  ASSUME LinkInv, ChecksNeeds PROVE LinkInv'
<1>1. LinkTypes'
  BY PicoAssumption DEF LinkInv, LinkTypes, WorkerType, DeviceType, ChecksNeeds, InWorker, Goes
<1>2. Heads' /\ Forgiven'
  BY GoesFacts, WorkerMoves DEF LinkInv, LinkTypes, Resetting, ChecksNeeds, InWorker
<1>3. Connected'
  BY GoesFacts DEF LinkInv, LinkTypes, DeviceType, Connected, Resetting, ChecksNeeds, InWorker
<1> QED BY <1>1, <1>2, <1>3 DEF LinkInv

LEMMA WaitsInv ==
  ASSUME LinkInv, Waits PROVE LinkInv'
<1>1. LinkTypes'
  BY PicoAssumption DEF LinkInv, LinkTypes, WorkerType, DeviceType, Waits, InWorker, Goes
<1>2. Heads' /\ Forgiven'
  BY GoesFacts, WorkerMoves DEF LinkInv, LinkTypes, Resetting, Waits, InWorker
<1>3. Connected'
  BY GoesFacts DEF LinkInv, LinkTypes, DeviceType, Connected, Resetting, Waits, InWorker
<1> QED BY <1>1, <1>2, <1>3 DEF LinkInv

LEMMA DrainedInv ==
  ASSUME LinkInv, Drained PROVE LinkInv'
<1>1. LinkTypes'
  BY PicoAssumption DEF LinkInv, LinkTypes, WorkerType, DeviceType, Drained, InWorker, Goes
<1>2. Heads' /\ Forgiven'
  BY GoesFacts, WorkerMoves DEF LinkInv, LinkTypes, Resetting, Drained, InWorker
<1>3. Connected'
  BY GoesFacts DEF LinkInv, LinkTypes, DeviceType, Connected, Resetting, Drained, InWorker
<1> QED BY <1>1, <1>2, <1>3 DEF LinkInv

LEMMA AsksPaddingInv ==
  ASSUME LinkInv, AsksPadding PROVE LinkInv'
<1> DEFINE some == Min({MaxRender, AvailableBlocks(sink)})
<1>1. some \in 0..MaxRender
  <2> DEFINE have == AvailableBlocks(sink)
  <2>1. have \in Nat
    BY DEF LinkInv, LinkTypes, SinkType, Heads, AvailableBlocks
  <2>2. some = Min({MaxRender, have})
    OBVIOUS
  <2> HIDE DEF have, some
  <2>3. \E x \in {MaxRender, have} : \A y \in {MaxRender, have} : x <= y
    BY <2>1, PicoAssumption
  <2>4. some \in {MaxRender, have} /\ some <= MaxRender
    BY <2>2, <2>3 DEF Min
  <2> QED BY <2>1, <2>4, PicoAssumption
<1> HIDE DEF some
<1>2. /\ worker.pc = "padding"
      /\ UNCHANGED <<feeder, sink, races, device, endpoint, stopping, events>>
      /\ worker' \in {[worker EXCEPT !.pc = "close"], [worker EXCEPT !.pc = "top"],
                      [worker EXCEPT !.pc = "drain", !.old = FALSE, !.want = some]}
  BY DEF AsksPadding, InWorker, Goes, some
<1>3. LinkTypes'
  BY <1>1, <1>2 DEF LinkInv, LinkTypes, WorkerType
<1>4. worker'.pc \in {"close", "top", "drain"} /\ (worker'.old => worker.old)
      /\ worker'.next = worker.next
  BY <1>2 DEF LinkInv, LinkTypes, WorkerType
<1>5. Heads' /\ Forgiven'
  BY <1>2, <1>4, WorkerMoves DEF Resetting
<1>6. Connected'
  BY <1>2, <1>4 DEF LinkInv, Connected, Resetting
<1> QED BY <1>3, <1>5, <1>6 DEF LinkInv

LEMMA SubmitsInv ==
  ASSUME LinkInv, Submits PROVE LinkInv'
<1>1. /\ worker.pc = "submit" /\ UNCHANGED <<feeder, sink, races, endpoint, stopping, events>>
      /\ worker' \in {[worker EXCEPT !.pc = "close", !.old = FALSE],
                      [worker EXCEPT !.pc = "top", !.old = FALSE]}
      /\ device' \in DeviceType /\ device'.started = device.started
      /\ device'.client = device.client
  BY DEF Submits, InWorker, LinkInv, LinkTypes, DeviceType
<1>2. LinkTypes'
  BY <1>1 DEF LinkInv, LinkTypes, WorkerType
<1>3. worker'.pc \in {"close", "top"} /\ ~worker'.old /\ worker'.next = worker.next
  BY <1>1 DEF LinkInv, LinkTypes, WorkerType
<1>4. Heads' /\ Forgiven'
  BY <1>1, <1>3, WorkerMoves DEF Resetting
<1>5. Connected'
  BY <1>1, <1>3 DEF LinkInv, Connected, Resetting
<1> QED BY <1>2, <1>4, <1>5 DEF LinkInv

LEMMA ClosesInv ==
  ASSUME LinkInv, Closes("close", "disconnect") \/ Closes("exit", "exited") PROVE LinkInv'
<1>1. LinkTypes'
  <2>1. PICK next \in {"disconnect", "exited"} : worker' = [worker EXCEPT !.pc = next]
    BY DEF Closes, Goes
  <2>2. worker' \in WorkerType
    BY <2>1 DEF LinkInv, LinkTypes, WorkerType
  <2>3. device' \in DeviceType
    <3>1. device' = Closed
      BY DEF Closes
    <3>2. Closed \in DeviceType
      BY DEF Closed, DeviceType
    <3> QED BY <3>1, <3>2
  <2> QED BY <2>2, <2>3 DEF LinkInv, LinkTypes, Closes, InWorker
<1>2. Heads' /\ Forgiven'
  BY GoesFacts, WorkerMoves DEF LinkInv, LinkTypes, Resetting, Closes, InWorker
<1>3. Connected'
  BY GoesFacts DEF LinkInv, LinkTypes, Connected, Resetting, Closes, Closed, InWorker
<1> QED BY <1>1, <1>2, <1>3 DEF LinkInv

----------------------------------------------------------------------------
(* The worker's reads and resets                                           *)

\* A block is read only from a ring that is clean, unless two races have happened.
LEMMA ReadsInv ==
  ASSUME LinkInv, Reads PROVE LinkInv'
<1> DEFINE read == Fresh.read
<1>1. /\ worker.pc = "drain" /\ UNCHANGED <<feeder, races, device, endpoint, stopping, events>>
  BY DEF Reads, InWorker
<1>2. read \in sink.read..sink.write /\ Fresh = [sink EXCEPT !.read = read]
  BY DEF LinkInv, LinkTypes, SinkType, Heads, Fresh
<1>3. Fresh.write = sink.write /\ Fresh.read = read
  BY DEF LinkInv, LinkTypes, SinkType, Fresh
<1> HIDE DEF read
<1>4. sink.connected /\ ~Resetting
  BY <1>1 DEF LinkInv, Connected, Resetting
<1>5. CASE read = sink.write
  <2>1. sink' = [sink EXCEPT !.read = read] /\ worker' = [worker EXCEPT !.want = 0]
    BY <1>2, <1>3, <1>5 DEF Reads, AvailableBlocks, LinkInv, LinkTypes, SinkType
  <2>2. LinkTypes'
    <3>1. read \in 0..MaxBlocks /\ 0 \in 0..MaxRender
      BY <1>2, PicoAssumption DEF LinkInv, LinkTypes, SinkType
    <3>2. sink' \in SinkType
      BY <2>1, <3>1 DEF LinkInv, LinkTypes, SinkType
    <3>3. worker' \in WorkerType
      BY <2>1, <3>1 DEF LinkInv, LinkTypes, WorkerType
    <3> QED BY <1>1, <3>2, <3>3 DEF LinkInv, LinkTypes
  <2>3. /\ worker'.pc = "drain" /\ worker'.old = worker.old /\ worker'.next = worker.next
        /\ sink'.read = read /\ sink'.write = sink.write /\ sink'.connected
        /\ sink'.mem = sink.mem /\ sink'.generation = sink.generation
    BY <1>1, <1>4, <2>1 DEF LinkInv, LinkTypes, SinkType, WorkerType
  <2>4. Heads'
    BY <1>1, <1>2, <2>3 DEF LinkInv, LinkTypes, SinkType, Heads, HandedOn, InWrite
  <2>5. Connected'
    BY <1>1, <2>3 DEF LinkInv, Connected, Resetting
  <2>6. Clean => Clean'
    BY <1>1, <1>2, <2>3 DEF Clean, Now, InWrite, Writing, LinkInv, LinkTypes, SinkType,
                            FeederType
  <2>7. Forgiven'
    BY <1>1, <1>4, <2>3, <2>6 DEF LinkInv, Forgiven, Resetting
  <2> QED BY <2>2, <2>4, <2>5, <2>7 DEF LinkInv
<1>6. CASE read # sink.write
  <2> DEFINE after == read + 1
             left  == worker.want - 1
             aged  == worker.old \/ sink.mem[read % Cap] = "old"
  <2>1. AvailableBlocks(Fresh) # 0
    BY <1>2, <1>3, <1>6 DEF AvailableBlocks, LinkInv, LinkTypes, SinkType
  <2>2. sink' = [sink EXCEPT !.read = after]
    <3>1. sink' = [Fresh EXCEPT !.read = Fresh.read + 1]
      BY <2>1 DEF Reads
    <3> QED BY <1>2, <1>3, <3>1 DEF LinkInv, LinkTypes, SinkType
  <2>3. worker' = [worker EXCEPT !.want = left, !.old = aged]
    BY <1>3, <2>1 DEF Reads
  <2>4. /\ after \in 0..MaxBlocks /\ after <= sink.write /\ read < after
        /\ left \in 0..MaxRender /\ aged \in BOOLEAN
    <3>1. after \in 0..MaxBlocks /\ after <= sink.write /\ read < after
      BY <1>2, <1>6, PicoAssumption DEF LinkInv, LinkTypes, SinkType
    <3>2. worker.want \in 0..MaxRender /\ worker.want > 0 /\ worker.old \in BOOLEAN
      BY DEF LinkInv, LinkTypes, WorkerType, Reads
    <3>3. left \in 0..MaxRender
      BY <3>2, PicoAssumption
    <3> QED BY <3>1, <3>2, <3>3
  <2>5. /\ worker'.pc = "drain" /\ worker'.next = worker.next
        /\ worker'.old = aged /\ worker' \in WorkerType
        /\ sink'.read = after /\ sink'.write = sink.write /\ sink'.connected
        /\ sink'.mem = sink.mem /\ sink'.generation = sink.generation /\ sink' \in SinkType
    <3> HIDE DEF after, left, aged
    <3>1. worker'.pc = "drain" /\ worker'.next = worker.next /\ worker' \in WorkerType
          /\ worker'.old = aged
      BY <1>1, <2>3, <2>4 DEF LinkInv, LinkTypes, WorkerType
    <3> QED BY <1>4, <2>2, <2>4, <3>1 DEF LinkInv, LinkTypes, SinkType
  <2>6. LinkTypes'
    BY <1>1, <2>5 DEF LinkInv, LinkTypes
  <2>7. aged => sink.mem[read % Cap] = "old" \/ worker.old
    OBVIOUS
  <2>8. after - 1 = read
    BY <1>2 DEF LinkInv, LinkTypes, SinkType
  <2> HIDE DEF after, left, aged
  <2>9. Heads'
    BY <1>1, <1>2, <2>4, <2>5 DEF LinkInv, LinkTypes, SinkType, Heads, HandedOn, InWrite
  <2>10. Connected'
    BY <1>1, <2>5 DEF LinkInv, Connected, Resetting
  <2>11. Clean => Clean' /\ Now(read)
    BY <1>1, <1>2, <1>6, <2>4, <2>5, <2>8 DEF Clean, Now, InWrite, Writing, LinkInv,
                                              LinkTypes, SinkType, FeederType
  <2>12. Forgiven'
    BY <1>1, <1>4, <2>5, <2>11, <2>7 DEF LinkInv, Forgiven, Resetting, Now
  <2> QED BY <2>6, <2>9, <2>10, <2>12 DEF LinkInv
<1> QED BY <1>5, <1>6

\* A disconnect ages what there is; a connect finds the ring empty, if no write met the
\* reset before it.
LEMMA SetsConnectedInv ==
  ASSUME LinkInv, \/ SetsConnected("connect", TRUE, "needs")
                  \/ SetsConnected("failed", FALSE, "top")
                  \/ SetsConnected("disconnect", FALSE, "top")
  PROVE  LinkInv'
<1>1. PICK place \in {"connect", "failed", "disconnect"}, value \in BOOLEAN,
           next \in {"needs", "top"} :
        /\ SetsConnected(place, value, next)
        /\ value <=> place = "connect"
        /\ next = IF value THEN "needs" ELSE "top"
  OBVIOUS
<1> DEFINE to == IF sink.connected = value THEN next ELSE "resetread"
<1>2. /\ worker.pc = place /\ worker' = [worker EXCEPT !.next = next, !.pc = to]
      /\ UNCHANGED <<device, endpoint, stopping, races, events>>
  BY <1>1 DEF SetsConnected, InSetConnected
<1>3. to \in {"needs", "top", "resetread"} /\ (to = "resetread" <=> sink.connected # value)
      /\ (to = "needs" => value) /\ (to = "top" => ~value)
  BY <1>1
<1> HIDE DEF to
<1>4. worker'.pc = to /\ worker'.next = next /\ worker'.old = worker.old
  BY <1>2 DEF LinkInv, LinkTypes, WorkerType
<1>5. ~Resetting /\ (~value => ~device.started)
  BY <1>1, <1>2 DEF LinkInv, Connected, Resetting
<1>6. All("old") \in [0..Cap - 1 -> {"now", "old"}]
  BY DEF All
<1>7. sink' \in SinkType /\ feeder' \in FeederType
  <2> DEFINE all == All("old")
  <2>1. CASE sink.connected /\ ~value
    <3>1. sink' = [sink EXCEPT !.connected = FALSE, !.mem = all]
      BY <1>1, <2>1 DEF SetsConnected, Connection
    <3>2. feeder' = [feeder EXCEPT !.tag = "old"]
      BY <1>1, <2>1 DEF SetsConnected, Connection
    <3>3. feeder' \in FeederType
      BY <3>2 DEF LinkInv, LinkTypes, FeederType
    <3> HIDE DEF all
    <3> QED BY <1>6, <3>1, <3>3 DEF LinkInv, LinkTypes, SinkType, all
  <2>2. CASE ~(sink.connected /\ ~value)
    <3>1. sink' = [sink EXCEPT !.connected = value] /\ feeder' = feeder
      BY <1>1, <2>2 DEF SetsConnected, Connection
    <3> QED BY <1>1, <3>1 DEF LinkInv, LinkTypes, SinkType
  <2> QED BY <2>1, <2>2
<1>8. /\ sink'.connected = value /\ sink'.read = sink.read /\ sink'.write = sink.write
      /\ sink'.generation = sink.generation
      /\ feeder'.pc = feeder.pc /\ feeder'.block = feeder.block
      /\ feeder'.write = feeder.write
  BY <1>1, ZenonT(40) DEF LinkInv, LinkTypes, SinkType, FeederType, SetsConnected, Connection
<1>9. value => feeder' = feeder /\ sink'.mem = sink.mem
  BY <1>1 DEF LinkInv, LinkTypes, SinkType, FeederType, SetsConnected, Connection
<1>10. LinkTypes'
  BY <1>1, <1>2, <1>3, <1>7 DEF LinkInv, LinkTypes, WorkerType
<1>11. Heads'
  BY <1>8 DEF LinkInv, Heads, HandedOn, InWrite
<1>12. Connected'
  BY <1>1, <1>2, <1>3, <1>4, <1>5, <1>8 DEF LinkInv, Connected, Resetting
<1>13. CASE value
  <2>1. Clean => Clean'
    BY <1>8, <1>9, <1>13 DEF Clean, Now, InWrite, Writing
  <2>2. ~Writing /\ sink.read = 0 /\ sink.write = 0 => Clean'
    BY <1>8, <1>9, <1>13 DEF Clean, Now, InWrite, Writing
  <2> QED BY <1>2, <1>3, <1>4, <1>5, <1>8, <1>10, <1>11, <1>12, <1>13, <2>1, <2>2
          DEF LinkInv, Forgiven, Resetting
<1>14. CASE ~value
  <2>1. sink.connected => Resetting'
    BY <1>3, <1>4, <1>14 DEF Resetting
  <2>2. Writing' <=> Writing
    BY <1>8 DEF Writing
  <2> QED BY <1>2, <1>4, <1>5, <1>8, <1>10, <1>11, <1>12, <1>14, <2>1, <2>2
          DEF LinkInv, Forgiven
<1> QED BY <1>13, <1>14

LEMMA ResetsReadHeadInv ==
  ASSUME LinkInv, ResetsReadHead PROVE LinkInv'
<1>1. /\ worker.pc = "resetread"
      /\ UNCHANGED <<feeder, races, device, endpoint, stopping, events>>
      /\ sink' = [sink EXCEPT !.read = 0]
      /\ worker' = [worker EXCEPT !.pc = "resetwrite", !.raced = Writing]
  BY DEF ResetsReadHead, InWorker
<1>2. LinkTypes'
  <2> DEFINE writing == Writing
  <2>1. writing \in BOOLEAN /\ 0 \in 0..MaxBlocks
    BY PicoAssumption DEF Writing
  <2>2. worker' = [worker EXCEPT !.pc = "resetwrite", !.raced = writing]
    BY <1>1
  <2>3. sink' \in SinkType
    BY <1>1, <2>1 DEF LinkInv, LinkTypes, SinkType
  <2> HIDE DEF writing
  <2>4. worker' \in WorkerType
    BY <2>1, <2>2 DEF LinkInv, LinkTypes, WorkerType
  <2> QED BY <1>1, <2>3, <2>4 DEF LinkInv, LinkTypes
<1>3. /\ worker'.pc = "resetwrite" /\ worker'.next = worker.next /\ worker'.old = worker.old
      /\ sink'.read = 0 /\ sink'.write = sink.write /\ sink'.connected = sink.connected
      /\ sink'.mem = sink.mem /\ sink'.generation = sink.generation
  BY <1>1 DEF LinkInv, LinkTypes, SinkType, WorkerType
<1>4. Heads'
  BY <1>1, <1>3 DEF LinkInv, LinkTypes, SinkType, Heads, HandedOn, InWrite
<1>5. Connected'
  BY <1>1, <1>3 DEF LinkInv, Connected, Resetting
<1>6. Clean /\ sink.read = 0 => Clean'
  BY <1>1, <1>3 DEF Clean, Now, InWrite, Writing
<1>7. Forgiven'
  BY <1>1, <1>3, <1>6 DEF LinkInv, Forgiven, Resetting
<1> QED BY <1>2, <1>4, <1>5, <1>7 DEF LinkInv

\* The end of a reset.  One that met no write leaves an empty ring; one that did is a
\* race, and leaves what the write will publish.
LEMMA ResetsWriteHeadInv ==
  ASSUME LinkInv, ResetsWriteHead PROVE LinkInv'
<1>1. /\ worker.pc = "resetwrite"
      /\ UNCHANGED <<feeder, device, endpoint, stopping, events>>
      /\ sink' = [sink EXCEPT !.write = 0]
      /\ worker' = [worker EXCEPT !.pc = worker.next, !.next = "top", !.raced = FALSE]
      /\ races' = IF (worker.raced \/ Writing) /\ races < 2 THEN races + 1 ELSE races
  BY DEF ResetsWriteHead, InWorker
<1>2. LinkTypes'
  <2>1. 0 \in 0..MaxBlocks
    BY PicoAssumption
  <2>2. sink' \in SinkType
    BY <1>1, <2>1 DEF LinkInv, LinkTypes, SinkType
  <2>3. worker' \in WorkerType
    BY <1>1 DEF LinkInv, LinkTypes, WorkerType
  <2>4. races' \in 0..2
    BY <1>1 DEF LinkInv, LinkTypes
  <2> QED BY <1>1, <2>2, <2>3, <2>4 DEF LinkInv, LinkTypes
<1>3. /\ worker'.pc = worker.next /\ worker'.old = worker.old
      /\ worker.next \in {"top", "needs"} /\ worker'.next = "top"
      /\ sink'.read = sink.read /\ sink'.write = 0 /\ sink'.connected = sink.connected
      /\ sink'.mem = sink.mem /\ sink'.generation = sink.generation
  BY <1>1 DEF LinkInv, LinkTypes, SinkType, WorkerType
<1>4. sink.read = 0 /\ Resetting /\ ~Resetting'
  BY <1>1, <1>3 DEF LinkInv, Connected, Resetting
<1>5. Heads'
  BY <1>1, <1>3, <1>4 DEF LinkInv, LinkTypes, SinkType, FeederType, Heads, HandedOn, InWrite
<1>6. Connected'
  BY <1>1, <1>3, <1>4 DEF LinkInv, Connected, Resetting
<1>7. Clean \/ ~Writing => Clean'
  BY <1>1, <1>3, <1>4 DEF Clean, Now, InWrite, Writing
<1>8. /\ races' < 2 /\ Writing => races = 0
      /\ races' = 0 => races = 0 /\ ~Writing
      /\ races' < 2 => races < 2
      /\ Writing' <=> Writing
  BY <1>1 DEF LinkInv, LinkTypes, Writing
<1>9. Forgiven'
  BY <1>3, <1>4, <1>7, <1>8 DEF LinkInv, Forgiven
<1> QED BY <1>2, <1>5, <1>6, <1>9 DEF LinkInv

----------------------------------------------------------------------------
(* The feeder                                                              *)

\* The feeder leaves the worker's places alone.
LEMMA FeederKeeps ==
  ASSUME LinkInv, UNCHANGED <<worker, device, races>>,
         sink'.connected = sink.connected,
         sink'.read = sink.read \/ sink'.read = 0,
         sink.connected => (Clean => Clean'),
         ~sink.connected => (~Writing => ~Writing') /\ (~Writing => UNCHANGED sink)
  PROVE  Connected' /\ Forgiven'
<1>1. Connected'
  BY DEF LinkInv, Connected, Resetting
<1>2. Forgiven'
  BY DEF LinkInv, Forgiven, Resetting
<1> QED BY <1>1, <1>2

LEMMA PullsInv ==
  ASSUME LinkInv, Pulls PROVE LinkInv'
<1>1. /\ feeder.pc = "idle" /\ feeder.block < MaxBlocks
      /\ UNCHANGED <<worker, device, endpoint, stopping, races, events, sink>>
      /\ feeder' = [feeder EXCEPT !.pc = "pico", !.block = @ + 1]
  BY DEF Pulls, InTick, FeederAt
<1>2. LinkTypes'
  <2> DEFINE next == feeder.block + 1
  <2>1. next \in 0..MaxBlocks /\ feeder' = [feeder EXCEPT !.pc = "pico", !.block = next]
    BY <1>1, PicoAssumption DEF LinkInv, LinkTypes, FeederType
  <2> HIDE DEF next
  <2>2. feeder' \in FeederType
    BY <2>1 DEF LinkInv, LinkTypes, FeederType
  <2> QED BY <1>1, <2>2 DEF LinkInv, LinkTypes
<1>3. feeder'.pc = "pico" /\ feeder'.block = feeder.block + 1 /\ feeder.block \in Nat
  BY <1>1 DEF LinkInv, LinkTypes, FeederType
<1>4. Heads'
  BY <1>1, <1>3 DEF LinkInv, Heads, HandedOn, InWrite
<1>5. Clean' <=> Clean
  BY <1>1, <1>3 DEF Clean, Now, InWrite, Writing
<1> QED BY <1>1, <1>2, <1>3, <1>4, <1>5, FeederKeeps DEF LinkInv, Writing

LEMMA SinkEntersInv ==
  ASSUME LinkInv, SinkEnters PROVE LinkInv'
<1> DEFINE to == IF ~sink.connected THEN "idle"
                 ELSE IF sink.generation # Generation THEN "flushread" ELSE "load"
<1>1. /\ feeder.pc = "pico"
      /\ UNCHANGED <<worker, device, endpoint, stopping, races, events, sink>>
      /\ feeder' = [feeder EXCEPT !.tag = "now", !.pc = to]
  BY DEF SinkEnters, InTick
<1>2. /\ to \in {"idle", "flushread", "load"} /\ (~sink.connected => to = "idle")
      /\ (to = "flushread" => sink.generation # Generation)
      /\ (to = "load" => sink.generation = Generation)
  OBVIOUS
<1> HIDE DEF to
<1>3. LinkTypes'
  BY <1>1, <1>2 DEF LinkInv, LinkTypes, FeederType
<1>4. feeder'.pc = to /\ feeder'.block = feeder.block /\ feeder'.tag = "now"
      /\ feeder.block \in Nat
  BY <1>1 DEF LinkInv, LinkTypes, FeederType
<1>5. Heads'
  BY <1>1, <1>2, <1>4 DEF LinkInv, LinkTypes, SinkType, Heads, HandedOn, InWrite
<1>6. Clean => Clean'
  BY <1>1, <1>2, <1>4 DEF Clean, Now, InWrite, Writing
<1> QED BY <1>1, <1>2, <1>3, <1>4, <1>5, <1>6, FeederKeeps DEF LinkInv, Writing

LEMMA FlushesReadHeadInv ==
  ASSUME LinkInv, FlushesReadHead PROVE LinkInv'
<1>1. /\ feeder.pc = "flushread"
      /\ UNCHANGED <<worker, device, endpoint, stopping, races, events>>
      /\ sink' = [sink EXCEPT !.read = 0] /\ feeder' = [feeder EXCEPT !.pc = "flushwrite"]
  BY DEF FlushesReadHead, InTick, FeederAt
<1>2. LinkTypes'
  <2>1. 0 \in 0..MaxBlocks /\ Generation \in {0, Generation}
    BY PicoAssumption
  <2>2. sink' \in SinkType
    BY <1>1, <2>1 DEF LinkInv, LinkTypes, SinkType
  <2>3. feeder' \in FeederType
    BY <1>1 DEF LinkInv, LinkTypes, FeederType
  <2> QED BY <1>1, <2>2, <2>3 DEF LinkInv, LinkTypes
<1>3. /\ feeder'.pc = "flushwrite" /\ feeder'.block = feeder.block /\ feeder'.tag = feeder.tag
      /\ sink'.read = 0 /\ sink'.write = sink.write /\ sink'.connected = sink.connected
      /\ sink'.mem = sink.mem /\ sink'.generation = sink.generation
  BY <1>1 DEF LinkInv, LinkTypes, FeederType, SinkType
<1>4. sink.write = 0
  BY <1>1 DEF LinkInv, Heads
<1>5. Heads'
  BY <1>1, <1>3, <1>4 DEF LinkInv, LinkTypes, SinkType, Heads, HandedOn, InWrite
<1>6. Clean => Clean'
  BY <1>1, <1>3, <1>4 DEF Clean, Now, InWrite, Writing
<1> QED BY <1>1, <1>2, <1>3, <1>5, <1>6, FeederKeeps DEF LinkInv, Writing

LEMMA FlushesWriteHeadInv ==
  ASSUME LinkInv, FlushesWriteHead PROVE LinkInv'
<1>1. /\ feeder.pc = "flushwrite"
      /\ UNCHANGED <<worker, device, endpoint, stopping, races, events>>
      /\ sink' = [sink EXCEPT !.write = 0, !.generation = Generation]
      /\ feeder' = [feeder EXCEPT !.pc = "load"]
  BY DEF FlushesWriteHead, InTick, FeederAt
<1>2. LinkTypes'
  <2>1. 0 \in 0..MaxBlocks /\ Generation \in {0, Generation}
    BY PicoAssumption
  <2>2. sink' \in SinkType
    BY <1>1, <2>1 DEF LinkInv, LinkTypes, SinkType
  <2>3. feeder' \in FeederType
    BY <1>1 DEF LinkInv, LinkTypes, FeederType
  <2> QED BY <1>1, <2>2, <2>3 DEF LinkInv, LinkTypes
<1>3. /\ feeder'.pc = "load" /\ feeder'.block = feeder.block /\ feeder'.tag = feeder.tag
      /\ sink'.read = sink.read /\ sink'.write = 0 /\ sink'.connected = sink.connected
      /\ sink'.mem = sink.mem /\ sink'.generation = Generation
  BY <1>1 DEF LinkInv, LinkTypes, FeederType, SinkType
<1>4. sink.write = 0 /\ sink.read = 0
  BY <1>1 DEF LinkInv, LinkTypes, SinkType, Heads
<1>5. Heads'
  BY <1>1, <1>3, <1>4 DEF LinkInv, LinkTypes, SinkType, Heads, HandedOn, InWrite
<1>6. Clean => Clean'
  BY <1>1, <1>3, <1>4 DEF Clean, Now, InWrite, Writing
<1> QED BY <1>1, <1>2, <1>3, <1>5, <1>6, FeederKeeps DEF LinkInv, Writing

LEMMA SinkLoadsInv ==
  ASSUME LinkInv, SinkLoads PROVE LinkInv'
<1> DEFINE to == IF AvailableBlocks(sink) < Cap THEN "copy" ELSE "idle"
<1>1. /\ feeder.pc = "load"
      /\ UNCHANGED <<worker, device, endpoint, stopping, races, events, sink>>
      /\ feeder' = [feeder EXCEPT !.write = sink.write, !.pc = to]
  BY DEF SinkLoads, InTick
<1>2. to \in {"copy", "idle"}
  OBVIOUS
<1> HIDE DEF to
<1>3. LinkTypes'
  BY <1>1, <1>2 DEF LinkInv, LinkTypes, FeederType, SinkType
<1>4. feeder'.pc = to /\ feeder'.block = feeder.block /\ feeder'.tag = feeder.tag
      /\ feeder'.write = sink.write /\ feeder.block \in Nat /\ sink.write \in Nat
  BY <1>1 DEF LinkInv, LinkTypes, FeederType, SinkType
<1>5. Heads'
  BY <1>1, <1>2, <1>4 DEF LinkInv, Heads, HandedOn, InWrite
<1>6. Clean => Clean'
  BY <1>1, <1>2, <1>4 DEF Clean, Now, InWrite, Writing
<1> QED BY <1>1, <1>2, <1>3, <1>4, <1>5, <1>6, FeederKeeps DEF LinkInv, Writing

\* In a clean ring the feeder writes blocks of this connection only, wherever.
LEMMA SinkCopiesInv ==
  ASSUME LinkInv, SinkCopies PROVE LinkInv'
<1> DEFINE slot == feeder.write % Cap
<1>1. /\ feeder.pc = "copy"
      /\ UNCHANGED <<worker, device, endpoint, stopping, races, events>>
      /\ sink' = [sink EXCEPT !.mem[slot] = feeder.tag]
      /\ feeder' = [feeder EXCEPT !.pc = "sinkpublish"]
  BY DEF SinkCopies, InTick, FeederAt
<1>2. slot \in 0..Cap - 1 /\ feeder.tag \in {"now", "old"}
  BY PicoAssumption DEF LinkInv, LinkTypes, FeederType
<1>3. /\ feeder'.pc = "sinkpublish" /\ feeder'.block = feeder.block
      /\ feeder'.tag = feeder.tag /\ feeder'.write = feeder.write
      /\ sink'.read = sink.read /\ sink'.write = sink.write
      /\ sink'.connected = sink.connected /\ sink'.generation = sink.generation
      /\ sink'.mem = [sink.mem EXCEPT ![slot] = feeder.tag]
      /\ sink.mem \in [0..Cap - 1 -> {"now", "old"}]
  BY <1>1 DEF LinkInv, LinkTypes, FeederType, SinkType
<1>4. sink'.mem[feeder.write % Cap] = feeder.tag
  BY <1>2, <1>3
<1> HIDE DEF slot
<1>5. sink'.mem \in [0..Cap - 1 -> {"now", "old"}]
      /\ \A j \in 0..Cap - 1 : sink.mem[j] = "now" /\ feeder.tag = "now" => sink'.mem[j] = "now"
  BY <1>2, <1>3
<1>6. sink' \in SinkType
  BY <1>1, <1>3, <1>5 DEF LinkInv, LinkTypes, SinkType
<1>7. LinkTypes'
  BY <1>1, <1>6 DEF LinkInv, LinkTypes, FeederType
<1>8. Heads'
  BY <1>1, <1>3 DEF LinkInv, Heads, HandedOn, InWrite
<1>9. \A i \in Nat : Now(i) /\ feeder.tag = "now" => Now(i)'
  BY <1>5, PicoAssumption DEF Now
<1>10. Clean => Clean'
  BY <1>1, <1>3, <1>4, <1>9 DEF Clean, Now, InWrite, Writing, LinkInv, LinkTypes, SinkType,
     FeederType
<1> QED BY <1>1, <1>3, <1>7, <1>8, <1>10, FeederKeeps DEF LinkInv, Writing

LEMMA SinkPublishesInv ==
  ASSUME LinkInv, SinkPublishes PROVE LinkInv'
<1>1. /\ feeder.pc = "sinkpublish"
      /\ UNCHANGED <<worker, device, endpoint, stopping, races, events>>
      /\ sink' = [sink EXCEPT !.write = sink.write + 1]
      /\ feeder' = [feeder EXCEPT !.pc = "idle"]
  BY DEF SinkPublishes, InTick, FeederAt, LinkInv, LinkTypes, SinkType
<1>2. sink.write + 1 <= feeder.block /\ sink.read <= sink.write
      /\ sink.write <= feeder.write
      /\ feeder.block \in 0..MaxBlocks /\ feeder.write \in Nat
      /\ sink.read \in Nat /\ sink.write \in Nat
  BY <1>1, PicoAssumption
     DEF LinkInv, LinkTypes, FeederType, SinkType, Heads, HandedOn, InWrite
<1>3. LinkTypes'
  BY SMTT(30), <1>1, <1>2, PicoAssumption DEF LinkInv, LinkTypes, FeederType, SinkType
<1>4. /\ feeder'.pc = "idle" /\ feeder'.block = feeder.block
      /\ sink'.read = sink.read /\ sink'.write = sink.write + 1
      /\ sink'.connected = sink.connected /\ sink'.generation = sink.generation
      /\ sink'.mem = sink.mem
  BY <1>1 DEF LinkInv, LinkTypes, FeederType, SinkType
<1>5. Heads'
  BY <1>1, <1>2, <1>4 DEF LinkInv, LinkTypes, SinkType, Heads, HandedOn, InWrite
\* The slot that is shown lies between the read head and the block that was copied.
<1>6. Clean => Clean'
  <2>1. ~Writing' /\ ~InWrite'
    BY <1>4 DEF Writing, InWrite
  <2>2. SUFFICES ASSUME Clean, NEW i \in sink.read..sink.write PROVE Now(i)'
    BY <1>2, <1>4, <2>1 DEF Clean
  <2>3. i \in sink.read..(feeder.write - 1) \/ i = feeder.write
    BY <1>2
  <2>4. Now(i)
    BY <1>1, <2>2, <2>3 DEF Clean, InWrite
  <2> QED BY <1>4, <2>4 DEF Now
<1> QED BY <1>1, <1>3, <1>4, <1>5, <1>6, FeederKeeps DEF LinkInv, Writing

----------------------------------------------------------------------------
(* The endpoint and the teardown                                           *)

LEMMA OutsideInv ==
  ASSUME LinkInv,
         Removed \/ Returns \/ OtherChanged \/ Notified \/ StopsFeeder \/ StopsWorker
  PROVE  LinkInv'
<1>1. UNCHANGED <<feeder, sink, worker, races>>
  BY DEF Removed, Returns, OtherChanged, Notified, StopsFeeder, StopsWorker, Outside
<1>2. /\ device' \in DeviceType /\ device'.started = device.started
      /\ device'.client = "none" => device.client = "none"
  BY DEF LinkInv, LinkTypes, DeviceType, Removed, Returns, OtherChanged, Notified,
         StopsFeeder, StopsWorker, News, Alive
<1>3. /\ endpoint' \in [present : BOOLEAN, note : BOOLEAN] /\ events' \in 0..MaxEvents
      /\ stopping' \in {"no", "feeder", "worker"}
  <2>1. stopping' \in {"no", "feeder", "worker"}
    BY DEF LinkInv, LinkTypes, Removed, Returns, OtherChanged, Notified, StopsFeeder,
       StopsWorker
  <2>2. events' \in 0..MaxEvents
    BY PicoAssumption DEF LinkInv, LinkTypes, Removed, Returns, OtherChanged, Notified,
       StopsFeeder, StopsWorker
  <2>3. \E p, n \in BOOLEAN :
          endpoint' \in {[endpoint EXCEPT !.note = n],
                         [endpoint EXCEPT !.present = FALSE, !.note = n],
                         [present |-> TRUE, note |-> n]}
    BY DEF LinkInv, LinkTypes, DeviceType, Removed, Returns, OtherChanged, Notified,
       StopsFeeder, StopsWorker, News
  <2>4. endpoint' \in [present : BOOLEAN, note : BOOLEAN]
    <3>1. PICK p \in BOOLEAN, n \in BOOLEAN :
            \/ endpoint' = [endpoint EXCEPT !.note = n]
            \/ endpoint' = [endpoint EXCEPT !.present = FALSE, !.note = n]
            \/ endpoint' = [present |-> TRUE, note |-> n]
      BY <2>3
    <3>2. endpoint \in [present : BOOLEAN, note : BOOLEAN]
      BY DEF LinkInv, LinkTypes
    <3>3. CASE endpoint' = [endpoint EXCEPT !.note = n]
      BY <3>2, <3>3
    <3>4. CASE endpoint' = [endpoint EXCEPT !.present = FALSE, !.note = n]
      BY <3>2, <3>4
    <3>5. CASE endpoint' = [present |-> TRUE, note |-> n]
      BY <3>5
    <3> QED BY <3>1, <3>3, <3>4, <3>5
  <2> QED BY <2>1, <2>2, <2>4
<1>4. LinkTypes'
  BY <1>1, <1>2, <1>3 DEF LinkInv, LinkTypes
<1>5. Heads' /\ Forgiven'
  BY <1>1 DEF LinkInv, Heads, HandedOn, InWrite, Forgiven, Clean, Now, Writing, Resetting
<1>6. Connected'
  BY <1>1, <1>2 DEF LinkInv, Connected, Resetting
<1> QED BY <1>4, <1>5, <1>6 DEF LinkInv

LEMMA LinkNextInv == LinkInv /\ [LinkNext]_linkVars => LinkInv'
<1> SUFFICES ASSUME LinkInv, [LinkNext]_linkVars PROVE LinkInv'
  OBVIOUS
<1>1. CASE Feeder
  BY <1>1, PullsInv, SinkEntersInv, FlushesReadHeadInv, FlushesWriteHeadInv, SinkLoadsInv,
     SinkCopiesInv, SinkPublishesInv DEF Feeder
<1>2. CASE Worker
  BY <1>2, LoopsInv, DiscoversInv, RegistersInv, StartsClientInv, ClearsFlagInv,
     SetsConnectedInv, ResetsReadHeadInv, ResetsWriteHeadInv, ChecksNeedsInv, WaitsInv,
     AsksPaddingInv, ReadsInv, DrainedInv, SubmitsInv, ClosesInv DEF Worker
<1>3. CASE UNCHANGED linkVars
  BY <1>3 DEF linkVars, LinkInv, LinkTypes, Heads, HandedOn, InWrite, Connected, Forgiven,
         Clean, Now, Writing, Resetting
<1> QED BY <1>1, <1>2, <1>3, OutsideInv DEF LinkNext

LEMMA LinkInductive == LinkSpec => []LinkInv
<1>1. LinkInit => LinkInv
  BY LinkInitInv
<1>2. LinkInv /\ [LinkNext]_linkVars => LinkInv'
  BY LinkNextInv
<1> QED BY <1>1, <1>2, PTL DEF LinkSpec

\* Every variable of the link has its type, and the read head of the Pico's ring never
\* passes its write head, whichever of its two threads resets it and when.
THEOREM LinkTypeCorrect == LinkSpec => []LinkTypeOK
<1>1. LinkInv => LinkTypeOK
  BY DEF LinkInv, LinkTypes, Heads, LinkTypeOK, FeederType, SinkType, WorkerType, DeviceType
<1> QED BY <1>1, LinkInductive, PTL

\* A block from before a disconnect is rendered only after the worker reset the ring in
\* the middle of a write of the feeder twice: once is repaired by the reset that follows.
THEOREM RacesAreNeeded == LinkSpec => []OldPcmNeedsTwoRaces
<1>1. LinkInv => OldPcmNeedsTwoRaces
  BY DEF LinkInv, LinkTypes, Forgiven, OldPcmNeedsTwoRaces
<1> QED BY <1>1, LinkInductive, PTL
=============================================================================
